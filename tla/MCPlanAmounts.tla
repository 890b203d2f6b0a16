---------------------------- MODULE MCPlanAmounts ----------------------------
(* Every payment of up to 13 cents: all remainders, and every tie of half a cent. *)
EXTENDS PlanAmounts

SmallTotals == 1 .. 13
=============================================================================
