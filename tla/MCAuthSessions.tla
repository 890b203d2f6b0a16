--------------------------- MODULE MCAuthSessions ---------------------------
(* A small instance of AuthSessions for TLC: one tab with two requests.  What another
   tab does with a token the tab still holds, a page of it that was reloaded does too. *)
EXTENDS AuthSessions

CONSTANTS b1, r1, r2

OneTab == {b1}
TwoRequests == {r1, r2}
AllInFirst == [r \in TwoRequests |-> b1]
=============================================================================
