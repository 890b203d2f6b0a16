----------------------------- MODULE EventChannel -----------------------------
(***************************************************************************)
(* What the services that consume events may rely on: an event is sent     *)
(* only if the transaction that announces it was committed, at least once, *)
(* and the first time after every event that was committed before its      *)
(* transaction began.                                                      *)
(***************************************************************************)
CONSTANT Event

VARIABLES
  begun, committed, rolledBack,   \* the transactions, one for each event
  prior,                          \* prior[e]: what was committed when e began
  sent                            \* the events sent to Kafka at least once

vars == <<begun, committed, rolledBack, prior, sent>>

Init == /\ begun = {} /\ committed = {} /\ rolledBack = {} /\ sent = {}
        /\ prior = [e \in Event |-> {}]

Begin(e) == /\ e \notin begun
            /\ begun' = begun \cup {e}
            /\ prior' = [prior EXCEPT ![e] = committed]
            /\ UNCHANGED <<committed, rolledBack, sent>>

InProgress == begun \ (committed \cup rolledBack)

Commit(e) == /\ e \in InProgress
             /\ committed' = committed \cup {e}
             /\ UNCHANGED <<begun, rolledBack, prior, sent>>

Rollback(e) == /\ e \in InProgress
               /\ rolledBack' = rolledBack \cup {e}
               /\ UNCHANGED <<begun, committed, prior, sent>>

Send(e) == /\ e \in committed
           /\ prior[e] \subseteq sent
           /\ sent' = sent \cup {e}
           /\ UNCHANGED <<begun, committed, rolledBack, prior>>

Next == \E e \in Event : Begin(e) \/ Commit(e) \/ Rollback(e) \/ Send(e)

Spec == Init /\ [][Next]_vars
=============================================================================
