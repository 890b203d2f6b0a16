-------------------------------- MODULE Outbox --------------------------------
(***************************************************************************)
(* The transactional outbox of one service: transactions that write a row  *)
(* of outbox_events with their entity, and the polls that publish the rows *)
(* to Kafka.  A poll starts every pollIntervalMs, whether or not the last  *)
(* one is over, and in every instance of the service, so polls overlap.    *)
(***************************************************************************)
EXTENDS FiniteSets, Naturals

CONSTANTS
  Event,       \* the events, one for each transaction, each named by its created_at
  Poll,        \* polls that run side by side
  None,
  BatchSize,   \* "take: 50"
  MaxAborts    \* bound: polls cut short by a failed publish, write or process

ASSUME EventAssumption == Event \subseteq Nat
ASSUME BatchSizeAssumption == BatchSize \in Nat \ {0}
ASSUME NoneAssumption == None \notin Event
ASSUME MaxAbortsAssumption == MaxAborts \in Nat

VARIABLES
  row,         \* row[e]: the state of the transaction, then of its row
  prior,       \* prior[e]: the events committed when the transaction began
  sent,        \* the events Kafka has at least one copy of
  batch,       \* batch[w]: the rows poll w has still to publish
  marking,     \* marking[w]: the row it has published and is about to save
  aborts

rowVars == <<row, prior>>
outboxVars == <<rowVars, sent, batch, marking, aborts>>

Committed == {e \in Event : row[e] \in {"pending", "published"}}

TypeOK ==
  /\ row \in [Event -> {"none", "open", "rolledBack", "pending", "published"}]
  /\ prior \in [Event -> SUBSET Event]
  /\ sent \subseteq Event
  /\ batch \in [Poll -> SUBSET Event]
  /\ marking \in [Poll -> Event \cup {None}]
  /\ aborts \in Nat

Init ==
  /\ row = [e \in Event |-> "none"]
  /\ prior = [e \in Event |-> {}]
  /\ sent = {}
  /\ batch = [w \in Poll |-> {}]
  /\ marking = [w \in Poll |-> None]
  /\ aborts = 0
-----------------------------------------------------------------------------
(* saveWithOutbox() in the transaction of its caller. *)

(* created_at is now(), the start of the transaction: later than any before. *)
Begin(e) ==
  /\ \A f \in Event : row[f] # "none" => f < e
  /\ row[e] = "none"
  /\ row' = [row EXCEPT ![e] = "open"]
  /\ prior' = [prior EXCEPT ![e] = Committed]
  /\ UNCHANGED <<sent, batch, marking, aborts>>

Commit(e) ==
  /\ row[e] = "open"
  /\ row' = [row EXCEPT ![e] = "pending"]
  /\ UNCHANGED <<prior, sent, batch, marking, aborts>>

Rollback(e) ==
  /\ row[e] = "open"
  /\ row' = [row EXCEPT ![e] = "rolledBack"]
  /\ UNCHANGED <<prior, sent, batch, marking, aborts>>
-----------------------------------------------------------------------------
(* publishPending(). *)

Pending == {e \in Event : row[e] = "pending"}

(* ORDER BY created_at LIMIT BatchSize. *)
IsFirstOf(S, T) == /\ S \subseteq T
                   /\ Cardinality(S) <= BatchSize
                   /\ S # T => Cardinality(S) = BatchSize
                   /\ \A e \in S, f \in T \ S : e < f

IdlePoll(w) == batch[w] = {} /\ marking[w] = None

(* Seeded bug: a row is marked as soon as it is found. *)
FindAndMark(w, S) ==
  /\ IdlePoll(w) /\ Pending # {}
  /\ IsFirstOf(S, Pending)
  /\ batch' = [batch EXCEPT ![w] = S]
  /\ row' = [e \in Event |-> IF e \in S THEN "published" ELSE row[e]]
  /\ UNCHANGED <<prior, sent, marking, aborts>>

FindPending(w, S) ==
  /\ IdlePoll(w) /\ Pending # {}
  /\ IsFirstOf(S, Pending)
  /\ batch' = [batch EXCEPT ![w] = S]
  /\ UNCHANGED <<rowVars, sent, marking, aborts>>

(* Seeded bug: the rows of a batch are published in any order. *)
AnyOf(e, S) == e \in S

Earliest(e, S) == e \in S /\ \A f \in S : e <= f

Publish(w, e) ==
  /\ marking[w] = None /\ Earliest(e, batch[w])
  /\ sent' = sent \cup {e}
  /\ batch' = [batch EXCEPT ![w] = @ \ {e}]
  /\ marking' = [marking EXCEPT ![w] = e]
  /\ UNCHANGED <<rowVars, aborts>>

MarkPublished(w) ==
  /\ marking[w] # None
  /\ row' = [row EXCEPT ![marking[w]] = "published"]
  /\ marking' = [marking EXCEPT ![w] = None]
  /\ UNCHANGED <<prior, sent, batch, aborts>>

(* publish() or save() throws, or the process dies: the poll is over. *)
Abort(w) ==
  /\ ~IdlePoll(w)
  /\ aborts < MaxAborts /\ aborts' = aborts + 1
  /\ batch' = [batch EXCEPT ![w] = {}]
  /\ marking' = [marking EXCEPT ![w] = None]
  /\ UNCHANGED <<rowVars, sent>>
-----------------------------------------------------------------------------
TransactionStep(e) == Begin(e) \/ Commit(e) \/ Rollback(e)

PollStep(w) == \/ \E S \in SUBSET Event : FindPending(w, S)
               \/ \E e \in Event : Publish(w, e)
               \/ MarkPublished(w)

OutboxNext == \/ \E e \in Event : TransactionStep(e)
              \/ \E w \in Poll : PollStep(w) \/ Abort(w)

OutboxSpec == Init /\ [][OutboxNext]_outboxVars
-----------------------------------------------------------------------------
(* Properties. *)

(* A row leaves the set that polls look at only after Kafka has it. *)
MarkedWasSent == \A e \in Event : row[e] = "published" => e \in sent

(* Overlapping polls, failed ones and late commits included, the outbox is the
   channel its consumers rely on: nothing that was rolled back is sent, and no event
   is first sent before one that was committed when its transaction began.           *)
Channel == INSTANCE EventChannel
             WITH begun <- {e \in Event : row[e] # "none"},
                  committed <- Committed,
                  rolledBack <- {e \in Event : row[e] = "rolledBack"}

ImplementsChannel == Channel!Spec
=============================================================================
