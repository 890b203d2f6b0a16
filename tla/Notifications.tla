---------------------------- MODULE Notifications ----------------------------
(***************************************************************************)
(* notification-service at the end of the outbox: every event is           *)
(* translated into an email.send command on RabbitMQ, and the consumer of  *)
(* the commands sends the email, writes the notification log and           *)
(* acknowledges, or publishes a retry through retry.<queue>, in the end a  *)
(* dead letter in dlq.<queue>, and acknowledges then.                      *)
(***************************************************************************)
EXTENDS Outbox

CONSTANTS
  Command,     \* ids of email.send messages, each with the retries that come of it
  MaxRetries,  \* maxRetries of the subscription
  MaxFaults    \* bound: lost commands, redeliveries and aborted polls

ASSUME CommandAssumption == Command \subseteq Nat /\ None \notin Command
ASSUME MaxRetriesAssumption == MaxRetries \in Nat
ASSUME MaxFaultsAssumption == MaxFaults \in Nat

VARIABLES
  consumed,    \* the events the committed Kafka offset is past
  command,     \* command[m]: a message, and where the last retry of it is
  emails,      \* emails[m]: how often send() was carried out for it
  faults

mailVars == <<consumed, command, emails, faults>>
vars == <<outboxVars, mailVars>>

(* of: the published command the message is, or is a redelivery of; unacked: the
   retry counts of the deliveries that were handled and are not acknowledged.    *)
NoCommand == [at |-> "nowhere", event |-> None, retryCount |-> 0, of |-> None, unacked |-> {}]

Places == {"nowhere", "queue", "handler", "logged", "dlq", "again", "lost"}

CommandRow == [at: Places, event: Event \cup {None}, retryCount: 0 .. MaxRetries,
               of: Command \cup {None}, unacked: SUBSET (0 .. MaxRetries)]

MailTypeOK ==
  /\ TypeOK
  /\ consumed \subseteq sent
  /\ command \in [Command -> CommandRow]
  /\ emails \in [Command -> Nat]
  /\ faults \in 0 .. MaxFaults

MailInit ==
  /\ Init
  /\ consumed = {}
  /\ command = [m \in Command |-> NoCommand]
  /\ emails = [m \in Command |-> 0]
  /\ faults = 0
-----------------------------------------------------------------------------
(* Kafka: another copy of an event is read again. *)
PublishCopy(w, e) ==
  /\ Publish(w, e)
  /\ consumed' = consumed \ {e}
  /\ UNCHANGED <<command, emails, faults>>

PollOn(w) == \/ \E S \in SUBSET Event : FindPending(w, S) /\ UNCHANGED mailVars
             \/ \E e \in Event : PublishCopy(w, e)
             \/ MarkPublished(w) /\ UNCHANGED mailVars

AbortPoll(w) == faults + aborts < MaxFaults /\ Abort(w) /\ UNCHANGED mailVars

OutboxStep == \/ \E e \in Event : TransactionStep(e) /\ UNCHANGED mailVars
              \/ \E w \in Poll : PollOn(w) \/ AbortPoll(w)

CanFail == faults + aborts < MaxFaults /\ faults' = faults + 1

IsNext(n, Free) == n \in Free /\ \A m \in Free : n <= m

(* Bound on repetitions: a command is left for every event that may still need its first. *)
HasCommand(e) == \E m \in Command : command[m].event = e
CommandLeft(e) ==
  \/ ~HasCommand(e)
  \/ Cardinality({m \in Command : command[m] = NoCommand})
       > Cardinality({f \in Event : ~HasCommand(f) /\ row[f] # "rolledBack"})

NextCommand(m) == IsNext(m, {n \in Command : command[n] = NoCommand})

Queued(e, r, c) ==
  [at |-> "queue", event |-> e, retryCount |-> r, of |-> c, unacked |-> {}]

(* translate(): the command is published, and nobody waits for the broker. *)
Translate(e, m) ==
  /\ e \in sent \ consumed /\ CommandLeft(e)
  /\ NextCommand(m)
  /\ command' = [command EXCEPT ![m] = Queued(e, 0, m)]
  /\ consumed' = consumed \cup {e}
  /\ UNCHANGED <<outboxVars, emails, faults>>

(* The connection breaks before the broker has it. *)
LoseCommand(m) ==
  /\ command[m].at = "queue" /\ command[m].of = m
  /\ command[m].retryCount = 0 /\ emails[m] = 0
  /\ CanFail
  /\ command' = [command EXCEPT ![m].at = "lost"]
  /\ UNCHANGED <<outboxVars, consumed, emails>>

(* A restart or a rebalance before the offset was committed. *)
ReadAgain(e) ==
  /\ e \in consumed
  /\ CanFail
  /\ consumed' = consumed \ {e}
  /\ UNCHANGED <<outboxVars, command, emails>>
-----------------------------------------------------------------------------
(* handleMessage() with the handler of EmailCommandConsumer. *)

Moves(m, at) == command' = [command EXCEPT ![m].at = at]

SendEmail(m) ==
  /\ command[m].at = "queue"
  /\ emails' = [emails EXCEPT ![m] = @ + 1]
  /\ Moves(m, "handler")
  /\ UNCHANGED <<outboxVars, consumed, faults>>

(* The delivery is handled, and its ack still to come. *)
Handled(m, at, r) ==
  command' = [command EXCEPT ![m].at = at, ![m].retryCount = r,
                             ![m].unacked = @ \cup {command[m].retryCount}]

SaveLog(m) ==
  /\ command[m].at = "handler"
  /\ Handled(m, "logged", command[m].retryCount)
  /\ UNCHANGED <<outboxVars, consumed, emails, faults>>

(* Seeded bug: the retry carries the headers it came with. *)
RetryUncounted(m) ==
  /\ command[m].at \in {"queue", "handler"}
  /\ emails[m] <= (MaxRetries + 1) * (MaxFaults + 1)
  /\ Handled(m, "queue", command[m].retryCount)
  /\ UNCHANGED <<outboxVars, consumed, emails, faults>>

(* send() throws, or the save after it: a copy goes to the retry queue, and back after
   its TTL, or to the dead letters.                                                    *)
HandlerThrows(m) ==
  /\ command[m].at \in {"queue", "handler"}
  /\ IF command[m].retryCount < MaxRetries
     THEN Handled(m, "queue", command[m].retryCount + 1)
     ELSE Handled(m, "dlq", command[m].retryCount)
  /\ UNCHANGED <<outboxVars, consumed, emails, faults>>

Ack(m, r) ==
  /\ r \in command[m].unacked
  /\ command' = [command EXCEPT ![m].unacked = @ \ {r}]
  /\ UNCHANGED <<outboxVars, consumed, emails, faults>>

(* The consumer dies before an ack, in the handler or after it: RabbitMQ delivers the
   message again, beside what was published for it.                                   *)
Redeliver(m, n, r) ==
  /\ \/ command[m].at = "handler" /\ r = command[m].retryCount
     \/ r \in command[m].unacked
  /\ CanFail /\ NextCommand(n) /\ CommandLeft(command[m].event)
  /\ command' =
       [command EXCEPT ![m].at = IF r \in command[m].unacked THEN @ ELSE "again",
                       ![m].unacked = @ \ {r},
                       ![n] = Queued(command[m].event, r, command[m].of)]
  /\ UNCHANGED <<outboxVars, consumed, emails>>
-----------------------------------------------------------------------------
Handle(m) == SendEmail(m) \/ SaveLog(m) \/ HandlerThrows(m)

Deliver(m) == \/ Handle(m) \/ LoseCommand(m)
              \/ \E r \in 0 .. MaxRetries : Ack(m, r) \/ \E n \in Command : Redeliver(m, n, r)

MailStep == \/ \E m \in Command : Deliver(m) \/ \E e \in Event : Translate(e, m)
            \/ \E e \in Event : ReadAgain(e)

Next == OutboxStep \/ MailStep

Spec == MailInit /\ [][Next]_vars

TranslateAny == \E e \in Event, m \in Command : Translate(e, m)

(* Polls are started for ever, and one or another of those that run makes progress;
   messages that are there are consumed.                                            *)
FairSpec ==
  /\ Spec
  /\ WF_vars(\E w \in Poll : PollOn(w))
  /\ WF_vars(TranslateAny)
  /\ WF_vars(\E m \in Command : Handle(m))
-----------------------------------------------------------------------------
(* Properties. *)

Copies(c) == {m \in Command : command[m].of = c}

Emails(c) == UNION {{m} \X (1 .. emails[m]) : m \in Copies(c)}

(* Retries end: a command that was published sends its email at most once for every
   delivery the retry count allows, and that number of times again for each time the
   consumer died before an ack, which may leave the command and a copy with a count of
   its own behind.                                                                     *)
EmailsBounded == \A c \in Command : Cardinality(Emails(c)) <= (MaxRetries + 1) * (1 + faults)

(* From the commit of a transaction to its email: unless a command was lost, every
   event is mailed in the end or waits among the dead letters.                      *)
CommittedIsMailed ==
  \A e \in Event : row[e] = "pending" ~>
    \E m \in Command : command[m].event = e /\ command[m].at \in {"logged", "dlq", "lost"}
=============================================================================
