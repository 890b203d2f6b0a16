----------------------------- MODULE OutboxProofs -----------------------------
(***************************************************************************)
(* The outbox implements the channel its consumers rely on, for any number *)
(* of events and overlapping polls and any batch size.  The core is        *)
(* InOrder: whatever is ahead of a row of a batch is ahead of it in the    *)
(* same batch, or already sent.  The same holds of the outbox that          *)
(* notification-service reads, and there a command is emailed as often as  *)
(* its retries and the deaths of the consumer allow, and no more: a death  *)
(* adds one message to those that come of it (CopiesCounted), and each     *)
(* sends once for every count of its retries (EmailsCounted).              *)
(***************************************************************************)
EXTENDS Notifications, FiniteSetTheorems, TLAPS

(* Rows and what is in the hands of a poll. *)
Traced ==
  /\ \A e \in sent : e \in Committed
  /\ \A w \in Poll : batch[w] \subseteq Committed
  /\ \A w \in Poll : marking[w] # None => marking[w] \in sent

(* What was committed when a transaction began is older. *)
Older == \A e \in Event : \A f \in prior[e] : f \in Committed /\ f < e

InOrder == \A w \in Poll : \A e \in batch[w] : prior[e] \subseteq sent \cup batch[w]

IInv == TypeOK /\ MarkedWasSent /\ Traced /\ Older /\ InOrder

-----------------------------------------------------------------------------
(* A row that is committed stays so, and prior changes only at the start. *)
LEMMA CommittedGrows ==
  ASSUME TypeOK, [OutboxNext]_outboxVars
  PROVE  Committed \subseteq Committed'
<1>1. CASE \E e \in Event : TransactionStep(e)
  <2>1. PICK e \in Event : TransactionStep(e)
    BY <1>1
  <2>. QED
    BY <2>1 DEF TypeOK, TransactionStep, Begin, Commit, Rollback, Committed
<1>2. CASE \E w \in Poll : PollStep(w) \/ Abort(w)
  <2>1. PICK w \in Poll : PollStep(w) \/ Abort(w)
    BY <1>2
  <2>. QED
    BY <2>1 DEF TypeOK, PollStep, FindPending, Publish, MarkPublished, Abort, Committed, rowVars
<1>3. CASE UNCHANGED outboxVars
  BY <1>3 DEF outboxVars, rowVars, Committed
<1>. QED
  BY <1>1, <1>2, <1>3 DEF OutboxNext

LEMMA InitEstablishes == Init => IInv
BY DEF Init, IInv, TypeOK, MarkedWasSent, Traced, Older, InOrder, Committed

LEMMA TransactionPreserves ==
  ASSUME IInv, NEW e \in Event, TransactionStep(e)
  PROVE  IInv'
<1>. USE EventAssumption, NoneAssumption DEF IInv
<1>1. Committed \subseteq Committed'
  BY CommittedGrows DEF OutboxNext
<1>2. CASE Begin(e)
  <2>1. TypeOK'
    BY <1>2 DEF Begin, TypeOK, Committed
  <2>2. Committed' = Committed
    BY <1>2 DEF Begin, TypeOK, Committed
  <2>3. MarkedWasSent'
    BY <1>2 DEF Begin, TypeOK, MarkedWasSent
  <2>4. Traced'
    BY <1>2, <2>2 DEF Begin, Traced
  <2>5. \A f \in Committed : f \in Event /\ f < e
    BY <1>2 DEF Begin, Committed
  <2>6. Older'
    BY <1>2, <2>2, <2>5 DEF Begin, TypeOK, Older
  <2>7. \A w \in Poll : e \notin batch[w]
    BY <1>2 DEF Begin, Traced, Committed
  <2>8. InOrder'
    BY <1>2, <2>7 DEF Begin, TypeOK, InOrder
  <2>. QED
    BY <2>1, <2>3, <2>4, <2>6, <2>8
<1>3. CASE Commit(e) \/ Rollback(e)
  <2>1. TypeOK' /\ MarkedWasSent'
    BY <1>3 DEF Commit, Rollback, TypeOK, MarkedWasSent
  <2>2. Traced'
    BY <1>1, <1>3 DEF Commit, Rollback, Traced
  <2>3. Older' /\ InOrder'
    BY <1>1, <1>3 DEF Commit, Rollback, Older, InOrder
  <2>. QED
    BY <2>1, <2>2, <2>3
<1>. QED
  BY <1>2, <1>3 DEF TransactionStep

LEMMA FindPreserves ==
  ASSUME IInv, NEW w \in Poll, NEW S \in SUBSET Event, FindPending(w, S)
  PROVE  IInv'
<1>. USE DEF IInv
<1>1. TypeOK'
  BY DEF FindPending, rowVars, TypeOK
<1>2. Committed' = Committed /\ UNCHANGED <<row, prior, sent, marking>>
  BY DEF FindPending, rowVars, Committed
<1>3. MarkedWasSent' /\ Older'
  BY <1>2 DEF MarkedWasSent, Older
<1>4. Traced'
  BY <1>2 DEF FindPending, IsFirstOf, Pending, Committed, Traced, TypeOK
<1>5. ASSUME NEW e \in S, NEW f \in prior[e] PROVE f \in sent \cup S
  <2>1. e \in Event /\ f \in Committed /\ f < e /\ f \in Event
    BY DEF Older, Committed
  <2>2. CASE row[f] = "published"
    BY <2>1, <2>2 DEF MarkedWasSent
  <2>3. CASE row[f] = "pending"
    <3>1. f \in Pending
      BY <2>1, <2>3 DEF Pending
    <3>2. SUFFICES ASSUME f \notin S PROVE FALSE
      OBVIOUS
    <3>3. e < f
      BY <3>1, <3>2 DEF FindPending, IsFirstOf
    <3>. QED
      BY <2>1, <3>3, EventAssumption
  <2>. QED
    BY <2>1, <2>2, <2>3 DEF Committed
<1>6. InOrder'
  BY <1>2, <1>5 DEF FindPending, InOrder, TypeOK
<1>. QED
  BY <1>1, <1>3, <1>4, <1>6

(* What is ahead of the earliest row of a batch has been sent. *)
LEMMA EarliestIsNext ==
  ASSUME IInv, NEW w \in Poll, NEW e \in Event, Publish(w, e)
  PROVE  e \in Committed /\ prior[e] \subseteq sent
<1>1. e \in batch[w] /\ \A f \in batch[w] : e <= f
  BY DEF Publish, Earliest
<1>2. SUFFICES ASSUME NEW f \in prior[e] PROVE f \in sent
  BY <1>1 DEF IInv, Traced
<1>3. f \in Event /\ f < e
  BY DEF IInv, Older, Committed
<1>4. f \notin batch[w]
  BY <1>1, <1>3, EventAssumption
<1>. QED
  BY <1>1, <1>4 DEF IInv, InOrder

LEMMA PublishPreserves ==
  ASSUME IInv, NEW w \in Poll, NEW e \in Event, Publish(w, e)
  PROVE  IInv'
<1>. USE DEF IInv
<1>1. e \in Committed
  BY EarliestIsNext
<1>2. Committed' = Committed /\ UNCHANGED <<row, prior>>
  BY DEF Publish, rowVars, Committed
<1>3. TypeOK'
  BY DEF Publish, rowVars, TypeOK
<1>4. MarkedWasSent' /\ Older'
  BY <1>2 DEF Publish, MarkedWasSent, Older
<1>5. Traced'
  BY <1>1, <1>2 DEF Publish, Traced, TypeOK
<1>6. InOrder'
  BY <1>2 DEF Publish, InOrder, TypeOK
<1>. QED
  BY <1>3, <1>4, <1>5, <1>6

LEMMA MarkPreserves ==
  ASSUME IInv, NEW w \in Poll, MarkPublished(w)
  PROVE  IInv'
<1>. USE DEF IInv
<1>1. marking[w] \in Event /\ marking[w] \in sent
  BY DEF MarkPublished, TypeOK, Traced
<1>2. Committed \subseteq Committed'
  BY <1>1 DEF MarkPublished, TypeOK, Committed
<1>3. TypeOK' /\ MarkedWasSent'
  BY <1>1 DEF MarkPublished, TypeOK, MarkedWasSent
<1>4. Traced'
  BY <1>2 DEF MarkPublished, TypeOK, Traced
<1>5. Older' /\ InOrder'
  BY <1>2 DEF MarkPublished, Older, InOrder
<1>. QED
  BY <1>3, <1>4, <1>5

LEMMA AbortPreserves ==
  ASSUME IInv, NEW w \in Poll, Abort(w)
  PROVE  IInv'
<1>. USE DEF IInv
<1>1. Committed' = Committed /\ UNCHANGED <<row, prior, sent>>
  BY DEF Abort, rowVars, Committed
<1>2. TypeOK'
  BY <1>1, MaxAbortsAssumption DEF Abort, TypeOK
<1>3. MarkedWasSent' /\ Older'
  BY <1>1 DEF MarkedWasSent, Older
<1>4. Traced'
  BY <1>1 DEF Abort, Traced, TypeOK
<1>5. InOrder'
  BY <1>1 DEF Abort, InOrder, TypeOK
<1>. QED
  BY <1>2, <1>3, <1>4, <1>5

LEMMA StepPreserves == IInv /\ [OutboxNext]_outboxVars => IInv'
<1>. SUFFICES ASSUME IInv, [OutboxNext]_outboxVars PROVE IInv'
  OBVIOUS
<1>1. CASE UNCHANGED outboxVars
  BY <1>1 DEF outboxVars, rowVars, IInv, TypeOK, MarkedWasSent, Traced, Older, InOrder, Committed
<1>2. ASSUME NEW e \in Event, TransactionStep(e) PROVE IInv'
  BY <1>2, TransactionPreserves
<1>3. ASSUME NEW w \in Poll, PollStep(w) PROVE IInv'
  BY <1>3, FindPreserves, PublishPreserves, MarkPreserves DEF PollStep
<1>4. ASSUME NEW w \in Poll, Abort(w) PROVE IInv'
  BY <1>4, AbortPreserves
<1>. QED
  BY <1>1, <1>2, <1>3, <1>4 DEF OutboxNext

(* Type correctness, and a row marked published is one that Kafka has. *)
THEOREM OutboxIsSafe == OutboxSpec => [](TypeOK /\ MarkedWasSent)
<1>1. OutboxSpec => []IInv
  BY InitEstablishes, StepPreserves, PTL DEF OutboxSpec
<1>. QED
  BY <1>1, PTL DEF IInv
-----------------------------------------------------------------------------
LEMMA InitMaps == Init => Channel!Init
BY DEF Init, Channel!Init, Committed

LEMMA StepMaps ==
  ASSUME IInv, [OutboxNext]_outboxVars
  PROVE  [Channel!Next]_Channel!vars
<1>. USE DEF IInv
<1>1. CASE UNCHANGED outboxVars
  BY <1>1 DEF outboxVars, rowVars, Channel!vars, Committed
<1>2. ASSUME NEW e \in Event, Begin(e) PROVE Channel!Begin(e)
  <2>1. {f \in Event : row'[f] # "none"} = {f \in Event : row[f] # "none"} \cup {e}
    BY <1>2 DEF Begin, TypeOK
  <2>2. /\ Committed' = Committed
        /\ {f \in Event : row'[f] = "rolledBack"} = {f \in Event : row[f] = "rolledBack"}
    BY <1>2 DEF Begin, TypeOK, Committed
  <2>. QED
    BY <1>2, <2>1, <2>2 DEF Begin, Channel!Begin
<1>3. ASSUME NEW e \in Event, Commit(e) PROVE Channel!Commit(e)
  <2>1. Committed' = Committed \cup {e}
    BY <1>3 DEF Commit, TypeOK, Committed
  <2>2. /\ {f \in Event : row'[f] # "none"} = {f \in Event : row[f] # "none"}
        /\ {f \in Event : row'[f] = "rolledBack"} = {f \in Event : row[f] = "rolledBack"}
    BY <1>3 DEF Commit, TypeOK
  <2>. QED
    BY <1>3, <2>1, <2>2 DEF Commit, Committed, Channel!Commit, Channel!InProgress
<1>4. ASSUME NEW e \in Event, Rollback(e) PROVE Channel!Rollback(e)
  <2>1. {f \in Event : row'[f] = "rolledBack"} = {f \in Event : row[f] = "rolledBack"} \cup {e}
    BY <1>4 DEF Rollback, TypeOK
  <2>2. /\ Committed' = Committed
        /\ {f \in Event : row'[f] # "none"} = {f \in Event : row[f] # "none"}
    BY <1>4 DEF Rollback, TypeOK, Committed
  <2>. QED
    BY <1>4, <2>1, <2>2 DEF Rollback, Committed, Channel!Rollback, Channel!InProgress
<1>5. ASSUME NEW w \in Poll, NEW e \in Event, Publish(w, e) PROVE Channel!Send(e)
  BY <1>5, EarliestIsNext DEF Publish, rowVars, Committed, Channel!Send
<1>6. ASSUME NEW w \in Poll, MarkPublished(w) PROVE UNCHANGED Channel!vars
  <2>1. marking[w] \in Committed /\ marking[w] \in Event
    BY <1>6 DEF MarkPublished, TypeOK, Traced
  <2>2. /\ Committed' = Committed
        /\ {f \in Event : row'[f] # "none"} = {f \in Event : row[f] # "none"}
        /\ {f \in Event : row'[f] = "rolledBack"} = {f \in Event : row[f] = "rolledBack"}
    BY <1>6, <2>1 DEF MarkPublished, TypeOK, Committed
  <2>. QED
    BY <1>6, <2>2 DEF MarkPublished, Channel!vars
<1>7. ASSUME NEW w \in Poll, NEW S \in SUBSET Event, FindPending(w, S) \/ Abort(w)
      PROVE  UNCHANGED Channel!vars
  BY <1>7 DEF FindPending, Abort, rowVars, Committed, Channel!vars
<1>. QED
  BY <1>1, <1>2, <1>3, <1>4, <1>5, <1>6, <1>7
     DEF OutboxNext, TransactionStep, PollStep, Channel!Next

(* For any number of events and overlapping polls, any batch size and any polls cut
   short: nothing rolled back is sent, and what was committed before a transaction
   began is sent before its event.                                                   *)
THEOREM OutboxImplementsChannel == OutboxSpec => ImplementsChannel
<1>1. OutboxSpec => []IInv
  BY InitEstablishes, StepPreserves, PTL DEF OutboxSpec
<1>. QED
  BY <1>1, InitMaps, StepMaps, PTL DEF OutboxSpec, ImplementsChannel, Channel!Spec
-----------------------------------------------------------------------------
(* notification-service at the end of the outbox. *)

(* A message sent its email once for every retry count it went through. *)
Deliveries(m) == IF command[m].at \in {"nowhere", "queue"} THEN 0 ELSE 1

EmailsCounted ==
  \A m \in Command :
    /\ command[m].at = "nowhere" => emails[m] = 0 /\ command[m].unacked = {}
    /\ emails[m] <= command[m].retryCount + Deliveries(m)

(* What comes of a command is the command and one message for each fault. *)
CopiesCounted ==
  \A c \in Command : IsFiniteSet(Copies(c)) /\ Cardinality(Copies(c)) <= 1 + faults

OfPublished == \A m \in Command : LET c == command[m].of IN
                 c # None => command[c].at # "nowhere"

MailInv == IInv /\ MailTypeOK /\ EmailsCounted /\ CopiesCounted /\ OfPublished

(* What a step of the outbox, and one of the service, is to the outbox. *)
LEMMA OutboxOfStep ==
  ASSUME [Next]_vars
  PROVE  [OutboxNext]_outboxVars
<1>1. CASE OutboxStep
  BY <1>1 DEF OutboxStep, OutboxNext, PollOn, PollStep, PublishCopy, AbortPoll
<1>2. CASE MailStep
  BY <1>2 DEF MailStep, Deliver, Handle, SendEmail, SaveLog, HandlerThrows, Ack, LoseCommand,
              Redeliver, Translate, ReadAgain
<1>3. CASE UNCHANGED vars
  BY <1>3 DEF vars
<1>. QED
  BY <1>1, <1>2, <1>3 DEF Next

(* The outbox leaves the mail alone, but for a copy that is there to be read again. *)
LEMMA OutboxStepKeepsMail ==
  ASSUME OutboxStep
  PROVE  /\ UNCHANGED <<command, emails, faults>>
         /\ consumed' \subseteq consumed
         /\ sent \subseteq sent'
BY DEF OutboxStep, TransactionStep, Begin, Commit, Rollback, PollOn, FindPending, PublishCopy,
       Publish, MarkPublished, AbortPoll, Abort, mailVars, rowVars

USE CommandAssumption, MaxRetriesAssumption, MaxFaultsAssumption

LEMMA MailInitEstablishes == MailInit => MailInv
<1>. SUFFICES ASSUME MailInit PROVE MailInv
  OBVIOUS
<1>1. IInv
  BY InitEstablishes DEF MailInit
<1>2. MailTypeOK
  BY <1>1 DEF MailInit, MailTypeOK, CommandRow, Places, NoCommand, IInv
<1>3. EmailsCounted /\ OfPublished
  BY DEF MailInit, EmailsCounted, OfPublished, NoCommand, Deliveries
<1>4. \A c \in Command : Copies(c) = {}
  BY DEF MailInit, Copies, NoCommand
<1>5. CopiesCounted
  BY <1>4, FS_EmptySet DEF CopiesCounted, MailInit
<1>. QED
  BY <1>1, <1>2, <1>3, <1>5 DEF MailInv

(* A fault is one more, and no more than the bound. *)
LEMMA FaultCounted ==
  ASSUME MailTypeOK, CanFail
  PROVE  faults' = faults + 1 /\ faults' \in 0 .. MaxFaults
BY DEF MailTypeOK, TypeOK, CanFail

(* Where no message is added, no copy is, and faults only add up. *)
LEMMA CopiesStay ==
  ASSUME MailInv, \A k \in Command : command'[k].of = command[k].of,
         faults' \in 0 .. MaxFaults, faults <= faults'
  PROVE  CopiesCounted'
<1>1. \A c \in Command : Copies(c)' = Copies(c)
  BY DEF Copies
<1>2. ASSUME NEW c \in Command
      PROVE  IsFiniteSet(Copies(c)) /\ Cardinality(Copies(c)) <= 1 + faults'
  <2>1. IsFiniteSet(Copies(c)) /\ Cardinality(Copies(c)) <= 1 + faults
    BY DEF MailInv, CopiesCounted
  <2>2. Cardinality(Copies(c)) \in Nat /\ faults \in Nat /\ faults' \in Nat
    BY <2>1, FS_CardinalityType DEF MailInv, MailTypeOK
  <2>. QED
    BY <2>1, <2>2
<1>. QED
  BY <1>1, <1>2 DEF CopiesCounted

(* What MailInv says of one message. *)
LEMMA RowOf ==
  ASSUME MailInv, NEW m \in Command
  PROVE  /\ command[m] \in CommandRow /\ command \in [Command -> CommandRow]
         /\ emails \in [Command -> Nat] /\ emails[m] \in Nat
         /\ command[m].retryCount \in 0 .. MaxRetries /\ command[m].unacked \subseteq 0 .. MaxRetries
         /\ command[m].of \in Command \cup {None} /\ command[m].at \in Places
         /\ faults \in 0 .. MaxFaults /\ faults \in Nat
         /\ consumed \subseteq sent
         /\ command[m].at = "nowhere" => emails[m] = 0 /\ command[m].unacked = {}
         /\ emails[m] <= command[m].retryCount + Deliveries(m)
BY DEF MailInv, MailTypeOK, EmailsCounted, CommandRow

(* A message that was published stays so, and one that is of another is of one that was. *)
LEMMA PublishedStays ==
  ASSUME MailInv,
         \A k \in Command : command[k].at # "nowhere" => command'[k].at # "nowhere",
         \A k \in Command : \/ command'[k].of = command[k].of
                            \/ command'[k].of \in Command /\ command'[command'[k].of].at # "nowhere"
  PROVE  OfPublished'
<1>. SUFFICES ASSUME NEW k \in Command, command'[k].of # None
              PROVE  command'[command'[k].of].at # "nowhere"
  BY DEF OfPublished
<1>1. CASE command'[k].of = command[k].of
  <2>1. command[k].of \in Command
    BY <1>1, RowOf
  <2>2. command[command[k].of].at # "nowhere"
    BY <1>1 DEF MailInv, OfPublished
  <2>. QED
    BY <1>1, <2>1, <2>2
<1>. QED
  BY <1>1

(* One message moves, with an email or without, and the others stay. *)
OneMoves(m) ==
  /\ command' \in [Command -> CommandRow] /\ emails' \in [Command -> Nat]
  /\ \A k \in Command \ {m} : command'[k] = command[k] /\ emails'[k] = emails[k]
  /\ command'[m].of = command[m].of /\ command'[m].at # "nowhere"
  /\ emails'[m] <= command'[m].retryCount + Deliveries(m)'

LEMMA OneMovePreserves ==
  ASSUME MailInv, IInv', NEW m \in Command, OneMoves(m),
         consumed' \subseteq sent', faults' \in 0 .. MaxFaults, faults <= faults'
  PROVE  MailInv'
<1>1. MailTypeOK'
  BY DEF MailTypeOK, OneMoves, IInv
<1>2. EmailsCounted'
  <2>. SUFFICES ASSUME NEW k \in Command
                PROVE  /\ command'[k].at = "nowhere" => emails'[k] = 0 /\ command'[k].unacked = {}
                       /\ emails'[k] <= command'[k].retryCount + Deliveries(k)'
    BY DEF EmailsCounted
  <2>1. CASE k = m
    BY <2>1 DEF OneMoves
  <2>2. CASE k # m
    BY <2>2 DEF OneMoves, MailInv, EmailsCounted, Deliveries
  <2>. QED
    BY <2>1, <2>2
<1>3. CopiesCounted'
  BY CopiesStay DEF OneMoves
<1>4. OfPublished'
  BY PublishedStays DEF OneMoves
<1>. QED
  BY <1>1, <1>2, <1>3, <1>4 DEF MailInv

(* A message that is handled, at the retry count it has or the next. *)
LEMMA HandledMoves ==
  ASSUME MailInv, NEW m \in Command, NEW at \in Places \ {"nowhere"},
         NEW r \in 0 .. MaxRetries, Handled(m, at, r), UNCHANGED emails,
         emails[m] <= r + IF at = "queue" THEN 0 ELSE 1
  PROVE  OneMoves(m)
<1>. DEFINE new == [command[m] EXCEPT !.at = at, !.retryCount = r,
                                      !.unacked = @ \cup {command[m].retryCount}]
<1>1. command' = [command EXCEPT ![m] = new] /\ command[m] \in CommandRow
  BY RowOf DEF Handled
<1>2. /\ new \in CommandRow
      /\ new.at = at /\ new.retryCount = r /\ new.of = command[m].of
  BY <1>1, RowOf DEF CommandRow
<1>. HIDE DEF new
<1>3. /\ command' \in [Command -> CommandRow] /\ command'[m] = new
      /\ \A k \in Command \ {m} : command'[k] = command[k]
  BY <1>1, <1>2, RowOf
<1>4. Deliveries(m)' = IF at = "queue" THEN 0 ELSE 1
  BY <1>2, <1>3 DEF Deliveries
<1>. QED
  BY <1>2, <1>4, <1>3, RowOf DEF OneMoves

LEMMA HandlePreserves ==
  ASSUME MailInv, IInv', NEW m \in Command, Handle(m)
  PROVE  MailInv'
<1>. SUFFICES OneMoves(m)
  <2>1. UNCHANGED <<sent, consumed, faults>>
    BY DEF Handle, SendEmail, SaveLog, HandlerThrows, outboxVars, rowVars
  <2>. QED
    BY <2>1, OneMovePreserves, RowOf
<1>1. CASE SendEmail(m)
  <2>1. /\ command' \in [Command -> CommandRow]
        /\ command'[m].at = "handler" /\ command'[m].retryCount = command[m].retryCount
        /\ command'[m].of = command[m].of
        /\ \A k \in Command \ {m} : command'[k] = command[k]
    BY <1>1, RowOf DEF SendEmail, Moves, CommandRow, Places
  <2>2. /\ emails' \in [Command -> Nat] /\ emails'[m] = emails[m] + 1
        /\ \A k \in Command \ {m} : emails'[k] = emails[k]
    BY <1>1, RowOf DEF SendEmail
  <2>3. Deliveries(m) = 0 /\ Deliveries(m)' = 1
    BY <1>1, <2>1 DEF SendEmail, Deliveries
  <2>4. emails'[m] <= command'[m].retryCount + Deliveries(m)'
    BY <2>1, <2>2, <2>3, RowOf
  <2>. QED
    BY <2>1, <2>2, <2>4 DEF OneMoves
<1>2. CASE SaveLog(m)
  <2>1. Handled(m, "logged", command[m].retryCount) /\ UNCHANGED emails
    BY <1>2 DEF SaveLog
  <2>2. emails[m] <= command[m].retryCount + 1
    BY <1>2, RowOf DEF SaveLog, Deliveries
  <2>. QED
    BY <2>1, <2>2, RowOf, HandledMoves DEF Places
<1>3. CASE HandlerThrows(m)
  <2>1. UNCHANGED emails /\ emails[m] <= command[m].retryCount + 1
    BY <1>3, RowOf DEF HandlerThrows, Deliveries
  <2>2. CASE command[m].retryCount < MaxRetries
    <3>1. Handled(m, "queue", command[m].retryCount + 1)
      BY <1>3, <2>2 DEF HandlerThrows
    <3>2. command[m].retryCount + 1 \in 0 .. MaxRetries
      BY <2>2, RowOf
    <3>. QED
      BY <2>1, <3>1, <3>2, RowOf, HandledMoves DEF Places
  <2>3. CASE ~(command[m].retryCount < MaxRetries)
    <3>1. Handled(m, "dlq", command[m].retryCount)
      BY <1>3, <2>3 DEF HandlerThrows
    <3>. QED
      BY <2>1, <3>1, RowOf, HandledMoves DEF Places
  <2>. QED
    BY <2>2, <2>3
<1>. QED
  BY <1>1, <1>2, <1>3 DEF Handle

LEMMA AckPreserves ==
  ASSUME MailInv, IInv', NEW m \in Command, NEW r \in 0 .. MaxRetries, Ack(m, r)
  PROVE  MailInv'
<1>1. /\ command' \in [Command -> CommandRow]
      /\ command'[m].at = command[m].at /\ command'[m].of = command[m].of
      /\ command'[m].retryCount = command[m].retryCount
      /\ \A k \in Command \ {m} : command'[k] = command[k]
  BY RowOf DEF Ack, CommandRow
<1>2. command[m].at # "nowhere"
  BY RowOf DEF Ack
<1>3. UNCHANGED <<emails, consumed, sent, faults>> /\ Deliveries(m)' = Deliveries(m)
  BY <1>1 DEF Ack, outboxVars, Deliveries
<1>4. OneMoves(m)
  BY <1>1, <1>2, <1>3, RowOf DEF OneMoves
<1>. QED
  BY <1>3, <1>4, RowOf, OneMovePreserves

LEMMA LosePreserves ==
  ASSUME MailInv, IInv', NEW m \in Command, LoseCommand(m)
  PROVE  MailInv'
<1>1. faults' = faults + 1 /\ faults' \in 0 .. MaxFaults
  BY FaultCounted DEF MailInv, LoseCommand
<1>2. /\ command' \in [Command -> CommandRow]
      /\ command'[m].at = "lost" /\ command'[m].of = command[m].of
      /\ command'[m].retryCount = command[m].retryCount
      /\ \A k \in Command \ {m} : command'[k] = command[k]
  BY RowOf DEF LoseCommand, Moves, CommandRow, Places
<1>3. UNCHANGED <<emails, consumed, sent>> /\ emails[m] = 0 /\ Deliveries(m)' = 1
  BY <1>2 DEF LoseCommand, outboxVars, Deliveries
<1>4. OneMoves(m)
  BY <1>2, <1>3, RowOf DEF OneMoves
<1>. QED
  BY <1>1, <1>3, <1>4, RowOf, OneMovePreserves

(* A message that is new has sent nothing and is one copy more of what it is of. *)
LEMMA NewMessage ==
  ASSUME MailInv, NEW n \in Command, NextCommand(n)
  PROVE  /\ command[n] = NoCommand /\ command[n].at = "nowhere" /\ command[n].of = None
         /\ command[n].unacked = {} /\ emails[n] = 0
         /\ \A c \in Command : n \notin Copies(c)
BY RowOf DEF NextCommand, IsNext, NoCommand, Copies

LEMMA QueuedIsRow ==
  ASSUME NEW e \in Event \cup {None}, NEW r \in 0 .. MaxRetries, NEW c \in Command \cup {None}
  PROVE  Queued(e, r, c) \in CommandRow
BY DEF Queued, CommandRow, Places

LEMMA TranslatePreserves ==
  ASSUME MailInv, IInv', NEW e \in Event, NEW m \in Command, Translate(e, m)
  PROVE  MailInv'
<1>1. /\ command' = [command EXCEPT ![m] = Queued(e, 0, m)]
      /\ consumed' = consumed \cup {e} /\ e \in sent
      /\ UNCHANGED <<sent, emails, faults>>
  BY DEF Translate, outboxVars
<1>2. /\ command' \in [Command -> CommandRow] /\ command'[m] = Queued(e, 0, m)
      /\ \A k \in Command \ {m} : command'[k] = command[k]
  <2>1. Queued(e, 0, m) \in CommandRow
    BY QueuedIsRow
  <2>. QED
    BY <1>1, <2>1, RowOf
<1>3. command[m].of = None /\ command[m].at = "nowhere" /\ emails[m] = 0
  BY NewMessage DEF Translate
<1>4. MailTypeOK'
  BY <1>1, <1>2, RowOf DEF MailTypeOK, IInv
<1>5. EmailsCounted'
  <2>1. Deliveries(m)' = 0 /\ command'[m].at = "queue" /\ command'[m].retryCount = 0
    BY <1>2 DEF Deliveries, Queued
  <2>. SUFFICES ASSUME NEW k \in Command
                PROVE  /\ command'[k].at = "nowhere" => emails'[k] = 0 /\ command'[k].unacked = {}
                       /\ emails'[k] <= command'[k].retryCount + Deliveries(k)'
    BY DEF EmailsCounted
  <2>2. CASE k = m
    BY <1>1, <1>3, <2>1, <2>2
  <2>3. CASE k # m
    <3>1. command'[k] = command[k] /\ emails' = emails
      BY <1>1, <1>2, <2>3
    <3>2. Deliveries(k)' = Deliveries(k)
      BY <3>1 DEF Deliveries
    <3>. QED
      BY <3>1, <3>2 DEF MailInv, EmailsCounted
  <2>. QED
    BY <2>2, <2>3
<1>6. OfPublished'
  <2>1. command'[m].of = m /\ command'[m].at = "queue"
    BY <1>2 DEF Queued
  <2>. QED
    BY <1>2, <2>1, PublishedStays
<1>7. Copies(m)' = {m}
  <2>1. \A k \in Command : command[k].of # m
    BY <1>3 DEF MailInv, OfPublished
  <2>2. command'[m].of = m
    BY <1>2 DEF Queued
  <2>. QED
    BY <1>2, <2>1, <2>2 DEF Copies
<1>8. ASSUME NEW c \in Command \ {m} PROVE Copies(c)' = Copies(c)
  <2>1. command'[m].of = m /\ command[m].of # c
    BY <1>2, <1>3 DEF Queued
  <2>2. \A k \in Command : command'[k].of = c <=> command[k].of = c
    BY <1>2, <2>1
  <2>. QED
    BY <2>2 DEF Copies
<1>9. CopiesCounted'
  <2>1. \A c \in Command \ {m} : IsFiniteSet(Copies(c)') /\ Cardinality(Copies(c)') <= 1 + faults'
    BY <1>1, <1>8 DEF MailInv, CopiesCounted
  <2>2. IsFiniteSet(Copies(m)') /\ Cardinality(Copies(m)') <= 1 + faults'
    <3>1. IsFiniteSet({m}) /\ Cardinality({m}) = 1
      BY FS_Singleton
    <3>2. faults' = faults /\ faults \in Nat
      BY <1>1, RowOf
    <3>3. IsFiniteSet(Copies(m)')
      BY <1>7, <3>1, Zenon
    <3>4. Cardinality(Copies(m)') = 1
      BY <1>7, <3>1, Zenon
    <3>5. 1 <= 1 + faults
      BY <3>2
    <3>. QED
      BY <3>2, <3>3, <3>4, <3>5, Zenon
  <2>. QED
    BY <2>1, <2>2 DEF CopiesCounted
<1>. QED
  BY <1>4, <1>5, <1>6, <1>9 DEF MailInv

(* A delivery that comes again is a message of its own, and a fault. *)
LEMMA RedeliverPreserves ==
  ASSUME MailInv, IInv', NEW m \in Command, NEW n \in Command, NEW r \in 0 .. MaxRetries,
         Redeliver(m, n, r)
  PROVE  MailInv'
<1>. DEFINE c == command[m].of
            e == command[m].event
            at == IF r \in command[m].unacked THEN command[m].at ELSE "again"
            old == [command[m] EXCEPT !.at = at, !.unacked = @ \ {r}]
<1>1. faults' = faults + 1 /\ faults' \in 0 .. MaxFaults /\ faults \in Nat
  BY FaultCounted, RowOf DEF MailInv, Redeliver
<1>2. /\ command[n].at = "nowhere" /\ command[n].unacked = {} /\ command[n].of = None
      /\ emails[n] = 0 /\ \A d \in Command : n \notin Copies(d)
  BY NewMessage DEF Redeliver
<1>3. m # n /\ command[m].at # "nowhere"
  BY <1>2, RowOf DEF Redeliver
<1>4. e \in Event \cup {None} /\ c \in Command \cup {None} /\ at \in Places
  BY RowOf DEF CommandRow, Places
<1>5. old \in CommandRow /\ old.of = c /\ old.at = at /\ old.retryCount = command[m].retryCount
  BY <1>4, RowOf DEF CommandRow
<1>6. /\ command'[n] = Queued(e, r, c) /\ command'[m] = old
      /\ \A k \in Command \ {m, n} : command'[k] = command[k]
      /\ command' \in [Command -> CommandRow]
      /\ UNCHANGED <<emails, consumed, sent>>
  <2>1. command' = [command EXCEPT ![m].at = at, ![m].unacked = @ \ {r}, ![n] = Queued(e, r, c)]
    BY DEF Redeliver
  <2>2. command'[n] = Queued(e, r, c) /\ command'[m] = old
    BY <1>3, <2>1, RowOf DEF CommandRow
  <2>3. DOMAIN command' = Command /\ command' = [k \in Command |-> command'[k]]
        /\ \A k \in Command \ {m, n} : command'[k] = command[k]
    BY <2>1, RowOf
  <2>4. Queued(e, r, c) \in CommandRow
    BY <1>4, QueuedIsRow
  <2>. QED
    BY <1>5, <2>2, <2>3, <2>4, RowOf DEF Redeliver, outboxVars
<1>. HIDE DEF c, e, at, old
<1>7. MailTypeOK'
  BY <1>1, <1>6, RowOf DEF MailTypeOK, IInv
<1>8. EmailsCounted'
  <2>1. emails'[n] = 0 /\ command'[n].at = "queue" /\ command'[n].retryCount = r
    BY <1>2, <1>6 DEF Queued
  <2>2. emails'[m] <= command'[m].retryCount + Deliveries(m)' /\ command'[m].at # "nowhere"
    <3>1. command'[m].at = at /\ command'[m].retryCount = command[m].retryCount
      BY <1>5, <1>6
    <3>2. at # "nowhere" /\ Deliveries(m)' = IF at = "queue" THEN 0 ELSE 1
      BY <1>3, <3>1 DEF at, Deliveries
    <3>3. at = "queue" => Deliveries(m) = 0
      BY DEF at, Deliveries
    <3>4. Deliveries(m) \in 0 .. 1 /\ Deliveries(m)' \in 0 .. 1 /\ Deliveries(m) <= Deliveries(m)'
      BY <3>2, <3>3 DEF Deliveries
    <3>5. /\ emails[m] \in Nat /\ command[m].retryCount \in Nat
          /\ emails[m] <= command[m].retryCount + Deliveries(m)
      BY RowOf DEF MailInv, EmailsCounted
    <3>6. emails'[m] = emails[m]
      BY <1>6
    <3>7. emails[m] <= command[m].retryCount + Deliveries(m)'
      BY <3>4, <3>5
    <3>. QED
      BY <3>1, <3>2, <3>6, <3>7
  <2>3. Deliveries(n)' = 0
    BY <2>1 DEF Deliveries
  <2>. SUFFICES ASSUME NEW k \in Command
                PROVE  /\ command'[k].at = "nowhere" => emails'[k] = 0 /\ command'[k].unacked = {}
                       /\ emails'[k] <= command'[k].retryCount + Deliveries(k)'
    BY DEF EmailsCounted
  <2>4. CASE k = m
    BY <2>2, <2>4
  <2>5. CASE k = n
    BY <2>1, <2>3, <2>5
  <2>6. CASE k \notin {m, n}
    <3>1. command'[k] = command[k] /\ emails' = emails
      BY <1>6, <2>6
    <3>2. Deliveries(k)' = Deliveries(k)
      BY <3>1 DEF Deliveries
    <3>. QED
      BY <3>1, <3>2 DEF MailInv, EmailsCounted
  <2>. QED
    BY <2>4, <2>5, <2>6
<1>9. OfPublished'
  <2>1. \A k \in Command : command[k].at # "nowhere" => command'[k].at # "nowhere"
    BY <1>2, <1>3, <1>5, <1>6 DEF at
  <2>2. \A k \in Command \ {n} : command'[k].of = command[k].of
    BY <1>5, <1>6 DEF c
  <2>3. command'[n].of = c
    BY <1>6 DEF Queued
  <2>4. c # None => c \in Command /\ command[c].at # "nowhere"
    BY RowOf DEF c, MailInv, OfPublished
  <2>. QED
    BY <2>1, <2>2, <2>3, <2>4, <1>2, PublishedStays
<1>10. CopiesCounted'
  <2>. SUFFICES ASSUME NEW d \in Command
                PROVE  IsFiniteSet(Copies(d)') /\ Cardinality(Copies(d)') <= 1 + faults'
    BY DEF CopiesCounted
  <2>1. Copies(d)' = IF c = d THEN Copies(d) \cup {n} ELSE Copies(d)
    <3>1. command'[n].of = c /\ command[n].of # d
      BY <1>2, <1>6 DEF Queued
    <3>2. \A k \in Command \ {n} : command'[k].of = command[k].of
      BY <1>5, <1>6 DEF c
    <3>3. \A k \in Command : command'[k].of = d <=> (command[k].of = d \/ (k = n /\ c = d))
      BY <3>1, <3>2
    <3>. QED
      BY <3>3 DEF Copies
  <2>2. /\ IsFiniteSet(Copies(d)) /\ Cardinality(Copies(d)) <= 1 + faults
        /\ Cardinality(Copies(d)) \in Nat
    BY FS_CardinalityType DEF MailInv, CopiesCounted
  <2>3. /\ IsFiniteSet(Copies(d) \cup {n})
        /\ Cardinality(Copies(d) \cup {n}) = Cardinality(Copies(d)) + 1
    BY <1>2, <2>2, FS_AddElement
  <2>. QED
    BY <1>1, <2>1, <2>2, <2>3
<1>. QED
  BY <1>7, <1>8, <1>9, <1>10 DEF MailInv

LEMMA MailPreserves == MailInv /\ [Next]_vars => MailInv'
<1>. SUFFICES ASSUME MailInv, [Next]_vars PROVE MailInv'
  OBVIOUS
<1>1. IInv'
  BY OutboxOfStep, StepPreserves DEF MailInv
<1>2. ASSUME UNCHANGED <<command, emails>>, consumed' \subseteq sent',
             faults' \in 0 .. MaxFaults, faults <= faults'
      PROVE  MailInv'
  <2>1. MailTypeOK'
    BY <1>1, <1>2 DEF MailInv, MailTypeOK, IInv
  <2>2. EmailsCounted' /\ OfPublished'
    BY <1>2 DEF MailInv, EmailsCounted, Deliveries, OfPublished
  <2>3. CopiesCounted'
    BY <1>2, CopiesStay
  <2>. QED
    BY <1>1, <2>1, <2>2, <2>3 DEF MailInv
<1>3. CASE OutboxStep \/ UNCHANGED vars
  <2>1. /\ UNCHANGED <<command, emails, faults>> /\ faults <= faults'
        /\ consumed' \subseteq sent'
    BY <1>3, OutboxStepKeepsMail DEF vars, mailVars, outboxVars, MailInv, MailTypeOK
  <2>. QED
    BY <1>2, <2>1 DEF MailInv, MailTypeOK
<1>4. ASSUME NEW m \in Command, Deliver(m) PROVE MailInv'
  BY <1>1, <1>4, HandlePreserves, LosePreserves, AckPreserves, RedeliverPreserves DEF Deliver
<1>5. ASSUME NEW m \in Command, NEW e \in Event, Translate(e, m) PROVE MailInv'
  BY <1>1, <1>5, TranslatePreserves
<1>6. ASSUME NEW e \in Event, ReadAgain(e) PROVE MailInv'
  <2>1. faults' = faults + 1 /\ faults' \in 0 .. MaxFaults /\ faults \in Nat
    BY <1>6, FaultCounted DEF ReadAgain, MailInv, MailTypeOK
  <2>2. UNCHANGED <<command, emails>> /\ consumed' \subseteq sent'
    BY <1>6 DEF ReadAgain, outboxVars, MailInv, MailTypeOK
  <2>. QED
    BY <1>2, <2>1, <2>2
<1>. QED
  BY <1>3, <1>4, <1>5, <1>6 DEF Next, MailStep

(* For any number of events, commands, polls and retries: whatever fails between the
   outbox and the dead letters, and wherever the consumer dies, between a retry and the
   ack of what it retries too, no command is emailed more often than its retries and
   the deaths of the consumer account for.                                              *)
THEOREM EmailsAreCounted == Spec => []EmailsBounded
<1>1. MailInv => EmailsBounded
  <2>. SUFFICES ASSUME MailInv, NEW c \in Command
                PROVE  Cardinality(Emails(c)) <= (MaxRetries + 1) * (1 + faults)
    BY DEF EmailsBounded
  <2>. DEFINE N == 1 .. (MaxRetries + 1)
              n == Cardinality(Copies(c))
  <2>1. Emails(c) \subseteq Copies(c) \X N
    <3>1. \A m \in Copies(c) : 1 .. emails[m] \subseteq N
      <4>. SUFFICES ASSUME NEW m \in Copies(c) PROVE emails[m] <= MaxRetries + 1 /\ emails[m] \in Nat
        OBVIOUS
      <4>1. m \in Command
        BY DEF Copies
      <4>. QED
        BY <4>1, RowOf DEF Deliveries
    <3>. QED
      BY <3>1 DEF Emails
  <2>2. IsFiniteSet(Copies(c)) /\ n <= 1 + faults /\ n \in Nat /\ faults \in Nat
    BY FS_CardinalityType, RowOf DEF MailInv, CopiesCounted
  <2>3. IsFiniteSet(N) /\ Cardinality(N) = MaxRetries + 1
    BY FS_Interval
  <2>4. IsFiniteSet(Copies(c) \X N) /\ Cardinality(Copies(c) \X N) = n * (MaxRetries + 1)
    BY <2>2, <2>3, FS_Product
  <2>5. /\ Cardinality(Emails(c)) <= n * (MaxRetries + 1)
        /\ IsFiniteSet(Emails(c))
    BY <2>1, <2>4, FS_Subset
  <2>6. Cardinality(Emails(c)) \in Nat
    BY <2>5, FS_CardinalityType
  <2>. HIDE DEF n, N
  <2>7. n * (MaxRetries + 1) <= (MaxRetries + 1) * (1 + faults)
    BY <2>2
  <2>8. n * (MaxRetries + 1) \in Nat /\ (MaxRetries + 1) * (1 + faults) \in Nat
    BY <2>2
  <2>. QED
    BY <2>5, <2>6, <2>7, <2>8
<1>2. Spec => []MailInv
  BY MailInitEstablishes, MailPreserves, PTL DEF Spec
<1>. QED
  BY <1>1, <1>2, PTL

(* Type correctness of the outbox, Kafka and the commands, and a row marked published is
   one that Kafka has.                                                                  *)
THEOREM MailIsTypeCorrect == Spec => [](MailTypeOK /\ MarkedWasSent)
<1>1. Spec => []MailInv
  BY MailInitEstablishes, MailPreserves, PTL DEF Spec
<1>. QED
  BY <1>1, PTL DEF MailInv, IInv

(* The channel is still the one its consumers rely on while they read from it. *)
THEOREM MailReadsTheChannel == Spec => ImplementsChannel
<1>1. Spec => []MailInv
  BY MailInitEstablishes, MailPreserves, PTL DEF Spec
<1>2. MailInit => Channel!Init
  BY InitMaps DEF MailInit
<1>3. MailInv /\ [Next]_vars => [Channel!Next]_Channel!vars
  BY OutboxOfStep, StepMaps DEF MailInv
<1>. QED
  BY <1>1, <1>2, <1>3, PTL DEF Spec, ImplementsChannel, Channel!Spec
=============================================================================
