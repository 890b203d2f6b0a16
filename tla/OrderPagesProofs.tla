--------------------------- MODULE OrderPagesProofs ---------------------------
(***************************************************************************)
(* What the checkout page may conclude from the newest row of an order,    *)
(* and what the requests that insert rows keep, for any number of orders,  *)
(* installments, rows and requests side by side.  The page looks at one    *)
(* row, payment-service at all that its check finds: the two agree as far  *)
(* as a payment of the order is only inserted after a check that found     *)
(* rows at their end (FoundInv), and no row leaves its end.  Between check *)
(* and insert the lock keeps out the rows of the same subject, and no      *)
(* others (LockInv).                                                       *)
(***************************************************************************)
EXTENDS OrderPages, TLAPS

RowsInv == \A t \in Tx :
  /\ txSubject[t] = None <=> txStatus[t] = None
  /\ txSubject[t] # None => request[t].pc = "over"
  /\ request[t].pc \in {"begun", "checked"} => request[t].pays # None

(* An order that has rows has a newest. *)
HasNewest == \A o \in Order :
  RowsOf(o) = {} \/ \E t \in RowsOf(o) : \A u \in RowsOf(o) : u <= t

(* What the check of a request found is over. *)
FoundInv == \A t \in Tx : \A u \in request[t].found :
  u \in Tx /\ txStatus[u] # None /\ IsTerminal(txStatus[u])

(* Between check and insert, what the subject of the request has is over, and no other
   request is there for it.                                                            *)
LockInv == \A t \in Tx : request[t].pc = "checked" =>
  /\ \A u \in Tx : txSubject[u] = request[t].pays => IsTerminal(txStatus[u])
  /\ \A u \in Tx : request[u].pc = "checked" /\ request[u].pays = request[t].pays => u = t

IInv == TypeOK /\ RowsInv /\ HasNewest /\ FoundInv /\ LockInv
-----------------------------------------------------------------------------
USE OrderOfAssumption, TxAssumption, SubjectsAssumption, NoneAssumption

(* The tab only looks, but for the payment it asks for. *)
LEMMA TabOfStep ==
  ASSUME [TabNext]_allVars
  PROVE  [Next]_vars
<1>1. CASE \E t \in Tx : Pay(t)
  BY <1>1, ViewedAssumption DEF Pay, Next, PaymentStep, RequestStep
<1>. QED
  BY <1>1 DEF TabNext, TabStep, allVars, FetchOrder, FetchLatest, PollPayment, Bounce, PayAnswered,
              PayFailed, GoToCheckout, Navigate, Reload

LEMMA InitEstablishes == Init => IInv
<1>. SUFFICES ASSUME Init PROVE IInv
  OBVIOUS
<1>1. /\ txStatus = [t \in Tx |-> None] /\ txSubject = [t \in Tx |-> None]
      /\ request = [t \in Tx |-> NoRequest] /\ orderStatus = [o \in Order |-> None]
  BY DEF Init, Payments!Init
<1>. QED
  BY <1>1 DEF IInv, TypeOK, RowsInv, HasNewest, FoundInv, LockInv, RowsOf, NoRequest, RequestRow

(* No status is a way out of the end. *)
LEMMA TerminalStays ==
  ASSUME NEW s, NEW to, CanTransition(s, to)
  PROVE  ~IsTerminal(s)
BY DEF CanTransition, IsTerminal

(* An order keeps its rows while none is inserted. *)
LEMMA RowsStay ==
  ASSUME IInv, UNCHANGED txSubject
  PROVE  HasNewest' /\ \A o : RowsOf(o)' = RowsOf(o)
<1>1. \A o : RowsOf(o)' = RowsOf(o)
  BY DEF RowsOf, OrderOfTx
<1>. QED
  BY <1>1 DEF IInv, HasNewest

LEMMA MovePreserves ==
  ASSUME IInv, NEW t \in Tx, NEW to \in PaymentStatus, MovePayment(t, to)
  PROVE  IInv'
<1>1. /\ txStatus' = [txStatus EXCEPT ![t] = to]
      /\ UNCHANGED <<txSubject, request, orderStatus>>
      /\ txStatus[t] # None /\ CanTransition(txStatus[t], to)
  BY DEF MovePayment, Payments!Move, Payments!CanTransition, CanTransition,
         PAYMENT_TRANSITIONS, Payments!PAYMENT_TRANSITIONS
<1>2. ~IsTerminal(txStatus[t])
  BY <1>1, TerminalStays
<1>3. TypeOK' /\ RowsInv'
  BY <1>1 DEF IInv, TypeOK, RowsInv
<1>4. \A u \in Tx : IsTerminal(txStatus[u]) => txStatus'[u] = txStatus[u]
  BY <1>1, <1>2 DEF IInv, TypeOK
<1>5. FoundInv' /\ LockInv'
  BY <1>1, <1>4 DEF IInv, FoundInv, LockInv
<1>. QED
  BY <1>1, <1>3, <1>5, RowsStay DEF IInv

(* A request that moves, before its insert, touches no row. *)
LEMMA RequestMoves ==
  ASSUME IInv, NEW t \in Tx, NEW r \in RequestRow,
         request' = [request EXCEPT ![t] = r], UNCHANGED <<txStatus, txSubject, orderStatus>>
  PROVE  /\ TypeOK' /\ HasNewest'
         /\ request'[t] = r /\ \A u \in Tx \ {t} : request'[u] = request[u]
BY RowsStay DEF IInv, TypeOK

LEMMA BeginPreserves ==
  ASSUME IInv, NEW t \in Tx, NEW s \in Order \cup Installment, Begin(t, s)
  PROVE  IInv'
<1>. DEFINE r == [request[t] EXCEPT !.pc = "begun", !.pays = s]
<1>1. request' = [request EXCEPT ![t] = r] /\ UNCHANGED <<txStatus, txSubject, orderStatus>>
  BY DEF Begin, IInv, TypeOK
<1>2. r \in RequestRow /\ r.pc = "begun" /\ r.pays = s /\ r.found = request[t].found
  <2>1. request[t] \in RequestRow
    BY DEF IInv, TypeOK
  <2>. QED
    BY <2>1 DEF RequestRow
<1>3. txSubject[t] = None /\ s # None
  BY DEF Begin, IsNextId, IInv, RowsInv
<1>. HIDE DEF r
<1>4. /\ TypeOK' /\ HasNewest' /\ request'[t] = r
      /\ \A u \in Tx \ {t} : request'[u] = request[u]
  BY <1>1, <1>2, RequestMoves
<1>5. RowsInv' /\ FoundInv' /\ LockInv'
  BY <1>1, <1>2, <1>3, <1>4 DEF IInv, RowsInv, FoundInv, LockInv
<1>. QED
  BY <1>4, <1>5 DEF IInv

LEMMA GiveUpPreserves ==
  ASSUME IInv, NEW t \in Tx, GiveUp(t)
  PROVE  IInv'
<1>. DEFINE r == [NoRequest EXCEPT !.pc = "over"]
<1>1. request' = [request EXCEPT ![t] = r] /\ UNCHANGED <<txStatus, txSubject, orderStatus>>
  BY DEF GiveUp
<1>2. r \in RequestRow /\ r.pc = "over" /\ r.found = {}
  BY DEF NoRequest, RequestRow
<1>. HIDE DEF r
<1>3. /\ TypeOK' /\ HasNewest' /\ request'[t] = r
      /\ \A u \in Tx \ {t} : request'[u] = request[u]
  BY <1>1, <1>2, RequestMoves
<1>4. RowsInv' /\ FoundInv' /\ LockInv'
  BY <1>1, <1>2, <1>3 DEF IInv, RowsInv, FoundInv, LockInv
<1>. QED
  BY <1>3, <1>4 DEF IInv

(* What the check looked at includes every row of the same subject. *)
LEMMA ExistingHasSubject ==
  ASSUME NEW s \in Order \cup Installment, NEW u \in Tx, txSubject[u] = s
  PROVE  u \in Existing(s)
BY DEF Existing, RowsOf, OrderOfTx

LEMMA CheckPreserves ==
  ASSUME IInv, NEW t \in Tx, PassCheck(t)
  PROVE  IInv'
<1>. DEFINE s == request[t].pays
            r == [request[t] EXCEPT !.pc = "checked", !.found = Existing(s)]
<1>1. /\ request[t].pc = "begun" /\ s \in Order \cup Installment
      /\ \A u \in Existing(s) : IsTerminal(txStatus[u])
      /\ \A u \in Tx : request[u].pc = "checked" => request[u].pays # s
  BY DEF PassCheck, IInv, TypeOK, RowsInv, RequestRow
<1>2. request' = [request EXCEPT ![t] = r] /\ UNCHANGED <<txStatus, txSubject, orderStatus>>
  BY DEF PassCheck, IInv, TypeOK
<1>3. Existing(s) \subseteq {u \in Tx : txSubject[u] # None}
  BY <1>1 DEF Existing, RowsOf
<1>4. r \in RequestRow /\ r.pc = "checked" /\ r.pays = s /\ r.found = Existing(s)
  <2>1. request[t] \in RequestRow /\ Existing(s) \subseteq Tx
    BY <1>3 DEF IInv, TypeOK
  <2>. QED
    BY <2>1 DEF RequestRow
<1>. HIDE DEF r, s
<1>5. /\ TypeOK' /\ HasNewest' /\ request'[t] = r
      /\ \A u \in Tx \ {t} : request'[u] = request[u]
  BY <1>2, <1>4, RequestMoves
<1>6. RowsInv'
  BY <1>1, <1>2, <1>4, <1>5 DEF IInv, RowsInv, s
<1>7. FoundInv'
  <2>1. \A u \in Existing(s) : u \in Tx /\ txStatus[u] # None /\ IsTerminal(txStatus[u])
    BY <1>1, <1>3 DEF IInv, RowsInv
  <2>. QED
    BY <1>2, <1>4, <1>5, <2>1 DEF IInv, FoundInv
<1>8. LockInv'
  <2>1. \A u \in Tx : txSubject[u] = s => IsTerminal(txStatus[u])
    BY <1>1, ExistingHasSubject
  <2>. QED
    BY <1>1, <1>2, <1>4, <1>5, <2>1 DEF IInv, LockInv
<1>. QED
  BY <1>5, <1>6, <1>7, <1>8 DEF IInv

(* Of an order that had a newest row and gets another, one of the two is the newest now. *)
LEMMA InsertedNewest ==
  ASSUME HasNewest, NEW t \in Tx, NEW p \in Order,
         \A o \in Order : RowsOf(o)' = IF o = p THEN RowsOf(o) \cup {t} ELSE RowsOf(o)
  PROVE  HasNewest'
<1>1. ASSUME NEW o \in Order
      PROVE  RowsOf(o)' = {} \/ \E n \in RowsOf(o)' : \A u \in RowsOf(o)' : u <= n
  <2>1. CASE o # p \/ RowsOf(o) = {}
    BY <2>1 DEF HasNewest
  <2>2. CASE o = p /\ RowsOf(o) # {}
    <3>1. PICK n \in RowsOf(o) : \A u \in RowsOf(o) : u <= n
      BY <2>2 DEF HasNewest
    <3>2. n \in Nat /\ t \in Nat /\ RowsOf(o) \subseteq Nat
      BY DEF RowsOf
    <3>3. RowsOf(o)' = RowsOf(o) \cup {t}
      BY <2>2
    <3>4. CASE t <= n
      BY <3>1, <3>3, <3>4
    <3>5. CASE ~(t <= n)
      <4>1. \A u \in RowsOf(o) : u <= t
        BY <3>1, <3>2, <3>5
      <4>. QED
        BY <3>2, <3>3, <4>1
    <3>. QED
      BY <3>4, <3>5
  <2>. QED
    BY <2>1, <2>2
<1>. QED
  BY <1>1 DEF HasNewest

(* The row inserted is of a subject whose rows are over, and in nobody's findings. *)
LEMMA InsertPreserves ==
  ASSUME IInv, NEW t \in Tx, InsertPending(t)
  PROVE  IInv'
<1>. DEFINE x == request[t].pays
            p == IF x \in Installment THEN OrderOf[x] ELSE x
            r == [request[t] EXCEPT !.pc = "over"]
<1>1. /\ txStatus' = [txStatus EXCEPT ![t] = "PENDING"]
      /\ txSubject' = [txSubject EXCEPT ![t] = x]
      /\ request' = [request EXCEPT ![t] = r]
      /\ UNCHANGED orderStatus
      /\ request[t].pc = "checked"
  BY DEF InsertPending, IInv, TypeOK
<1>2. x \in Order \cup Installment /\ txSubject[t] = None /\ txStatus[t] = None
  BY <1>1 DEF IInv, TypeOK, RowsInv, RequestRow
<1>3. r \in RequestRow /\ r.pc = "over" /\ r.found = request[t].found
  BY DEF IInv, TypeOK, RequestRow
<1>4. p \in Order /\ x # None
  BY <1>2
<1>. HIDE DEF r
<1>5. \A u \in Tx \ {t} : /\ txStatus'[u] = txStatus[u] /\ txSubject'[u] = txSubject[u]
                          /\ request'[u] = request[u]
  BY <1>1 DEF IInv, TypeOK
<1>6. txStatus'[t] = "PENDING" /\ txSubject'[t] = x /\ request'[t] = r
  BY <1>1 DEF IInv, TypeOK
<1>7. TypeOK'
  BY <1>1, <1>2, <1>3 DEF IInv, TypeOK, PaymentStatus
<1>8. RowsInv'
  <2>1. "PENDING" # None
    BY DEF PaymentStatus
  <2>. QED
    BY <1>3, <1>4, <1>5, <1>6, <2>1 DEF IInv, RowsInv
<1>9. HasNewest'
  <2>1. ASSUME NEW o \in Order, NEW u \in Tx
        PROVE  u \in RowsOf(o)' <=> u \in RowsOf(o) \/ (o = p /\ u = t)
    <3>1. CASE u = t
      BY <1>2, <1>4, <1>6, <3>1 DEF RowsOf, OrderOfTx
    <3>2. CASE u # t
      BY <1>5, <3>2 DEF RowsOf, OrderOfTx
    <3>. QED
      BY <3>1, <3>2
  <2>2. ASSUME NEW o \in Order
        PROVE  RowsOf(o)' = IF o = p THEN RowsOf(o) \cup {t} ELSE RowsOf(o)
    <3>1. RowsOf(o) \subseteq Tx /\ RowsOf(o)' \subseteq Tx
      BY DEF RowsOf
    <3>. QED
      BY <2>1, <3>1
  <2>. HIDE DEF p
  <2>. QED
    BY <1>4, <2>2, InsertedNewest DEF IInv
<1>10. FoundInv'
  <2>1. \A u \in Tx : t \notin request[u].found
    BY <1>2 DEF IInv, FoundInv
  <2>2. \A u \in Tx : request'[u].found = request[u].found
    BY <1>3, <1>5, <1>6
  <2>. QED
    BY <1>5, <2>1, <2>2 DEF IInv, FoundInv
<1>11. LockInv'
  <2>1. \A u \in Tx : request'[u].pc = "checked" =>
          u # t /\ request'[u] = request[u] /\ request[u].pays # x
    BY <1>1, <1>3, <1>5, <1>6 DEF IInv, LockInv
  <2>. QED
    BY <1>5, <1>6, <2>1 DEF IInv, LockInv
<1>. QED
  BY <1>7, <1>8, <1>9, <1>10, <1>11 DEF IInv

LEMMA NextPreserves == IInv /\ [Next]_vars => IInv'
<1>. SUFFICES ASSUME IInv, [Next]_vars PROVE IInv'
  OBVIOUS
<1>1. ASSUME NEW t \in Tx, RequestStep(t) PROVE IInv'
  BY <1>1, BeginPreserves, CheckPreserves, InsertPreserves, GiveUpPreserves DEF RequestStep
<1>2. ASSUME NEW t \in Tx, NEW to \in PaymentStatus, MovePayment(t, to) PROVE IInv'
  BY <1>2, MovePreserves
<1>3. CASE (\E o \in Order : OrderStep(o)) \/ UNCHANGED vars
  <2>1. UNCHANGED <<txStatus, txSubject, request>>
    BY <1>3 DEF OrderStep, vars
  <2>2. orderStatus' \in [Order -> OrderStatus \cup {None}]
    BY <1>3 DEF IInv, TypeOK, OrderStep, Place, Confirm, Cancel, Refund, OrderStatus, vars
  <2>3. TypeOK' /\ RowsInv' /\ FoundInv' /\ LockInv'
    BY <2>1, <2>2 DEF IInv, TypeOK, RowsInv, FoundInv, LockInv
  <2>. QED
    BY <2>1, <2>3, RowsStay DEF IInv
<1>. QED
  BY <1>1, <1>2, <1>3 DEF Next, PaymentStep
-----------------------------------------------------------------------------
(* An insert opens a row by itself, and the rest of a request is no step of the rows. *)
LEMMA StepMaps ==
  ASSUME IInv, [Next]_vars
  PROVE  [Payments!Next]_(Payments!vars)
<1>1. ASSUME NEW t \in Tx, InsertPending(t) PROVE Payments!Next
  <2>1. /\ request[t].pc = "checked" /\ request[t].pays \in Order \cup Installment
        /\ txStatus[t] = None
    BY <1>1 DEF InsertPending, IInv, TypeOK, RowsInv, RequestRow
  <2>2. \A u \in Tx : txSubject[u] = request[t].pays => IsTerminal(txStatus[u])
    BY <2>1 DEF IInv, LockInv
  <2>3. Payments!InFlight(request[t].pays) = {}
    BY <2>2 DEF Payments!InFlight, Payments!Blocking, Payments!IsTerminal, IsTerminal,
                Payments!PAYMENT_TRANSITIONS, PAYMENT_TRANSITIONS
  <2>4. Payments!Open(t, request[t].pays)
    BY <1>1, <2>1, <2>3 DEF Payments!Open, InsertPending
  <2>. QED
    BY <2>1, <2>4 DEF Payments!Next
<1>2. ASSUME NEW t \in Tx, NEW to \in PaymentStatus, MovePayment(t, to) PROVE Payments!Next
  BY <1>2 DEF MovePayment, Payments!Next, Payments!PaymentStatus, PaymentStatus
<1>3. ASSUME NEW t \in Tx, RequestStep(t), ~InsertPending(t) PROVE UNCHANGED Payments!vars
  BY <1>3 DEF RequestStep, Begin, PassCheck, GiveUp, Payments!vars
<1>4. CASE (\E o \in Order : OrderStep(o)) \/ UNCHANGED vars
  BY <1>4 DEF OrderStep, vars, Payments!vars
<1>. QED
  BY <1>1, <1>2, <1>3, <1>4 DEF Next, PaymentStep

(* For any number of orders, installments and requests for them side by side, and whatever
   becomes of them: the lock that is held from the check to the insert is enough for the
   rows to be those of the abstract payment-service, with one in flight for each subject. *)
THEOREM RequestsImplementPayments == Spec => ImplementsPayments
<1>1. Init => Payments!Init
  BY DEF Init
<1>. QED
  BY <1>1, InitEstablishes, NextPreserves, StepMaps, PTL DEF Spec, ImplementsPayments, Payments!Spec
-----------------------------------------------------------------------------
(* The newest row is one of the order's, and no other is newer. *)
LEMMA LatestIsNewest ==
  ASSUME IInv, RowsOf(Viewed) # {}
  PROVE  \E t \in RowsOf(Viewed) : /\ \A u \in RowsOf(Viewed) : u <= t
                                   /\ Latest = [tx |-> t, status |-> txStatus[t]]
<1>. DEFINE n == CHOOSE t \in RowsOf(Viewed) : \A u \in RowsOf(Viewed) : u <= t
<1>1. n \in RowsOf(Viewed) /\ \A u \in RowsOf(Viewed) : u <= n
  BY ViewedAssumption DEF IInv, HasNewest
<1>2. Latest = [tx |-> n, status |-> txStatus[n]]
  BY DEF Latest
<1>. QED
  BY <1>1, <1>2

(* The statuses that do not block the wizard are those that do not block a payment. *)
LEMMA ListsAgree ==
  ASSUME NEW s \in PaymentStatus
  PROVE  s \in NON_BLOCKING_PAYMENT_STATUSES <=> IsTerminal(s)
BY DEF PaymentStatus, NON_BLOCKING_PAYMENT_STATUSES, IsTerminal, PAYMENT_TRANSITIONS

LEMMA FreshIsAccepted == IInv => FreshWizardIsAccepted
<1>. DEFINE missed == IF seenLatest.tx = None THEN {} ELSE Missed(seenLatest.tx)
<1>. SUFFICES ASSUME IInv,
                     page = "checkout", seenOrder \notin {None, "CONFIRMED"},
                     seenLatest = Latest,
                     seenLatest.tx # None => txSubject[seenLatest.tx] = Viewed
              PROVE  Wizard <=> InFlight(Viewed) \subseteq missed
  BY DEF FreshWizardIsAccepted
<1>1. CASE RowsOf(Viewed) = {}
  <2>1. seenLatest = NoPayment
    BY <1>1 DEF Latest
  <2>2. NoPayment # None
    BY KnownAssumption DEF NoPayment, Known
  <2>3. Wizard
    BY <2>1, <2>2 DEF Wizard, blockingTransaction
  <2>. QED
    BY <1>1, <2>3 DEF InFlight
<1>2. CASE RowsOf(Viewed) # {}
  <2>1. PICK t \in RowsOf(Viewed) :
          /\ \A u \in RowsOf(Viewed) : u <= t
          /\ Latest = [tx |-> t, status |-> txStatus[t]]
    BY <1>2, LatestIsNewest
  <2>2. /\ seenLatest = [tx |-> t, status |-> txStatus[t]]
        /\ seenLatest.tx = t /\ seenLatest.status = txStatus[t]
    BY <2>1
  <2>3. t \in Tx /\ t # None
    BY DEF RowsOf
  <2>4. txStatus[t] \in PaymentStatus
    BY <2>3 DEF IInv, TypeOK, RowsInv, RowsOf
  <2>5. seenLatest # None
    BY <2>2, <2>3, <2>4, KnownAssumption DEF Known
  <2>6. seenLatest # NoPayment
    BY <2>2, <2>3 DEF NoPayment
  <2>7. txSubject[t] = Viewed
    BY <2>2, <2>3
  <2>8. \A u \in request[t].found : IsTerminal(txStatus[u])
    BY <2>3 DEF IInv, FoundInv
  <2>9. InFlight(Viewed) \subseteq missed <=> IsTerminal(txStatus[t])
    <3>1. missed = RowsOf(Viewed) \ (request[t].found \cup {t})
      BY <2>2, <2>3 DEF Missed
    <3>. QED
      BY <2>8, <3>1 DEF InFlight
  <2>10. Wizard <=> txStatus[t] \in NON_BLOCKING_PAYMENT_STATUSES
    BY <2>2, <2>5, <2>6 DEF Wizard, blockingTransaction
  <2>. QED
    BY <2>4, <2>9, <2>10, ListsAgree
<1>. QED
  BY <1>1, <1>2

(* For any number of orders, installments and requests side by side, and whatever was
   fetched when: as long as what the checkout page knows still holds and is about a payment
   of the order, it shows the wizard exactly when no payment is in flight but for one that
   the newest had missed.                                                                  *)
THEOREM FreshWizardsAreAccepted == TabSpec => []FreshWizardIsAccepted
<1>1. TabInit => IInv
  BY InitEstablishes DEF TabInit
<1>2. IInv /\ [TabNext]_allVars => IInv'
  BY TabOfStep, NextPreserves
<1>. QED
  BY <1>1, <1>2, FreshIsAccepted, PTL DEF TabSpec
=============================================================================
