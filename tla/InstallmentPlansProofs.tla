----------------------- MODULE InstallmentPlansProofs -----------------------
(***************************************************************************)
(* What module InstallmentPlans promises for any number of orders, users,  *)
(* installments, events and restarts: its types, that an installment is    *)
(* captured once, that what is closed stays closed, that plans, profiles   *)
(* and installments agree, and that a replayed refund shrinks a plan once. *)
(* At the end, the cents of module PlanAmounts: that the installments of a *)
(* plan add up, for payments of every amount.                              *)
(***************************************************************************)
EXTENDS InstallmentPlans, PlanAmounts, FiniteSetTheorems, TLAPS

Closed == {"PAID", "DEFAULTED", "CANCELLED"}

PaymentRow == [status: PaymentStatus \cup {None}, refunded: Nat]
PlanRow == [status: PlanStatus \cup {None}, refunded: Nat, lastRefund: Nat]
InstallmentRow == [status: InstallmentStatus \cup {None}, retryCount: 0 .. MAX_RETRIES,
                   due: BOOLEAN]
ProfileRow == [blocked: BOOLEAN, needsRescoring: BOOLEAN]
Command == [installment: Installment, retries: 0 .. MaxTransport]

ServiceType == /\ plan \in [Order -> PlanRow]
               /\ installment \in [Installment -> InstallmentRow]
               /\ profile \in [User -> ProfileRow]

(* The log numbers its events, and charges are reported of installments only. *)
LogInv ==
  /\ IsFiniteSet(log)
  /\ \A e \in log :
       /\ e.n \in 1 .. Cardinality(log)
       /\ e.topic \in {"charge_captured", "charge_failed"} => e.about \in Installment

(* Installments come with their plan, and an open one has retries left. *)
RowsInv ==
  \A i \in Installment :
    /\ plan[OrderOf[i]].status = None => installment[i].status = None
    /\ installment[i].status \in Open => installment[i].retryCount < MAX_RETRIES

HoldMarks ==
  \A o \in Order : plan[o].status = "DISPUTED_HOLD" => profile[UserOf[o]].needsRescoring

BlockedMeansDefault ==
  \A u \in User : profile[u].blocked <=>
    \E i \in Installment : UserOf[OrderOf[i]] = u /\ installment[i].status = "DEFAULTED"

ServiceInv == /\ ServiceType /\ RowsInv /\ CancelledPlanIsClosed
              /\ HoldMarks /\ BlockedMeansDefault

(* No step takes an installment out of a final status. *)
KeepsClosed ==
  \A i \in Installment : installment[i].status \in Closed
                         => installment'[i].status = installment[i].status

(* The two halves of ProfileFollowsPlan, per order and per user. *)
LEMMA ProfileHalves == HoldMarks /\ BlockedMeansDefault <=> ProfileFollowsPlan
<1>1. ASSUME HoldMarks, BlockedMeansDefault PROVE ProfileFollowsPlan
  BY <1>1, OwnersAssumption DEF HoldMarks, BlockedMeansDefault, ProfileFollowsPlan, Owned
<1>2. ASSUME ProfileFollowsPlan PROVE HoldMarks /\ BlockedMeansDefault
  BY <1>2, OwnersAssumption DEF HoldMarks, BlockedMeansDefault, ProfileFollowsPlan, Owned
<1> QED
  BY <1>1, <1>2
-----------------------------------------------------------------------------
(* The reactions of bnpl-service. *)

(* An event is about one order, directly or through an installment of it. *)
LEMMA OrderInOrder ==
  ASSUME NEW e \in Event
  PROVE  /\ OrderIn(e) \in Order
         /\ e.about \in Installment => OrderIn(e) = OrderOf[e.about]
         /\ UserOf[OrderIn(e)] \in User
BY OwnersAssumption, SubjectsAssumption DEF OrderIn, Event

(* A reaction that changes neither an installment nor a profile, and leaves every plan
   there, not newly cancelled and not newly on hold.                                  *)
LEMMA PlanOnly ==
  ASSUME ServiceInv, UNCHANGED <<installment, profile>>, plan' \in [Order -> PlanRow],
         \A o \in Order : /\ plan[o].status = None <=> plan'[o].status = None
                          /\ plan'[o].status \in {"CANCELLED", "DISPUTED_HOLD"}
                               => plan'[o].status = plan[o].status
  PROVE  ServiceInv' /\ KeepsClosed
BY OwnersAssumption
   DEF ServiceInv, ServiceType, RowsInv, CancelledPlanIsClosed, HoldMarks, BlockedMeansDefault,
       KeepsClosed

(* What leaves the three tables alone keeps what is true of them. *)
LEMMA ServiceKept ==
  ASSUME ServiceInv, UNCHANGED service
  PROVE  ServiceInv' /\ KeepsClosed
BY DEF service, ServiceInv, ServiceType, RowsInv, CancelledPlanIsClosed, HoldMarks,
       BlockedMeansDefault, KeepsClosed

(* A new plan finds no installments of its own, so none is reopened. *)
LEMMA ActivateKeeps ==
  ASSUME ServiceInv, NEW e \in Event, Activate(e)
  PROVE  ServiceInv' /\ KeepsClosed
<1> DEFINE o == OrderIn(e)
           fresh == [status |-> "PENDING", retryCount |-> 0, due |-> FALSE]
<1>1. CASE UNCHANGED service
  BY <1>1, ServiceKept
<1>2. CASE ~UNCHANGED service
  <2>1. /\ plan[o].status = None /\ plan' = [plan EXCEPT ![o].status = "ACTIVE"]
        /\ installment' = [i \in Installment |-> IF i \in Owned(o) THEN fresh ELSE installment[i]]
        /\ UNCHANGED profile
    BY <1>2 DEF Activate
  <2>2. /\ fresh \in InstallmentRow /\ fresh.status = "PENDING"
        /\ fresh.retryCount < MAX_RETRIES
    BY AmountsAssumption DEF InstallmentRow, InstallmentStatus
  <2>3. o \in Order
    BY OrderInOrder
  <2> HIDE DEF o, fresh
  <2>4. /\ plan' \in [Order -> PlanRow] /\ plan'[o].status = "ACTIVE"
        /\ \A p \in Order \ {o} : plan'[p] = plan[p]
    BY <2>1, <2>3 DEF ServiceInv, ServiceType, PlanRow, PlanStatus
  <2>5. \A i \in Installment :
          \/ OrderOf[i] = o /\ installment[i].status = None /\ installment'[i] = fresh
          \/ OrderOf[i] # o /\ installment'[i] = installment[i]
    BY <2>1, <2>3 DEF Owned, ServiceInv, RowsInv
  <2>6. ServiceType'
    BY <2>1, <2>2, <2>4 DEF ServiceInv, ServiceType
  <2>7. RowsInv' /\ CancelledPlanIsClosed' /\ HoldMarks'
    BY <2>1, <2>2, <2>3, <2>4, <2>5, OwnersAssumption, NoStatusAssumption
       DEF ServiceInv, PlanStatus, RowsInv, CancelledPlanIsClosed, HoldMarks
  <2>8. BlockedMeansDefault' /\ KeepsClosed
    BY <2>1, <2>2, <2>5, NoStatusAssumption
       DEF ServiceInv, BlockedMeansDefault, KeepsClosed, Closed, InstallmentStatus
  <2> QED
    BY <2>6, <2>7, <2>8 DEF ServiceInv
<1> QED
  BY <1>1, <1>2

(* A refund closes the plan and everything open in it in one commit. *)
LEMMA CancelKeeps ==
  ASSUME ServiceInv, NEW e \in Event, Cancel(e)
  PROVE  ServiceInv' /\ KeepsClosed
<1> DEFINE o == OrderIn(e)
<1>1. CASE UNCHANGED service
  BY <1>1, ServiceKept
<1>2. CASE ~UNCHANGED service
  <2>1. /\ plan[o].status # None /\ plan' = [plan EXCEPT ![o].status = "CANCELLED"]
        /\ installment' = [i \in Installment |->
                             IF i \in Owned(o) /\ installment[i].status \in Open
                             THEN [installment[i] EXCEPT !.status = "CANCELLED"]
                             ELSE installment[i]]
        /\ UNCHANGED profile
    BY <1>2 DEF Cancel
  <2>2. o \in Order
    BY OrderInOrder
  <2> HIDE DEF o
  <2>3. /\ plan' \in [Order -> PlanRow] /\ plan'[o].status = "CANCELLED"
        /\ \A p \in Order \ {o} : plan'[p] = plan[p]
    BY <2>1, <2>2 DEF ServiceInv, ServiceType, PlanRow, PlanStatus
  <2>4. \A i \in Installment :
          \/ /\ OrderOf[i] = o /\ installment[i].status \in Open
             /\ installment'[i] \in InstallmentRow /\ installment'[i].status = "CANCELLED"
          \/ /\ OrderOf[i] = o => installment[i].status \notin Open
             /\ installment'[i] = installment[i]
    BY <2>1, <2>2 DEF Owned, ServiceInv, ServiceType, InstallmentRow, InstallmentStatus
  <2>5. ServiceType'
    BY <2>1, <2>3, <2>4 DEF ServiceInv, ServiceType
  <2>6. RowsInv' /\ CancelledPlanIsClosed' /\ HoldMarks'
    <3>1. \A i \in Installment : plan'[OrderOf[i]] = plan[OrderOf[i]] \/ OrderOf[i] = o
      BY <2>3, OwnersAssumption
    <3>2. None # "CANCELLED"
      BY NoStatusAssumption DEF PlanStatus
    <3>3. RowsInv'
      <4> SUFFICES ASSUME NEW i \in Installment
                   PROVE  /\ plan'[OrderOf[i]].status = None => installment'[i].status = None
                          /\ installment'[i].status \in Open
                               => installment'[i].retryCount < MAX_RETRIES
        BY DEF RowsInv
      <4>1. CASE installment'[i] = installment[i]
        BY <2>3, <3>1, <3>2, <4>1 DEF ServiceInv, RowsInv
      <4>2. CASE installment'[i].status = "CANCELLED" /\ OrderOf[i] = o
        BY <2>3, <3>2, <4>2 DEF Open
      <4> QED
        BY <2>4, <4>1, <4>2
    <3>4. CancelledPlanIsClosed'
      BY <2>4, <3>1 DEF ServiceInv, CancelledPlanIsClosed, Open
    <3>5. HoldMarks'
      BY <2>1, <2>2, <2>3 DEF ServiceInv, HoldMarks
    <3> QED
      BY <3>3, <3>4, <3>5
  <2>7. BlockedMeansDefault' /\ KeepsClosed
    BY <2>1, <2>4 DEF ServiceInv, BlockedMeansDefault, KeepsClosed, Closed, Open
  <2> QED
    BY <2>5, <2>6, <2>7 DEF ServiceInv
<1> QED
  BY <1>1, <1>2

(* A partial refund never cancels, and takes no installment back. *)
LEMMA AdjustKeeps ==
  ASSUME ServiceInv, NEW e \in Event, Adjust(e)
  PROVE  ServiceInv' /\ KeepsClosed
<1> DEFINE o == OrderIn(e)
           row == [status |-> "ADJUSTED", lastRefund |-> e.n,
                   refunded |-> plan[o].refunded + e.amount]
<1>1. CASE UNCHANGED service
  BY <1>1, ServiceKept
<1>2. CASE ~UNCHANGED service
  <2>1. /\ plan[o].status # None /\ plan' = [plan EXCEPT ![o] = row]
        /\ UNCHANGED <<installment, profile>>
    BY <1>2 DEF Adjust
  <2>2. o \in Order /\ plan \in [Order -> PlanRow]
    BY OrderInOrder DEF ServiceInv, ServiceType
  <2>3. row \in PlanRow /\ row.status = "ADJUSTED"
    BY <2>2 DEF PlanRow, PlanStatus, Event
  <2> HIDE DEF o, row
  <2>4. /\ plan' \in [Order -> PlanRow] /\ plan'[o].status = "ADJUSTED"
        /\ \A p \in Order \ {o} : plan'[p] = plan[p]
    BY <2>1, <2>2, <2>3
  <2> QED
    BY <2>1, <2>4, PlanOnly, NoStatusAssumption DEF PlanStatus
<1> QED
  BY <1>1, <1>2

(* A hold and the mark on its user's profile come together. *)
LEMMA HoldKeeps ==
  ASSUME ServiceInv, NEW e \in Event, Hold(e)
  PROVE  ServiceInv' /\ KeepsClosed
<1> DEFINE o == OrderIn(e)
<1>1. CASE UNCHANGED service
  BY <1>1, ServiceKept
<1>2. CASE ~UNCHANGED service
  <2>1. /\ plan[o].status # None /\ plan' = [plan EXCEPT ![o].status = "DISPUTED_HOLD"]
        /\ profile' = [profile EXCEPT ![UserOf[o]].needsRescoring = TRUE]
        /\ UNCHANGED installment
    BY <1>2 DEF Hold
  <2>2. o \in Order /\ UserOf[o] \in User
    BY OrderInOrder
  <2> HIDE DEF o
  <2>3. /\ plan' \in [Order -> PlanRow] /\ plan'[o].status = "DISPUTED_HOLD"
        /\ \A p \in Order \ {o} : plan'[p] = plan[p]
    BY <2>1, <2>2 DEF ServiceInv, ServiceType, PlanRow, PlanStatus
  <2>4. /\ profile' \in [User -> ProfileRow] /\ profile'[UserOf[o]].needsRescoring
        /\ \A u \in User : /\ profile'[u].blocked = profile[u].blocked
                            /\ profile[u].needsRescoring => profile'[u].needsRescoring
    BY <2>1, <2>2 DEF ServiceInv, ServiceType, ProfileRow
  <2>5. ServiceType'
    BY <2>1, <2>3, <2>4 DEF ServiceInv, ServiceType
  <2>6. RowsInv' /\ CancelledPlanIsClosed' /\ HoldMarks'
    BY <2>1, <2>2, <2>3, <2>4, OwnersAssumption, NoStatusAssumption
       DEF ServiceInv, PlanStatus, RowsInv, CancelledPlanIsClosed, HoldMarks
  <2>7. BlockedMeansDefault' /\ KeepsClosed
    BY <2>1, <2>4 DEF ServiceInv, BlockedMeansDefault, KeepsClosed
  <2> QED
    BY <2>5, <2>6, <2>7 DEF ServiceInv
<1> QED
  BY <1>1, <1>2

(* Only a plan on hold is resumed. *)
LEMMA ResumeKeeps ==
  ASSUME ServiceInv, NEW e \in Event, Resume(e)
  PROVE  ServiceInv' /\ KeepsClosed
<1> DEFINE o == OrderIn(e)
<1>1. /\ plan' = [plan EXCEPT ![o].status = IF @ = "DISPUTED_HOLD" THEN "ACTIVE" ELSE @]
      /\ UNCHANGED <<installment, profile>>
  BY DEF Resume
<1>2. o \in Order
  BY OrderInOrder
<1> HIDE DEF o
<1>3. /\ plan' \in [Order -> PlanRow] /\ \A p \in Order \ {o} : plan'[p] = plan[p]
      /\ plan'[o].status = IF plan[o].status = "DISPUTED_HOLD" THEN "ACTIVE" ELSE plan[o].status
  BY <1>1, <1>2 DEF ServiceInv, ServiceType, PlanRow, PlanStatus
<1> QED
  BY <1>1, <1>3, PlanOnly, NoStatusAssumption DEF PlanStatus

(* Installment i alone changes, from open to a status that does not default it. *)
LEMMA OneInstallment ==
  ASSUME ServiceInv, NEW i \in Installment, NEW row \in InstallmentRow,
         installment' = [installment EXCEPT ![i] = row], UNCHANGED <<plan, profile>>,
         installment[i].status \in Open,
         row.status \in Open \cup {"PAID"}, row.status \in Open => row.retryCount < MAX_RETRIES
  PROVE  ServiceInv' /\ KeepsClosed
<1>1. /\ installment'[i] = row /\ \A j \in Installment \ {i} : installment'[j] = installment[j]
      /\ ServiceType'
  BY DEF ServiceInv, ServiceType
<1>2. plan[OrderOf[i]].status \notin {None, "CANCELLED"}
  BY NoStatusAssumption DEF ServiceInv, RowsInv, CancelledPlanIsClosed, Open, InstallmentStatus
<1>3. RowsInv' /\ CancelledPlanIsClosed' /\ HoldMarks'
  BY <1>1, <1>2 DEF ServiceInv, RowsInv, CancelledPlanIsClosed, HoldMarks
<1>4. BlockedMeansDefault' /\ KeepsClosed
  BY <1>1 DEF ServiceInv, BlockedMeansDefault, KeepsClosed, Closed, Open
<1> QED
  BY <1>1, <1>3, <1>4 DEF ServiceInv

(* A capture counts for an open installment only. *)
LEMMA MarkPaidKeeps ==
  ASSUME ServiceInv, NEW e \in Event, e.about \in Installment, MarkPaid(e)
  PROVE  ServiceInv' /\ KeepsClosed
<1> DEFINE i == e.about
           row == [installment[i] EXCEPT !.status = "PAID"]
<1>1. i \in Installment /\ installment \in [Installment -> InstallmentRow]
      /\ UNCHANGED <<plan, profile>>
  BY DEF MarkPaid, ServiceInv, ServiceType
<1>2. CASE installment[i].status \in Open
  <2>1. row \in InstallmentRow /\ row.status = "PAID"
    BY <1>1 DEF InstallmentRow, InstallmentStatus
  <2>2. installment' = [installment EXCEPT ![i] = row]
    BY <1>1, <1>2 DEF MarkPaid
  <2> HIDE DEF i, row
  <2> QED
    BY <1>1, <1>2, <2>1, <2>2, OneInstallment DEF Open
<1>3. CASE installment[i].status \notin Open
  <2>1. installment' = installment
    BY <1>1, <1>3 DEF MarkPaid, InstallmentRow
  <2> QED
    BY <1>1, <2>1, ServiceKept DEF service
<1> QED
  BY <1>2, <1>3

(* A failed charge gives an open installment another try, or defaults it and blocks
   its user in the same commit.                                                      *)
LEMMA MarkFailedKeeps ==
  ASSUME ServiceInv, NEW e \in Event, e.about \in Installment, MarkFailed(e)
  PROVE  ServiceInv' /\ KeepsClosed
<1> DEFINE i == e.about
           u == UserOf[OrderIn(e)]
           tries == installment[i].retryCount + 1
           again == [status |-> "PENDING", retryCount |-> tries, due |-> FALSE]
           out == [installment[i] EXCEPT !.status = "DEFAULTED", !.retryCount = tries]
<1>1. /\ i \in Installment /\ u = UserOf[OrderOf[i]] /\ u \in User
      /\ installment \in [Installment -> InstallmentRow] /\ profile \in [User -> ProfileRow]
      /\ installment[i] \in InstallmentRow
  BY OrderInOrder DEF ServiceInv, ServiceType
<1>2. CASE installment[i].status \notin Open
  BY <1>2, ServiceKept DEF MarkFailed
<1>3. CASE installment[i].status \in Open /\ tries < MAX_RETRIES
  <2>1. again \in InstallmentRow /\ again.status = "PENDING" /\ again.retryCount < MAX_RETRIES
    BY <1>1, <1>3, AmountsAssumption DEF InstallmentRow, InstallmentStatus
  <2>2. installment' = [installment EXCEPT ![i] = again] /\ UNCHANGED <<plan, profile>>
    <3>1. /\ installment' = [installment EXCEPT ![i] = again] /\ UNCHANGED plan
          /\ profile' = [profile EXCEPT ![u].blocked = @ \/ FALSE]
      <4>1. tries \in Nat /\ ~(tries >= MAX_RETRIES)
        BY <1>1, <1>3, AmountsAssumption DEF InstallmentRow
      <4> QED
        BY <1>3, <4>1 DEF MarkFailed
    <3>2. profile' = profile
      BY <1>1, <3>1 DEF ProfileRow
    <3> QED
      BY <3>1, <3>2
  <2> HIDE DEF i, again
  <2> QED
    BY <1>1, <1>3, <2>1, <2>2, OneInstallment DEF Open
<1>4. CASE installment[i].status \in Open /\ tries >= MAX_RETRIES
  <2>1. tries \in 0 .. MAX_RETRIES
    BY <1>1, <1>4, AmountsAssumption DEF ServiceInv, RowsInv, InstallmentRow
  <2>2. out \in InstallmentRow /\ out.status = "DEFAULTED"
    BY <1>1, <2>1 DEF InstallmentRow, InstallmentStatus
  <2>3. /\ installment' = [installment EXCEPT ![i] = out] /\ UNCHANGED plan
        /\ profile' = [profile EXCEPT ![u].blocked = @ \/ TRUE]
    BY <1>1, <1>4 DEF MarkFailed
  <2> HIDE DEF i, out, u, tries
  <2>4. /\ installment'[i] = out /\ \A j \in Installment \ {i} : installment'[j] = installment[j]
        /\ installment' \in [Installment -> InstallmentRow]
    BY <1>1, <2>2, <2>3
  <2>5. /\ profile' \in [User -> ProfileRow] /\ profile'[u].blocked = TRUE
        /\ \A v \in User \ {u} : profile'[v] = profile[v]
        /\ profile'[u].needsRescoring = profile[u].needsRescoring
    BY <1>1, <2>3 DEF ProfileRow
  <2>6. ServiceType'
    BY <2>3, <2>4, <2>5 DEF ServiceInv, ServiceType
  <2>7. plan[OrderOf[i]].status # None
    BY <1>1, <1>4, NoStatusAssumption DEF ServiceInv, RowsInv, Open, InstallmentStatus
  <2>8. RowsInv' /\ CancelledPlanIsClosed' /\ HoldMarks'
    BY <2>2, <2>3, <2>4, <2>5, <2>7, OwnersAssumption
       DEF ServiceInv, RowsInv, CancelledPlanIsClosed, HoldMarks, Open
  <2>9. BlockedMeansDefault'
    <3>1. ASSUME NEW v \in User \ {u}
          PROVE  profile'[v].blocked <=>
                   \E j \in Installment : /\ UserOf[OrderOf[j]] = v
                                          /\ installment'[j].status = "DEFAULTED"
      BY <1>1, <2>4, <2>5 DEF ServiceInv, BlockedMeansDefault
    <3> QED
      BY <1>1, <2>2, <2>4, <2>5, <3>1 DEF BlockedMeansDefault
  <2>10. KeepsClosed
    BY <1>4, <2>4 DEF KeepsClosed, Closed, Open
  <2> QED
    BY <2>6, <2>8, <2>9, <2>10 DEF ServiceInv
<1>5. tries \in Int /\ MAX_RETRIES \in Int
  BY <1>1, AmountsAssumption DEF InstallmentRow
<1> QED
  BY <1>2, <1>3, <1>4, <1>5

(* Whatever arrives, in whatever order and however often. *)
LEMMA ReactKeeps ==
  ASSUME ServiceInv, NEW e \in Event, React(e),
         e.topic \in {"charge_captured", "charge_failed"} => e.about \in Installment
  PROVE  ServiceInv' /\ KeepsClosed
BY ActivateKeeps, CancelKeeps, AdjustKeeps, HoldKeeps, ResumeKeeps, MarkPaidKeeps,
   MarkFailedKeeps DEF React

(* The poller only touches installments that are open. *)
LEMMA PollerKeeps ==
  ASSUME ServiceInv, NEW i \in Installment, BecomeDue(i) \/ ChargeDue(i)
  PROVE  ServiceInv' /\ KeepsClosed
<1>1. /\ installment[i] \in InstallmentRow /\ installment \in [Installment -> InstallmentRow]
      /\ installment[i].status \in Open /\ installment[i].retryCount < MAX_RETRIES
      /\ UNCHANGED <<plan, profile>>
  BY DEF ServiceInv, ServiceType, RowsInv, BecomeDue, ChargeDue
<1>2. CASE BecomeDue(i)
  <2> DEFINE row == [installment[i] EXCEPT !.due = TRUE]
  <2>1. /\ row \in InstallmentRow /\ row.status = installment[i].status
        /\ row.retryCount = installment[i].retryCount
    BY <1>1 DEF InstallmentRow
  <2>2. installment' = [installment EXCEPT ![i] = row]
    BY <1>1, <1>2 DEF BecomeDue
  <2> HIDE DEF row
  <2> QED
    BY <1>1, <2>1, <2>2, OneInstallment
<1>3. CASE ChargeDue(i)
  <2> DEFINE row == [installment[i] EXCEPT !.status = "DUE"]
  <2>1. /\ row \in InstallmentRow /\ row.status = "DUE"
        /\ row.retryCount = installment[i].retryCount
    BY <1>1 DEF InstallmentRow, InstallmentStatus
  <2>2. installment' = [installment EXCEPT ![i] = row]
    BY <1>1, <1>3 DEF ChargeDue
  <2> HIDE DEF row
  <2> QED
    BY <1>1, <2>1, <2>2, OneInstallment DEF Open
<1> QED
  BY <1>2, <1>3
-----------------------------------------------------------------------------
(* payment-service and its log. *)

NewEvent(topic, x, cents) ==
  [n |-> Cardinality(log) + 1, topic |-> topic, about |-> x, amount |-> cents]

LogType == log \subseteq Event /\ handled \subseteq log /\ LogInv

(* A published event is new, and the log stays numbered. *)
LEMMA PublishKeeps ==
  ASSUME LogType, NEW topic \in Topic, NEW x \in Order \cup Installment, NEW cents \in Nat,
         Publish(topic, x, cents),
         topic \in {"charge_captured", "charge_failed"} => x \in Installment
  PROVE  /\ LogType'
         /\ NewEvent(topic, x, cents) \notin log
         /\ log' = log \cup {NewEvent(topic, x, cents)}
<1> DEFINE new == NewEvent(topic, x, cents)
<1>1. /\ IsFiniteSet(log) /\ Cardinality(log) \in Nat
      /\ log' = log \cup {new} /\ handled' = handled
  BY FS_CardinalityType DEF LogType, LogInv, Publish, NewEvent
<1>2. /\ new \in Event /\ new.n = Cardinality(log) + 1 /\ new.topic = topic /\ new.about = x
  BY <1>1 DEF Event, NewEvent
<1> HIDE DEF new
<1>3. new \notin log
  BY <1>1, <1>2 DEF LogType, LogInv
<1>4. IsFiniteSet(log') /\ Cardinality(log') = Cardinality(log) + 1
  BY <1>1, <1>3, FS_AddElement
<1>5. LogInv'
  <2>1. ASSUME NEW e \in log'
        PROVE  /\ e.n \in 1 .. Cardinality(log')
               /\ e.topic \in {"charge_captured", "charge_failed"} => e.about \in Installment
    <3>1. CASE e = new
      BY <1>1, <1>2, <1>4, <3>1
    <3>2. CASE e \in log
      BY <1>1, <1>4, <3>2 DEF LogType, LogInv
    <3> QED
      BY <1>1, <3>1, <3>2
  <2> QED
    BY <1>4, <2>1 DEF LogInv
<1>6. new \notin log /\ LogType'
  BY <1>1, <1>2, <1>3, <1>5 DEF LogType
<1> QED
  BY <1>1, <1>6 DEF new

PaymentType == payment \in [Order \cup Installment -> PaymentRow]

RestType == /\ failures \in [Installment -> 0 .. MaxCharges]
            /\ poller \in Installment \cup {None}
            /\ commands \subseteq Command
            /\ restarts \in 0 .. MaxRestarts

(* The charge of an installment has been captured, and not been given back. *)
HoldsMoney(i) == payment[i].status \in {"CAPTURED", "PARTIALLY_REFUNDED", "DISPUTED"}

Captures(i) == EventsAbout(i, "charge_captured")
Ends(i) == EventsAbout(i, "refunded") \cup EventsAbout(i, "chargeback_received")

(* Captures and what ends them alternate. *)
CaptureCount ==
  \A i \in Installment :
    Cardinality(Captures(i)) = Cardinality(Ends(i)) + IF HoldsMoney(i) THEN 1 ELSE 0

PartialRefunds(o) == {e \in log : e.topic = "partially_refunded" /\ OrderIn(e) = o}

(* What a plan remembers of its only partial refund. *)
RefundInv ==
  \A o \in Order :
    /\ PartialRefunds(o) = {} => plan[o].refunded = 0 /\ plan[o].lastRefund = 0
    /\ \A e \in log : PartialRefunds(o) = {e} =>
         \/ plan[o].refunded = 0 /\ plan[o].lastRefund = 0
         \/ plan[o].refunded = e.amount /\ plan[o].lastRefund = e.n

PlansInv == ServiceInv /\ LogType /\ PaymentType /\ RestType /\ CaptureCount /\ RefundInv

(* The money of an installment comes with a capture and goes with a full refund or a
   chargeback, each of them published.                                               *)
Reports(topic, x) ==
  /\ \A i \in Installment : x # i => (HoldsMoney(i)' <=> HoldsMoney(i))
  /\ x \in Installment =>
       CASE topic = "charge_captured" -> ~HoldsMoney(x) /\ HoldsMoney(x)'
         [] topic \in {"refunded", "chargeback_received"} -> HoldsMoney(x) /\ ~HoldsMoney(x)'
         [] OTHER -> HoldsMoney(x)' <=> HoldsMoney(x)

Published ==
  \E topic \in Topic, x \in Order \cup Installment, cents \in Nat :
    /\ Publish(topic, x, cents) /\ Reports(topic, x)
    /\ topic \in {"charge_captured", "charge_failed"} => x \in Installment

Quiet == UNCHANGED kafka /\ \A i \in Installment : HoldsMoney(i)' <=> HoldsMoney(i)

MoneyGoes == PaymentType' /\ RestType' /\ UNCHANGED service /\ (Quiet \/ Published)

(* Only the row of x changes, and how. *)
LEMMA PaymentChanges ==
  ASSUME PaymentType, NEW x \in Order \cup Installment, NEW row \in PaymentRow,
         payment' = [payment EXCEPT ![x] = row]
  PROVE  /\ PaymentType' /\ payment'[x] = row
         /\ \A i \in Installment : x # i => (HoldsMoney(i)' <=> HoldsMoney(i))
BY DEF PaymentType, HoldsMoney

(* The same for a change of status alone. *)
LEMMA MovePaymentGoes ==
  ASSUME PaymentType, NEW x \in Order \cup Installment, NEW to \in PaymentStatus,
         payment' = [payment EXCEPT ![x].status = to]
  PROVE  /\ PaymentType' /\ payment'[x].status = to
         /\ \A i \in Installment : x # i => (HoldsMoney(i)' <=> HoldsMoney(i))
<1> DEFINE row == [payment[x] EXCEPT !.status = to]
<1>1. /\ row \in PaymentRow /\ row.status = to /\ payment' = [payment EXCEPT ![x] = row]
  BY DEF PaymentType, PaymentRow
<1> HIDE DEF row
<1> QED
  BY <1>1, PaymentChanges

(* The merchant, the customer and the bank. *)
LEMMA DisputesAndRefunds ==
  ASSUME PaymentType, RestType, NEW x \in Order \cup Installment,
         \/ x \in Order /\ PaymentCaptured(x)
         \/ DisputeOpened(x) \/ DisputeResolved(x) \/ ChargedBack(x)
         \/ \E cents \in 1 .. Total : PaymentRefunded(x, cents)
  PROVE  MoneyGoes
<1>1. /\ Total \in Nat /\ payment[x] \in PaymentRow
      /\ x \in Order => x \notin Installment
  BY AmountsAssumption, SubjectsAssumption DEF PaymentType
<1>2. /\ UNCHANGED <<failures, service, poller, commands, restarts>> /\ RestType'
  BY DEF RestType, PaymentCaptured, DisputeOpened, DisputeResolved, ChargedBack,
         MovePayment, PaymentRefunded
<1>3. ASSUME NEW to \in PaymentStatus, NEW topic \in Topic, MovePayment(x, to, topic),
             x \in Installment =>
               \/ to = "CHARGEBACK" /\ topic = "chargeback_received"
               \/ payment[x].status = "DISPUTED" /\ to = "CAPTURED" /\ topic = "dispute_resolved",
             topic \notin {"charge_captured", "charge_failed"}
      PROVE  MoneyGoes
  <2>1. /\ Publish(topic, x, Total) /\ payment' = [payment EXCEPT ![x].status = to]
        /\ CanTransition(payment[x].status, to)
    BY <1>3 DEF MovePayment
  <2>2. /\ PaymentType' /\ payment'[x].status = to
        /\ \A i \in Installment : x # i => (HoldsMoney(i)' <=> HoldsMoney(i))
    BY <2>1, MovePaymentGoes
  <2>3. to = "CHARGEBACK" => payment[x].status = "DISPUTED"
    BY <2>1 DEF CanTransition, PAYMENT_TRANSITIONS
  <2>4. Reports(topic, x)
    BY <1>3, <2>2, <2>3 DEF Reports, HoldsMoney
  <2>5. Published
    BY <1>1, <1>3, <2>1, <2>4 DEF Published
  <2> QED
    BY <1>2, <2>2, <2>5 DEF MoneyGoes, service
<1>4. CASE x \in Order /\ PaymentCaptured(x)
  BY <1>1, <1>3, <1>4 DEF PaymentCaptured, PaymentStatus, Topic
<1>5. CASE DisputeResolved(x)
  BY <1>3, <1>5 DEF DisputeResolved, PaymentStatus, Topic
<1>6. CASE ChargedBack(x)
  BY <1>3, <1>6 DEF ChargedBack, PaymentStatus, Topic
<1>7. CASE DisputeOpened(x)
  <2>1. /\ payment' = [payment EXCEPT ![x].status = "DISPUTED"] /\ UNCHANGED kafka
        /\ CanTransition(payment[x].status, "DISPUTED")
    BY <1>7 DEF DisputeOpened
  <2>2. /\ PaymentType' /\ payment'[x].status = "DISPUTED"
        /\ \A i \in Installment : x # i => (HoldsMoney(i)' <=> HoldsMoney(i))
    BY <2>1, MovePaymentGoes DEF PaymentStatus
  <2>3. payment[x].status \in {"CAPTURED", "PARTIALLY_REFUNDED"}
    BY <2>1 DEF CanTransition, PAYMENT_TRANSITIONS
  <2>4. Quiet
    BY <2>1, <2>2, <2>3 DEF Quiet, HoldsMoney
  <2> QED
    BY <1>2, <2>2, <2>4 DEF MoneyGoes, service
<1>8. ASSUME NEW cents \in 1 .. Total, PaymentRefunded(x, cents) PROVE MoneyGoes
  <2> DEFINE after == payment[x].refunded + cents
             full == after >= Total
             to == IF full THEN "REFUNDED" ELSE "PARTIALLY_REFUNDED"
             topic == IF full THEN "refunded" ELSE "partially_refunded"
             row == [status |-> to, refunded |-> after]
  <2>1. /\ Publish(topic, x, cents) /\ payment' = [payment EXCEPT ![x] = row]
        /\ CanTransition(payment[x].status, to)
    BY <1>8 DEF PaymentRefunded
  <2>2. cents \in Nat /\ after \in Nat
    BY <1>1 DEF PaymentRow
  <2>3. row \in PaymentRow /\ row.status = to
    BY <2>2 DEF PaymentRow, PaymentStatus
  <2>4. /\ topic \in Topic /\ topic \notin {"charge_captured", "charge_failed"}
        /\ \/ to = "REFUNDED" /\ topic = "refunded"
           \/ to = "PARTIALLY_REFUNDED" /\ topic = "partially_refunded"
    BY DEF Topic
  <2> HIDE DEF after, full, to, topic, row
  <2>5. /\ PaymentType' /\ payment'[x].status = to
        /\ \A i \in Installment : x # i => (HoldsMoney(i)' <=> HoldsMoney(i))
    BY <2>1, <2>3, PaymentChanges
  <2>6. payment[x].status \in {"CAPTURED", "PARTIALLY_REFUNDED"}
    BY <2>1, <2>4 DEF CanTransition, PAYMENT_TRANSITIONS
  <2>7. Reports(topic, x)
    BY <2>4, <2>5, <2>6 DEF Reports, HoldsMoney
  <2>8. Published
    BY <2>1, <2>2, <2>4, <2>7 DEF Published
  <2> QED
    BY <1>2, <2>5, <2>8 DEF MoneyGoes, service
<1> QED
  BY <1>4, <1>5, <1>6, <1>7, <1>8

(* A charge ends before the next one of its installment begins. *)
LEMMA NotInFlight ==
  ASSUME PaymentType, NEW i \in Installment, ~InFlight(i)
  PROVE  ~HoldsMoney(i)
BY NoneAssumption DEF InFlight, HoldsMoney, IsTerminal, PAYMENT_TRANSITIONS, PaymentStatus

(* chargeInstallment and the webhooks of its charges. *)
LEMMA ChargeSteps ==
  ASSUME PaymentType, RestType,
         \/ \E cmd \in commands : IgnoreCommand(cmd) \/ AuthorizeCharge(cmd) \/ RefuseCharge(cmd)
         \/ \E i \in Installment : CaptureCharge(i) \/ FailCapture(i)
  PROVE  MoneyGoes
<1>1. /\ Total \in Nat /\ {"charge_captured", "charge_failed"} \subseteq Topic
      /\ \A i \in Installment : failures[i] \in 0 .. MaxCharges
      /\ MaxCharges \in Nat /\ MaxTransport \in Nat
  BY AmountsAssumption, BoundsAssumption DEF RestType, Topic
<1>2. ASSUME NEW i \in Installment, NEW row \in PaymentRow, NEW topic,
             payment' = [payment EXCEPT ![i] = row], Publish(topic, i, Total),
             \/ topic = "charge_failed" /\ ~HoldsMoney(i)
                /\ row.status \in {"AUTHORIZATION_FAILED", "CAPTURE_FAILED"}
             \/ topic = "charge_captured" /\ ~HoldsMoney(i) /\ row.status = "CAPTURED"
      PROVE  PaymentType' /\ Published
  <2>1. /\ PaymentType' /\ payment'[i] = row
        /\ \A j \in Installment : i # j => (HoldsMoney(j)' <=> HoldsMoney(j))
    BY <1>2, PaymentChanges
  <2>2. Reports(topic, i)
    BY <1>2, <2>1 DEF Reports, HoldsMoney
  <2> QED
    BY <1>1, <1>2, <2>1, <2>2 DEF Published
<1>3. ASSUME NEW i \in Installment, failures[i] < MaxCharges,
             failures' = [failures EXCEPT ![i] = @ + 1]
      PROVE  failures' \in [Installment -> 0 .. MaxCharges]
  <2>1. failures[i] + 1 \in 0 .. MaxCharges
    BY <1>1, <1>3
  <2> QED
    BY <1>3, <2>1 DEF RestType
<1>4. ASSUME NEW cmd \in commands, IgnoreCommand(cmd) PROVE MoneyGoes
  BY <1>4 DEF IgnoreCommand, MoneyGoes, PaymentType, RestType, Quiet, HoldsMoney, service, kafka
<1>5. ASSUME NEW cmd \in commands, AuthorizeCharge(cmd) PROVE MoneyGoes
  <2> DEFINE i == cmd.installment
             row == [status |-> "AUTHORIZED", refunded |-> 0]
  <2>1. /\ i \in Installment /\ ~InFlight(i) /\ payment' = [payment EXCEPT ![i] = row]
        /\ UNCHANGED <<failures, service, poller, kafka, restarts>>
        /\ commands' \subseteq commands
    BY <1>5 DEF AuthorizeCharge, RestType, Command
  <2>2. row \in PaymentRow /\ row.status = "AUTHORIZED"
    BY DEF PaymentRow, PaymentStatus
  <2> HIDE DEF i, row
  <2>3. /\ PaymentType' /\ payment'[i] = row
        /\ \A j \in Installment : i # j => (HoldsMoney(j)' <=> HoldsMoney(j))
    BY <2>1, <2>2, PaymentChanges
  <2>4. Quiet
    BY <2>1, <2>2, <2>3, NotInFlight DEF Quiet, HoldsMoney
  <2>5. RestType'
    BY <2>1 DEF RestType
  <2> QED
    BY <2>1, <2>3, <2>4, <2>5 DEF MoneyGoes
<1>6. ASSUME NEW cmd \in commands, RefuseCharge(cmd) PROVE MoneyGoes
  <2> DEFINE i == cmd.installment
             row == [status |-> "AUTHORIZATION_FAILED", refunded |-> 0]
  <2>1. /\ i \in Installment /\ ~InFlight(i) /\ payment' = [payment EXCEPT ![i] = row]
        /\ failures[i] < MaxCharges /\ failures' = [failures EXCEPT ![i] = @ + 1]
        /\ Publish("charge_failed", i, Total)
        /\ UNCHANGED <<service, poller, restarts>>
    BY <1>6 DEF RefuseCharge, RestType, Command
  <2>2. row \in PaymentRow /\ row.status = "AUTHORIZATION_FAILED"
    BY DEF PaymentRow, PaymentStatus
  <2>3. commands' \subseteq Command
    <3>1. cmd \in Command /\ commands \subseteq Command
      BY DEF RestType
    <3>2. \A r \in 0 .. MaxTransport : [cmd EXCEPT !.retries = r] \in Command
      BY <3>1 DEF Command
    <3> QED
      BY <1>6, <3>1, <3>2 DEF RefuseCharge
  <2> HIDE DEF i, row
  <2>4. PaymentType' /\ Published
    BY <1>2, <2>1, <2>2, NotInFlight
  <2>5. failures' \in [Installment -> 0 .. MaxCharges]
    BY <1>3, <2>1
  <2> QED
    BY <2>1, <2>3, <2>4, <2>5 DEF MoneyGoes, RestType
<1>7. ASSUME NEW i \in Installment, CaptureCharge(i) PROVE MoneyGoes
  <2> DEFINE row == [payment[i] EXCEPT !.status = "CAPTURED"]
  <2>1. /\ payment[i].status = "AUTHORIZED" /\ Publish("charge_captured", i, Total)
        /\ payment' = [payment EXCEPT ![i] = row]
        /\ UNCHANGED <<failures, service, poller, commands, restarts>>
    BY <1>7 DEF CaptureCharge, PaymentType
  <2>2. row \in PaymentRow /\ row.status = "CAPTURED"
    BY DEF PaymentType, PaymentRow, PaymentStatus
  <2> HIDE DEF row
  <2>3. PaymentType' /\ Published
    BY <1>2, <2>1, <2>2 DEF HoldsMoney
  <2> QED
    BY <2>1, <2>3 DEF MoneyGoes, RestType
<1>8. ASSUME NEW i \in Installment, FailCapture(i) PROVE MoneyGoes
  <2> DEFINE row == [payment[i] EXCEPT !.status = "CAPTURE_FAILED"]
  <2>1. /\ payment[i].status = "AUTHORIZED" /\ Publish("charge_failed", i, Total)
        /\ failures[i] < MaxCharges /\ failures' = [failures EXCEPT ![i] = @ + 1]
        /\ payment' = [payment EXCEPT ![i] = row]
        /\ UNCHANGED <<service, poller, commands, restarts>>
    BY <1>8 DEF FailCapture, PaymentType
  <2>2. row \in PaymentRow /\ row.status = "CAPTURE_FAILED"
    BY DEF PaymentType, PaymentRow, PaymentStatus
  <2> HIDE DEF row
  <2>3. PaymentType' /\ Published
    BY <1>2, <2>1, <2>2 DEF HoldsMoney
  <2>4. failures' \in [Installment -> 0 .. MaxCharges]
    BY <1>3, <2>1
  <2> QED
    BY <2>1, <2>3, <2>4 DEF MoneyGoes, RestType
<1> QED
  BY <1>4, <1>5, <1>6, <1>7, <1>8

(* payment-service changes payments and the log in step, and no table of bnpl-service. *)
LEMMA PaymentStepGoes ==
  ASSUME PaymentType, RestType, PaymentStep
  PROVE  MoneyGoes
BY DisputesAndRefunds, ChargeSteps DEF PaymentStep
-----------------------------------------------------------------------------
(* What is counted over the log. *)

(* A capture is one more; a full refund or a chargeback is one less to come. *)
LEMMA CaptureCountPublished ==
  ASSUME LogType, CaptureCount, Published
  PROVE  CaptureCount'
<1>1. PICK topic \in Topic, x \in Order \cup Installment, cents \in Nat :
        /\ Publish(topic, x, cents) /\ Reports(topic, x)
        /\ topic \in {"charge_captured", "charge_failed"} => x \in Installment
  BY DEF Published
<1> DEFINE new == NewEvent(topic, x, cents)
<1>2. LogType' /\ new \notin log /\ log' = log \cup {new}
  BY <1>1, PublishKeeps
<1>3. new.topic = topic /\ new.about = x
  BY DEF NewEvent
<1> HIDE DEF new
<1> SUFFICES ASSUME NEW i \in Installment
             PROVE  Cardinality(Captures(i)')
                      = Cardinality(Ends(i)') + IF HoldsMoney(i)' THEN 1 ELSE 0
  BY DEF CaptureCount
<1>4. /\ IsFiniteSet(Captures(i)) /\ Cardinality(Captures(i)) \in Nat
      /\ IsFiniteSet(Ends(i)) /\ Cardinality(Ends(i)) \in Nat
      /\ Cardinality(Captures(i)) = Cardinality(Ends(i)) + IF HoldsMoney(i) THEN 1 ELSE 0
  <2>1. /\ IsFiniteSet(log) /\ Captures(i) \in SUBSET log /\ Ends(i) \in SUBSET log
    BY DEF LogType, LogInv, Captures, Ends, EventsAbout
  <2>2. IsFiniteSet(Captures(i)) /\ IsFiniteSet(Ends(i))
    BY <2>1, FS_Subset
  <2> QED
    BY <2>2, FS_CardinalityType DEF CaptureCount
<1>5. new \notin Captures(i) /\ new \notin Ends(i)
  BY <1>2 DEF Captures, Ends, EventsAbout
<1>6. CASE x = i /\ topic = "charge_captured"
  <2>1. Captures(i)' = Captures(i) \cup {new} /\ Ends(i)' = Ends(i)
    BY <1>2, <1>3, <1>6 DEF Captures, Ends, EventsAbout
  <2>2. ~HoldsMoney(i) /\ HoldsMoney(i)'
    BY <1>1, <1>6 DEF Reports
  <2>3. Cardinality(Captures(i) \cup {new}) = Cardinality(Captures(i)) + 1
    BY <1>4, <1>5, FS_AddElement
  <2> QED
    BY <1>4, <2>1, <2>2, <2>3
<1>7. CASE x = i /\ topic \in {"refunded", "chargeback_received"}
  <2>1. Captures(i)' = Captures(i) /\ Ends(i)' = Ends(i) \cup {new}
    BY <1>2, <1>3, <1>7 DEF Captures, Ends, EventsAbout
  <2>2. HoldsMoney(i) /\ ~HoldsMoney(i)'
    BY <1>1, <1>7 DEF Reports
  <2>3. Cardinality(Ends(i) \cup {new}) = Cardinality(Ends(i)) + 1
    BY <1>4, <1>5, FS_AddElement
  <2> QED
    BY <1>4, <2>1, <2>2, <2>3
<1>8. CASE x # i \/ topic \notin {"charge_captured", "refunded", "chargeback_received"}
  <2>1. Captures(i)' = Captures(i) /\ Ends(i)' = Ends(i)
    BY <1>2, <1>3, <1>8 DEF Captures, Ends, EventsAbout
  <2>2. HoldsMoney(i)' <=> HoldsMoney(i)
    BY <1>1, <1>8 DEF Reports
  <2> QED
    BY <1>4, <2>1, <2>2
<1> QED
  BY <1>6, <1>7, <1>8

(* A new partial refund is one that the plan has not counted yet. *)
LEMMA RefundInvPublished ==
  ASSUME LogType, RefundInv, Published, UNCHANGED plan
  PROVE  RefundInv'
<1>1. PICK topic \in Topic, x \in Order \cup Installment, cents \in Nat :
        /\ Publish(topic, x, cents)
        /\ topic \in {"charge_captured", "charge_failed"} => x \in Installment
  BY DEF Published
<1>2. log \subseteq log'
  BY <1>1 DEF Publish
<1>3. \A o \in Order : PartialRefunds(o) \subseteq PartialRefunds(o)' /\ PartialRefunds(o) \subseteq log
  BY <1>2 DEF PartialRefunds
<1> QED
  BY <1>3 DEF RefundInv

(* Reactions leave what a plan remembers of refunds alone, but for a partial refund. *)
LEMMA RefundInvReact ==
  ASSUME ServiceInv, LogType, RefundInv, NEW e \in log, React(e), UNCHANGED log
  PROVE  RefundInv'
<1> DEFINE o == OrderIn(e)
<1>1. /\ plan \in [Order -> PlanRow] /\ e \in Event /\ o \in Order
      /\ \A p \in Order : PartialRefunds(p)' = PartialRefunds(p)
  BY OrderInOrder DEF ServiceInv, ServiceType, LogType, PartialRefunds
<1>2. ASSUME \A p \in Order : /\ plan'[p].refunded = plan[p].refunded
                              /\ plan'[p].lastRefund = plan[p].lastRefund
      PROVE  RefundInv'
  BY <1>1, <1>2 DEF RefundInv
<1>3. CASE UNCHANGED service
  BY <1>2, <1>3 DEF service
<1>4. CASE e.topic = "partially_refunded" /\ Adjust(e) /\ ~UNCHANGED service
  <2>1. /\ plan[o].lastRefund # e.n
        /\ plan' = [plan EXCEPT ![o] = [status |-> "ADJUSTED", lastRefund |-> e.n,
                                        refunded |-> plan[o].refunded + e.amount]]
    BY <1>4 DEF Adjust
  <2> HIDE DEF o
  <2>2. /\ plan'[o].lastRefund = e.n /\ plan'[o].refunded = plan[o].refunded + e.amount
        /\ \A p \in Order \ {o} : plan'[p] = plan[p]
    BY <1>1, <2>1
  <2>3. e \in PartialRefunds(o) /\ e.amount \in Nat
    BY <1>1, <1>4 DEF PartialRefunds, Event, o
  <2>4. ASSUME NEW f \in log, PartialRefunds(o) = {f}
        PROVE  plan'[o].refunded = f.amount /\ plan'[o].lastRefund = f.n
    <3>1. f = e
      BY <2>3, <2>4
    <3>2. plan[o].refunded = 0
      BY <1>1, <2>1, <2>4, <3>1 DEF RefundInv
    <3> QED
      BY <2>2, <2>3, <3>1, <3>2
  <2> QED
    BY <1>1, <2>2, <2>3, <2>4 DEF RefundInv
<1>5. ASSUME NEW status \in PlanStatus \cup {None}, plan' = [plan EXCEPT ![o].status = status]
      PROVE  RefundInv'
  BY <1>1, <1>2, <1>5 DEF PlanRow
<1>6. CASE ~UNCHANGED service /\ ~(e.topic = "partially_refunded" /\ Adjust(e))
  <2>1. CASE UNCHANGED plan
    BY <1>2, <2>1
  <2>2. CASE \E status \in PlanStatus \cup {None} : plan' = [plan EXCEPT ![o].status = status]
    BY <1>5, <2>2
  <2>3. CASE Resume(e)
    <3>1. plan' = [plan EXCEPT ![o].status = IF plan[o].status = "DISPUTED_HOLD" THEN "ACTIVE"
                                             ELSE plan[o].status]
      BY <2>3 DEF Resume
    <3> QED
      BY <1>1, <1>5, <3>1 DEF PlanRow, PlanStatus
  <2>4. ASSUME Activate(e) \/ Cancel(e) \/ Hold(e)
        PROVE  \E status \in PlanStatus \cup {None} : plan' = [plan EXCEPT ![o].status = status]
    BY <1>6, <2>4 DEF Activate, Cancel, Hold, PlanStatus
  <2>5. ASSUME MarkPaid(e) \/ MarkFailed(e) PROVE UNCHANGED plan
    BY <1>6, <2>5 DEF MarkPaid, MarkFailed
  <2> QED
    BY <1>6, <2>1, <2>2, <2>3, <2>4, <2>5 DEF React
<1> QED
  BY <1>3, <1>4, <1>6
-----------------------------------------------------------------------------
(* Every step keeps all of it. *)

(* Before the first capture there are no plans and no charges. *)
LEMMA InitPlans == Init => PlansInv
<1> SUFFICES ASSUME Init PROVE PlansInv
  OBVIOUS
<1>1. /\ \A i \in Installment : /\ installment[i].status = None /\ OrderOf[i] \in Order
                                /\ payment[i].status = None
      /\ \A o \in Order : /\ plan[o].status = None /\ plan[o].refunded = 0
                          /\ plan[o].lastRefund = 0
      /\ \A u \in User : profile[u].blocked = FALSE
      /\ log = {} /\ handled = {}
  BY OwnersAssumption, SubjectsAssumption DEF Init
<1>2. ServiceType
  <2>1. /\ [status |-> None, refunded |-> 0, lastRefund |-> 0] \in PlanRow
        /\ [status |-> None, retryCount |-> 0, due |-> FALSE] \in InstallmentRow
        /\ [blocked |-> FALSE, needsRescoring |-> FALSE] \in ProfileRow
    BY AmountsAssumption DEF PlanRow, InstallmentRow, ProfileRow
  <2> QED
    BY <2>1 DEF Init, ServiceType
<1>3. PaymentType /\ RestType
  <2>1. \A x \in Order \cup Installment :
          [status |-> IF x \in Order THEN "AUTHORIZED" ELSE None, refunded |-> 0] \in PaymentRow
    BY DEF PaymentRow, PaymentStatus
  <2>2. 0 \in 0 .. MaxCharges /\ 0 \in 0 .. MaxRestarts
    BY BoundsAssumption
  <2> QED
    BY <2>1, <2>2 DEF Init, PaymentType, RestType
<1>4. LogType
  BY <1>1, FS_EmptySet DEF LogType, LogInv
<1>5. RowsInv /\ CancelledPlanIsClosed /\ HoldMarks /\ BlockedMeansDefault
  BY <1>1, NoStatusAssumption
     DEF RowsInv, CancelledPlanIsClosed, HoldMarks, BlockedMeansDefault, Open, PlanStatus,
         InstallmentStatus
<1>6. CaptureCount
  <2>1. \A i \in Installment : Captures(i) = {} /\ Ends(i) = {} /\ ~HoldsMoney(i)
    BY <1>1, NoneAssumption DEF Captures, Ends, EventsAbout, HoldsMoney, PaymentStatus
  <2> QED
    BY <2>1, FS_EmptySet DEF CaptureCount
<1>7. RefundInv
  BY <1>1 DEF RefundInv
<1> QED
  BY <1>2, <1>3, <1>4, <1>5, <1>6, <1>7 DEF PlansInv, ServiceInv

(* A step of payment-service. *)
LEMMA PaymentStepKeeps ==
  ASSUME PlansInv, PaymentStep
  PROVE  PlansInv' /\ KeepsClosed
<1>1. PaymentType' /\ RestType' /\ UNCHANGED service /\ (Quiet \/ Published)
  BY PaymentStepGoes DEF PlansInv, MoneyGoes
<1>2. ServiceInv' /\ KeepsClosed
  BY <1>1, ServiceKept DEF PlansInv
<1>3. CASE Quiet
  <2>1. UNCHANGED <<log, handled, plan>>
    BY <1>1, <1>3 DEF Quiet, kafka, service
  <2>2. LogType' /\ RefundInv'
    BY <2>1 DEF PlansInv, LogType, LogInv, RefundInv, PartialRefunds
  <2>3. CaptureCount'
    <3>1. \A i \in Installment : Captures(i)' = Captures(i) /\ Ends(i)' = Ends(i)
      BY <2>1 DEF Captures, Ends, EventsAbout
    <3> QED
      BY <1>3, <3>1 DEF PlansInv, CaptureCount, Quiet
  <2> QED
    BY <1>1, <1>2, <2>2, <2>3 DEF PlansInv
<1>4. CASE Published
  <2>1. LogType'
    BY <1>4, PublishKeeps DEF PlansInv, Published
  <2>2. CaptureCount' /\ RefundInv'
    BY <1>1, <1>4, CaptureCountPublished, RefundInvPublished DEF PlansInv, service
  <2> QED
    BY <1>1, <1>2, <2>1, <2>2 DEF PlansInv
<1> QED
  BY <1>1, <1>3, <1>4

(* Payments and the log stay; so do the counts over them. *)
LEMMA CountsKept ==
  ASSUME PlansInv, UNCHANGED <<payment, log>>, handled' \subseteq log
  PROVE  PaymentType' /\ LogType' /\ CaptureCount'
<1>1. PaymentType' /\ LogType'
  BY DEF PlansInv, PaymentType, LogType, LogInv
<1>2. \A i \in Installment : Captures(i)' = Captures(i) /\ Ends(i)' = Ends(i)
  BY DEF Captures, Ends, EventsAbout
<1> QED
  BY <1>1, <1>2 DEF PlansInv, CaptureCount, HoldsMoney

(* The invariant is inductive, and no step reopens what is closed. *)
LEMMA PlansNext ==
  ASSUME PlansInv, [Next]_vars
  PROVE  PlansInv' /\ KeepsClosed
<1> USE DEF PlansInv
<1>1. CASE PaymentStep
  BY <1>1, PaymentStepKeeps
<1>2. ASSUME NEW e \in log, Handle(e) PROVE PlansInv' /\ KeepsClosed
  <2>1. /\ React(e) /\ handled' = handled \cup {e}
        /\ UNCHANGED <<payment, failures, poller, commands, log, restarts>>
    BY <1>2 DEF Handle
  <2>2. /\ e \in Event
        /\ e.topic \in {"charge_captured", "charge_failed"} => e.about \in Installment
    BY DEF LogType, LogInv
  <2>3. ServiceInv' /\ KeepsClosed /\ RefundInv'
    BY <2>1, <2>2, ReactKeeps, RefundInvReact
  <2>4. PaymentType' /\ LogType' /\ CaptureCount'
    BY <2>1, CountsKept DEF LogType
  <2> QED
    BY <2>1, <2>3, <2>4 DEF RestType
<1>3. ASSUME NEW i \in Installment, BecomeDue(i) \/ ChargeDue(i) PROVE PlansInv' /\ KeepsClosed
  <2>1. /\ UNCHANGED <<payment, failures, plan, commands, log, handled, restarts>>
        /\ poller' \in {poller, i}
    BY <1>3 DEF BecomeDue, ChargeDue, kafka
  <2>2. ServiceInv' /\ KeepsClosed
    BY <1>3, PollerKeeps
  <2>3. PaymentType' /\ LogType' /\ CaptureCount'
    BY <2>1, CountsKept DEF LogType
  <2>4. RefundInv' /\ RestType'
    BY <2>1 DEF RefundInv, PartialRefunds, RestType
  <2> QED
    BY <2>2, <2>3, <2>4
<1>4. CASE SendCommand \/ Restart \/ UNCHANGED vars
  <2>1. /\ UNCHANGED <<payment, failures, service, plan, log>> /\ handled' \subseteq log
        /\ poller' \in {poller, None} /\ restarts' \in 0 .. MaxRestarts
    BY <1>4, BoundsAssumption
       DEF SendCommand, Restart, vars, kafka, service, LogType, RestType
  <2>2. commands' \subseteq Command
    <3>1. 0 \in 0 .. MaxTransport
      BY BoundsAssumption
    <3>2. \A i \in Installment : [installment |-> i, retries |-> 0] \in Command
      BY <3>1 DEF Command
    <3> QED
      BY <1>4, <3>2 DEF SendCommand, Restart, vars, RestType
  <2>3. ServiceInv' /\ KeepsClosed
    BY <2>1, ServiceKept
  <2>4. PaymentType' /\ LogType' /\ CaptureCount'
    BY <2>1, CountsKept
  <2>5. RefundInv' /\ RestType'
    BY <2>1, <2>2 DEF RefundInv, PartialRefunds, RestType
  <2> QED
    BY <2>3, <2>4, <2>5
<1> QED
  BY <1>1, <1>2, <1>3, <1>4 DEF Next

(* The invariant behind all that follows: numbered events, installments that come with
   their plan, captures and their ends in alternation, refunds counted once.          *)
THEOREM PlansHold == Spec => []PlansInv
<1>1. PlansInv /\ [Next]_vars => PlansInv'
  BY PlansNext
<1> QED
  BY <1>1, InitPlans, PTL DEF Spec

(* Payments, plans, installments, profiles, commands and the log keep their types, and
   retryCount its bound, whatever is redelivered, retried or restarted.               *)
THEOREM PlansTypeCorrect == Spec => []TypeOK
<1>1. PlansInv => TypeOK
  BY DEF PlansInv, ServiceInv, ServiceType, LogType, PaymentType, RestType, TypeOK,
         PaymentRow, PlanRow, InstallmentRow, ProfileRow, Command
<1> QED
  BY <1>1, PlansHold, PTL

(* For any number of installments, polls, transport retries and restarts: an installment
   is not captured again before its last capture was refunded or charged back.          *)
THEOREM ChargedOnceAtMost == Spec => []CapturedOnce
<1>1. PlansInv => CapturedOnce
  <2> SUFFICES ASSUME PlansInv, NEW i \in Installment
               PROVE  Cardinality(Captures(i)) <= 1 + Cardinality(Ends(i))
    BY DEF CapturedOnce, Captures, Ends
  <2>1. IsFiniteSet(log) /\ Ends(i) \in SUBSET log
    BY DEF PlansInv, LogType, LogInv, Ends, EventsAbout
  <2>2. Cardinality(Ends(i)) \in Nat
    BY <2>1, FS_Subset, FS_CardinalityType
  <2> QED
    BY <2>2 DEF PlansInv, CaptureCount
<1> QED
  BY <1>1, PlansHold, PTL

(* No late or replayed event leaves an open installment in a plan that is cancelled. *)
THEOREM CancelledPlansStayClosed == Spec => []CancelledPlanIsClosed
<1>1. PlansInv => CancelledPlanIsClosed
  BY DEF PlansInv, ServiceInv
<1> QED
  BY <1>1, PlansHold, PTL

(* For any number of users, orders and replays: a hold has marked its user for
   rescoring, and exactly the users with a defaulted installment are blocked.  *)
THEOREM ProfilesFollowPlans == Spec => []ProfileFollowsPlan
<1>1. PlansInv => ProfileFollowsPlan
  BY ProfileHalves DEF PlansInv, ServiceInv
<1> QED
  BY <1>1, PlansHold, PTL

(* However often Kafka replays it, the only partial refund of an order shrinks its plan
   by its own amount or not at all.                                                    *)
THEOREM RefundsCountOnce == Spec => []RefundedOnce
<1>1. PlansInv => RefundedOnce
  <2> SUFFICES ASSUME PlansInv, NEW o \in Order, Cardinality(PartialRefunds(o)) <= 1
               PROVE  plan[o].refunded \in {0} \cup {e.amount : e \in PartialRefunds(o)}
    BY DEF RefundedOnce, PartialRefunds
  <2>1. IsFiniteSet(log) /\ PartialRefunds(o) \in SUBSET log
    BY DEF PlansInv, LogType, LogInv, PartialRefunds
  <2>2. IsFiniteSet(PartialRefunds(o)) /\ Cardinality(PartialRefunds(o)) \in Nat
    BY <2>1, FS_Subset, FS_CardinalityType
  <2>3. CASE Cardinality(PartialRefunds(o)) = 0
    <3>1. PartialRefunds(o) = {}
      BY <2>2, <2>3, FS_EmptySet
    <3> QED
      BY <3>1 DEF PlansInv, RefundInv
  <2>4. CASE Cardinality(PartialRefunds(o)) = 1
    <3>1. PICK e : PartialRefunds(o) = {e}
      BY <2>2, <2>4, FS_Singleton
    <3>2. e \in log
      BY <2>1, <3>1
    <3> QED
      BY <3>1, <3>2 DEF PlansInv, RefundInv
  <2> QED
    BY <2>2, <2>3, <2>4
<1> QED
  BY <1>1, PlansHold, PTL

(* No step of either service reopens an installment that is paid, defaulted or
   cancelled, whatever arrives late, twice or out of order.                   *)
THEOREM ClosedInstallmentsStayClosed == Spec => NoReopening
<1>1. PlansInv /\ [Next]_vars => [KeepsClosed]_vars
  BY PlansNext
<1> QED
  BY <1>1, PlansHold, PTL DEF Spec, NoReopening, KeepsClosed, Closed
-----------------------------------------------------------------------------
(* PlanAmounts. *)

(* Why the balance holds: whatever was refunded before, an open installment is
   a rounding of its original amount by the factor of all refunds so far.      *)
RoundedFromOriginal ==
  /\ total = 0 => refunded = 0 /\ open = {}
  /\ \A n \in open : amount[n] \in Rounded(original[n], Rest(total, refunded), total)

AmountsInv == AmountsTypeOK /\ SplitIsExact /\ RoundedFromOriginal

(* The split sums to the payment: two floors, and the rest on the last one. *)
LEMMA SplitSum ==
  ASSUME NEW t \in Nat
  PROVE  Split(t) \in [Number -> Nat] /\ Sum(Split(t)) = t
<1> DEFINE p == t \div INSTALLMENTS_COUNT
<1>1. p \in Nat /\ 3 * p <= t
  BY DEF INSTALLMENTS_COUNT
<1>2. t - p * INSTALLMENTS_COUNT \in Nat
  BY <1>1 DEF INSTALLMENTS_COUNT
<1>3. /\ Split(t)[1] = p /\ Split(t)[2] = p
      /\ Split(t)[3] = p + (t - p * INSTALLMENTS_COUNT)
  BY DEF Split, Number, INSTALLMENTS_COUNT
<1>4. Split(t) \in [Number -> Nat]
  BY <1>1, <1>2 DEF Split
<1> HIDE DEF p
<1> QED
  BY <1>1, <1>3, <1>4 DEF Sum, INSTALLMENTS_COUNT

(* What Math.round leaves of an amount that is not shrunk at all. *)
LEMMA RoundedUnshrunk ==
  ASSUME NEW whole \in Nat, NEW t \in Nat
  PROVE  whole \in Rounded(whole, t, t)
<1>1. whole * t \in Nat
  OBVIOUS
<1> QED
  BY <1>1 DEF Rounded

(* Math.max(0, ...) keeps what is left from going negative. *)
LEMMA RestIsNat ==
  ASSUME NEW t \in Nat, NEW r \in Nat
  PROVE  Rest(t, r) \in Nat
BY DEF Rest

(* A repricing only picks amounts a single installment may get. *)
LEMMA RepricedIsNat ==
  ASSUME AmountsTypeOK, NEW r, NEW f \in Repriced(r)
  PROVE  /\ f \in [Number -> Nat]
         /\ \A n \in Number : f[n] \in NewAmount(n, r)
<1>1. \A n \in Number : NewAmount(n, r) \subseteq Nat
  BY DEF AmountsTypeOK, NewAmount, Rounded
<1>2. UNION {NewAmount(n, r) : n \in Number} \subseteq Nat
  BY <1>1
<1> QED
  BY <1>2 DEF Repriced

(* There is no plan at the start. *)
LEMMA AmountsInitInv == AmountsInit => AmountsInv
BY DEF AmountsInit, AmountsInv, AmountsTypeOK, SplitIsExact, RoundedFromOriginal, Sum, Number, INSTALLMENTS_COUNT

(* Activation, every refund and every settled installment keep the invariant. *)
LEMMA AmountsNextInv == AmountsInv /\ [AmountsNext]_amountVars => AmountsInv'
<1> SUFFICES ASSUME AmountsInv, [AmountsNext]_amountVars PROVE AmountsInv'
  OBVIOUS
<1>1. ASSUME NEW t \in Totals, ActivateAmounts(t) PROVE AmountsInv'
  <2>1. t \in Nat /\ t # 0
    BY TotalsAssumption
  <2>2. refunded = 0 /\ refunded' = 0 /\ total' = t
    BY <1>1 DEF AmountsInv, RoundedFromOriginal, ActivateAmounts
  <2>3. AmountsTypeOK' /\ SplitIsExact'
    BY <1>1, <2>1, <2>2, SplitSum DEF ActivateAmounts, AmountsTypeOK, SplitIsExact
  <2>4. Rest(t, 0) = t
    BY <2>1 DEF Rest
  <2>5. ASSUME NEW n \in Number PROVE Split(t)[n] \in Rounded(Split(t)[n], t, t)
    BY <2>1, SplitSum, RoundedUnshrunk
  <2>6. RoundedFromOriginal'
    BY <1>1, <2>1, <2>2, <2>4, <2>5 DEF ActivateAmounts, RoundedFromOriginal
  <2> QED
    BY <2>3, <2>6 DEF AmountsInv
<1>2. ASSUME NEW a \in 1 .. total, PartialRefund(a) PROVE AmountsInv'
  <2>1. total \in Nat /\ refunded + a \in Nat
    BY TotalsAssumption DEF AmountsInv, AmountsTypeOK
  <2>2. /\ amount' \in [Number -> Nat]
        /\ \A n \in Number : amount'[n] \in NewAmount(n, refunded')
    BY <1>2, RepricedIsNat DEF PartialRefund, AmountsInv
  <2>3. AmountsTypeOK' /\ SplitIsExact'
    BY <1>2, <2>1, <2>2 DEF PartialRefund, AmountsInv, AmountsTypeOK, SplitIsExact
  <2>4. RoundedFromOriginal'
    BY <1>2, <2>2 DEF PartialRefund, AmountsInv, AmountsTypeOK, RoundedFromOriginal, NewAmount
  <2> QED
    BY <2>3, <2>4 DEF AmountsInv
<1>3. ASSUME NEW n \in Number, Settle(n) PROVE AmountsInv'
  BY <1>3 DEF Settle, AmountsInv, AmountsTypeOK, SplitIsExact, RoundedFromOriginal
<1>4. CASE UNCHANGED amountVars
  BY <1>4 DEF amountVars, AmountsInv, AmountsTypeOK, SplitIsExact, RoundedFromOriginal
<1> QED
  BY <1>1, <1>2, <1>3, <1>4 DEF AmountsNext

(* Amounts are whole cents, the split adds up, and every open installment is a
   rounding of its original amount, whatever was refunded before.             *)
THEOREM AmountsHold == AmountsSpec => []AmountsInv
BY AmountsInitInv, AmountsNextInv, PTL DEF AmountsSpec

(* No cent is lost or invented by the split of ActivateInstallmentPlanUseCase,
   for payments of every amount.                                              *)
THEOREM SplitIsAlwaysExact == AmountsSpec => []SplitIsExact
<1>1. AmountsInv => SplitIsExact
  BY DEF AmountsInv
<1> QED
  BY <1>1, AmountsHold, PTL

(* Cancelling a positive factor t from a bound of one and a half. *)
LEMMA CancelFactor ==
  ASSUME NEW x \in Int, NEW t \in Nat \ {0}, 2 * (x * t) <= 3 * t
  PROVE  x <= 1
<1>1. SUFFICES ASSUME x >= 2 PROVE FALSE
  OBVIOUS
<1>2. PICK y \in Nat : x = 2 + y
  <2>1. x - 2 \in Nat /\ x = 2 + (x - 2)
    BY <1>1
  <2> QED
    BY <2>1
<1>3. x * t = 2 * t + y * t
  BY <1>2
<1>4. y * t \in Nat
  OBVIOUS
<1> QED
  BY <1>3, <1>4

(* Three amounts, each within half a cent of its share of the rest. *)
LEMMA ThreeRoundings ==
  ASSUME NEW t \in Nat \ {0}, NEW rest \in Nat,
         NEW whole \in [Number -> Nat], Sum(whole) = t,
         NEW f \in [Number -> Nat],
         \A n \in Number : f[n] \in Rounded(whole[n], rest, t)
  PROVE  Sum(f) - rest \in -1 .. 1
<1> DEFINE x == Sum(f) - rest
<1>1. 1 \in Number /\ 2 \in Number /\ 3 \in Number
  BY DEF Number, INSTALLMENTS_COUNT
<1>2. Sum(f) \in Nat /\ x \in Int
  BY <1>1 DEF Sum
<1>3. \A n \in Number : /\ 2 * (f[n] * t) <= 2 * (whole[n] * rest) + t
                        /\ 2 * (whole[n] * rest) <= 2 * (f[n] * t) + t
  BY DEF Rounded
<1>4. Sum(f) * t = f[1] * t + f[2] * t + f[3] * t
  BY <1>1 DEF Sum
<1>5. t * rest = whole[1] * rest + whole[2] * rest + whole[3] * rest
  <2>1. t = whole[1] + whole[2] + whole[3]
    BY DEF Sum
  <2> QED
    BY <1>1, <2>1
<1>6. x * t = Sum(f) * t - t * rest
  BY <1>2
<1>7. \A n \in Number : f[n] * t \in Nat /\ whole[n] * rest \in Nat
  OBVIOUS
<1>8. 2 * (x * t) <= 3 * t /\ 2 * (x * t) >= -(3 * t)
  <2> HIDE DEF x
  <2> QED
    BY <1>1, <1>3, <1>4, <1>5, <1>6, <1>7
<1>9. x <= 1
  <2> HIDE DEF x
  <2> QED
    BY <1>2, <1>8, CancelFactor
<1>10. -x <= 1
  <2> HIDE DEF x
  <2>1. (-x) * t = -(x * t) /\ x * t \in Int /\ -x \in Int
    BY <1>2
  <2>2. 2 * ((-x) * t) <= 3 * t
    BY <1>8, <2>1
  <2> QED
    BY <2>1, <2>2, CancelFactor
<1> QED
  BY <1>2, <1>9, <1>10

(* While nothing is settled, the installments AdjustInstallmentPlanUseCase has
   rounded one by one add up to what is left of the payment, give or take a
   cent, for payments of every amount and any sequence of refunds.             *)
THEOREM BalanceStaysWithinOneCent == AmountsSpec => []BalanceWithinOneCent
<1>1. AmountsInv => BalanceWithinOneCent
  <2> SUFFICES ASSUME AmountsInv, open = Number
               PROVE  Sum(amount) - Rest(total, refunded) \in -1 .. 1
    BY DEF BalanceWithinOneCent
  <2>1. total \in Nat \ {0}
    <3>1. 1 \in open
      BY DEF Number, INSTALLMENTS_COUNT
    <3> QED
      BY <3>1, TotalsAssumption DEF AmountsInv, AmountsTypeOK, RoundedFromOriginal
  <2>2. Rest(total, refunded) \in Nat
    BY <2>1, RestIsNat DEF AmountsInv, AmountsTypeOK
  <2>3. /\ original \in [Number -> Nat] /\ Sum(original) = total
        /\ amount \in [Number -> Nat]
        /\ \A n \in Number : amount[n] \in Rounded(original[n], Rest(total, refunded), total)
    BY DEF AmountsInv, AmountsTypeOK, SplitIsExact, RoundedFromOriginal
  <2> QED
    BY <2>1, <2>2, <2>3, ThreeRoundings
<1> QED
  BY <1>1, AmountsHold, PTL

(* A larger refund never rounds to a larger amount, ties included. *)
LEMMA LessRestLessAmount ==
  ASSUME NEW t \in Nat \ {0}, NEW whole \in Nat, NEW rest \in Nat, NEW less \in Nat,
         less < rest \/ (less = 0 /\ rest = 0),
         NEW k \in Rounded(whole, rest, t), NEW j \in Rounded(whole, less, t)
  PROVE  j <= k
<1>1. /\ k \in 0 .. whole /\ j \in 0 .. whole
      /\ 2 * (whole * rest) <= 2 * (k * t) + t
      /\ 2 * (j * t) <= 2 * (whole * less) + t
  BY DEF Rounded
<1>2. SUFFICES ASSUME j >= k + 1 PROVE FALSE
  BY <1>1
<1>3. PICK d \in Nat : j = k + 1 + d
  <2>1. j - k - 1 \in Nat /\ j = k + 1 + (j - k - 1)
    BY <1>1, <1>2
  <2> QED
    BY <2>1
<1>4. j * t = k * t + t + d * t
  BY <1>1, <1>3
<1>5. d * t \in Nat /\ k * t \in Nat /\ j * t \in Nat /\ whole * rest \in Nat /\ whole * less \in Nat
  BY <1>1
<1>6. CASE less < rest
  <2>1. PICK m \in Nat : rest = less + 1 + m
    <3>1. rest - less - 1 \in Nat /\ rest = less + 1 + (rest - less - 1)
      BY <1>6
    <3> QED
      BY <3>1
  <2>2. whole * rest = whole * less + whole + whole * m
    BY <2>1
  <2>3. whole * m \in Nat
    OBVIOUS
  <2>4. whole = 0
    BY <1>1, <1>4, <1>5, <2>2, <2>3
  <2> QED
    BY <1>1, <1>2, <2>4
<1>7. CASE less = 0 /\ rest = 0
  <2>1. whole * less = 0
    BY <1>7
  <2> QED
    BY <1>1, <1>4, <1>5, <2>1
<1> QED
  BY <1>6, <1>7

(* AdjustInstallmentPlanUseCase never makes an installment more expensive,
   however the rounding of half a cent falls.                              *)
THEOREM RefundsAlwaysShrink == AmountsSpec => RefundsOnlyShrink
<1> DEFINE Shrinks == total # 0 => \A n \in Number : amount'[n] <= amount[n]
<1>1. AmountsInv /\ [AmountsNext]_amountVars => [Shrinks]_amountVars
  <2> SUFFICES ASSUME AmountsInv, AmountsNext, total # 0, NEW n \in Number
               PROVE  amount'[n] <= amount[n]
    OBVIOUS
  <2>1. amount[n] \in Nat /\ original[n] \in Nat /\ total \in Nat \ {0} /\ refunded \in Nat
    BY TotalsAssumption DEF AmountsInv, AmountsTypeOK
  <2>2. ASSUME NEW a \in 1 .. total, PartialRefund(a) PROVE amount'[n] <= amount[n]
    <3>1. amount'[n] \in NewAmount(n, refunded + a)
      BY <2>2, RepricedIsNat DEF PartialRefund, AmountsInv
    <3>2. CASE n \notin open
      BY <2>1, <3>1, <3>2 DEF NewAmount
    <3>3. CASE n \in open
      <4> DEFINE rest == Rest(total, refunded)
                 less == Rest(total, refunded + a)
      <4>1. rest \in Nat /\ less \in Nat /\ (less < rest \/ (less = 0 /\ rest = 0))
        BY <2>1 DEF Rest
      <4>2. amount[n] \in Rounded(original[n], rest, total)
        BY <3>3 DEF AmountsInv, RoundedFromOriginal
      <4>3. amount'[n] \in Rounded(original[n], less, total)
        BY <3>1, <3>3 DEF NewAmount
      <4> HIDE DEF rest, less
      <4> QED
        BY <2>1, <4>1, <4>2, <4>3, LessRestLessAmount
    <3> QED
      BY <3>2, <3>3
  <2>3. CASE \E t \in Totals : ActivateAmounts(t)
    BY <2>3 DEF ActivateAmounts
  <2>4. CASE \E m \in Number : Settle(m)
    BY <2>1, <2>4 DEF Settle
  <2> QED
    BY <2>2, <2>3, <2>4 DEF AmountsNext
<1> QED
  BY <1>1, AmountsHold, PTL DEF AmountsSpec, RefundsOnlyShrink
=============================================================================
