-------------------------- MODULE CartCheckoutProofs --------------------------
(***************************************************************************)
(* The checkout for any number of requests, carts, items and POSTs.  Two   *)
(* mechanisms meet: the advisory lock of order-service, which makes the    *)
(* look-up of an existing order and the insert of a new one exclusive for  *)
(* each key (OrderInv), and the claim of the cart row, which at most one   *)
(* request holds (ClaimInv).                                               *)
(***************************************************************************)
EXTENDS CartCheckout, TLAPS

Claiming(c) == caller[c].pc \in {"waiting", "revert"}

OrderInv ==
  /\ \A p \in Post : order[p] # None =>
       post[p].state = "done" /\ order[p].idempotencyKey = post[p].cart
  /\ \A p \in Post : post[p].state # "unused" => post[p].cart \in Cart
  /\ \A p, q \in Post : post[p].state = "locked" /\ post[q].state = "locked" /\ p # q
       => post[p].cart # post[q].cart
  /\ \A p \in Post : post[p].state = "locked" => (post[p].found <=> Ordered(post[p].cart))
  /\ \A p \in Post : post[p].state = "done" => Ordered(post[p].cart)
  /\ OneOrderPerCart

ClaimInv ==
  /\ \A c \in Caller : caller[c].pc = "found" => caller[c].cart \in Cart
  /\ \A c \in Caller : Claiming(c) =>
       /\ caller[c].cart \in Cart /\ cart[caller[c].cart] = "CHECKED_OUT"
       /\ caller[c].cart \notin answered
  /\ \A c \in Caller : caller[c].pc = "waiting" =>
       /\ caller[c].post \in Post /\ post[caller[c].post].cart = caller[c].cart
       /\ post[caller[c].post].state # "unused"
  /\ \A c, d \in Caller : Claiming(c) /\ Claiming(d) /\ c # d => caller[c].cart # caller[d].cart
  /\ AnsweredStaysClosed
  /\ ClosedIsOrdered

IInv == TypeOK /\ OrderInv /\ ClaimInv
-----------------------------------------------------------------------------
LEMMA IdleTyped == Idle \in Request /\ [Idle EXCEPT !.pc = "again"] \in Request
BY DEF Idle, Request, Items

LEMMA InitEstablishes == Init => IInv
<1>. SUFFICES ASSUME Init PROVE IInv
  OBVIOUS
<1>1. TypeOK
  <2>1. NoPost \in PostRow
    BY DEF NoPost, PostRow, Items
  <2>2. faults \in 0 .. MaxFaults
    BY FaultsAssumption DEF Init
  <2>. QED
    BY IdleTyped, <2>1, <2>2 DEF Init, TypeOK
<1>2. \A p \in Post : order[p] = None /\ post[p].state = "unused"
  BY DEF Init, NoPost
<1>3. OrderInv
  BY <1>2 DEF OrderInv, OneOrderPerCart
<1>4. \A c \in Caller : caller[c].pc = "idle"
  BY DEF Init, Idle
<1>5. \A k \in Cart : cart[k] # "CHECKED_OUT" /\ k \notin answered
  BY NoneAssumption DEF Init
<1>6. ClaimInv
  BY <1>4, <1>5 DEF Init, ClaimInv, Claiming, AnsweredStaysClosed, ClosedIsOrdered
<1>. QED
  BY <1>1, <1>3, <1>6 DEF IInv

(* The steps of a request that leave POSTs, orders and answers alone. *)
CartStep(c) ==
  \/ \E op \in Op : FindNone(c, op) \/ \E k \in Cart : FindActive(c, op, k)
  \/ \E k \in Cart : CreateCart(c, k)
  \/ \E i \in Item : AddItem(c, i) \/ UpdateItem(c, i) \/ RemoveItem(c, i)
  \/ Return(c) \/ AlreadyCheckedOut(c) \/ CheckoutFails(c) \/ Revert(c) \/ RevertFails(c)

LEMMA ItemsTyped ==
  ASSUME IInv, NEW c \in Caller, NEW i \in Item, NEW k \in Cart \cup {None}, Changing(c),
         Write(c, i, k)
  PROVE  /\ cartOf' \in [Item -> Cart \cup {None}]
         /\ touched' \subseteq Cart
         /\ UNCHANGED <<cart, post, order, answered, faults>>
<1>1. caller[c].cart \in Cart
  BY DEF IInv, ClaimInv, Changing, At
<1>. QED
  BY <1>1 DEF IInv, TypeOK, Write, Touch, postVars

LEMMA CartStepTyped ==
  ASSUME IInv, NEW c \in Caller, CartStep(c)
  PROVE  TypeOK'
<1>. USE DEF IInv
<1>1. caller \in [Caller -> Request] /\ caller[c] \in Request
  BY DEF TypeOK
<1>2. ASSUME NEW r \in Request, Becomes(c, r) PROVE caller' \in [Caller -> Request]
  BY <1>1, <1>2 DEF Becomes
<1>3. ASSUME NEW op \in Op, FindNone(c, op) PROVE TypeOK'
  <2>1. [Idle EXCEPT !.pc = "create", !.op = op] \in Request
    BY IdleTyped DEF Request
  <2>. QED
    BY <1>2, <1>3, <2>1 DEF FindNone, TypeOK, cartVars, postVars, ghostVars
<1>4. ASSUME NEW op \in Op, NEW k \in Cart, FindActive(c, op, k) PROVE TypeOK'
  <2>1. ASSUME NEW S \in Items
        PROVE  [Idle EXCEPT !.pc = "found", !.op = op, !.cart = k, !.saw = S] \in Request
    BY IdleTyped DEF Request
  <2>2. (IF op = "get" THEN {} ELSE itemsOf(k)) \in Items
    BY DEF itemsOf, Items
  <2>. QED
    BY <1>2, <1>4, <2>1, <2>2 DEF FindActive, TypeOK, cartVars, postVars, ghostVars
<1>5. ASSUME NEW k \in Cart, CreateCart(c, k) PROVE TypeOK'
  <2>1. [caller[c] EXCEPT !.pc = "found", !.cart = k] \in Request
    BY <1>1 DEF Request
  <2>. QED
    BY <1>2, <1>5, <2>1 DEF CreateCart, TypeOK, postVars, ghostVars
<1>6. ASSUME NEW i \in Item, AddItem(c, i) \/ UpdateItem(c, i) \/ RemoveItem(c, i) PROVE TypeOK'
  <2>1. Changing(c) /\ \E k \in Cart \cup {None} : Write(c, i, k)
    BY <1>6 DEF AddItem, UpdateItem, RemoveItem, ClaimInv, Changing, At
  <2>2. /\ cartOf' \in [Item -> Cart \cup {None}] /\ touched' \subseteq Cart
        /\ UNCHANGED <<cart, post, order, answered, faults>>
    BY <2>1, ItemsTyped
  <2>3. Becomes(c, Idle) \/ Becomes(c, [Idle EXCEPT !.pc = "again"])
    BY <1>6 DEF AddItem, UpdateItem, RemoveItem
  <2>. QED
    BY <1>2, IdleTyped, <2>2, <2>3 DEF TypeOK
<1>7. CASE Return(c) \/ AlreadyCheckedOut(c) \/ Revert(c)
  <2>1. caller' \in [Caller -> Request]
    BY <1>2, <1>7, IdleTyped DEF Return, AlreadyCheckedOut, Revert
  <2>. QED
    BY <1>7, <2>1 DEF Return, AlreadyCheckedOut, Revert, TypeOK, cartVars, postVars, ghostVars
<1>8. CASE RevertFails(c)
  <2>1. caller' \in [Caller -> Request]
    BY <1>2, <1>8, IdleTyped DEF RevertFails
  <2>. QED
    BY <1>8, <2>1, FaultsAssumption DEF RevertFails, TypeOK, cartVars, postVars, ghostVars
<1>9. CASE CheckoutFails(c)
  <2>1. [caller[c] EXCEPT !.pc = "revert"] \in Request
    BY <1>1 DEF Request
  <2>. QED
    BY <1>2, <1>9, <2>1 DEF CheckoutFails, TypeOK, cartVars, postVars, ghostVars
<1>. QED
  BY <1>3, <1>4, <1>5, <1>6, <1>7, <1>8, <1>9 DEF CartStep

(* Most of them leave the carts and the claims alone. *)
QuietStep(c) ==
  \/ \E op \in Op : FindNone(c, op) \/ \E k \in Cart : FindActive(c, op, k)
  \/ \E i \in Item : AddItem(c, i) \/ UpdateItem(c, i) \/ RemoveItem(c, i)
  \/ Return(c) \/ AlreadyCheckedOut(c)

LEMMA QuietStepFrame ==
  ASSUME IInv, NEW c \in Caller, QuietStep(c)
  PROVE  /\ UNCHANGED <<cart, post, order, answered, faults>>
         /\ \A d \in Caller \ {c} : caller'[d] = caller[d]
         /\ ~Claiming(c) /\ ~Claiming(c)'
         /\ caller'[c].pc = "found" => caller'[c].cart \in Cart
<1>. USE DEF IInv, TypeOK, Becomes, cartVars, postVars, ghostVars, Claiming, At, Starts, Idle
<1>1. CASE \E i \in Item : AddItem(c, i) \/ UpdateItem(c, i) \/ RemoveItem(c, i)
  BY <1>1 DEF AddItem, UpdateItem, RemoveItem, Write, Changing
<1>2. ASSUME NEW op \in Op, FindNone(c, op)
      PROVE  /\ UNCHANGED <<cart, post, order, answered, faults>>
             /\ \A d \in Caller \ {c} : caller'[d] = caller[d]
             /\ ~Claiming(c) /\ caller'[c].pc = "create"
  BY <1>2 DEF FindNone
<1>3. ASSUME NEW op \in Op, NEW k \in Cart, FindActive(c, op, k)
      PROVE  /\ UNCHANGED <<cart, post, order, answered, faults>>
             /\ \A d \in Caller \ {c} : caller'[d] = caller[d]
             /\ ~Claiming(c) /\ caller'[c].pc = "found" /\ caller'[c].cart = k
  BY <1>3 DEF FindActive
<1>4. CASE Return(c) \/ AlreadyCheckedOut(c)
  BY <1>4 DEF Return, AlreadyCheckedOut, CheckingOut
<1>. QED
  BY <1>1, <1>2, <1>3, <1>4 DEF QuietStep

-----------------------------------------------------------------------------
(* Order-service: TypeOK and OrderInv under the steps that touch a POST. *)
LEMMA OrderInvKept ==
  ASSUME OrderInv, UNCHANGED <<post, order>>
  PROVE  OrderInv'
BY DEF OrderInv, OneOrderPerCart, Ordered

LEMMA SendPostKeepsOrderInv ==
  ASSUME IInv, NEW c \in Caller, NEW p \in Post, caller[c].cart \in Cart, SendPost(c, p),
         UNCHANGED order
  PROVE  /\ OrderInv' /\ post' \in [Post -> PostRow] /\ caller' \in [Caller -> Request]
         /\ \A q \in Post \ {p} : post'[q] = post[q]
         /\ post[p].state = "unused" /\ post'[p].cart = caller[c].cart
         /\ post'[p].state = "sent"
<1>. USE DEF IInv
<1>1. p \in Post /\ post[p] = NoPost
  BY DEF SendPost, IsNext
<1>2. caller[c] \in Request
  BY DEF TypeOK
<1>3. /\ post' \in [Post -> PostRow]
      /\ \A q \in Post \ {p} : post'[q] = post[q]
      /\ post'[p].cart = caller[c].cart /\ post'[p].state = "sent"
  BY <1>2 DEF SendPost, TypeOK, PostRow, Request
<1>4. [caller[c] EXCEPT !.pc = "waiting", !.post = p, !.saw = {}] \in Request
  BY <1>2 DEF Request, Items
<1>5. caller' \in [Caller -> Request]
  BY <1>4 DEF SendPost, Becomes, TypeOK
<1>6. post[p].state = "unused"
  BY <1>1 DEF NoPost
<1>7. OrderInv'
  BY <1>3, <1>6 DEF OrderInv, OneOrderPerCart, Ordered
<1>. QED
  BY <1>3, <1>5, <1>6, <1>7

LEMMA PostStepPreserves ==
  ASSUME IInv, NEW p \in Post, PostStep(p)
  PROVE  TypeOK' /\ OrderInv'
<1>. USE DEF IInv
<1>1. post[p] \in PostRow
  BY DEF TypeOK
<1>2. CASE LockKey(p)
  <2>1. TypeOK'
    BY <1>1, <1>2 DEF LockKey, Ordered, TypeOK, PostRow, cartVars, ghostVars
  <2>2. order' = order /\ \A k : Ordered(k)' <=> Ordered(k)
    BY <1>2 DEF LockKey, Ordered
  <2>3. /\ post[p].state = "sent" /\ ~Locked(post[p].cart)
        /\ post'[p].state = "locked" /\ post'[p].cart = post[p].cart
        /\ post'[p].found <=> Ordered(post[p].cart)
        /\ \A q \in Post \ {p} : post'[q] = post[q]
    BY <1>1, <1>2 DEF LockKey, TypeOK, PostRow
  <2>4. OneOrderPerCart'
    BY <2>2 DEF OrderInv, OneOrderPerCart
  <2>. QED
    BY <2>1, <2>2, <2>3, <2>4 DEF OrderInv, Locked
<1>3. CASE InsertOrder(p)
  <2>1. [idempotencyKey |-> post[p].cart, items |-> post[p].items]
          \in [idempotencyKey: Cart, items: Items]
    BY <1>1, <1>3 DEF InsertOrder, OrderInv, PostRow
  <2>2. TypeOK'
    BY <1>1, <1>3, <2>1 DEF InsertOrder, TypeOK, PostRow, cartVars, ghostVars
  <2>3. /\ post[p].state = "locked" /\ post'[p].state = "done" /\ post'[p].cart = post[p].cart
        /\ \A q \in Post \ {p} : post'[q] = post[q] /\ order'[q] = order[q]
        /\ order'[p] # None /\ order'[p].idempotencyKey = post[p].cart
    BY <1>1, <1>3, <2>1, NoneAssumption DEF InsertOrder, TypeOK, PostRow, Items
  <2>4. order[p] = None
    BY <2>3 DEF OrderInv
  <2>5. ~Ordered(post[p].cart)
    BY <1>3 DEF InsertOrder, OrderInv
  <2>6. \A k : Ordered(k)' <=> (Ordered(k) \/ k = post[p].cart)
    BY <2>3, <2>4 DEF Ordered
  <2>7. OneOrderPerCart'
    BY <2>3, <2>5 DEF OrderInv, OneOrderPerCart, Ordered
  <2>8. \A q \in Post : post'[q].state = "locked" => (post'[q].found <=> Ordered(post[q].cart)')
    <3>1. SUFFICES ASSUME NEW q \in Post, post'[q].state = "locked"
                   PROVE  post'[q].found <=> Ordered(post[q].cart)'
      OBVIOUS
    <3>2. q # p /\ post'[q] = post[q] /\ post[q].cart # post[p].cart
      BY <2>3, <3>1 DEF OrderInv
    <3>. QED
      BY <2>6, <3>1, <3>2 DEF OrderInv
  <2>9. /\ \A q \in Post : order'[q] # None =>
             post'[q].state = "done" /\ order'[q].idempotencyKey = post'[q].cart
        /\ \A q \in Post : post'[q].state # "unused" => post'[q].cart \in Cart
        /\ \A q, r \in Post : post'[q].state = "locked" /\ post'[r].state = "locked" /\ q # r
             => post'[q].cart # post'[r].cart
        /\ \A q \in Post : post'[q].state = "done" => Ordered(post[q].cart)'
    BY <2>3, <2>6 DEF OrderInv
  <2>. QED
    BY <2>2, <2>7, <2>8, <2>9 DEF OrderInv
<1>4. CASE ReturnExisting(p) \/ PostFails(p)
  <2>1. TypeOK'
    <3>1. /\ post' \in [Post -> PostRow]
          /\ UNCHANGED <<cart, cartOf, caller, order, answered, touched, faults>>
      <4>1. CASE ReturnExisting(p)
        BY <1>1, <4>1 DEF ReturnExisting, TypeOK, PostRow, cartVars, ghostVars
      <4>2. CASE PostFails(p)
        BY <1>1, <4>2 DEF PostFails, TypeOK, PostRow, cartVars, ghostVars
      <4>. QED
        BY <1>4, <4>1, <4>2
    <3>. QED
      BY <1>1, <3>1 DEF TypeOK
  <2>2. order' = order /\ \A k : Ordered(k)' <=> Ordered(k)
    BY <1>4 DEF ReturnExisting, PostFails, Ordered
  <2>3. /\ post[p].state \in {"sent", "locked"} /\ post'[p].cart = post[p].cart
        /\ \/ post'[p].state = "failed"
           \/ post[p].state = "locked" /\ post[p].found /\ post'[p].state = "done"
        /\ \A q \in Post \ {p} : post'[q] = post[q]
    BY <1>1, <1>4 DEF ReturnExisting, PostFails, TypeOK, PostRow
  <2>4. OneOrderPerCart'
    BY <2>2 DEF OrderInv, OneOrderPerCart
  <2>. QED
    BY <2>1, <2>2, <2>3, <2>4 DEF OrderInv
<1>. QED
  BY <1>2, <1>3, <1>4 DEF PostStep
-----------------------------------------------------------------------------
(* ClaimInv: the steps of the carts, the claim, the answer, the POSTs, the crash. *)
LEMMA QuietStepKeepsClaims ==
  ASSUME IInv, NEW c \in Caller, QuietStep(c)
  PROVE  ClaimInv'
<1>1. /\ UNCHANGED <<cart, post, order, answered, faults>>
      /\ \A d \in Caller \ {c} : caller'[d] = caller[d]
      /\ ~Claiming(c) /\ ~Claiming(c)'
      /\ caller'[c].pc = "found" => caller'[c].cart \in Cart
  BY QuietStepFrame
<1>2. ClosedIsOrdered'
  BY <1>1 DEF IInv, ClaimInv, ClosedIsOrdered, Ordered, Claiming
<1>. QED
  BY <1>1, <1>2 DEF IInv, ClaimInv, Claiming, AnsweredStaysClosed, Ordered

LEMMA CartStepKeepsClaims ==
  ASSUME IInv, NEW c \in Caller, CartStep(c)
  PROVE  ClaimInv'
<1>. USE DEF IInv, postVars, ghostVars, cartVars
<1>1. caller[c] \in Request /\ caller \in [Caller -> Request]
  BY DEF TypeOK
<1>2. CASE QuietStep(c)
  BY <1>2, QuietStepKeepsClaims
<1>3. ASSUME NEW k \in Cart, CreateCart(c, k) PROVE ClaimInv'
  <2>1. /\ cart[k] = None /\ cart' = [cart EXCEPT ![k] = "ACTIVE"]
        /\ UNCHANGED <<post, order, answered, faults>>
    BY <1>3 DEF CreateCart, IsNext
  <2>2. /\ \A d \in Caller \ {c} : caller'[d] = caller[d]
        /\ ~Claiming(c) /\ caller'[c].pc = "found" /\ caller'[c].cart = k
    BY <1>1, <1>3 DEF CreateCart, Becomes, Request, Claiming, At
  <2>3. cart'[k] = "ACTIVE" /\ \A j \in Cart \ {k} : cart'[j] = cart[j]
    BY <2>1 DEF TypeOK
  <2>4. ClosedIsOrdered'
    BY <2>1, <2>2, <2>3 DEF ClaimInv, ClosedIsOrdered, Ordered, Claiming
  <2>5. AnsweredStaysClosed'
    BY <2>1, <2>3, NoneAssumption DEF ClaimInv, AnsweredStaysClosed, Ordered, TypeOK
  <2>. QED
    BY <2>1, <2>2, <2>3, <2>4, <2>5, NoneAssumption DEF ClaimInv, Claiming
<1>4. CASE CheckoutFails(c)
  <2>1. /\ \A d \in Caller \ {c} : caller'[d] = caller[d]
        /\ Claiming(c) /\ caller'[c].pc = "revert" /\ caller'[c].cart = caller[c].cart
        /\ UNCHANGED <<cart, post, order, answered, faults>>
    BY <1>1, <1>4 DEF CheckoutFails, Becomes, Request, Claiming, At
  <2>2. ClosedIsOrdered' /\ AnsweredStaysClosed'
    BY <2>1 DEF ClaimInv, ClosedIsOrdered, AnsweredStaysClosed, Ordered, Claiming
  <2>. QED
    BY <2>1, <2>2 DEF ClaimInv, Claiming
<1>5. CASE Revert(c)
  <2>1. /\ \A d \in Caller \ {c} : caller'[d] = caller[d]
        /\ Claiming(c) /\ caller'[c].pc = "idle"
        /\ cart' = [cart EXCEPT ![caller[c].cart] = "ACTIVE"]
        /\ UNCHANGED <<post, order, answered, faults>>
    BY <1>1, <1>5 DEF Revert, Becomes, Idle, Claiming, At
  <2>2. /\ caller[c].cart \in Cart /\ caller[c].cart \notin answered
        /\ cart'[caller[c].cart] = "ACTIVE"
        /\ \A k \in Cart \ {caller[c].cart} : cart'[k] = cart[k]
    BY <2>1 DEF ClaimInv, TypeOK
  <2>3. ClosedIsOrdered'
    BY <2>1, <2>2 DEF ClaimInv, ClosedIsOrdered, Ordered, Claiming
  <2>4. AnsweredStaysClosed'
    BY <2>1, <2>2 DEF ClaimInv, AnsweredStaysClosed, Ordered, TypeOK
  <2>5. \A d \in Caller \ {c} : Claiming(d) => caller[d].cart # caller[c].cart
    BY <2>1 DEF ClaimInv
  <2>. QED
    BY <2>1, <2>2, <2>3, <2>4, <2>5 DEF ClaimInv, Claiming
<1>6. CASE RevertFails(c)
  <2>1. /\ \A d \in Caller \ {c} : caller'[d] = caller[d]
        /\ caller'[c].pc = "idle" /\ faults' # 0
        /\ UNCHANGED <<cart, post, order, answered>>
    BY <1>1, <1>6 DEF RevertFails, Becomes, Idle, TypeOK
  <2>2. ClosedIsOrdered' /\ AnsweredStaysClosed'
    BY <2>1 DEF ClaimInv, ClosedIsOrdered, AnsweredStaysClosed, Ordered
  <2>. QED
    BY <2>1, <2>2 DEF ClaimInv, Claiming
<1>. QED
  BY <1>2, <1>3, <1>4, <1>5, <1>6 DEF CartStep, QuietStep

LEMMA CartStepPreserves ==
  ASSUME IInv, NEW c \in Caller, CartStep(c)
  PROVE  IInv'
<1>1. UNCHANGED <<post, order>>
  <2>1. CASE QuietStep(c)
    BY <2>1, QuietStepFrame
  <2>. QED
    BY <2>1 DEF CartStep, QuietStep, CreateCart, CheckoutFails, Revert, RevertFails, postVars
<1>2. OrderInv'
  BY <1>1, OrderInvKept DEF IInv
<1>. QED
  BY <1>2, CartStepTyped, CartStepKeepsClaims DEF IInv

(* The claim: nobody else holds this cart, for it was ACTIVE. *)
LEMMA ClaimPreserves ==
  ASSUME IInv, NEW c \in Caller, NEW p \in Post, Claim(c, p)
  PROVE  IInv'
<1>. USE DEF IInv
<1>. DEFINE k == caller[c].cart
<1>1. /\ caller[c] \in Request /\ caller[c].pc = "found" /\ k \in Cart /\ cart[k] = "ACTIVE"
      /\ cart' = [cart EXCEPT ![k] = "CHECKED_OUT"] /\ SendPost(c, p)
      /\ UNCHANGED <<cartOf, order, answered, touched, faults>>
  BY DEF Claim, CheckingOut, At, ClaimInv, TypeOK, ghostVars
<1>2. /\ OrderInv' /\ post' \in [Post -> PostRow] /\ caller' \in [Caller -> Request]
      /\ \A q \in Post \ {p} : post'[q] = post[q]
      /\ post[p].state = "unused" /\ post'[p].cart = k /\ post'[p].state = "sent"
  BY <1>1, SendPostKeepsOrderInv
<1>3. TypeOK'
  BY <1>1, <1>2 DEF TypeOK
<1>4. /\ cart'[k] = "CHECKED_OUT" /\ \A j \in Cart \ {k} : cart'[j] = cart[j]
      /\ \A j : Ordered(j)' <=> Ordered(j)
  BY <1>1 DEF TypeOK, Ordered
<1>5. /\ \A d \in Caller \ {c} : caller'[d] = caller[d]
      /\ caller'[c].pc = "waiting" /\ caller'[c].cart = k /\ caller'[c].post = p
  BY <1>1 DEF SendPost, Becomes, Request, TypeOK
<1>6. k \notin answered /\ \A d \in Caller : Claiming(d) => caller[d].cart # k
  BY <1>1 DEF ClaimInv, AnsweredStaysClosed
<1>7. ClosedIsOrdered'
  BY <1>1, <1>4, <1>5 DEF ClaimInv, ClosedIsOrdered
<1>8. AnsweredStaysClosed'
  BY <1>1, <1>4, <1>6 DEF ClaimInv, AnsweredStaysClosed, TypeOK
<1>9. ClaimInv'
  <2>1. \A d \in Caller : Claiming(d)' =>
          /\ caller'[d].cart \in Cart /\ cart'[caller'[d].cart] = "CHECKED_OUT"
          /\ caller'[d].cart \notin answered'
    BY <1>1, <1>4, <1>5, <1>6 DEF ClaimInv, Claiming
  <2>2. \A d \in Caller : caller'[d].pc = "waiting" =>
          /\ caller'[d].post \in Post /\ post'[caller'[d].post].cart = caller'[d].cart
          /\ post'[caller'[d].post].state # "unused"
    BY <1>2, <1>5 DEF ClaimInv
  <2>3. \A d, e \in Caller : Claiming(d)' /\ Claiming(e)' /\ d # e
          => caller'[d].cart # caller'[e].cart
    BY <1>5, <1>6 DEF ClaimInv, Claiming
  <2>4. \A d \in Caller : caller'[d].pc = "found" => caller'[d].cart \in Cart
    BY <1>5 DEF ClaimInv
  <2>. QED
    BY <1>7, <1>8, <2>1, <2>2, <2>3, <2>4 DEF ClaimInv
<1>. QED
  BY <1>2, <1>3, <1>9

(* The answer: the POST is done, so there is an order of the cart it was sent for. *)
LEMMA AnswerPreserves ==
  ASSUME IInv, NEW c \in Caller, CheckoutSucceeds(c)
  PROVE  IInv'
<1>. USE DEF IInv
<1>. DEFINE k == caller[c].cart
<1>1. /\ Claiming(c) /\ caller[c].pc = "waiting" /\ post[caller[c].post].state = "done"
      /\ answered' = answered \cup {k} /\ caller' = [caller EXCEPT ![c] = Idle]
      /\ UNCHANGED <<cart, cartOf, post, order, touched, faults>>
  BY DEF CheckoutSucceeds, At, Becomes, Claiming, cartVars, postVars
<1>2. k \in Cart /\ cart[k] = "CHECKED_OUT" /\ Ordered(k)
  BY <1>1 DEF ClaimInv, OrderInv
<1>3. TypeOK'
  BY <1>1, <1>2, IdleTyped DEF TypeOK
<1>4. OrderInv'
  BY <1>1, OrderInvKept
<1>5. /\ \A d \in Caller \ {c} : caller'[d] = caller[d]
      /\ caller'[c].pc = "idle" /\ \A j : Ordered(j)' <=> Ordered(j)
  BY <1>1 DEF TypeOK, Idle, Ordered
<1>6. AnsweredStaysClosed'
  BY <1>1, <1>2, <1>5 DEF ClaimInv, AnsweredStaysClosed
<1>7. ClosedIsOrdered'
  <2>1. SUFFICES ASSUME faults' = 0, NEW j \in Cart, cart'[j] = "CHECKED_OUT", ~Ordered(j)'
                 PROVE  \E d \in Caller : caller'[d].cart = j /\ Claiming(d)'
    BY DEF ClosedIsOrdered, Claiming
  <2>2. PICK d \in Caller : caller[d].cart = j /\ Claiming(d)
    BY <1>1, <1>5, <2>1 DEF ClaimInv, ClosedIsOrdered, Claiming
  <2>3. d # c
    BY <1>2, <1>5, <2>1, <2>2
  <2>. QED
    BY <1>5, <2>2, <2>3 DEF Claiming
<1>8. ClaimInv'
  BY <1>1, <1>5, <1>6, <1>7 DEF ClaimInv, Claiming
<1>. QED
  BY <1>3, <1>4, <1>8

LEMMA PostStepKeepsClaims ==
  ASSUME IInv, NEW p \in Post, PostStep(p)
  PROVE  ClaimInv'
<1>. USE DEF IInv
<1>1. /\ post[p] \in PostRow /\ UNCHANGED <<cart, caller, answered, faults>>
      /\ \A q \in Post \ {p} : post'[q] = post[q]
  BY DEF PostStep, LockKey, InsertOrder, ReturnExisting, PostFails, TypeOK, cartVars, ghostVars
<1>2. post'[p].cart = post[p].cart /\ post'[p].state # "unused"
  BY <1>1 DEF PostStep, LockKey, InsertOrder, ReturnExisting, PostFails, TypeOK, PostRow
<1>3. \A k : Ordered(k) => Ordered(k)'
  <2>1. CASE InsertOrder(p)
    <3>1. order[p] = None /\ \A q \in Post \ {p} : order'[q] = order[q]
      BY <2>1 DEF InsertOrder, OrderInv, TypeOK
    <3>. QED
      BY <3>1 DEF Ordered
  <2>2. CASE ~InsertOrder(p)
    BY <2>2 DEF PostStep, LockKey, ReturnExisting, PostFails, Ordered
  <2>. QED
    BY <2>1, <2>2
<1>4. AnsweredStaysClosed' /\ ClosedIsOrdered'
  BY <1>1, <1>3 DEF ClaimInv, AnsweredStaysClosed, ClosedIsOrdered
<1>. QED
  BY <1>1, <1>2, <1>4 DEF ClaimInv, Claiming

LEMMA CrashPreserves == ASSUME IInv, Crash PROVE IInv'
<1>. USE DEF IInv
<1>1. /\ UNCHANGED <<cart, cartOf, post, order, answered, touched>>
      /\ faults' # 0 /\ \A c \in Caller : caller'[c].pc = "idle"
  BY DEF Crash, TypeOK, Idle, cartVars, postVars, ghostVars
<1>2. TypeOK'
  BY <1>1, IdleTyped, FaultsAssumption DEF Crash, TypeOK
<1>3. OrderInv'
  BY <1>1, OrderInvKept
<1>4. AnsweredStaysClosed' /\ ClosedIsOrdered'
  BY <1>1 DEF ClaimInv, AnsweredStaysClosed, ClosedIsOrdered, Ordered
<1>. QED
  BY <1>1, <1>2, <1>3, <1>4 DEF ClaimInv, Claiming

LEMMA StepPreserves == IInv /\ [Next]_vars => IInv'
<1>. SUFFICES ASSUME IInv, [Next]_vars PROVE IInv'
  OBVIOUS
<1>1. CASE UNCHANGED vars
  BY <1>1 DEF vars, cartVars, postVars, ghostVars, IInv, TypeOK, OrderInv, OneOrderPerCart, ClaimInv,
              Claiming, AnsweredStaysClosed, ClosedIsOrdered, Ordered
<1>2. ASSUME NEW c \in Caller, CallerStep(c) PROVE IInv'
  BY <1>2, CartStepPreserves, ClaimPreserves, AnswerPreserves DEF CallerStep, CartStep
<1>3. ASSUME NEW p \in Post, PostStep(p) PROVE IInv'
  BY <1>3, PostStepPreserves, PostStepKeepsClaims DEF IInv
<1>4. CASE Crash
  BY <1>4, CrashPreserves
<1>. QED
  BY <1>1, <1>2, <1>3, <1>4 DEF Next

(* For any number of requests, carts and POSTs: no cart is ordered twice, a cart that
   was answered with an order stays closed, and without faults every closed cart has an
   order or a request that holds it.                                                   *)
THEOREM CheckoutIsSafe ==
  Spec => [](TypeOK /\ OneOrderPerCart /\ AnsweredStaysClosed /\ ClosedIsOrdered)
<1>1. Spec => []IInv
  BY InitEstablishes, StepPreserves, PTL DEF Spec
<1>2. IInv => TypeOK /\ OneOrderPerCart /\ AnsweredStaysClosed /\ ClosedIsOrdered
  BY DEF IInv, OrderInv, ClaimInv
<1>. QED
  BY <1>1, <1>2, PTL

(* For any number of requests, POSTs, timeouts and crashes: a cart whose customer was
   answered with an order is closed, and stays closed, and its order exists; no
   reclaimed or redelivered checkout opens it again.                                 *)
THEOREM AnsweredCartsStayClosed == Spec => []AnsweredStaysClosed
BY CheckoutIsSafe, PTL

(* Without faults no cart ends up closed with nothing to show for it: whoever closed it
   is still at work, or its order exists, for any number of concurrent checkouts.      *)
THEOREM ClosedCartsAreOrdered == Spec => []ClosedIsOrdered
BY CheckoutIsSafe, PTL
-----------------------------------------------------------------------------
(* OrderIsTheCart: what requests and POSTs remember of the items is what is there,
   unless the cart is touched.                                                    *)
Seen(c) == caller[c].saw

SawInv ==
  /\ \A c \in Caller : caller[c].pc = "create" => Seen(c) = {}
  /\ \A c \in Caller : caller[c].pc = "found" => cart[caller[c].cart] # None
  /\ \A c \in Caller : \A i \in Seen(c) : cartOf[i] \in {None, caller[c].cart}
  /\ \A c, d \in Caller : \A i \in Seen(c) \cap Seen(d) : caller[c].cart = caller[d].cart
  /\ \A c \in Caller :
       caller[c].pc = "found" /\ caller[c].op = "checkout" /\ caller[c].cart \notin touched
         => Seen(c) = itemsOf(caller[c].cart)

SentInv ==
  /\ \A i \in Item : cartOf[i] # None => cart[cartOf[i]] # None
  /\ \A p \in Post : post[p].state # "unused" =>
       /\ cart[post[p].cart] # None
       /\ post[p].cart \notin touched => post[p].items = itemsOf(post[p].cart)
  /\ \A p \in Post : order[p] # None => order[p].items = post[p].items

JInv == IInv /\ SawInv /\ SentInv

LEMMA ItemsInit == Init => SawInv /\ SentInv
BY DEF Init, SawInv, SentInv, Seen, Idle, NoPost

(* A step that writes no item and forgets or keeps what the requests have seen. *)
Forgetting ==
  \A c \in Caller :
    \/ caller'[c] = caller[c]
    \/ caller'[c].pc \notin {"create", "found"} /\ caller'[c].saw = {}

RowsStay == \A k \in Cart : cart[k] # None => cart'[k] # None

LEMMA ForgettingKeeps ==
  ASSUME JInv, cartOf' = cartOf, touched' = touched, RowsStay, Forgetting
  PROVE  SawInv'
<1>1. \A k : itemsOf(k)' = itemsOf(k)
  BY DEF itemsOf
<1>. QED
  BY <1>1 DEF JInv, IInv, ClaimInv, SawInv, Seen, Forgetting, RowsStay

LEMMA ItemWriteKeeps ==
  ASSUME JInv, NEW c \in Caller, NEW i \in Item,
         AddItem(c, i) \/ UpdateItem(c, i) \/ RemoveItem(c, i)
  PROVE  SawInv' /\ SentInv'
<1>. DEFINE k == caller[c].cart
<1>1. k \in Cart /\ Changing(c) /\ cart[k] # None
  BY DEF AddItem, UpdateItem, RemoveItem, Changing, At, JInv, IInv, ClaimInv, SawInv
<1>2. PICK n \in {None, k} : Write(c, i, n)
  BY DEF AddItem, UpdateItem, RemoveItem
<1>3. /\ \A d \in Caller \ {c} : caller'[d] = caller[d]
      /\ caller'[c].pc \in {"idle", "again"} /\ caller'[c].saw = {}
  BY DEF AddItem, UpdateItem, RemoveItem, Becomes, Idle, JInv, IInv, TypeOK
<1>4. /\ cartOf[i] \in {None, k}
      /\ \A d \in Caller : i \in Seen(d) => caller[d].cart = k
  BY DEF AddItem, UpdateItem, RemoveItem, IsNew, IsNext, JInv, SawInv, Seen
<1>5. cartOf'[i] = n /\ \A j \in Item \ {i} : cartOf'[j] = cartOf[j]
  BY <1>2 DEF Write, JInv, IInv, TypeOK
<1>6. \A j \in Cart \ {k} : itemsOf(j)' = itemsOf(j)
  BY <1>4, <1>5, NoneAssumption DEF itemsOf
<1>7. /\ touched \subseteq touched'
      /\ \A d \in Caller : caller[d].op = "checkout" /\ caller[d].cart = k => k \in touched'
      /\ \A p \in Post : post[p].cart = k => k \in touched'
      /\ UNCHANGED <<cart, post, order>>
  BY <1>2 DEF Write, Touch, postVars
<1>8. SawInv'
  <2>1. \A d \in Caller : \A j \in Seen(d)' : cartOf'[j] \in {None, caller'[d].cart}
    BY <1>3, <1>4, <1>5 DEF JInv, IInv, TypeOK, Request, Items, SawInv, Seen
  <2>2. \A d \in Caller :
          caller'[d].pc = "found" /\ caller'[d].op = "checkout" /\ caller'[d].cart \notin touched'
            => Seen(d)' = itemsOf(caller[d].cart)' /\ caller'[d].cart = caller[d].cart
    BY <1>3, <1>6, <1>7 DEF JInv, IInv, ClaimInv, SawInv, Seen
  <2>3. \A d \in Caller : caller'[d].pc = "create" => Seen(d)' = {}
    BY <1>3 DEF JInv, SawInv, Seen
  <2>4. \A d \in Caller : caller'[d].pc = "found" => cart'[caller'[d].cart] # None
    BY <1>3, <1>7 DEF JInv, SawInv
  <2>5. \A d, e \in Caller : \A j \in Seen(d)' \cap Seen(e)' : caller'[d].cart = caller'[e].cart
    BY <1>3 DEF JInv, SawInv, Seen
  <2>. QED
    BY <2>1, <2>2, <2>3, <2>4, <2>5, <1>3 DEF SawInv, Seen, itemsOf
<1>9. SentInv'
  <2>1. \A p \in Post : post[p].state # "unused" /\ post[p].cart \notin touched'
                      => post[p].items = itemsOf(post[p].cart)'
    BY <1>6, <1>7 DEF JInv, IInv, OrderInv, SentInv
  <2>. QED
    BY <1>1, <1>5, <1>7, <2>1 DEF JInv, SentInv, itemsOf
<1>. QED
  BY <1>8, <1>9

LEMMA SentKept ==
  ASSUME JInv, UNCHANGED <<cartOf, touched, post, order>>, RowsStay
  PROVE  SentInv'
<1>1. \A k : itemsOf(k)' = itemsOf(k)
  BY DEF itemsOf
<1>. QED
  BY <1>1 DEF JInv, IInv, TypeOK, OrderInv, SentInv, RowsStay

LEMMA CartStepKeepsItems ==
  ASSUME JInv, NEW c \in Caller, CartStep(c) \/ CheckoutSucceeds(c)
  PROVE  SawInv' /\ SentInv'
<1>1. caller[c] \in Request /\ caller \in [Caller -> Request] /\ cart \in [Cart -> {None, "ACTIVE", "CHECKED_OUT"}]
  BY DEF JInv, IInv, TypeOK
<1>2. CASE \E i \in Item : AddItem(c, i) \/ UpdateItem(c, i) \/ RemoveItem(c, i)
  BY <1>2, ItemWriteKeeps
<1>3. ASSUME NEW op \in Op, FindNone(c, op) PROVE SawInv' /\ SentInv'
  <2>1. /\ UNCHANGED <<cart, cartOf, touched, post, order>>
        /\ \A d \in Caller \ {c} : caller'[d] = caller[d]
        /\ caller'[c].pc = "create" /\ caller'[c].saw = {}
    BY <1>1, <1>3 DEF FindNone, Becomes, Idle, cartVars, postVars, ghostVars
  <2>2. \A k : itemsOf(k)' = itemsOf(k)
    BY <2>1 DEF itemsOf
  <2>3. SawInv'
    BY <2>1, <2>2 DEF JInv, SawInv, Seen
  <2>. QED
    BY <2>1, <2>3, SentKept DEF RowsStay
<1>4. ASSUME NEW op \in Op, NEW k \in Cart, FindActive(c, op, k) PROVE SawInv' /\ SentInv'
  <2>1. /\ UNCHANGED <<cart, cartOf, touched, post, order>> /\ cart[k] = "ACTIVE"
        /\ \A d \in Caller \ {c} : caller'[d] = caller[d]
        /\ caller'[c].pc = "found" /\ caller'[c].op = op /\ caller'[c].cart = k
        /\ caller'[c].saw = IF op = "get" THEN {} ELSE itemsOf(k)
    BY <1>1, <1>4 DEF FindActive, Becomes, Idle, cartVars, postVars, ghostVars
  <2>2. /\ \A j : itemsOf(j)' = itemsOf(j)
        /\ \A i \in caller'[c].saw : i \in Item /\ cartOf[i] = k
    BY <2>1 DEF itemsOf
  <2>3. \A d \in Caller \ {c} : \A i \in Seen(d) \cap caller'[c].saw : caller[d].cart = k
    BY <2>2, NoneAssumption DEF JInv, SawInv
  <2>4. SawInv'
    <3>1. \A d, e \in Caller : \A i \in Seen(d)' \cap Seen(e)' : caller'[d].cart = caller'[e].cart
      BY <2>1, <2>3 DEF JInv, SawInv, Seen
    <3>2. \A d \in Caller : \A i \in Seen(d)' : cartOf'[i] \in {None, caller'[d].cart}
      BY <2>1, <2>2 DEF JInv, SawInv, Seen
    <3>3. \A d \in Caller : caller'[d].pc = "found" => cart'[caller'[d].cart] # None
      BY <2>1, NoneAssumption DEF JInv, SawInv
    <3>. QED
      BY <2>1, <2>2, <3>1, <3>2, <3>3 DEF JInv, SawInv, Seen
  <2>. QED
    BY <2>1, <2>4, SentKept DEF RowsStay
<1>5. ASSUME NEW k \in Cart, CreateCart(c, k) PROVE SawInv' /\ SentInv'
  <2>1. /\ UNCHANGED <<cartOf, touched, post, order>> /\ cart[k] = None
        /\ cart' = [cart EXCEPT ![k] = "ACTIVE"]
        /\ \A d \in Caller \ {c} : caller'[d] = caller[d]
        /\ caller[c].pc = "create" /\ caller'[c].pc = "found" /\ caller'[c].cart = k
        /\ caller'[c].saw = Seen(c)
    BY <1>1, <1>5 DEF CreateCart, IsNext, Becomes, Request, At, Seen, postVars, ghostVars
  <2>2. cart'[k] # None /\ \A j \in Cart : cart[j] # None => cart'[j] # None
    BY <1>1, <2>1, NoneAssumption
  <2>3. /\ \A j : itemsOf(j)' = itemsOf(j)
        /\ itemsOf(k) = {} /\ caller'[c].saw = {}
    BY <2>1, NoneAssumption DEF itemsOf, JInv, SawInv, SentInv
  <2>4. SawInv'
    <3>1. \A d \in Caller : caller'[d].pc = "found" => cart'[caller'[d].cart] # None
      BY <2>1, <2>2 DEF JInv, IInv, ClaimInv, SawInv
    <3>2. /\ \A d \in Caller : caller'[d].pc = "create" => Seen(d)' = {}
          /\ \A d \in Caller : \A i \in Seen(d)' : cartOf'[i] \in {None, caller'[d].cart}
      BY <2>1, <2>3 DEF JInv, SawInv, Seen
    <3>3. \A d, e \in Caller : \A i \in Seen(d)' \cap Seen(e)' : caller'[d].cart = caller'[e].cart
      BY <2>1, <2>3 DEF JInv, SawInv, Seen
    <3>4. \A d \in Caller :
            caller'[d].pc = "found" /\ caller'[d].op = "checkout" /\ caller'[d].cart \notin touched'
              => caller'[d].saw = itemsOf(caller'[d].cart)
      BY <2>1, <2>3 DEF JInv, SawInv, Seen
    <3>. QED
      BY <2>1, <3>1, <3>2, <3>3, <3>4 DEF SawInv, Seen, itemsOf
  <2>. QED
    BY <2>1, <2>2, <2>4, SentKept DEF RowsStay
<1>6. CASE Return(c) \/ AlreadyCheckedOut(c) \/ RevertFails(c) \/ Revert(c) \/ CheckoutSucceeds(c)
  <2>1. /\ UNCHANGED <<cartOf, touched, post, order>>
        /\ \A d \in Caller \ {c} : caller'[d] = caller[d]
        /\ caller'[c].pc = "idle" /\ caller'[c].saw = {}
    BY <1>1, <1>6 DEF Return, AlreadyCheckedOut, RevertFails, Revert, CheckoutSucceeds, Becomes, Idle,
                      cartVars, postVars, ghostVars
  <2>2. RowsStay
    BY <1>1, <1>6, NoneAssumption DEF Return, AlreadyCheckedOut, RevertFails, Revert,
                                      CheckoutSucceeds, cartVars, RowsStay
  <2>3. Forgetting
    BY <2>1 DEF Forgetting
  <2>. QED
    BY <2>1, <2>2, <2>3, ForgettingKeeps, SentKept
<1>7. CASE CheckoutFails(c)
  <2>1. /\ UNCHANGED <<cart, cartOf, touched, post, order>>
        /\ \A d \in Caller \ {c} : caller'[d] = caller[d]
        /\ caller'[c].pc = "revert" /\ caller'[c].saw = Seen(c) /\ caller'[c].cart = caller[c].cart
    BY <1>1, <1>7 DEF CheckoutFails, Becomes, Request, Seen, cartVars, postVars, ghostVars
  <2>2. \A k : itemsOf(k)' = itemsOf(k)
    BY <2>1 DEF itemsOf
  <2>3. SawInv'
    BY <2>1, <2>2 DEF JInv, SawInv, Seen
  <2>. QED
    BY <2>1, <2>3, SentKept DEF RowsStay
<1>. QED
  BY <1>2, <1>3, <1>4, <1>5, <1>6, <1>7 DEF CartStep

LEMMA ClaimKeepsItems ==
  ASSUME JInv, NEW c \in Caller, NEW p \in Post, Claim(c, p)
  PROVE  SawInv' /\ SentInv'
<1>. DEFINE k == caller[c].cart
<1>1. /\ UNCHANGED <<cartOf, touched, order>> /\ k \in Cart
      /\ caller[c].pc = "found" /\ caller[c].op = "checkout"
      /\ cart' = [cart EXCEPT ![k] = "CHECKED_OUT"] /\ post[p] = NoPost
      /\ \A d \in Caller \ {c} : caller'[d] = caller[d]
      /\ caller'[c].pc = "waiting" /\ caller'[c].saw = {}
      /\ \A q \in Post \ {p} : post'[q] = post[q]
      /\ post'[p].cart = k /\ post'[p].items = Seen(c)
  BY DEF Claim, SendPost, IsNext, CheckingOut, At, Becomes, Seen, JInv, IInv, TypeOK, ClaimInv,
         Request, PostRow, ghostVars
<1>2. cart'[k] # None /\ \A j \in Cart : cart[j] # None => cart'[j] # None
  BY <1>1, NoneAssumption DEF JInv, IInv, TypeOK
<1>3. \A j : itemsOf(j)' = itemsOf(j)
  BY <1>1 DEF itemsOf
<1>4. SawInv'
  <2>1. Forgetting /\ RowsStay
    BY <1>1, <1>2 DEF Forgetting, RowsStay
  <2>. QED
    BY <1>1, <2>1, ForgettingKeeps
<1>5. k \notin touched => Seen(c) = itemsOf(k)
  BY <1>1 DEF JInv, SawInv
<1>6. order[p] = None
  BY <1>1 DEF NoPost, JInv, IInv, OrderInv
<1>7. SentInv'
  <2>1. \A i \in Item : cartOf'[i] # None => cart'[cartOf'[i]] # None
    BY <1>1, <1>2 DEF JInv, IInv, TypeOK, SentInv
  <2>2. \A q \in Post : post'[q].state # "unused" =>
          /\ cart'[post'[q].cart] # None
          /\ post'[q].cart \notin touched' => post'[q].items = itemsOf(post'[q].cart)
    BY <1>1, <1>2, <1>5 DEF JInv, IInv, OrderInv, SentInv
  <2>3. \A q \in Post : order'[q] # None => order'[q].items = post'[q].items
    BY <1>1, <1>6 DEF JInv, SentInv
  <2>. QED
    BY <1>1, <2>1, <2>2, <2>3 DEF SentInv, itemsOf
<1>. QED
  BY <1>4, <1>7

LEMMA PostStepKeepsItems ==
  ASSUME JInv, NEW p \in Post, PostStep(p)
  PROVE  SawInv' /\ SentInv'
<1>1. /\ post[p] \in PostRow /\ UNCHANGED <<cart, cartOf, caller, touched>>
      /\ \A q \in Post \ {p} : post'[q] = post[q] /\ order'[q] = order[q]
  BY DEF PostStep, LockKey, InsertOrder, ReturnExisting, PostFails, JInv, IInv, TypeOK, cartVars,
         ghostVars
<1>2. /\ post'[p].cart = post[p].cart /\ post'[p].items = post[p].items
      /\ post[p].state # "unused"
      /\ order'[p] = order[p] \/ order'[p].items = post[p].items
  BY <1>1 DEF PostStep, LockKey, InsertOrder, ReturnExisting, PostFails, JInv, IInv, TypeOK, PostRow
<1>3. \A k : itemsOf(k)' = itemsOf(k)
  BY <1>1 DEF itemsOf
<1>4. SawInv'
  <2>1. Forgetting /\ RowsStay
    BY <1>1 DEF Forgetting, RowsStay
  <2>. QED
    BY <1>1, <2>1, ForgettingKeeps
<1>5. SentInv'
  BY <1>1, <1>2, <1>3 DEF JInv, SentInv
<1>. QED
  BY <1>4, <1>5

LEMMA ItemsStep == JInv /\ [Next]_vars => JInv'
<1>. SUFFICES ASSUME JInv, [Next]_vars PROVE SawInv' /\ SentInv'
  BY StepPreserves DEF JInv
<1>1. CASE UNCHANGED vars
  <2>1. UNCHANGED <<cart, cartOf, caller, post, order, touched>>
    BY <1>1 DEF vars, cartVars, postVars, ghostVars
  <2>2. Forgetting /\ RowsStay
    BY <2>1 DEF Forgetting, RowsStay
  <2>. QED
    BY <2>1, <2>2, ForgettingKeeps, SentKept
<1>2. ASSUME NEW c \in Caller, CallerStep(c) PROVE SawInv' /\ SentInv'
  BY <1>2, CartStepKeepsItems, ClaimKeepsItems DEF CallerStep, CartStep
<1>3. ASSUME NEW p \in Post, PostStep(p) PROVE SawInv' /\ SentInv'
  BY <1>3, PostStepKeepsItems
<1>4. CASE Crash
  <2>1. /\ UNCHANGED <<cart, cartOf, post, order, touched>>
        /\ \A c \in Caller : caller'[c].pc = "idle" /\ caller'[c].saw = {}
    BY <1>4 DEF Crash, Idle, cartVars, postVars, ghostVars
  <2>2. Forgetting /\ RowsStay
    BY <2>1 DEF Forgetting, RowsStay
  <2>. QED
    BY <2>1, <2>2, ForgettingKeeps, SentKept
<1>. QED
  BY <1>1, <1>2, <1>3, <1>4 DEF Next

(* Unless its cart is changed while a checkout is under way, an order has all of the
   cart's items, whichever attempt created it and however many there were.           *)
THEOREM OrdersHaveAllItems == Spec => []OrderIsTheCart
<1>1. Spec => []JInv
  BY InitEstablishes, ItemsInit, ItemsStep, PTL DEF Spec, JInv
<1>2. JInv => OrderIsTheCart
  BY DEF JInv, IInv, OrderInv, SentInv, OrderIsTheCart
<1>. QED
  BY <1>1, <1>2, PTL
=============================================================================
