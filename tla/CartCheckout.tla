----------------------------- MODULE CartCheckout -----------------------------
(***************************************************************************)
(* cart-service and its checkout: the carts of one user, the requests that *)
(* read and change them side by side, and the POST /orders of a checkout,  *)
(* which order-service may still carry out after cart-service has given up *)
(* waiting for it.  Quantities and prices are left out.                    *)
(***************************************************************************)
EXTENDS FiniteSets, Naturals

CONSTANTS
  Cart,        \* ids of cart rows
  Item,        \* ids of cart_items rows
  Caller,      \* requests cart-service handles side by side
  Post,        \* ids of the POST /orders requests
  None,        \* null
  MaxFaults    \* bound: crashes of cart-service and reverts that fail

ASSUME IdsAssumption == Cart \subseteq Nat /\ Item \subseteq Nat /\ Post \subseteq Nat
ASSUME NoneAssumption ==
  /\ None \notin Cart \cup Item \cup Post
  /\ None \notin {"ACTIVE", "CHECKED_OUT"}
  /\ None \notin [idempotencyKey: Cart, items: SUBSET Item]
ASSUME FaultsAssumption == MaxFaults \in Nat

VARIABLES
  cart,        \* cart[k]: the status column, None while there is no such row
  cartOf,      \* cartOf[i]: the cart_id of item row i, None while there is no row
  caller,      \* caller[c]: the request in progress
  post,        \* post[p]: a POST /orders and how far order-service is with it
  order,       \* order[p]: the order that p inserted, None if it inserted none
  answered,    \* the carts whose checkout was answered with an order
  touched,     \* the carts whose items changed after a checkout had read them
  faults

cartVars == <<cart, cartOf>>
postVars == <<post, order>>
ghostVars == <<answered, touched>>
vars == <<cartVars, caller, postVars, ghostVars, faults>>

(* "change" stands for addItem, updateItemQuantity and removeItem until they write. *)
Op == {"get", "change", "checkout"}
Items == SUBSET Item

Idle == [pc |-> "idle", op |-> None, cart |-> None, saw |-> {}, post |-> None]
NoPost == [state |-> "unused", cart |-> None, items |-> {}, found |-> FALSE]

Request == [pc: {"idle", "again", "create", "found", "waiting", "revert"},
            op: Op \cup {None}, cart: Cart \cup {None}, saw: Items, post: Post \cup {None}]

PostRow == [state: {"unused", "sent", "locked", "done", "failed"},
            cart: Cart \cup {None}, items: Items, found: BOOLEAN]

TypeOK ==
  /\ cart \in [Cart -> {None, "ACTIVE", "CHECKED_OUT"}]
  /\ cartOf \in [Item -> Cart \cup {None}]
  /\ caller \in [Caller -> Request]
  /\ post \in [Post -> PostRow]
  /\ order \in [Post -> [idempotencyKey: Cart, items: Items] \cup {None}]
  /\ answered \subseteq Cart /\ touched \subseteq Cart
  /\ faults \in 0 .. MaxFaults

Init ==
  /\ cart = [k \in Cart |-> None]
  /\ cartOf = [i \in Item |-> None]
  /\ caller = [c \in Caller |-> Idle]
  /\ post = [p \in Post |-> NoPost]
  /\ order = [p \in Post |-> None]
  /\ answered = {} /\ touched = {}
  /\ faults = 0
-----------------------------------------------------------------------------
(* cart-service. *)

itemsOf(k) == {i \in Item : cartOf[i] = k}

Becomes(c, r) == caller' = [caller EXCEPT ![c] = r]

At(c, pc) == caller[c].pc = pc

(* Ids are arbitrary: the next one is the smallest that is free. *)
IsNext(n, Free) == n \in Free /\ \A m \in Free : n <= m

(* A new request, or the second look of one that has changed the items. *)
Starts(c, op) == At(c, "idle") \/ (At(c, "again") /\ op = "get")

(* findOrCreateActiveCartEntity(): any active cart, with its items. *)
FindActive(c, op, k) ==
  /\ Starts(c, op) /\ cart[k] = "ACTIVE"
  /\ Becomes(c, [Idle EXCEPT !.pc = "found", !.op = op, !.cart = k,
                             !.saw = IF op = "get" THEN {} ELSE itemsOf(k)])
  /\ UNCHANGED <<cartVars, postVars, ghostVars, faults>>

FindNone(c, op) ==
  /\ Starts(c, op) /\ \A k \in Cart : cart[k] # "ACTIVE"
  /\ Becomes(c, [Idle EXCEPT !.pc = "create", !.op = op])
  /\ UNCHANGED <<cartVars, postVars, ghostVars, faults>>

CreateCart(c, k) ==
  /\ At(c, "create") /\ IsNext(k, {j \in Cart : cart[j] = None})
  /\ cart' = [cart EXCEPT ![k] = "ACTIVE"]
  /\ Becomes(c, [caller[c] EXCEPT !.pc = "found", !.cart = k])
  /\ UNCHANGED <<cartOf, postVars, ghostVars, faults>>

(* The cart as it is, or a refusal: no such item (404), nothing to check out (400). *)
Return(c) ==
  /\ At(c, "found")
  /\ caller[c].op = "checkout" => caller[c].saw = {}
  /\ Becomes(c, Idle)
  /\ UNCHANGED <<cartVars, postVars, ghostVars, faults>>

(* A checkout has read cart k, now or before. *)
Touch(k) == IF \/ \E c \in Caller : caller[c].op = "checkout" /\ caller[c].cart = k
               \/ \E p \in Post : post[p].cart = k
            THEN touched' = touched \cup {k} ELSE UNCHANGED touched

(* A row that is not there and that no request remembers. *)
IsNew(i) == IsNext(i, {j \in Item : cartOf[j] = None /\ \A c \in Caller : j \notin caller[c].saw})

Changing(c) == At(c, "found") /\ caller[c].op = "change"

Write(c, i, k) ==
  /\ cartOf' = [cartOf EXCEPT ![i] = k]
  /\ Touch(caller[c].cart)
  /\ UNCHANGED <<cart, postVars, answered, faults>>

(* save() inserts a new row, or writes the row that was read, which a removal in
   between makes an insert of the same row.  The answer is getOrCreateActiveCart().  *)
AddItem(c, i) ==
  /\ Changing(c)
  /\ i \in caller[c].saw \/ IsNew(i)
  /\ Write(c, i, caller[c].cart)
  /\ Becomes(c, [Idle EXCEPT !.pc = "again"])

UpdateItem(c, i) ==
  /\ Changing(c) /\ i \in caller[c].saw
  /\ Write(c, i, caller[c].cart)
  /\ Becomes(c, Idle)

RemoveItem(c, i) ==
  /\ Changing(c) /\ i \in caller[c].saw
  /\ Write(c, i, None)
  /\ Becomes(c, [Idle EXCEPT !.pc = "again"])

CheckingOut(c) == At(c, "found") /\ caller[c].op = "checkout" /\ caller[c].saw # {}

SendPost(c, p) ==
  /\ IsNext(p, {q \in Post : post[q] = NoPost})
  /\ post' = [post EXCEPT ![p] = [state |-> "sent", cart |-> caller[c].cart,
                                  items |-> caller[c].saw, found |-> FALSE]]
  /\ Becomes(c, [caller[c] EXCEPT !.pc = "waiting", !.post = p, !.saw = {}])

(* Seeded bug: the claim empties the cart. *)
ClaimAndEmpty(c, p) ==
  /\ CheckingOut(c)
  /\ cart[caller[c].cart] = "ACTIVE"
  /\ cart' = [cart EXCEPT ![caller[c].cart] = "CHECKED_OUT"]
  /\ cartOf' = [i \in Item |-> IF cartOf[i] = caller[c].cart THEN None ELSE cartOf[i]]
  /\ SendPost(c, p)
  /\ UNCHANGED <<order, ghostVars, faults>>

(* Seeded bug: the UPDATE has no condition on the status. *)
ClaimAnyway(c, p) ==
  /\ CheckingOut(c)
  /\ cart' = [cart EXCEPT ![caller[c].cart] = "CHECKED_OUT"]
  /\ SendPost(c, p)
  /\ UNCHANGED <<cartOf, order, ghostVars, faults>>

(* UPDATE ... WHERE status = 'ACTIVE' matched the row, and the POST that follows it;
   a crash in between is the loss of the POST.                                      *)
Claim(c, p) ==
  /\ CheckingOut(c)
  /\ cart[caller[c].cart] = "ACTIVE"
  /\ cart' = [cart EXCEPT ![caller[c].cart] = "CHECKED_OUT"]
  /\ SendPost(c, p)
  /\ UNCHANGED <<cartOf, order, ghostVars, faults>>

(* It matched none: 409. *)
AlreadyCheckedOut(c) ==
  /\ CheckingOut(c) /\ cart[caller[c].cart] = "CHECKED_OUT"
  /\ Becomes(c, Idle)
  /\ UNCHANGED <<cartVars, postVars, ghostVars, faults>>

CheckoutSucceeds(c) ==
  /\ At(c, "waiting") /\ post[caller[c].post].state = "done"
  /\ answered' = answered \cup {caller[c].cart}
  /\ Becomes(c, Idle)
  /\ UNCHANGED <<cartVars, postVars, touched, faults>>

(* Seeded bug: the error is passed on without the revert. *)
FailWithoutRevert(c) ==
  /\ At(c, "waiting")
  /\ Becomes(c, Idle)
  /\ UNCHANGED <<cartVars, postVars, ghostVars, faults>>

(* An error, or no answer within ORDER_SERVICE_TIMEOUT_MS, however far it got. *)
CheckoutFails(c) ==
  /\ At(c, "waiting")
  /\ Becomes(c, [caller[c] EXCEPT !.pc = "revert"])
  /\ UNCHANGED <<cartVars, postVars, ghostVars, faults>>

Revert(c) ==
  /\ At(c, "revert")
  /\ cart' = [cart EXCEPT ![caller[c].cart] = "ACTIVE"]
  /\ Becomes(c, Idle)
  /\ UNCHANGED <<cartOf, postVars, ghostVars, faults>>

(* The database is not there for the revert, or cart-service dies. *)
RevertFails(c) ==
  /\ At(c, "revert")
  /\ faults < MaxFaults /\ faults' = faults + 1
  /\ Becomes(c, Idle)
  /\ UNCHANGED <<cartVars, postVars, ghostVars>>

Crash ==
  /\ faults < MaxFaults /\ faults' = faults + 1
  /\ \E c \in Caller : caller[c] # Idle
  /\ caller' = [c \in Caller |-> Idle]
  /\ UNCHANGED <<cartVars, postVars, ghostVars>>
-----------------------------------------------------------------------------
(* createOrder of order-service, one transaction under an advisory lock. *)

Ordered(k) == \E p \in Post : order[p] # None /\ order[p].idempotencyKey = k

Locked(k) == \E p \in Post : post[p].state = "locked" /\ post[p].cart = k

(* Seeded bug: the existing order is looked up before the lock is taken. *)
FindUnlocked(p) ==
  /\ post[p].state = "sent"
  /\ post' = [post EXCEPT ![p].state = "locked", ![p].found = Ordered(post[p].cart)]
  /\ UNCHANGED <<cartVars, caller, order, ghostVars, faults>>

LockKey(p) ==
  /\ post[p].state = "sent" /\ ~Locked(post[p].cart)
  /\ post' = [post EXCEPT ![p].state = "locked", ![p].found = Ordered(post[p].cart)]
  /\ UNCHANGED <<cartVars, caller, order, ghostVars, faults>>

InsertOrder(p) ==
  /\ post[p].state = "locked" /\ ~post[p].found
  /\ post' = [post EXCEPT ![p].state = "done"]
  /\ order' = [order EXCEPT ![p] = [idempotencyKey |-> post[p].cart, items |-> post[p].items]]
  /\ UNCHANGED <<cartVars, caller, ghostVars, faults>>

ReturnExisting(p) ==
  /\ post[p].state = "locked" /\ post[p].found
  /\ post' = [post EXCEPT ![p].state = "done"]
  /\ UNCHANGED <<cartVars, caller, order, ghostVars, faults>>

(* The request is lost on its way, or its transaction is rolled back. *)
PostFails(p) ==
  /\ post[p].state \in {"sent", "locked"}
  /\ post' = [post EXCEPT ![p].state = "failed"]
  /\ UNCHANGED <<cartVars, caller, order, ghostVars, faults>>
-----------------------------------------------------------------------------
CallerStep(c) ==
  \/ \E op \in Op : FindNone(c, op) \/ \E k \in Cart : FindActive(c, op, k)
  \/ \E k \in Cart : CreateCart(c, k)
  \/ \E i \in Item : AddItem(c, i) \/ UpdateItem(c, i) \/ RemoveItem(c, i)
  \/ \E p \in Post : Claim(c, p)
  \/ Return(c) \/ AlreadyCheckedOut(c)
  \/ CheckoutSucceeds(c) \/ CheckoutFails(c) \/ Revert(c) \/ RevertFails(c)

PostStep(p) == LockKey(p) \/ InsertOrder(p) \/ ReturnExisting(p) \/ PostFails(p)

Next == \/ \E c \in Caller : CallerStep(c)
        \/ \E p \in Post : PostStep(p)
        \/ Crash

Spec == Init /\ [][Next]_vars

(* A checkout that has claimed its cart is answered or times out, and reverts. *)
Settle(c) == CheckoutSucceeds(c) \/ CheckoutFails(c) \/ Revert(c)

FairSpec == Spec /\ \A c \in Caller : WF_vars(Settle(c))
-----------------------------------------------------------------------------
(* Properties. *)

(* Whatever times out, is clicked twice, retried or carried out late, no cart is
   ordered twice.  This is what the idempotency key and its advisory lock are for. *)
OneOrderPerCart ==
  \A p, q \in Post :
    order[p] # None /\ order[q] # None /\ p # q
      => order[p].idempotencyKey # order[q].idempotencyKey

(* A cart whose checkout was answered with an order is not opened again by another
   checkout that gives up on it.                                                    *)
AnsweredStaysClosed == \A k \in answered : cart[k] = "CHECKED_OUT" /\ Ordered(k)

(* The claim and its release leave no cart closed without an order, once the
   checkout that claimed it is over and nothing crashed.                        *)
ClosedIsOrdered ==
  faults = 0 => \A k \in Cart :
    cart[k] = "CHECKED_OUT" =>
      Ordered(k) \/ \E c \in Caller : caller[c].cart = k /\ caller[c].pc \in {"waiting", "revert"}

(* "the cart stays retryable with its original items": unless the customer changes
   the cart while a checkout is under way, the order has all of its items, whichever
   of several attempts created it.                                                   *)
OrderIsTheCart ==
  \A p \in Post : LET o == order[p] IN
    o # None /\ o.idempotencyKey \notin touched => o.items = itemsOf(o.idempotencyKey)

(* A claimed cart gets its order or is released, whatever order-service does. *)
ClaimSettles ==
  \A k \in Cart : cart[k] = "CHECKED_OUT" ~> Ordered(k) \/ cart[k] = "ACTIVE" \/ faults > 0
=============================================================================
