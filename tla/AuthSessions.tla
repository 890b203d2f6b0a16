----------------------------- MODULE AuthSessions -----------------------------
(***************************************************************************)
(* The session of one user: the refresh tokens of auth-service and the     *)
(* browser tabs that hold them.  A tab reads localStorage once, when its   *)
(* page loads, and writes it with every change of its own store, so tabs   *)
(* do not learn of each other's tokens.  An access token is named by the   *)
(* refresh token it was issued with.                                       *)
(***************************************************************************)
EXTENDS FiniteSets, Naturals

CONSTANTS
  Tab,        \* browser tabs
  Request,    \* authenticated requests that run side by side
  TabOf,      \* TabOf[r]: the tab that sends request r
  Pair,       \* access and refresh tokens issued together
  Call,       \* ids of the POST /auth/refresh calls
  None,       \* null
  MaxFaults   \* bound: refresh calls that get no answer

ASSUME TabOfAssumption == TabOf \in [Request -> Tab]
ASSUME IdsAssumption == Pair \subseteq Nat /\ Call \subseteq Nat
ASSUME NoneAssumption ==
  /\ None \notin Tab \cup Pair \cup Call
  /\ None \notin {"live", "revoked", "me"}
ASSUME RevokersAssumption == {"logout", "gone"} \cap Tab = {}
ASSUME FaultsAssumption == MaxFaults \in Nat

VARIABLES
  row,         \* row[p]: the row of the refresh token, None before it is issued
  parent,      \* parent[p]: the token p was issued for, None at a login
  revokers,    \* revokers[p]: the tabs whose refresh revoked p, "logout", "gone" page
  mem,         \* mem[b]: the store of tab b
  disk,        \* localStorage
  req,         \* req[r]: the request and the tokens it carries
  refreshing,  \* refreshing[b]: refreshPromise, the call it waits for
  call,        \* call[k]: POST /auth/refresh and how far auth-service is with it
  putBack,     \* history of putBack[b]: tokens b exchanged and its login page stored again
  faults

tokenVars == <<row, parent, revokers>>
storeVars == <<mem, disk>>
vars == <<tokenVars, storeVars, req, refreshing, call, putBack, faults>>

NoSession == [pair |-> None, user |-> FALSE]
Idle == [pc |-> "idle", kind |-> None, bearer |-> FALSE, body |-> None]
NoCall == [pc |-> "unused", tab |-> None, pair |-> None, child |-> None]
Session == [pair: Pair \cup {None}, user: BOOLEAN]

ReqRow == [pc: {"idle", "sent", "waiting", "resent"}, kind: {"api", "me", "logout", None},
           bearer: BOOLEAN, body: Pair \cup {None}]

CallRow == [pc: {"unused", "sent", "found", "revoked", "done", "refused", "lost"},
            tab: Tab \cup {None}, pair: Pair \cup {None}, child: Pair \cup {None}]

TypeOK ==
  /\ row \in [Pair -> {None, "live", "revoked"}]
  /\ parent \in [Pair -> Pair \cup {None}]
  /\ revokers \in [Pair -> SUBSET (Tab \cup {"logout", "gone"})]
  /\ mem \in [Tab -> Session] /\ disk \in Session
  /\ req \in [Request -> ReqRow]
  /\ refreshing \in [Tab -> Call \cup {None}]
  /\ call \in [Call -> CallRow]
  /\ putBack \in [Tab -> SUBSET Pair]
  /\ faults \in 0 .. MaxFaults

Init ==
  /\ row = [p \in Pair |-> None] /\ parent = [p \in Pair |-> None]
  /\ revokers = [p \in Pair |-> {}]
  /\ mem = [b \in Tab |-> NoSession] /\ disk = NoSession
  /\ req = [r \in Request |-> Idle]
  /\ refreshing = [b \in Tab |-> None]
  /\ call = [k \in Call |-> NoCall]
  /\ putBack = [b \in Tab |-> {}]
  /\ faults = 0

IsNext(n, Free) == n \in Free /\ \A m \in Free : n <= m
-----------------------------------------------------------------------------
(* auth-service. *)

(* issueTokenPair() and persistRefreshToken().  The tokens a registration issues are
   left out, for the page does not keep them.                                        *)
Issue(p, of) ==
  /\ IsNext(p, {q \in Pair : row[q] = None})
  /\ row' = [row EXCEPT ![p] = "live"]
  /\ parent' = [parent EXCEPT ![p] = of]

(* Bound on what is begun: the refreshes under way find tokens to issue. *)
TokensLeft ==
  Cardinality({p \in Pair : row[p] = None})
    > Cardinality({k \in Call : call[k].pc \in {"sent", "found", "revoked"}})

(* verifyAccessToken(), at the gateway and in JwtAuthGuard.  Time is left out: any
   access token may be found expired whenever it is used.                       *)
MayBeValid(r) == req[r].bearer

(* refresh() in its three database accesses; they are not one transaction. *)
FindStored(k) ==
  /\ call[k].pc = "sent"
  /\ call' = [call EXCEPT ![k].pc = IF row[call[k].pair] = "live" THEN "found" ELSE "refused"]
  /\ UNCHANGED <<tokenVars, storeVars, req, refreshing, putBack, faults>>

Revoke(p, by) == /\ row' = [row EXCEPT ![p] = "revoked"]
                 /\ revokers' = [revokers EXCEPT ![p] = @ \cup {by}]

RevokeStored(k) ==
  /\ call[k].pc = "found"
  /\ Revoke(call[k].pair, IF call[k].tab = None THEN "gone" ELSE call[k].tab)
  /\ call' = [call EXCEPT ![k].pc = "revoked"]
  /\ UNCHANGED <<parent, storeVars, req, refreshing, putBack, faults>>

(* Seeded bug: the new token is persisted while the old one is not revoked yet. *)
PersistFirst(k, p) ==
  /\ call[k].pc = "found"
  /\ Issue(p, call[k].pair)
  /\ call' = [call EXCEPT ![k].pc = "done", ![k].child = p]
  /\ UNCHANGED <<revokers, storeVars, req, refreshing, putBack, faults>>

PersistRotated(k, p) ==
  /\ call[k].pc = "revoked"
  /\ Issue(p, call[k].pair)
  /\ call' = [call EXCEPT ![k].pc = "done", ![k].child = p]
  /\ UNCHANGED <<revokers, storeVars, req, refreshing, putBack, faults>>

(* auth-service breaks down between its writes.  RefreshFails() has the page lose the
   call before or after them.                                                        *)
CallLost(k) ==
  /\ call[k].pc \in {"found", "revoked"}
  /\ call[k].tab # None /\ refreshing[call[k].tab] = k
  /\ faults < MaxFaults /\ faults' = faults + 1
  /\ call' = [call EXCEPT ![k].pc = "lost"]
  /\ UNCHANGED <<tokenVars, storeVars, req, refreshing, putBack>>
-----------------------------------------------------------------------------
(* The store: every set() is written to localStorage. *)

Set(b, session) == mem' = [mem EXCEPT ![b] = session] /\ disk' = session

clearAuth(b) == Set(b, NoSession)
(* Seeded bug: the store keeps the refresh token it has. *)
KeepTokens(b, p) == Set(b, mem[b])

setTokens(b, p) == Set(b, [mem[b] EXCEPT !.pair = p])

Of(b) == {r \in Request : TabOf[r] = b}

(* The tokens page b has sent to /auth/refresh. *)
Spent(b) == {call[k].pair : k \in {j \in Call : call[j].tab = b}}

(* The page is loaded again, or opened: what ran in it is gone. *)
Reload(b) ==
  /\ mem' = [mem EXCEPT ![b] = disk]
  /\ req' = [r \in Request |-> IF r \in Of(b) THEN Idle ELSE req[r]]
  /\ refreshing' = [refreshing EXCEPT ![b] = None]
  /\ call' = [k \in Call |-> IF call[k].tab = b THEN [call[k] EXCEPT !.tab = None] ELSE call[k]]
  /\ revokers' = [p \in Pair |-> IF b \in revokers[p] THEN (revokers[p] \ {b}) \cup {"gone"}
                                                      ELSE revokers[p]]
  /\ putBack' = [putBack EXCEPT ![b] = {}]
  /\ UNCHANGED <<row, parent, disk, faults>>
-----------------------------------------------------------------------------
(* Requests. *)

Becomes(r, q) == req' = [req EXCEPT ![r] = q]
Done(r) == Becomes(r, Idle)

Sent(kind, p, body) == [pc |-> "sent", kind |-> kind, bearer |-> p # None, body |-> body]

(* A page asks when it is mounted, polls, or acts on a click; some ask before
   useRequireAuth() has sent a tab without a user to /login.                  *)
Send(r) ==
  /\ req[r] = Idle
  /\ Becomes(r, Sent("api", mem[TabOf[r]].pair, None))
  /\ UNCHANGED <<tokenVars, storeVars, refreshing, call, putBack, faults>>

(* The login page, from the answer of /auth/login: the tokens go to the store first,
   then me() is asked.  The tab may have a user, a refresh under way and requests
   without an answer, other logins among them; nothing calls those off.              *)
Login(r, p) ==
  /\ req[r] = Idle
  /\ Issue(p, None) /\ TokensLeft
  /\ setTokens(TabOf[r], p)
  /\ Becomes(r, Sent("me", p, p))
  /\ UNCHANGED <<revokers, refreshing, call, putBack, faults>>

(* handleLogout(): the body keeps the refresh token of the moment of the click. *)
Logout(r) ==
  /\ req[r] = Idle /\ mem[TabOf[r]].user
  /\ LET p == mem[TabOf[r]].pair IN Becomes(r, Sent("logout", p, p))
  /\ UNCHANGED <<tokenVars, storeVars, refreshing, call, putBack, faults>>

Arrived(r) == req[r].pc \in {"sent", "resent"}

Answered(r) ==
  /\ Arrived(r) /\ req[r].kind = "api" /\ MayBeValid(r)
  /\ Done(r)
  /\ UNCHANGED <<tokenVars, storeVars, refreshing, call, putBack, faults>>

(* setAuth() with the tokens of the login, whatever the store holds by then. *)
LoggedIn(r) ==
  /\ Arrived(r) /\ req[r].kind = "me" /\ MayBeValid(r)
  /\ LET b == TabOf[r] IN
       /\ Set(b, [pair |-> req[r].body, user |-> TRUE])
       /\ putBack' = [putBack EXCEPT ![b] =
                        @ \cup ({req[r].body} \cap (Spent(b) \ {mem[b].pair}))]
  /\ Done(r)
  /\ UNCHANGED <<tokenVars, refreshing, call, faults>>

(* logout() of auth-service revokes the token of the body if it is not revoked yet. *)
LoggedOut(r) ==
  /\ Arrived(r) /\ req[r].kind = "logout" /\ MayBeValid(r)
  /\ IF row[req[r].body] = "live" THEN Revoke(req[r].body, "logout")
                                  ELSE UNCHANGED <<row, revokers>>
  /\ clearAuth(TabOf[r])
  /\ Done(r)
  /\ UNCHANGED <<parent, refreshing, call, putBack, faults>>

(* No answer, or an error other than 401; a logout clears the store all the same. *)
RequestFails(r) ==
  /\ Arrived(r)
  /\ IF req[r].kind = "logout" THEN clearAuth(TabOf[r]) ELSE UNCHANGED storeVars
  /\ Done(r)
  /\ UNCHANGED <<tokenVars, refreshing, call, putBack, faults>>

Unauthorized(r, pc) == req[r].pc = pc

Wait(r) == Becomes(r, [req[r] EXCEPT !.pc = "waiting"])

(* A first 401 waits for the refresh that is under way, or starts one. *)
JoinRefresh(r) ==
  /\ Unauthorized(r, "sent") /\ refreshing[TabOf[r]] # None
  /\ Wait(r)
  /\ UNCHANGED <<tokenVars, storeVars, refreshing, call, putBack, faults>>

(* Seeded bug: every 401 starts a refresh of its own. *)
StartAlways(r, k) ==
  /\ Unauthorized(r, "sent")
  /\ mem[TabOf[r]].pair # None
  /\ TokensLeft /\ IsNext(k, {j \in Call : call[j] = NoCall})
  /\ call' = [call EXCEPT ![k] = [pc |-> "sent", tab |-> TabOf[r],
                                  pair |-> mem[TabOf[r]].pair, child |-> None]]
  /\ refreshing' = [refreshing EXCEPT ![TabOf[r]] = k]
  /\ Wait(r)
  /\ UNCHANGED <<tokenVars, storeVars, putBack, faults>>

StartRefresh(r, k) ==
  /\ Unauthorized(r, "sent")
  /\ refreshing[TabOf[r]] = None /\ mem[TabOf[r]].pair # None
  /\ TokensLeft /\ IsNext(k, {j \in Call : call[j] = NoCall})
  /\ call' = [call EXCEPT ![k] = [pc |-> "sent", tab |-> TabOf[r],
                                  pair |-> mem[TabOf[r]].pair, child |-> None]]
  /\ refreshing' = [refreshing EXCEPT ![TabOf[r]] = k]
  /\ Wait(r)
  /\ UNCHANGED <<tokenVars, storeVars, putBack, faults>>

(* Nothing to refresh with, or a 401 for the second time. *)
SessionExpires(r) ==
  /\ \/ Unauthorized(r, "sent") /\ refreshing[TabOf[r]] = None /\ mem[TabOf[r]].pair = None
     \/ Unauthorized(r, "resent")
  /\ clearAuth(TabOf[r])
  /\ Done(r)
  /\ UNCHANGED <<tokenVars, refreshing, call, putBack, faults>>

Waiting(b) == {r \in Of(b) : req[r].pc = "waiting"}

(* Seeded bug: only one of those that wait is told. *)
OneGoesOn(b) ==
  /\ refreshing[b] # None /\ call[refreshing[b]].pc = "done"
  /\ setTokens(b, call[refreshing[b]].child)
  /\ \E r \in Waiting(b) : Becomes(r, [req[r] EXCEPT !.pc = "resent", !.bearer = TRUE])
  /\ refreshing' = [refreshing EXCEPT ![b] = None]
  /\ UNCHANGED <<tokenVars, call, putBack, faults>>

(* The promise resolves: all that waited go on before anything else runs. *)
RefreshSucceeds(b) ==
  /\ refreshing[b] # None /\ call[refreshing[b]].pc = "done"
  /\ setTokens(b, call[refreshing[b]].child)
  /\ req' = [r \in Request |-> IF r \in Waiting(b)
                                THEN [req[r] EXCEPT !.pc = "resent", !.bearer = TRUE]
                                ELSE req[r]]
  /\ refreshing' = [refreshing EXCEPT ![b] = None]
  /\ UNCHANGED <<tokenVars, call, putBack, faults>>

(* The promise resolves to false: refused, broken down, or the page lost the connection
   and auth-service carries the call out all the same.                                  *)
RefreshFails(b) ==
  /\ refreshing[b] # None
  /\ \/ call[refreshing[b]].pc \in {"refused", "lost"} /\ UNCHANGED faults
     \/ faults < MaxFaults /\ faults' = faults + 1
  /\ clearAuth(b)
  /\ req' = [r \in Request |-> IF r \in Waiting(b) THEN Idle ELSE req[r]]
  /\ refreshing' = [refreshing EXCEPT ![b] = None]
  /\ UNCHANGED <<tokenVars, call, putBack>>
-----------------------------------------------------------------------------
Settle(r) == \/ Answered(r) \/ LoggedIn(r) \/ LoggedOut(r) \/ RequestFails(r)
             \/ JoinRefresh(r) \/ SessionExpires(r)
             \/ \E k \in Call : StartRefresh(r, k)

CallStep(k) == \/ FindStored(k) \/ RevokeStored(k)
               \/ \E p \in Pair : PersistRotated(k, p)

RefreshStep(b) == RefreshSucceeds(b) \/ RefreshFails(b)

Next ==
  \/ \E r \in Request : Settle(r) \/ Send(r) \/ Logout(r) \/ \E p \in Pair : Login(r, p)
  \/ \E k \in Call : CallStep(k) \/ CallLost(k)
  \/ \E b \in Tab : RefreshStep(b) \/ Reload(b)

Spec == Init /\ [][Next]_vars

(* auth-service carries its calls out or they break down, and a promise that is
   settled goes on.                                                              *)
FairSpec == /\ Spec
            /\ \A k \in Call : WF_vars(CallStep(k))
            /\ \A b \in Tab : WF_vars(RefreshStep(b))
-----------------------------------------------------------------------------
(* Properties. *)

(* "Dedupes concurrent 401s into a single /auth/refresh call": however requests,
   refreshes, lost answers, logouts and logins interleave, no refresh is refused only
   because the same page has refreshed with that token before, unless its login page
   put that token back over the one it was exchanged for.                             *)
NeverRefusedByItself ==
  \A k \in Call : LET b == call[k].tab  p == call[k].pair IN
    call[k].pc = "refused" /\ b # None => revokers[p] # {b} \/ p \in putBack[b]

(* A page that is not refreshing does not sit on a refresh token that it has itself
   sent to /auth/refresh, with the same single exception.                            *)
HoldsNoUsedToken ==
  \A b \in Tab : LET p == mem[b].pair IN
    refreshing[b] = None /\ p \in Spent(b) => p \in putBack[b]

(* The same without the exception, which setAuth() of the login page breaks: no run
   checks it.                                                                        *)
LoginStoresFreshTokens == \A b \in Tab : putBack[b] = {}

(* A refresh token that was exchanged for another is revoked for good, also when
   auth-service fails between the two writes.                                       *)
ExchangedIsRevoked ==
  \A p \in Pair : parent[p] # None => row[parent[p]] = "revoked"

(* No request hangs on a refresh. *)
RequestsSettle == \A r \in Request : req[r].pc = "waiting" ~> req[r].pc # "waiting"
=============================================================================
