-------------------------- MODULE AuthSessionsProofs --------------------------
(***************************************************************************)
(* The session for any number of tabs, requests, tokens, calls and faults. *)
(* A refresh token that no page holds yet is revoked by nobody (TokenInv), *)
(* a page that revoked a token did so by a call of its own (CallInv), and  *)
(* a token that a page holds is new to it, or in the refresh it waits for, *)
(* or put back by its login page (TabInv).                                 *)
(***************************************************************************)
EXTENDS AuthSessions, TLAPS

(* A page, localStorage or a message has the token. *)
Held(p) == \/ disk.pair = p
           \/ \E b \in Tab : mem[b].pair = p
           \/ \E k \in Call : call[k].pair = p
           \/ \E r \in Request : req[r].body = p

Unissued == \A p \in Pair : row[p] = None =>
              revokers[p] = {} /\ ~Held(p) /\ \A k \in Call : call[k].child # p

RevokedFirst == \A k \in Call : call[k].pc = "revoked" => row[call[k].pair] = "revoked"

TokenInv == Unissued /\ RevokedFirst /\ ExchangedIsRevoked

CallShape == /\ \A k \in Call : call[k].pc # "unused" => call[k].pair \in Pair
             /\ \A k \in Call : call[k].pc = "unused" => call[k].tab = None
             /\ \A b \in Tab : refreshing[b] # None => call[refreshing[b]].tab = b

Revoking(k) == call[k].pc \in {"revoked", "done", "lost"}

RevokedByCall ==
  \A b \in Tab, p \in Pair : b \in revokers[p] =>
    \E k \in Call : call[k].tab = b /\ call[k].pair = p /\ Revoking(k)

OnceEach ==
  \A j, k \in Call :
    j # k /\ call[j].tab = call[k].tab /\ call[k].tab # None /\ call[j].pair = call[k].pair
      => call[k].pair \in putBack[call[k].tab]

CallInv == CallShape /\ RevokedByCall /\ OnceEach

(* The token a refresh was answered with, until its page has it. *)
Answer(k) == call[k].tab # None /\ call[k].pc = "done" /\ refreshing[call[k].tab] = k

AnswerInv ==
  \A k \in Call : Answer(k) =>
    /\ call[k].child \in Pair /\ ~Held(call[k].child)
    /\ \A j \in Call \ {k} : call[j].child # call[k].child

Asked(b, k) == call[k].tab = b /\ call[k].pair = mem[b].pair

TabInv ==
  \A b \in Tab, k \in Call : Asked(b, k) =>
    \/ mem[b].pair \in putBack[b]
    \/ refreshing[b] # None /\ call[refreshing[b]].pair = mem[b].pair

IInv == TypeOK /\ TokenInv /\ CallInv /\ AnswerInv /\ TabInv
-----------------------------------------------------------------------------
(* A row of a table of rows, with a field changed. *)
LEMMA CallMoves ==
  ASSUME NEW c \in CallRow, NEW s \in {"sent", "found", "revoked", "done", "refused", "lost"}
  PROVE  /\ [c EXCEPT !.pc = s] \in CallRow
         /\ [c EXCEPT !.tab = None] \in CallRow
         /\ \A p \in Pair : [c EXCEPT !.pc = s, !.child = p] \in CallRow
BY DEF CallRow

LEMMA ReqMoves ==
  ASSUME NEW q \in ReqRow
  PROVE  /\ [q EXCEPT !.pc = "waiting"] \in ReqRow
         /\ [q EXCEPT !.pc = "resent", !.bearer = TRUE] \in ReqRow
         /\ [q EXCEPT !.pc = "waiting"].body = q.body
         /\ [q EXCEPT !.pc = "resent", !.bearer = TRUE].body = q.body
BY DEF ReqRow

LEMMA RevokedByCallStays ==
  ASSUME RevokedByCall, UNCHANGED <<call, revokers>>
  PROVE  RevokedByCall'
BY DEF RevokedByCall, Revoking

USE NoneAssumption, RevokersAssumption, TabOfAssumption, FaultsAssumption
USE DEF tokenVars, storeVars, Idle, NoSession, Session

LEMMA InitEstablishes == Init => IInv
<1>. SUFFICES ASSUME Init PROVE IInv
  OBVIOUS
<1>1. TypeOK
  BY DEF Init, TypeOK, ReqRow, CallRow, NoCall
<1>2. TokenInv
  <2>1. \A p \in Pair : ~Held(p)
    BY DEF Init, Held, NoCall
  <2>2. \A p \in Pair : row[p] = None /\ parent[p] = None /\ revokers[p] = {}
    BY DEF Init
  <2>3. \A k \in Call : call[k].pc = "unused" /\ call[k].child = None
    BY DEF Init, NoCall
  <2>. QED
    BY <2>1, <2>2, <2>3 DEF TokenInv, Unissued, RevokedFirst, ExchangedIsRevoked
<1>3. CallInv
  BY DEF Init, CallInv, CallShape, RevokedByCall, OnceEach, NoCall
<1>4. AnswerInv /\ TabInv
  BY DEF Init, AnswerInv, Answer, TabInv, Asked, NoCall
<1>. QED
  BY <1>1, <1>2, <1>3, <1>4 DEF IInv
-----------------------------------------------------------------------------
(* auth-service. *)
LEMMA FindStoredPreserves ==
  ASSUME IInv, NEW k \in Call, FindStored(k)
  PROVE  IInv'
<1>. USE DEF IInv, FindStored
<1>1. TypeOK'
  <2>1. PICK s \in {"found", "refused"} : call' = [call EXCEPT ![k].pc = s]
    OBVIOUS
  <2>2. [call[k] EXCEPT !.pc = s] \in CallRow
    BY CallMoves DEF TypeOK
  <2>3. call' \in [Call -> CallRow]
    BY <2>1, <2>2 DEF TypeOK
  <2>. QED
    BY <2>3 DEF TypeOK
<1>2. TokenInv'
  <2>1. Unissued'
    BY DEF TokenInv, Unissued, Held, TypeOK, CallInv, CallShape
  <2>2. RevokedFirst'
    BY DEF TokenInv, RevokedFirst, TypeOK, CallInv, CallShape
  <2>3. ExchangedIsRevoked'
    BY DEF TokenInv, ExchangedIsRevoked, RevokedFirst, Unissued, TypeOK
  <2>. QED
    BY <2>1, <2>2, <2>3 DEF TokenInv
<1>3. CallInv'
  <2>1. CallShape'
    BY DEF CallInv, CallShape, TypeOK, CallRow
  <2>2. RevokedByCall'
    <3>. SUFFICES ASSUME NEW b \in Tab, NEW q \in Pair, b \in revokers[q]
                  PROVE  \E j \in Call : call'[j].tab = b /\ call'[j].pair = q /\ Revoking(j)'
      BY DEF RevokedByCall
    <3>1. PICK j \in Call : call[j].tab = b /\ call[j].pair = q /\ Revoking(j)
      BY DEF CallInv, RevokedByCall
    <3>2. call'[j].tab = b /\ call'[j].pair = q /\ Revoking(j)'
      BY <3>1 DEF Revoking, TypeOK, CallRow
    <3>. QED
      BY <3>2
  <2>3. OnceEach'
    BY DEF CallInv, OnceEach, CallShape, TypeOK, CallRow
  <2>. QED
    BY <2>1, <2>2, <2>3 DEF CallInv
<1>4. AnswerInv'
  BY DEF TypeOK, AnswerInv, Answer, Held, TokenInv, Unissued, CallInv, CallShape
<1>5. TabInv'
  BY DEF TypeOK, TabInv, Asked, CallInv, CallShape, AnswerInv, Answer, TokenInv, Unissued, Held
<1>. QED
  BY <1>1, <1>2, <1>3, <1>4, <1>5

LEMMA RevokeStoredPreserves ==
  ASSUME IInv, NEW k \in Call, RevokeStored(k)
  PROVE  IInv'
<1>. USE DEF IInv, RevokeStored, Revoke
<1>1. TypeOK'
  <2>1. call' \in [Call -> CallRow]
    BY CallMoves DEF TypeOK
  <2>2. call[k].tab \in Tab \cup {None}
    BY DEF TypeOK, CallRow
  <2>3. revokers' \in [Pair -> SUBSET (Tab \cup {"logout", "gone"})]
    BY <2>2 DEF TypeOK
  <2>. QED
    BY <2>1, <2>3 DEF TypeOK
<1>2. TokenInv'
  <2>1. Unissued'
    BY DEF TokenInv, Unissued, Held, TypeOK, CallInv, CallShape
  <2>2. RevokedFirst'
    BY DEF TokenInv, RevokedFirst, TypeOK, CallInv, CallShape
  <2>3. ExchangedIsRevoked'
    BY DEF TokenInv, ExchangedIsRevoked, RevokedFirst, Unissued, TypeOK
  <2>. QED
    BY <2>1, <2>2, <2>3 DEF TokenInv
<1>3. CallInv'
  <2>1. CallShape'
    BY DEF CallInv, CallShape, TypeOK, CallRow
  <2>2. RevokedByCall'
    BY DEF CallInv, RevokedByCall, Revoking, CallShape, TypeOK, CallRow
  <2>3. OnceEach'
    BY DEF CallInv, OnceEach, CallShape, TypeOK, CallRow
  <2>. QED
    BY <2>1, <2>2, <2>3 DEF CallInv
<1>4. AnswerInv'
  BY DEF TypeOK, AnswerInv, Answer, Held, TokenInv, Unissued, CallInv, CallShape
<1>5. TabInv'
  BY DEF TypeOK, TabInv, Asked, CallInv, CallShape, AnswerInv, Answer, TokenInv, Unissued, Held
<1>. QED
  BY <1>1, <1>2, <1>3, <1>4, <1>5

LEMMA PersistRotatedPreserves ==
  ASSUME IInv, NEW k \in Call, NEW p \in Pair, PersistRotated(k, p)
  PROVE  IInv'
<1>. USE DEF IInv, PersistRotated, Issue, IsNext
<1>1. TypeOK'
  <2>1. call' \in [Call -> CallRow]
    BY CallMoves DEF TypeOK
  <2>2. call[k].pair \in Pair \cup {None}
    BY DEF TypeOK, CallRow
  <2>. QED
    BY <2>1, <2>2 DEF TypeOK
<1>2. TokenInv'
  <2>1. Unissued'
    BY DEF TokenInv, Unissued, Held, TypeOK, CallInv, CallShape
  <2>2. RevokedFirst'
    BY DEF TokenInv, RevokedFirst, TypeOK, CallInv, CallShape
  <2>3. ExchangedIsRevoked'
    BY DEF TokenInv, ExchangedIsRevoked, RevokedFirst, Unissued, TypeOK
  <2>. QED
    BY <2>1, <2>2, <2>3 DEF TokenInv
<1>3. CallInv'
  <2>1. CallShape'
    BY DEF CallInv, CallShape, TypeOK, CallRow
  <2>2. RevokedByCall'
    <3>. revokers' = revokers
      OBVIOUS
    <3>. SUFFICES ASSUME NEW b \in Tab, NEW q \in Pair, b \in revokers'[q]
                  PROVE  \E j \in Call : call'[j].tab = b /\ call'[j].pair = q /\ Revoking(j)'
      BY DEF RevokedByCall
    <3>1. PICK j \in Call : call[j].tab = b /\ call[j].pair = q /\ Revoking(j)
      BY DEF CallInv, RevokedByCall
    <3>2. call'[j].tab = b /\ call'[j].pair = q /\ Revoking(j)'
      BY <3>1 DEF Revoking, TypeOK, CallRow
    <3>. QED
      BY <3>2
  <2>3. OnceEach'
    BY DEF CallInv, OnceEach, CallShape, TypeOK, CallRow
  <2>. QED
    BY <2>1, <2>2, <2>3 DEF CallInv
<1>4. AnswerInv'
  BY DEF TypeOK, AnswerInv, Answer, Held, TokenInv, Unissued, CallInv, CallShape
<1>5. TabInv'
  BY DEF TypeOK, TabInv, Asked, CallInv, CallShape, AnswerInv, Answer, TokenInv, Unissued, Held
<1>. QED
  BY <1>1, <1>2, <1>3, <1>4, <1>5

LEMMA CallLostPreserves ==
  ASSUME IInv, NEW k \in Call, CallLost(k)
  PROVE  IInv'
<1>. USE DEF IInv, CallLost
<1>1. TypeOK'
  <2>1. call' \in [Call -> CallRow]
    BY CallMoves DEF TypeOK
  <2>. QED
    BY <2>1 DEF TypeOK
<1>2. TokenInv'
  <2>1. Unissued'
    BY DEF TokenInv, Unissued, Held, TypeOK, CallInv, CallShape
  <2>2. RevokedFirst'
    BY DEF TokenInv, RevokedFirst, TypeOK, CallInv, CallShape
  <2>3. ExchangedIsRevoked'
    BY DEF TokenInv, ExchangedIsRevoked, RevokedFirst, Unissued, TypeOK
  <2>. QED
    BY <2>1, <2>2, <2>3 DEF TokenInv
<1>3. CallInv'
  <2>1. CallShape'
    BY DEF CallInv, CallShape, TypeOK, CallRow
  <2>2. RevokedByCall'
    BY DEF CallInv, RevokedByCall, Revoking, CallShape, TypeOK, CallRow
  <2>3. OnceEach'
    BY DEF CallInv, OnceEach, CallShape, TypeOK, CallRow
  <2>. QED
    BY <2>1, <2>2, <2>3 DEF CallInv
<1>4. AnswerInv'
  BY DEF TypeOK, AnswerInv, Answer, Held, TokenInv, Unissued, CallInv, CallShape
<1>5. TabInv'
  BY DEF TypeOK, TabInv, Asked, CallInv, CallShape, AnswerInv, Answer, TokenInv, Unissued, Held
<1>. QED
  BY <1>1, <1>2, <1>3, <1>4, <1>5

-----------------------------------------------------------------------------
(* The page is loaded again. *)
LEMMA ReloadPreserves ==
  ASSUME IInv, NEW b \in Tab, Reload(b)
  PROVE  IInv'
<1>. USE DEF IInv, Reload, Of
<1>1. TypeOK'
  <2>1. call' \in [Call -> CallRow]
    BY CallMoves DEF TypeOK
  <2>2. req' \in [Request -> ReqRow]
    BY DEF TypeOK, ReqRow
  <2>3. revokers' \in [Pair -> SUBSET (Tab \cup {"logout", "gone"})]
    BY DEF TypeOK
  <2>. QED
    BY <2>1, <2>2, <2>3 DEF TypeOK
<1>2. TokenInv'
  <2>1. Unissued'
    BY DEF TokenInv, Unissued, Held, TypeOK, CallInv, CallShape
  <2>2. RevokedFirst'
    BY DEF TokenInv, RevokedFirst, TypeOK, CallInv, CallShape
  <2>3. ExchangedIsRevoked'
    BY DEF TokenInv, ExchangedIsRevoked, RevokedFirst, Unissued, TypeOK
  <2>. QED
    BY <2>1, <2>2, <2>3 DEF TokenInv
<1>3. CallInv'
  <2>1. CallShape'
    BY DEF CallInv, CallShape, TypeOK, CallRow
  <2>2. RevokedByCall'
    BY DEF CallInv, RevokedByCall, Revoking, CallShape, TypeOK, CallRow
  <2>3. OnceEach'
    BY DEF CallInv, OnceEach, CallShape, TypeOK, CallRow
  <2>. QED
    BY <2>1, <2>2, <2>3 DEF CallInv
<1>4. AnswerInv'
  BY DEF TypeOK, AnswerInv, Answer, Held, TokenInv, Unissued, CallInv, CallShape
<1>5. TabInv'
  BY DEF TypeOK, TabInv, Asked, CallInv, CallShape, AnswerInv, Answer, TokenInv, Unissued, Held
<1>. QED
  BY <1>1, <1>2, <1>3, <1>4, <1>5

-----------------------------------------------------------------------------
(* The requests of a page. *)
LEMMA SendPreserves ==
  ASSUME IInv, NEW r \in Request, Send(r)
  PROVE  IInv'
<1>. USE DEF IInv, Send, Becomes, Sent
<1>1. TypeOK'
  BY DEF TypeOK, ReqRow, CallRow
<1>2. TokenInv'
  BY DEF TypeOK, TokenInv, Unissued, RevokedFirst, ExchangedIsRevoked, Held
<1>3. CallInv'
  BY DEF TypeOK, CallInv, CallShape, RevokedByCall, Revoking, OnceEach
<1>4. AnswerInv'
  BY DEF TypeOK, AnswerInv, Answer, Held, TokenInv, Unissued, CallInv, CallShape
<1>5. TabInv'
  BY DEF TypeOK, TabInv, Asked, CallInv, CallShape, AnswerInv, Answer, TokenInv, Unissued, Held
<1>. QED
  BY <1>1, <1>2, <1>3, <1>4, <1>5

LEMMA LoginPreserves ==
  ASSUME IInv, NEW r \in Request, NEW p \in Pair, Login(r, p)
  PROVE  IInv'
<1>. USE DEF IInv, Login, Issue, IsNext, setTokens, Set, Becomes, Sent
<1>1. TypeOK'
  <2>1. req' \in [Request -> ReqRow]
    BY DEF TypeOK, ReqRow
  <2>2. mem' \in [Tab -> Session] /\ disk' \in Session
    BY DEF TypeOK
  <2>. QED
    BY <2>1, <2>2 DEF TypeOK
<1>2. TokenInv'
  <2>1. Unissued'
    BY DEF TokenInv, Unissued, Held, TypeOK, CallInv, CallShape
  <2>2. RevokedFirst'
    BY DEF TokenInv, RevokedFirst, TypeOK, CallInv, CallShape
  <2>3. ExchangedIsRevoked'
    BY DEF TokenInv, ExchangedIsRevoked, RevokedFirst, Unissued, TypeOK
  <2>. QED
    BY <2>1, <2>2, <2>3 DEF TokenInv
<1>3. CallInv'
  BY DEF TypeOK, CallInv, CallShape, RevokedByCall, Revoking, OnceEach
<1>4. AnswerInv'
  BY DEF TypeOK, AnswerInv, Answer, Held, TokenInv, Unissued, CallInv, CallShape
<1>5. TabInv'
  BY DEF TypeOK, TabInv, Asked, CallInv, CallShape, AnswerInv, Answer, TokenInv, Unissued, Held
<1>. QED
  BY <1>1, <1>2, <1>3, <1>4, <1>5

LEMMA LogoutPreserves ==
  ASSUME IInv, NEW r \in Request, Logout(r)
  PROVE  IInv'
<1>. USE DEF IInv, Logout, Becomes, Sent
<1>1. TypeOK'
  BY DEF TypeOK, ReqRow, CallRow
<1>2. TokenInv'
  BY DEF TypeOK, TokenInv, Unissued, RevokedFirst, ExchangedIsRevoked, Held
<1>3. CallInv'
  BY DEF TypeOK, CallInv, CallShape, RevokedByCall, Revoking, OnceEach
<1>4. AnswerInv'
  BY DEF TypeOK, AnswerInv, Answer, Held, TokenInv, Unissued, CallInv, CallShape
<1>5. TabInv'
  BY DEF TypeOK, TabInv, Asked, CallInv, CallShape, AnswerInv, Answer, TokenInv, Unissued, Held
<1>. QED
  BY <1>1, <1>2, <1>3, <1>4, <1>5

LEMMA AnsweredPreserves ==
  ASSUME IInv, NEW r \in Request, Answered(r)
  PROVE  IInv'
<1>. USE DEF IInv, Answered, Done, Becomes, Arrived
<1>1. TypeOK'
  BY DEF TypeOK, ReqRow, CallRow
<1>2. TokenInv'
  BY DEF TypeOK, TokenInv, Unissued, RevokedFirst, ExchangedIsRevoked, Held
<1>3. CallInv'
  BY DEF TypeOK, CallInv, CallShape, RevokedByCall, Revoking, OnceEach
<1>4. AnswerInv'
  BY DEF TypeOK, AnswerInv, Answer, Held, TokenInv, Unissued, CallInv, CallShape
<1>5. TabInv'
  BY DEF TypeOK, TabInv, Asked, CallInv, CallShape, AnswerInv, Answer, TokenInv, Unissued, Held
<1>. QED
  BY <1>1, <1>2, <1>3, <1>4, <1>5

LEMMA LoggedInPreserves ==
  ASSUME IInv, NEW r \in Request, LoggedIn(r)
  PROVE  IInv'
<1>. USE DEF IInv, LoggedIn, Set, Done, Becomes, Arrived, MayBeValid
<1>1. TypeOK'
  <2>1. Spent(TabOf[r]) \subseteq Pair
    BY DEF Spent, CallInv, CallShape
  <2>2. putBack' \in [Tab -> SUBSET Pair]
    BY <2>1 DEF TypeOK
  <2>3. req' \in [Request -> ReqRow] /\ mem' \in [Tab -> Session] /\ disk' \in Session
    BY DEF TypeOK, ReqRow
  <2>. QED
    BY <2>2, <2>3 DEF TypeOK
<1>2. TokenInv'
  BY DEF TypeOK, TokenInv, Unissued, RevokedFirst, ExchangedIsRevoked, Held
<1>3. CallInv'
  <2>1. /\ call' = call /\ refreshing' = refreshing /\ revokers' = revokers
        /\ \A b \in Tab : putBack[b] \subseteq putBack'[b]
    BY DEF TypeOK, tokenVars
  <2>2. CallShape'
    BY <2>1 DEF CallInv, CallShape
  <2>3. RevokedByCall'
    BY <2>1 DEF CallInv, RevokedByCall, Revoking
  <2>4. OnceEach'
    BY <2>1 DEF CallInv, OnceEach, TypeOK, CallRow
  <2>. QED
    BY <2>2, <2>3, <2>4 DEF CallInv
<1>4. AnswerInv'
  BY DEF TypeOK, AnswerInv, Answer, Held, TokenInv, Unissued, CallInv, CallShape
<1>5. TabInv'
  <2>. SUFFICES ASSUME NEW b \in Tab, NEW k \in Call, Asked(b, k)'
                PROVE  \/ mem'[b].pair \in putBack'[b]
                       \/ refreshing[b] # None /\ call[refreshing[b]].pair = mem'[b].pair
    BY DEF TabInv
  <2>1. putBack[b] \subseteq putBack'[b]
    BY DEF TypeOK
  <2>2. CASE mem'[b].pair = mem[b].pair
    BY <2>1, <2>2 DEF TabInv, Asked
  <2>3. CASE mem'[b].pair # mem[b].pair
    <3>1. b = TabOf[r] /\ mem'[b].pair = req[r].body
      BY <2>3 DEF TypeOK
    <3>2. req[r].body \in Spent(b)
      BY <3>1 DEF Asked, Spent
    <3>. QED
      BY <2>3, <3>1, <3>2 DEF TypeOK
  <2>. QED
    BY <2>2, <2>3
<1>. QED
  BY <1>1, <1>2, <1>3, <1>4, <1>5

LEMMA LoggedOutPreserves ==
  ASSUME IInv, NEW r \in Request, LoggedOut(r)
  PROVE  IInv'
<1>. USE DEF IInv, LoggedOut, Revoke, clearAuth, Set, Done, Becomes, Arrived
<1>1. TypeOK'
  <2>1. req' \in [Request -> ReqRow]
    BY DEF TypeOK, ReqRow
  <2>2. row' \in [Pair -> {None, "live", "revoked"}]
    BY DEF TypeOK
  <2>3. revokers' \in [Pair -> SUBSET (Tab \cup {"logout", "gone"})]
    BY DEF TypeOK
  <2>. QED
    BY <2>1, <2>2, <2>3 DEF TypeOK
<1>2. TokenInv'
  <2>1. Unissued'
    <3>. SUFFICES ASSUME NEW p \in Pair, row'[p] = None
                  PROVE  revokers'[p] = {} /\ ~Held(p)' /\ \A k \in Call : call'[k].child # p
      BY DEF Unissued
    <3>1. row[p] = None /\ revokers'[p] = revokers[p]
      BY DEF TypeOK
    <3>2. revokers[p] = {} /\ ~Held(p) /\ \A k \in Call : call[k].child # p
      BY <3>1 DEF TokenInv, Unissued
    <3>3. call' = call /\ p # None
      BY NoneAssumption
    <3>4. disk'.pair # p /\ \A b \in Tab : mem'[b].pair # p
      BY <3>2, <3>3 DEF Held, TypeOK, NoSession
    <3>5. \A q \in Request : req'[q].body # p
      BY <3>2, <3>3 DEF Held, TypeOK, Idle
    <3>. QED
      BY <3>1, <3>2, <3>3, <3>4, <3>5 DEF Held
  <2>2. RevokedFirst'
    BY DEF TokenInv, RevokedFirst, TypeOK, CallInv, CallShape
  <2>3. ExchangedIsRevoked'
    BY DEF TokenInv, ExchangedIsRevoked, RevokedFirst, Unissued, TypeOK
  <2>. QED
    BY <2>1, <2>2, <2>3 DEF TokenInv
<1>3. CallInv'
  <2>1. CallShape'
    BY DEF CallInv, CallShape, TypeOK, CallRow
  <2>2. RevokedByCall'
    <3>1. \A b \in Tab, p \in Pair : b \in revokers'[p] => b \in revokers[p]
      BY RevokersAssumption DEF TypeOK
    <3>2. call' = call
      OBVIOUS
    <3>. QED
      BY <3>1, <3>2 DEF CallInv, RevokedByCall, Revoking
  <2>3. OnceEach'
    BY DEF CallInv, OnceEach, CallShape, TypeOK, CallRow
  <2>. QED
    BY <2>1, <2>2, <2>3 DEF CallInv
<1>4. AnswerInv'
  BY DEF TypeOK, AnswerInv, Answer, Held, TokenInv, Unissued, CallInv, CallShape
<1>5. TabInv'
  BY DEF TypeOK, TabInv, Asked, CallInv, CallShape, AnswerInv, Answer, TokenInv, Unissued, Held
<1>. QED
  BY <1>1, <1>2, <1>3, <1>4, <1>5

LEMMA RequestFailsPreserves ==
  ASSUME IInv, NEW r \in Request, RequestFails(r)
  PROVE  IInv'
<1>. USE DEF IInv, RequestFails, clearAuth, Set, Done, Becomes, Arrived
<1>1. TypeOK'
  <2>1. req' \in [Request -> ReqRow]
    BY DEF TypeOK, ReqRow
  <2>2. CASE clearAuth(TabOf[r])
    BY <2>1, <2>2 DEF TypeOK
  <2>3. CASE UNCHANGED storeVars
    BY <2>1, <2>3 DEF TypeOK
  <2>. QED
    BY <2>2, <2>3
<1>a. /\ \A b \in Tab : mem'[b].pair = mem[b].pair \/ mem'[b].pair = None
      /\ disk'.pair = disk.pair \/ disk'.pair = None
  <2>1. CASE clearAuth(TabOf[r])
    BY <2>1 DEF TypeOK
  <2>2. CASE UNCHANGED storeVars
    BY <2>2
  <2>. QED
    BY <2>1, <2>2
<1>b. \A p \in Pair : Held(p)' => Held(p)
  BY <1>a DEF Held, TypeOK
<1>2. TokenInv'
  BY <1>b DEF TypeOK, TokenInv, Unissued, RevokedFirst, ExchangedIsRevoked
<1>3. CallInv'
  BY DEF TypeOK, CallInv, CallShape, RevokedByCall, Revoking, OnceEach
<1>4. AnswerInv'
  BY <1>b DEF AnswerInv, Answer
<1>5. TabInv'
  BY <1>a DEF TypeOK, TabInv, Asked, CallInv, CallShape
<1>. QED
  BY <1>1, <1>2, <1>3, <1>4, <1>5

LEMMA JoinRefreshPreserves ==
  ASSUME IInv, NEW r \in Request, JoinRefresh(r)
  PROVE  IInv'
<1>. USE DEF IInv, JoinRefresh, Unauthorized, Wait, Becomes
<1>1. TypeOK'
  <2>1. req' \in [Request -> ReqRow]
    BY ReqMoves DEF TypeOK
  <2>. QED
    BY <2>1 DEF TypeOK
<1>2. TokenInv'
  BY DEF TypeOK, TokenInv, Unissued, RevokedFirst, ExchangedIsRevoked, Held
<1>3. CallInv'
  BY DEF TypeOK, CallInv, CallShape, RevokedByCall, Revoking, OnceEach
<1>4. AnswerInv'
  BY DEF TypeOK, AnswerInv, Answer, Held, TokenInv, Unissued, CallInv, CallShape
<1>5. TabInv'
  BY DEF TypeOK, TabInv, Asked, CallInv, CallShape, AnswerInv, Answer, TokenInv, Unissued, Held
<1>. QED
  BY <1>1, <1>2, <1>3, <1>4, <1>5

LEMMA StartRefreshPreserves ==
  ASSUME IInv, NEW r \in Request, NEW k \in Call, StartRefresh(r, k)
  PROVE  IInv'
<1>. USE DEF IInv, StartRefresh, Unauthorized, Wait, Becomes, IsNext, NoCall
<1>1. TypeOK'
  <2>1. req' \in [Request -> ReqRow]
    BY ReqMoves DEF TypeOK
  <2>2. call' \in [Call -> CallRow]
    BY DEF TypeOK, CallRow
  <2>. QED
    BY <2>1, <2>2 DEF TypeOK
<1>2. TokenInv'
  BY DEF TypeOK, TokenInv, Unissued, RevokedFirst, ExchangedIsRevoked, Held
<1>3. CallInv'
  <2>1. CallShape'
    BY DEF CallInv, CallShape, TypeOK
  <2>2. RevokedByCall'
    BY DEF CallInv, RevokedByCall, Revoking, TypeOK
  <2>3. OnceEach'
    BY DEF CallInv, OnceEach, TabInv, Asked, TypeOK
  <2>. QED
    BY <2>1, <2>2, <2>3 DEF CallInv
<1>4. AnswerInv'
  BY DEF TypeOK, AnswerInv, Answer, Held, TokenInv, Unissued, CallInv, CallShape
<1>5. TabInv'
  BY DEF TypeOK, TabInv, Asked, CallInv, CallShape, AnswerInv, Answer, TokenInv, Unissued, Held
<1>. QED
  BY <1>1, <1>2, <1>3, <1>4, <1>5

LEMMA SessionExpiresPreserves ==
  ASSUME IInv, NEW r \in Request, SessionExpires(r)
  PROVE  IInv'
<1>. USE DEF IInv, SessionExpires, Unauthorized, clearAuth, Set, Done, Becomes
<1>1. TypeOK'
  BY DEF TypeOK, ReqRow, CallRow
<1>2. TokenInv'
  BY DEF TypeOK, TokenInv, Unissued, RevokedFirst, ExchangedIsRevoked, Held
<1>3. CallInv'
  BY DEF TypeOK, CallInv, CallShape, RevokedByCall, Revoking, OnceEach
<1>4. AnswerInv'
  BY DEF TypeOK, AnswerInv, Answer, Held, TokenInv, Unissued, CallInv, CallShape
<1>5. TabInv'
  BY DEF TypeOK, TabInv, Asked, CallInv, CallShape, AnswerInv, Answer, TokenInv, Unissued, Held
<1>. QED
  BY <1>1, <1>2, <1>3, <1>4, <1>5

-----------------------------------------------------------------------------
(* The promise of a refresh. *)
LEMMA RefreshSucceedsPreserves ==
  ASSUME IInv, NEW b \in Tab, RefreshSucceeds(b)
  PROVE  IInv'
<1>. USE DEF IInv, RefreshSucceeds, setTokens, Set, Waiting, Of
<1>1. TypeOK'
  <2>1. call[refreshing[b]].child \in Pair \cup {None}
    BY DEF TypeOK, CallRow
  <2>2. req' \in [Request -> ReqRow]
    BY ReqMoves DEF TypeOK
  <2>. QED
    BY <2>1, <2>2 DEF TypeOK
<1>2. TokenInv'
  <2>1. Unissued'
    <3>. SUFFICES ASSUME NEW p \in Pair, row[p] = None PROVE ~Held(p)'
      BY DEF TokenInv, Unissued
    <3>1. ~Held(p) /\ call[refreshing[b]].child # p
      BY DEF TokenInv, Unissued, TypeOK
    <3>2. \A c \in Tab : mem'[c].pair # p
      BY <3>1 DEF Held, TypeOK
    <3>3. \A q \in Request : req'[q].body = req[q].body
      BY ReqMoves DEF TypeOK
    <3>4. disk'.pair # p
      BY <3>1 DEF TypeOK
    <3>. QED
      BY <3>1, <3>2, <3>3, <3>4 DEF Held
  <2>2. RevokedFirst'
    BY DEF TokenInv, RevokedFirst, TypeOK, CallInv, CallShape
  <2>3. ExchangedIsRevoked'
    BY DEF TokenInv, ExchangedIsRevoked, RevokedFirst, Unissued, TypeOK
  <2>. QED
    BY <2>1, <2>2, <2>3 DEF TokenInv
<1>3. CallInv'
  <2>1. CallShape'
    BY DEF CallInv, CallShape, TypeOK, CallRow
  <2>2. RevokedByCall'
    BY RevokedByCallStays DEF CallInv
  <2>3. OnceEach'
    BY DEF CallInv, OnceEach, CallShape, TypeOK, CallRow
  <2>. QED
    BY <2>1, <2>2, <2>3 DEF CallInv
<1>4. AnswerInv'
  <2>1. Answer(refreshing[b])
    BY DEF CallInv, CallShape, Answer, TypeOK
  <2>. SUFFICES ASSUME NEW k \in Call, Answer(k)' PROVE ~Held(call[k].child)' /\ Answer(k)
    BY DEF AnswerInv
  <2>2. Answer(k) /\ k # refreshing[b]
    BY DEF Answer, CallInv, CallShape, TypeOK, CallRow
  <2>3. ~Held(call[k].child) /\ call[refreshing[b]].child # call[k].child
    BY <2>1, <2>2 DEF AnswerInv, TypeOK
  <2>4. \A c \in Tab : mem'[c].pair # call[k].child
    BY <2>3 DEF Held, TypeOK
  <2>5. \A q \in Request : req'[q].body = req[q].body
    BY ReqMoves DEF TypeOK
  <2>6. disk'.pair # call[k].child
    BY <2>3 DEF TypeOK
  <2>. QED
    BY <2>2, <2>3, <2>4, <2>5, <2>6 DEF Held
<1>5. TabInv'
  <2>1. Answer(refreshing[b])
    BY DEF CallInv, CallShape, Answer, TypeOK
  <2>2. \A k \in Call : call[k].pair # call[refreshing[b]].child
    BY <2>1 DEF AnswerInv, Held, TypeOK
  <2>3. mem'[b].pair = call[refreshing[b]].child /\ \A c \in Tab \ {b} : mem'[c] = mem[c]
    BY DEF TypeOK
  <2>4. \A c \in Tab \ {b} : refreshing'[c] = refreshing[c]
    BY DEF TypeOK
  <2>. SUFFICES ASSUME NEW c \in Tab, NEW k \in Call, Asked(c, k)'
                PROVE  \/ mem'[c].pair \in putBack'[c]
                       \/ refreshing'[c] # None /\ call'[refreshing'[c]].pair = mem'[c].pair
    BY DEF TabInv
  <2>5. c # b /\ Asked(c, k)
    BY <2>2, <2>3 DEF Asked
  <2>. QED
    BY <2>3, <2>4, <2>5 DEF TabInv
<1>. QED
  BY <1>1, <1>2, <1>3, <1>4, <1>5

LEMMA RefreshFailsPreserves ==
  ASSUME IInv, NEW b \in Tab, RefreshFails(b)
  PROVE  IInv'
<1>. USE DEF IInv, RefreshFails, clearAuth, Set, Waiting, Of
<1>1. TypeOK'
  BY DEF TypeOK, ReqRow, CallRow
<1>2. TokenInv'
  BY DEF TypeOK, TokenInv, Unissued, RevokedFirst, ExchangedIsRevoked, Held
<1>3. CallInv'
  BY DEF TypeOK, CallInv, CallShape, RevokedByCall, Revoking, OnceEach
<1>4. AnswerInv'
  BY DEF TypeOK, AnswerInv, Answer, Held, TokenInv, Unissued, CallInv, CallShape
<1>5. TabInv'
  BY DEF TypeOK, TabInv, Asked, CallInv, CallShape, AnswerInv, Answer, TokenInv, Unissued, Held
<1>. QED
  BY <1>1, <1>2, <1>3, <1>4, <1>5

-----------------------------------------------------------------------------
LEMMA StepPreserves == IInv /\ [Next]_vars => IInv'
<1>. SUFFICES ASSUME IInv, [Next]_vars PROVE IInv'
  OBVIOUS
<1>1. CASE UNCHANGED vars
  BY <1>1 DEF IInv, vars, TypeOK, TokenInv, Unissued, RevokedFirst, ExchangedIsRevoked, Held,
              CallInv, CallShape, RevokedByCall, Revoking, OnceEach,
              AnswerInv, Answer, TabInv, Asked
<1>2. CASE \E r \in Request : Settle(r) \/ Send(r) \/ Logout(r) \/ \E p \in Pair : Login(r, p)
  BY <1>2, SendPreserves, LoginPreserves, LogoutPreserves, AnsweredPreserves, LoggedInPreserves,
     LoggedOutPreserves, RequestFailsPreserves, JoinRefreshPreserves, StartRefreshPreserves,
     SessionExpiresPreserves DEF Settle
<1>3. CASE \E k \in Call : CallStep(k) \/ CallLost(k)
  BY <1>3, FindStoredPreserves, RevokeStoredPreserves, PersistRotatedPreserves, CallLostPreserves
     DEF CallStep
<1>4. CASE \E b \in Tab : RefreshStep(b) \/ Reload(b)
  BY <1>4, RefreshSucceedsPreserves, RefreshFailsPreserves, ReloadPreserves DEF RefreshStep
<1>. QED
  BY <1>1, <1>2, <1>3, <1>4 DEF Next

(* The strengthened invariant holds in every reachable state. *)
LEMMA AlwaysIInv == Spec => []IInv
BY InitEstablishes, StepPreserves, PTL DEF Spec

(* A refresh is never refused only because its own page has used the token before,
   what http.ts dedupes its refreshes for, unless the login page put it back: for any
   number of tabs and requests.                                                       *)
THEOREM NoPageRefusesItself == Spec => []NeverRefusedByItself
<1>1. ASSUME IInv, NEW k \in Call, call[k].pc = "refused", call[k].tab # None,
             revokers[call[k].pair] = {call[k].tab}
      PROVE  call[k].pair \in putBack[call[k].tab]
  <2>1. call[k].tab \in Tab /\ call[k].pair \in Pair
    BY <1>1 DEF IInv, TypeOK, CallRow, CallInv, CallShape
  <2>2. PICK j \in Call : call[j].tab = call[k].tab /\ call[j].pair = call[k].pair /\ Revoking(j)
    BY <1>1, <2>1 DEF IInv, CallInv, RevokedByCall
  <2>. QED
    BY <1>1, <2>2 DEF IInv, CallInv, OnceEach, Revoking
<1>2. IInv => NeverRefusedByItself
  BY <1>1 DEF NeverRefusedByItself
<1>. QED
  BY <1>2, AlwaysIInv, PTL

(* However requests, refreshes, reloads, logins, logouts and failures interleave, a
   page that is not refreshing holds no refresh token that it has sent to
   /auth/refresh, unless its login page put it back.                                *)
THEOREM PagesHoldGoodTokens == Spec => []HoldsNoUsedToken
<1>1. IInv => HoldsNoUsedToken
  BY DEF IInv, TabInv, Asked, Spent, HoldsNoUsedToken
<1>. QED
  BY <1>1, AlwaysIInv, PTL

(* auth-service revokes before it issues, so an exchanged refresh token stays revoked
   wherever it stops in between.                                                      *)
THEOREM ExchangedStaysRevoked == Spec => []ExchangedIsRevoked
<1>1. IInv => ExchangedIsRevoked
  BY DEF IInv, TokenInv
<1>. QED
  BY <1>1, AlwaysIInv, PTL
=============================================================================
