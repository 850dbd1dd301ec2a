---------------------------- MODULE SessionsProofs ----------------------------
(***************************************************************************)
(* Proofs about the session model for every set of users, handles and    *)
(* clients, any number of concurrent requests and failed statements, and *)
(* either connection for FindByToken: the type invariant, and that a     *)
(* refresh token the primary refuses is refused for ever.                 *)
(***************************************************************************)
EXTENDS Sessions, FiniteSetTheorems, TLAPS

(* The places inside createSession's Insert, and after it. *)
InInsert == {"revokeToken", "revokeUser", "insert"}
Writing == InInsert \cup {"revokeOld"}

(* A handle is generated before any row or caller has it; a refresh     *)
(* presents a handle some caller was given, and a request past           *)
(* validation carries a generated handle.                                 *)
HandlesIssued ==
    /\ issued \subseteq Tokens
    /\ \A t \in Tokens \ issued : sessions[t] = NoSession
    /\ \A c \in Clients : pc[c] = "validate" => req[c].old \in issued
    /\ \A c \in Clients : pc[c] \in Writing => req[c].token \in issued

(* The inductive invariant behind TypeOK. *)
TInv == TypeOK /\ HandlesIssued

-----------------------------------------------------------------------------
(* The revoking UPDATEs on a typed table. *)

SessionRow == Session \cup {NoSession}

LEMMA RevokedRowType ==
    ASSUME NEW r \in Session
    PROVE  RevokedRow(r) \in Session
BY DEF RevokedRow, Session

LEMMA RevokeTyped ==
    ASSUME sessions \in [Tokens -> SessionRow]
    PROVE  /\ \A t : RevokeByToken(sessions, t) \in [Tokens -> SessionRow]
           /\ \A u : RevokeByUserID(sessions, u) \in [Tokens -> SessionRow]
           /\ \A t, k : k \in Tokens /\ sessions[k] = NoSession
                                    => RevokeByToken(sessions, t)[k] = NoSession
           /\ \A u, k : k \in Tokens /\ sessions[k] = NoSession
                                    => RevokeByUserID(sessions, u)[k] = NoSession
<1>1. \A k \in Tokens : Live(sessions[k]) => sessions[k] \in Session
  BY SessionAssumption DEF Live, SessionRow, NoSession
<1>2. \A k \in Tokens : Live(sessions[k]) => RevokedRow(sessions[k]) \in SessionRow
  BY <1>1, RevokedRowType DEF SessionRow
<1>3. \A k \in Tokens : sessions[k] = NoSession => ~Live(sessions[k])
  BY SessionAssumption DEF Live, NoSession
<1>4. QED
  BY <1>2, <1>3 DEF RevokeByToken, RevokeByUserID

(* The request record a goroutine drops when it returns. *)
LEMMA NoRequestType == NoRequest \in Request
BY DEF NoRequest, Request

-----------------------------------------------------------------------------
(* TInv is inductive. *)

LEMMA TInvInit == Init => TInv
<1> SUFFICES ASSUME Init PROVE TInv
  OBVIOUS
<1>1. sessions \in [Tokens -> SessionRow] /\ replica \in [Tokens -> SessionRow]
  BY DEF Init, SessionRow
<1>2. pc \in [Clients -> PC] /\ req \in [Clients -> Request]
  BY NoRequestType DEF Init, PC
<1>3. \A c \in Clients : pc[c] \notin Writing
  BY DEF Init, Writing, InInsert
<1>4. faults \in 0..MaxFaults
  BY SessionAssumption DEF Init
<1>5. QED
  BY <1>1, <1>2, <1>3, <1>4 DEF Init, TInv, TypeOK, HandlesIssued, SessionRow, Writing,
                                InInsert

(* What a step may do to the primary table: nothing, or one of the      *)
(* revoking UPDATEs.                                                       *)
RevokeWrite ==
    \/ UNCHANGED sessions
    \/ \E t : sessions' = RevokeByToken(sessions, t)
    \/ \E u : sessions' = RevokeByUserID(sessions, u)

(* The table's part of TInv. *)
TableOK ==
    /\ sessions \in [Tokens -> SessionRow]
    /\ \A k \in Tokens \ issued : sessions[k] = NoSession

LEMMA RevokeWriteKeeps ==
    ASSUME TInv, RevokeWrite, UNCHANGED issued
    PROVE  TableOK'
<1>1. TableOK
  BY DEF TInv, TypeOK, HandlesIssued, SessionRow, TableOK
<1>2. CASE UNCHANGED sessions
  BY <1>1, <1>2 DEF TableOK
<1>3. CASE \E t : sessions' = RevokeByToken(sessions, t)
  <2>1. PICK t : sessions' = RevokeByToken(sessions, t)
    BY <1>3
  <2>2. QED
    BY <1>1, <2>1, RevokeTyped DEF TableOK
<1>4. CASE \E u : sessions' = RevokeByUserID(sessions, u)
  <2>1. PICK u : sessions' = RevokeByUserID(sessions, u)
    BY <1>4
  <2>2. QED
    BY <1>1, <2>1, RevokeTyped DEF TableOK
<1>5. QED
  BY <1>2, <1>3, <1>4 DEF RevokeWrite

(* A request that ends with Done leaves the other goroutines as they were. *)
LEMMA DoneKeeps ==
    ASSUME TInv, NEW c \in Clients, Done(c), RevokeWrite,
           UNCHANGED <<replica, expired, issued, returned>>,
           faults' \in 0..MaxFaults
    PROVE  TInv'
<1>0. TableOK'
  BY RevokeWriteKeeps
<1>1. pc' \in [Clients -> PC] /\ req' \in [Clients -> Request]
  BY NoRequestType DEF Done, TInv, TypeOK, PC
<1>2. pc'[c] \notin Writing /\ pc'[c] # "validate"
  BY DEF Done, TInv, TypeOK, Writing, InInsert
<1>3. \A d \in Clients \ {c} : pc'[d] = pc[d] /\ req'[d] = req[d]
  BY DEF Done, TInv, TypeOK
<1>4. QED
  BY <1>0, <1>1, <1>2, <1>3 DEF TInv, TypeOK, HandlesIssued, Writing, InInsert,
                                TableOK, SessionRow

(* One statement of Insert or RefreshToken on the primary; the goroutine *)
(* moves on to its next statement with the same request.                 *)
LEMMA StatementKeeps ==
    ASSUME TInv, NEW c \in Clients, pc[c] \in Writing,
           NEW p \in Writing, pc' = [pc EXCEPT ![c] = p],
           RevokeWrite,
           UNCHANGED <<replica, expired, issued, returned, req>>,
           faults' \in 0..MaxFaults
    PROVE  TInv'
<1>1. TableOK'
  BY RevokeWriteKeeps
<1>2. pc' \in [Clients -> PC]
  BY DEF TInv, TypeOK, Writing, InInsert, PC
<1>3. \A d \in Clients : pc'[d] \in Writing
         => req[d].user \in Users /\ req[d].token \in Tokens /\ req[d].token \in issued
  BY DEF TInv, TypeOK, HandlesIssued, Writing, InInsert
<1>4. QED
  BY <1>1, <1>2, <1>3 DEF TInv, TypeOK, HandlesIssued, SessionRow, Writing, InInsert,
                          TableOK

(* The failure counter stays within its bound. *)
LEMMA FaultBound ==
    ASSUME faults \in 0..MaxFaults, Fault \/ UNCHANGED faults
    PROVE  faults' \in 0..MaxFaults
BY SessionAssumption DEF Fault

LEMMA LoginKeeps ==
    ASSUME TInv, NEW c \in Clients, NEW u \in Users, NEW t \in Tokens, Login(c, u, t)
    PROVE  TInv'
<1>1. req' \in [Clients -> Request] /\ pc' \in [Clients -> PC]
  BY DEF Login, TInv, TypeOK, Request, PC
<1>2. pc'[c] \in Writing /\ req'[c].user = u /\ req'[c].token = t /\ t \in issued'
  BY DEF Login, TInv, TypeOK, Writing, InInsert
<1>3. \A d \in Clients \ {c} : pc'[d] = pc[d] /\ req'[d] = req[d]
  BY DEF Login, TInv, TypeOK
<1>4. QED
  BY <1>1, <1>2, <1>3 DEF Login, TInv, TypeOK, HandlesIssued, Writing, InInsert

LEMMA RefreshTokenKeeps ==
    ASSUME TInv, NEW c \in Clients, NEW t \in Tokens, RefreshToken(c, t)
    PROVE  TInv'
<1>1. req' \in [Clients -> Request] /\ pc' \in [Clients -> PC]
  BY SessionAssumption DEF RefreshToken, TInv, TypeOK, Request, PC
<1>2. pc'[c] \notin Writing /\ req'[c].old \in issued
  BY DEF RefreshToken, TInv, TypeOK, HandlesIssued, Writing, InInsert
<1>3. \A d \in Clients \ {c} : pc'[d] = pc[d] /\ req'[d] = req[d]
  BY DEF RefreshToken, TInv, TypeOK
<1>4. QED
  BY <1>1, <1>2, <1>3 DEF RefreshToken, TInv, TypeOK, HandlesIssued, Writing, InInsert

(* The row a FindByToken returns, from either connection, is typed. *)
LEMMA ReadViewTyped ==
    ASSUME TInv, NEW t \in Tokens
    PROVE  ReadView[t] \in SessionRow
BY DEF ReadView, TInv, TypeOK, SessionRow

LEMMA ValidateSessionKeeps ==
    ASSUME TInv, NEW c \in Clients, ValidateSession(c)
    PROVE  TInv'
<1> DEFINE old == req[c].old
           row == ReadView[old]
<1>1. pc[c] = "validate" /\ UNCHANGED <<sessions, replica, expired, returned>>
  BY DEF ValidateSession
<1>2. CASE /\ ValidSession(row, old)
           /\ \E t \in Tokens \ issued :
                 /\ issued' = issued \cup {t}
                 /\ req' = [req EXCEPT ![c] = [kind |-> "refresh", user |-> row.user,
                                               token |-> t, old |-> old]]
           /\ pc' = [pc EXCEPT ![c] = "revokeToken"]
           /\ UNCHANGED faults
  <2>1. PICK t \in Tokens \ issued :
              /\ issued' = issued \cup {t}
              /\ req' = [req EXCEPT ![c] = [kind |-> "refresh", user |-> row.user,
                                            token |-> t, old |-> old]]
    BY <1>2
  <2>2. old \in Tokens
    BY <1>1 DEF TInv, HandlesIssued
  <2>3. row.user \in Users
    BY <1>2, <2>2, ReadViewTyped, SessionAssumption DEF ValidSession, Live, SessionRow,
                                                      Session, NoSession
  <2>4. req' \in [Clients -> Request] /\ pc' \in [Clients -> PC]
    BY <1>2, <2>1, <2>2, <2>3 DEF TInv, TypeOK, Request, PC
  <2>5. \A d \in Clients \ {c} : pc'[d] = pc[d] /\ req'[d] = req[d]
    BY <1>2, <2>1 DEF TInv, TypeOK
  <2>6. req'[c].user \in Users /\ req'[c].token \in issued' /\ req'[c].token \in Tokens
    BY <2>1, <2>3 DEF TInv, TypeOK
  <2>7. QED
    BY <1>1, <1>2, <2>1, <2>4, <2>5, <2>6
       DEF TInv, TypeOK, HandlesIssued, Writing, InInsert
<1>3. CASE Done(c) /\ (Fault \/ UNCHANGED faults) /\ UNCHANGED issued
  BY <1>1, <1>3, DoneKeeps, FaultBound DEF TInv, TypeOK, RevokeWrite
<1>4. QED
  BY <1>2, <1>3 DEF ValidateSession

LEMMA InsertRevokeKeeps ==
    ASSUME TInv, NEW c \in Clients, InsertRevokeToken(c) \/ InsertRevokeUser(c)
    PROVE  TInv'
<1>1. faults' \in 0..MaxFaults
  BY FaultBound DEF InsertRevokeToken, InsertRevokeUser, TInv, TypeOK
<1>2. RevokeWrite
  BY DEF InsertRevokeToken, InsertRevokeUser, RevokeWrite
<1>3. \E p \in Writing : pc' = [pc EXCEPT ![c] = p]
  BY DEF InsertRevokeToken, InsertRevokeUser, Writing, InInsert
<1>4. pc[c] \in Writing /\ UNCHANGED <<replica, expired, issued, returned, req>>
  BY DEF InsertRevokeToken, InsertRevokeUser, Writing, InInsert
<1>5. QED
  BY <1>1, <1>2, <1>3, <1>4, StatementKeeps

LEMMA RevokeOldKeeps ==
    ASSUME TInv, NEW c \in Clients, RevokeOld(c)
    PROVE  TInv'
<1>1. faults' \in 0..MaxFaults
  BY FaultBound DEF RevokeOld, TInv, TypeOK
<1>2. RevokeWrite
  BY DEF RevokeOld, RevokeWrite
<1>3. QED
  BY <1>1, <1>2, DoneKeeps DEF RevokeOld

LEMMA LogoutKeeps ==
    ASSUME TInv, NEW c \in Clients, NEW t \in Tokens, Logout(c, t)
    PROVE  TInv'
<1>1. faults' \in 0..MaxFaults
  BY FaultBound DEF Logout, TInv, TypeOK
<1>2. RevokeWrite
  BY DEF Logout, RevokeWrite
<1>3. TableOK'
  BY <1>2, RevokeWriteKeeps DEF Logout
<1>4. QED
  BY <1>1, <1>3 DEF Logout, TInv, TypeOK, HandlesIssued, TableOK, SessionRow

(* The INSERT: the new row is typed and its handle was generated. *)
LEMMA InsertRowKeeps ==
    ASSUME TInv, NEW c \in Clients, InsertRow(c)
    PROVE  TInv'
<1> DEFINE t == req[c].token
           row == [user |-> req[c].user, revoked |-> FALSE, deleted |-> FALSE]
<1>1. pc[c] = "insert" /\ t \in issued /\ t \in Tokens /\ row \in Session
  BY DEF InsertRow, TInv, TypeOK, HandlesIssued, Writing, InInsert, Session
<1>2. UNCHANGED <<replica, expired, issued>>
  BY DEF InsertRow
<1>3. CASE /\ sessions' = [sessions EXCEPT ![t] = row]
           /\ returned' = returned \cup {t}
           /\ IF req[c].kind = "refresh"
                 THEN /\ pc' = [pc EXCEPT ![c] = "revokeOld"]
                      /\ UNCHANGED req
                 ELSE Done(c)
           /\ UNCHANGED faults
  <2>1. TableOK'
    BY <1>1, <1>2, <1>3 DEF TInv, TypeOK, HandlesIssued, TableOK, SessionRow
  <2>2. returned' \subseteq issued' /\ expired' \subseteq issued'
    BY <1>1, <1>2, <1>3 DEF TInv, TypeOK
  <2>3. CASE req[c].kind = "refresh"
    <3>1. pc' = [pc EXCEPT ![c] = "revokeOld"] /\ UNCHANGED req
      BY <1>3, <2>3
    <3>2. QED
      BY <1>1, <1>2, <1>3, <2>1, <2>2, <3>1
         DEF TInv, TypeOK, HandlesIssued, TableOK, SessionRow, Writing, InInsert, PC
  <2>4. CASE req[c].kind # "refresh"
    <3>1. Done(c)
      BY <1>3, <2>4
    <3>2. pc' \in [Clients -> PC] /\ req' \in [Clients -> Request]
      BY <3>1, NoRequestType DEF Done, TInv, TypeOK, PC
    <3>3. pc'[c] \notin Writing /\ pc'[c] # "validate"
      BY <3>1 DEF Done, TInv, TypeOK, Writing, InInsert
    <3>4. \A d \in Clients \ {c} : pc'[d] = pc[d] /\ req'[d] = req[d]
      BY <3>1 DEF Done, TInv, TypeOK
    <3>5. QED
      BY <1>2, <1>3, <2>1, <2>2, <3>2, <3>3, <3>4
         DEF TInv, TypeOK, HandlesIssued, TableOK, SessionRow, Writing, InInsert
  <2>5. QED
    BY <2>3, <2>4
<1>4. CASE Fault /\ Done(c) /\ UNCHANGED <<sessions, returned>>
  <2>1. faults' \in 0..MaxFaults
    BY <1>4, FaultBound DEF TInv, TypeOK
  <2>2. QED
    BY <1>2, <1>4, <2>1, DoneKeeps DEF RevokeWrite
<1>5. QED
  BY <1>3, <1>4 DEF InsertRow

(* Replication, expiry and stuttering touch no request. *)
LEMMA EnvironmentKeeps ==
    ASSUME TInv, Replicate \/ (\E t \in Tokens : Expire(t)) \/ UNCHANGED vars
    PROVE  TInv'
<1>1. CASE Replicate
  BY <1>1 DEF Replicate, TInv, TypeOK, HandlesIssued
<1>2. CASE \E t \in Tokens : Expire(t)
  BY <1>2 DEF Expire, TInv, TypeOK, HandlesIssued
<1>3. CASE UNCHANGED vars
  BY <1>3 DEF vars, TInv, TypeOK, HandlesIssued
<1>4. QED
  BY <1>1, <1>2, <1>3

LEMMA TInvStep ==
    ASSUME TInv, [Next]_vars
    PROVE  TInv'
<1>1. CASE \E c \in Clients : ClientStep(c)
  <2>1. PICK c \in Clients : ClientStep(c)
    BY <1>1
  <2>2. CASE \E u \in Users, t \in Tokens : Login(c, u, t)
    BY <2>2, LoginKeeps
  <2>3. CASE \E t \in Tokens : RefreshToken(c, t)
    BY <2>3, RefreshTokenKeeps
  <2>4. CASE \E t \in Tokens : Logout(c, t)
    BY <2>4, LogoutKeeps
  <2>5. CASE ValidateSession(c)
    BY <2>5, ValidateSessionKeeps
  <2>6. CASE InsertRevokeToken(c) \/ InsertRevokeUser(c)
    BY <2>6, InsertRevokeKeeps
  <2>7. CASE InsertRow(c)
    BY <2>7, InsertRowKeeps
  <2>8. CASE RevokeOld(c)
    BY <2>8, RevokeOldKeeps
  <2>9. QED
    BY <2>1, <2>2, <2>3, <2>4, <2>5, <2>6, <2>7, <2>8 DEF ClientStep
<1>2. CASE Replicate \/ (\E t \in Tokens : Expire(t)) \/ UNCHANGED vars
  BY <1>2, EnvironmentKeeps
<1>3. QED
  BY <1>1, <1>2 DEF Next

(* Every variable of the session model keeps its type, for any number of *)
(* concurrent requests and failed statements: a request inside Insert    *)
(* always carries the user FindByID or Login found and a handle that was *)
(* generated for it, and the revoking UPDATEs never produce a row of     *)
(* another shape.                                                          *)
THEOREM SessionsTypeCorrect == Spec => []TypeOK
<1>1. Init => TInv
  BY TInvInit
<1>2. TInv /\ [Next]_vars => TInv'
  BY TInvStep
<1>3. TInv => TypeOK
  BY DEF TInv
<1>4. QED
  BY <1>1, <1>2, <1>3, PTL DEF Spec

-----------------------------------------------------------------------------
(* A refused refresh token stays refused, for any number of concurrent  *)
(* requests and failed statements, and whatever the replica shows.        *)

(* A handle handed to a caller has a row.  Inside Insert the request's   *)
(* handle has none yet, and no two requests inside Insert share a handle. *)
FreshHandles ==
    /\ \A t \in returned : sessions[t].user # NoUser
    /\ \A c \in Clients : pc[c] \in InInsert => sessions[req[c].token] = NoSession
    /\ \A c, d \in Clients : c # d /\ pc[c] \in InInsert /\ pc[d] \in InInsert
                                => req[c].token # req[d].token

(* The inductive invariant behind RefusedStaysRefused. *)
RInv == TInv /\ FreshHandles

(* A revoking UPDATE leaves a row as it was or revokes it; the user is   *)
(* kept and an absent row stays absent.                                   *)
LEMMA RevokeShape ==
    ASSUME sessions \in [Tokens -> SessionRow], RevokeWrite
    PROVE  \A k \in Tokens :
              /\ sessions'[k] = sessions[k] \/ sessions'[k] = RevokedRow(sessions[k])
              /\ sessions'[k].user = sessions[k].user
              /\ sessions[k] = NoSession => sessions'[k] = NoSession
<1>1. CASE UNCHANGED sessions
  BY <1>1
<1>2. CASE \E t : sessions' = RevokeByToken(sessions, t)
  <2>1. PICK t : sessions' = RevokeByToken(sessions, t)
    BY <1>2
  <2>2. \A k \in Tokens : sessions[k] = NoSession => sessions'[k] = NoSession
    BY <2>1, RevokeTyped
  <2>3. QED
    BY <2>1, <2>2 DEF RevokeByToken, RevokedRow
<1>3. CASE \E u : sessions' = RevokeByUserID(sessions, u)
  <2>1. PICK u : sessions' = RevokeByUserID(sessions, u)
    BY <1>3
  <2>2. \A k \in Tokens : sessions[k] = NoSession => sessions'[k] = NoSession
    BY <2>1, RevokeTyped
  <2>3. QED
    BY <2>1, <2>2 DEF RevokeByUserID, RevokedRow
<1>4. QED
  BY <1>1, <1>2, <1>3 DEF RevokeWrite

(* Handles handed out and handles of requests inside Insert are tokens. *)
LEMMA HandlesAreTokens ==
    ASSUME TInv
    PROVE  /\ returned \subseteq Tokens
           /\ \A c \in Clients : pc[c] \in InInsert => req[c].token \in Tokens
BY DEF TInv, TypeOK, HandlesIssued, InInsert

(* A step that only revokes, and moves no request into Insert, keeps     *)
(* FreshHandles.                                                           *)
LEMMA FreshKeeps ==
    ASSUME RInv, RevokeWrite, UNCHANGED returned,
           \A d \in Clients : pc'[d] \in InInsert => pc[d] \in InInsert /\ req'[d] = req[d]
    PROVE  FreshHandles'
<1>1. \A k \in Tokens :
         /\ sessions'[k].user = sessions[k].user
         /\ sessions[k] = NoSession => sessions'[k] = NoSession
  BY RevokeShape DEF RInv, TInv, TypeOK, SessionRow
<1>2. /\ returned \subseteq Tokens
      /\ \A c \in Clients : pc[c] \in InInsert => req[c].token \in Tokens
  BY HandlesAreTokens DEF RInv
<1>3. \A t \in returned' : sessions'[t].user # NoUser
  BY <1>1, <1>2 DEF RInv, FreshHandles
<1>4. \A c \in Clients : pc'[c] \in InInsert => sessions'[req'[c].token] = NoSession
  BY <1>1, <1>2 DEF RInv, FreshHandles
<1>5. \A c, d \in Clients : c # d /\ pc'[c] \in InInsert /\ pc'[d] \in InInsert
                              => req'[c].token # req'[d].token
  BY DEF RInv, FreshHandles
<1>6. QED
  BY <1>3, <1>4, <1>5 DEF FreshHandles

(* Login or a validated refresh enters Insert with a freshly generated   *)
(* handle: it has no row, and every other request inside Insert carries *)
(* a handle generated before it.                                          *)
LEMMA EnterInsert ==
    ASSUME RInv, NEW c \in Clients, NEW t \in Tokens, t \notin issued,
           req'[c].token = t,
           \A d \in Clients \ {c} : pc'[d] = pc[d] /\ req'[d] = req[d],
           UNCHANGED <<sessions, returned>>
    PROVE  FreshHandles'
<1>1. sessions[t] = NoSession
  BY DEF RInv, TInv, HandlesIssued
<1>2. \A d \in Clients : pc[d] \in InInsert => req[d].token \in issued
  BY DEF RInv, TInv, HandlesIssued, Writing
<1>3. \A d \in Clients \ {c} : pc'[d] \in InInsert => req'[d].token # t
  BY <1>2
<1>4. QED
  BY <1>1, <1>3 DEF RInv, FreshHandles

(* The INSERT writes the request's own handle, which no caller holds and *)
(* no other request inside Insert shares.                                 *)
LEMMA InsertRowFresh ==
    ASSUME RInv, NEW c \in Clients, InsertRow(c)
    PROVE  FreshHandles'
<1> DEFINE nt == req[c].token
<1>1. pc[c] = "insert" /\ nt \in Tokens /\ req[c].user \in Users
  BY DEF InsertRow, RInv, TInv, TypeOK, InInsert
<1>2. sessions[nt] = NoSession /\ nt \notin returned
  <2>1. sessions[nt] = NoSession
    BY <1>1 DEF RInv, FreshHandles, InInsert
  <2>2. sessions[nt].user = NoUser
    BY <2>1 DEF NoSession
  <2>3. QED
    BY <2>1, <2>2 DEF RInv, FreshHandles
<1>3. \A d \in Clients \ {c} : pc[d] \in InInsert => req[d].token # nt
  BY <1>1 DEF RInv, FreshHandles, InInsert
<1>4. pc'[c] \notin InInsert /\ \A d \in Clients \ {c} : pc'[d] = pc[d] /\ req'[d] = req[d]
  BY <1>1 DEF InsertRow, Done, RInv, TInv, TypeOK, InInsert
<1>5. CASE /\ sessions' = [sessions EXCEPT ![nt] =
                  [user |-> req[c].user, revoked |-> FALSE, deleted |-> FALSE]]
           /\ returned' = returned \cup {nt}
  <2>1. sessions'[nt].user # NoUser
    BY <1>1, <1>5, SessionAssumption DEF RInv, TInv, TypeOK
  <2>2. \A k \in Tokens \ {nt} : sessions'[k] = sessions[k]
    BY <1>5 DEF RInv, TInv, TypeOK
  <2>3. returned \subseteq Tokens
    BY HandlesAreTokens DEF RInv
  <2>4. \A d \in Clients \ {c} : pc[d] \in InInsert => req[d].token \in Tokens
    BY HandlesAreTokens DEF RInv
  <2>5. QED
    BY <1>2, <1>3, <1>4, <1>5, <2>1, <2>2, <2>3, <2>4 DEF RInv, FreshHandles
<1>6. CASE UNCHANGED <<sessions, returned>>
  BY <1>4, <1>6 DEF RInv, FreshHandles
<1>7. QED
  BY <1>5, <1>6 DEF InsertRow

LEMMA FreshInit == Init => RInv
<1> SUFFICES ASSUME Init PROVE RInv
  OBVIOUS
<1>1. TInv
  BY TInvInit
<1>2. returned = {} /\ \A c \in Clients : pc[c] \notin InInsert
  BY DEF Init, InInsert
<1>3. QED
  BY <1>1, <1>2 DEF RInv, FreshHandles

LEMMA FreshStep ==
    ASSUME RInv, [Next]_vars
    PROVE  FreshHandles'
<1>0. TInv
  BY DEF RInv
<1>1. ASSUME NEW c \in Clients, NEW u \in Users, NEW t \in Tokens, Login(c, u, t)
      PROVE  FreshHandles'
  <2>1. t \notin issued /\ req'[c].token = t
    BY <1>0, <1>1 DEF Login, TInv, TypeOK
  <2>2. \A d \in Clients \ {c} : pc'[d] = pc[d] /\ req'[d] = req[d]
    BY <1>0, <1>1 DEF Login, TInv, TypeOK
  <2>3. QED
    BY <1>1, <2>1, <2>2, EnterInsert DEF Login
<1>2. ASSUME NEW c \in Clients, ValidateSession(c) PROVE FreshHandles'
  <2> DEFINE old == req[c].old
             row == ReadView[old]
  <2>1. UNCHANGED <<sessions, returned>>
    BY <1>2 DEF ValidateSession
  <2>2. CASE \E t \in Tokens \ issued :
                /\ req' = [req EXCEPT ![c] = [kind |-> "refresh", user |-> row.user,
                                              token |-> t, old |-> old]]
                /\ pc' = [pc EXCEPT ![c] = "revokeToken"]
    <3>1. PICK t \in Tokens \ issued :
                /\ req' = [req EXCEPT ![c] = [kind |-> "refresh", user |-> row.user,
                                              token |-> t, old |-> old]]
                /\ pc' = [pc EXCEPT ![c] = "revokeToken"]
      BY <2>2
    <3>2. req'[c].token = t /\ \A d \in Clients \ {c} : pc'[d] = pc[d] /\ req'[d] = req[d]
      BY <1>0, <3>1 DEF TInv, TypeOK
    <3>3. QED
      BY <2>1, <3>2, EnterInsert
  <2>3. CASE Done(c)
    <3>1. \A d \in Clients : pc'[d] \in InInsert => pc[d] \in InInsert /\ req'[d] = req[d]
      BY <1>0, <2>3 DEF Done, TInv, TypeOK, InInsert
    <3>2. QED
      BY <2>1, <3>1, FreshKeeps DEF RevokeWrite
  <2>4. QED
    BY <1>2, <2>2, <2>3 DEF ValidateSession
<1>3. ASSUME NEW c \in Clients, InsertRow(c) PROVE FreshHandles'
  BY <1>3, InsertRowFresh
<1>4. ASSUME NEW c \in Clients,
             \/ \E t \in Tokens : RefreshToken(c, t)
             \/ \E t \in Tokens : Logout(c, t)
             \/ InsertRevokeToken(c) \/ InsertRevokeUser(c) \/ RevokeOld(c)
      PROVE  FreshHandles'
  <2>1. RevokeWrite /\ UNCHANGED returned
    BY <1>4 DEF RefreshToken, Logout, InsertRevokeToken, InsertRevokeUser, RevokeOld,
                RevokeWrite
  <2>2. \A d \in Clients : pc'[d] \in InInsert => pc[d] \in InInsert /\ req'[d] = req[d]
    BY <1>0, <1>4 DEF RefreshToken, Logout, InsertRevokeToken, InsertRevokeUser,
                      RevokeOld, Done, TInv, TypeOK, InInsert
  <2>3. QED
    BY <2>1, <2>2, FreshKeeps
<1>5. CASE Replicate \/ (\E t \in Tokens : Expire(t)) \/ UNCHANGED vars
  <2>1. UNCHANGED <<sessions, returned, pc, req>>
    BY <1>5 DEF Replicate, Expire, vars
  <2>2. QED
    BY <2>1, FreshKeeps DEF RevokeWrite
<1>6. QED
  BY <1>1, <1>2, <1>3, <1>4, <1>5 DEF Next, ClientStep

(* The step RefusedStaysRefused allows. *)
RefusedStep ==
    \A t \in returned : ~ValidSession(sessions[t], t) => ~ValidSession(sessions[t], t)'

(* Revoking UPDATEs and the passing of time keep refused tokens refused. *)
LEMMA RefusedByRevoke ==
    ASSUME TInv, RevokeWrite, expired \subseteq expired'
    PROVE  RefusedStep
<1>1. returned \subseteq Tokens /\ sessions \in [Tokens -> SessionRow]
  BY DEF TInv, TypeOK, HandlesIssued, SessionRow
<1>2. \A k \in returned : sessions'[k] = sessions[k] \/ sessions'[k] = RevokedRow(sessions[k])
  BY <1>1, RevokeShape
<1>3. SUFFICES ASSUME NEW k \in returned, ~ValidSession(sessions[k], k)
               PROVE  ~ValidSession(sessions[k], k)'
  BY DEF RefusedStep
<1>4. CASE sessions'[k] = RevokedRow(sessions[k])
  <2>1. sessions'[k].revoked
    BY <1>4 DEF RevokedRow
  <2>2. QED
    BY <2>1 DEF ValidSession
<1>5. CASE sessions'[k] = sessions[k]
  <2>1. ~Live(sessions[k]) \/ sessions[k].revoked \/ k \in expired
    BY <1>3 DEF ValidSession
  <2>2. ~Live(sessions'[k]) \/ sessions'[k].revoked \/ k \in expired'
    BY <1>5, <2>1
  <2>3. QED
    BY <2>2 DEF ValidSession
<1>6. QED
  BY <1>2, <1>4, <1>5

LEMMA RefusedStepHolds ==
    ASSUME RInv, [Next]_vars
    PROVE  RefusedStep
<1>0. TInv
  BY DEF RInv
<1>1. ASSUME NEW c \in Clients, InsertRow(c) PROVE RefusedStep
  <2> DEFINE nt == req[c].token
  <2>1. pc[c] = "insert" /\ sessions[nt] = NoSession /\ UNCHANGED expired
    BY <1>1 DEF InsertRow, RInv, FreshHandles, InInsert
  <2>2. nt \notin returned
    BY <2>1 DEF RInv, FreshHandles, NoSession
  <2>3. returned \subseteq Tokens
    BY <1>0, HandlesAreTokens
  <2>4. \A k \in returned : sessions'[k] = sessions[k]
    BY <1>0, <1>1, <2>2, <2>3 DEF InsertRow, TInv, TypeOK
  <2>5. QED
    BY <2>1, <2>4 DEF RefusedStep, ValidSession
<1>2. ASSUME NEW c \in Clients,
             \/ \E u \in Users, t \in Tokens : Login(c, u, t)
             \/ \E t \in Tokens : RefreshToken(c, t)
             \/ ValidateSession(c)
      PROVE  RefusedStep
  <2>1. UNCHANGED <<sessions, expired>>
    BY <1>2 DEF Login, RefreshToken, ValidateSession
  <2>2. QED
    BY <1>0, <2>1, RefusedByRevoke DEF RevokeWrite
<1>3. ASSUME NEW c \in Clients,
             \/ \E t \in Tokens : Logout(c, t)
             \/ InsertRevokeToken(c) \/ InsertRevokeUser(c) \/ RevokeOld(c)
      PROVE  RefusedStep
  <2>1. RevokeWrite /\ UNCHANGED expired
    BY <1>3 DEF Logout, InsertRevokeToken, InsertRevokeUser, RevokeOld, RevokeWrite
  <2>2. QED
    BY <1>0, <2>1, RefusedByRevoke
<1>4. CASE Replicate \/ (\E t \in Tokens : Expire(t)) \/ UNCHANGED vars
  <2>1. UNCHANGED sessions /\ expired \subseteq expired'
    BY <1>4 DEF Replicate, Expire, vars
  <2>2. QED
    BY <1>0, <2>1, RefusedByRevoke DEF RevokeWrite
<1>5. QED
  BY <1>1, <1>2, <1>3, <1>4 DEF Next, ClientStep

(* Scenarios S5 and S6 on the primary, for any number of concurrent      *)
(* Login, RefreshToken and Logout requests, any number of failed         *)
(* statements and either connection for FindByToken: once                 *)
(* validateSession would refuse a handed-out refresh token, it refuses   *)
(* it for ever, because Insert's INSERT only ever writes a handle that    *)
(* createSession has just generated and no caller holds.                  *)
THEOREM RefusedStaysRefusedThm == Spec => RefusedStaysRefused
<1>1. Init => RInv
  BY FreshInit
<1>2. RInv /\ [Next]_vars => RInv'
  BY TInvStep, FreshStep DEF RInv
<1>3. RInv /\ [Next]_vars => RefusedStep
  BY RefusedStepHolds
<1>4. QED
  BY <1>1, <1>2, <1>3, PTL DEF Spec, RefusedStaysRefused, RefusedStep

====
