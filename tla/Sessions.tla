------------------------------ MODULE Sessions ------------------------------
(***************************************************************************)
(* Refresh-token sessions: DefaultAuthManager's Login, RefreshToken and  *)
(* Logout over DefaultSessionRepository and the sessions table.           *)
(*                                                                         *)
(* createSession calls SessionRepository.Insert, which is three separate  *)
(* statements on the primary, with no transaction: RevokeByToken of the  *)
(* new token, RevokeByUserID of the user, then the INSERT.  The revoke    *)
(* errors are discarded.  RefreshToken first runs validateSession, which  *)
(* calls FindByToken.  That query goes to the REPLICA (ReplicaNewSelect). *)
(* After createSession it revokes the old token, again discarding the     *)
(* error.  Each statement is one step, so the statements of concurrent    *)
(* requests (Clients) interleave.                                          *)
(*                                                                         *)
(* Abstractions:                                                            *)
(* - A token is its stored hash.  A handle is drawn from Tokens and never *)
(*   drawn twice (32 random bytes).                                        *)
(* - The users table, passwords and JWT signing are left out.  Their      *)
(*   failures return before any session write.                             *)
(* - expires_at is the set of expired tokens, and it grows as time passes.*)
(* - The replica is a copy of the primary's table.  Replicate brings it   *)
(*   up to date; with ReplicaLags = FALSE the replica is the primary.      *)
(***************************************************************************)
EXTENDS Naturals, FiniteSets

CONSTANTS
    Users,          \* user ids
    Tokens,         \* hashed refresh handles createSession may produce
    Clients,        \* concurrent auth requests (HTTP handler goroutines)
    NoUser,         \* the user of no row
    NoToken,        \* no token
    ReplicaLags,    \* ReplicaURL names a streaming replica, not the primary
    MaxFaults       \* bound on failed statements in a behaviour

ASSUME SessionAssumption ==
    /\ IsFiniteSet(Tokens)
    /\ NoUser \notin Users
    /\ NoToken \notin Tokens
    /\ ReplicaLags \in BOOLEAN
    /\ MaxFaults \in Nat

(* A row of the sessions table (entity.Session): user_id, revoked,       *)
(* deleted_at IS NOT NULL.  NoSession is the absence of a row.            *)
Session == [user : Users, revoked : BOOLEAN, deleted : BOOLEAN]
NoSession == [user |-> NoUser, revoked |-> FALSE, deleted |-> FALSE]

(* The request a client goroutine is serving: "login" or "refresh", the  *)
(* user, the new token createSession inserts and the presented old one.  *)
Request == [kind : {"login", "refresh"}, user : Users \cup {NoUser},
            token : Tokens \cup {NoToken}, old : Tokens \cup {NoToken}]
NoRequest == [kind |-> "login", user |-> NoUser, token |-> NoToken,
              old |-> NoToken]

(* Where a request is.  "validate": RefreshToken before FindByToken;    *)
(* "revokeToken", "revokeUser", "insert": the three statements of Insert; *)
(* "revokeOld": RefreshToken's final RevokeByToken(oldHashed).            *)
PC == {"idle", "validate", "revokeToken", "revokeUser", "insert", "revokeOld"}

VARIABLES
    sessions,       \* the primary's sessions table: [Tokens -> row]
    replica,        \* the table as the replica shows it
    expired,        \* tokens whose expires_at has passed
    issued,         \* handles generated so far
    returned,       \* refresh tokens handed back to a caller
    pc,             \* [Clients -> PC]
    req,            \* [Clients -> Request]
    faults          \* failed statements so far

vars == <<sessions, replica, expired, issued, returned, pc, req, faults>>

-----------------------------------------------------------------------------
(* Statements *)

Fault == faults < MaxFaults /\ faults' = faults + 1

(* A row the WHERE deleted_at IS NULL filter (and bun's soft_delete) sees. *)
Live(r) == r.user # NoUser /\ ~r.deleted

(* SET revoked = true, deleted_at = now. *)
RevokedRow(r) == [user |-> r.user, revoked |-> TRUE, deleted |-> TRUE]

(* RevokeByToken: UPDATE ... WHERE token = ? AND deleted_at IS NULL. *)
RevokeByToken(tbl, t) ==
    [k \in Tokens |-> IF k = t /\ Live(tbl[k]) THEN RevokedRow(tbl[k]) ELSE tbl[k]]

(* RevokeByUserID: UPDATE ... WHERE user_id = ? AND deleted_at IS NULL. *)
RevokeByUserID(tbl, u) ==
    [k \in Tokens |-> IF tbl[k].user = u /\ Live(tbl[k]) THEN RevokedRow(tbl[k])
                      ELSE tbl[k]]

(* The connection FindByToken reads through: ReplicaConn. *)
ReadView == IF ReplicaLags THEN replica ELSE sessions

(* validateSession's checks on FindByToken's result: a live row (not     *)
(* ErrNoRows), not revoked, not expired.                                  *)
ValidSession(r, t) == Live(r) /\ ~r.revoked /\ t \notin expired

(* The request is over; the goroutine returns to serving. *)
Done(c) ==
    /\ pc' = [pc EXCEPT ![c] = "idle"]
    /\ req' = [req EXCEPT ![c] = NoRequest]

-----------------------------------------------------------------------------
(* DefaultAuthManager requests of client goroutine c *)

(* Login with valid credentials for u: FindByEmail, CheckPassword,        *)
(* UpdateLastLoginAt and the access token touch no session; then          *)
(* createSession generates the handle t and calls Insert.                 *)
Login(c, u, t) ==
    /\ pc[c] = "idle"
    /\ t \notin issued
    /\ issued' = issued \cup {t}
    /\ req' = [req EXCEPT ![c] = [kind |-> "login", user |-> u, token |-> t,
                                  old |-> NoToken]]
    /\ pc' = [pc EXCEPT ![c] = "revokeToken"]
    /\ UNCHANGED <<sessions, replica, expired, returned, faults>>

(* RefreshToken with a refresh token some caller was given; its JWT      *)
(* signature is valid. *)
RefreshToken(c, t) ==
    /\ pc[c] = "idle"
    /\ t \in returned
    /\ req' = [req EXCEPT ![c] = [kind |-> "refresh", user |-> NoUser,
                                  token |-> NoToken, old |-> t]]
    /\ pc' = [pc EXCEPT ![c] = "validate"]
    /\ UNCHANGED <<sessions, replica, expired, issued, returned, faults>>

(* Mutation: the new session is created for the request's user field,   *)
(* never set on a refresh, instead of FindByID(session.UserID).          *)
ValidateSessionWrongUser(c) ==
    LET old == req[c].old
        row == ReadView[old]
    IN /\ pc[c] = "validate"
       /\ \/ /\ ValidSession(row, old)
             /\ \E t \in Tokens \ issued :
                   /\ issued' = issued \cup {t}
                   /\ req' = [req EXCEPT ![c] = [kind |-> "refresh", user |-> req[c].user,
                                                 token |-> t, old |-> old]]
             /\ pc' = [pc EXCEPT ![c] = "revokeToken"]
             /\ UNCHANGED faults
          \/ /\ ~ValidSession(row, old)
             /\ Done(c)
             /\ UNCHANGED <<issued, faults>>
          \/ /\ Fault
             /\ Done(c)
             /\ UNCHANGED issued
       /\ UNCHANGED <<sessions, replica, expired, returned>>

(* Mutation: RefreshToken hands back the presented handle instead of    *)
(* rotating it, so Insert writes the new session over the old row.        *)
ValidateSessionNoRotation(c) ==
    LET old == req[c].old
        row == ReadView[old]
    IN /\ pc[c] = "validate"
       /\ \/ /\ ValidSession(row, old)
             /\ req' = [req EXCEPT ![c] = [kind |-> "refresh", user |-> row.user,
                                           token |-> old, old |-> old]]
             /\ pc' = [pc EXCEPT ![c] = "revokeToken"]
             /\ UNCHANGED <<issued, faults>>
          \/ /\ ~ValidSession(row, old)
             /\ Done(c)
             /\ UNCHANGED <<issued, faults>>
          \/ /\ Fault
             /\ Done(c)
             /\ UNCHANGED issued
       /\ UNCHANGED <<sessions, replica, expired, returned>>

(* validateSession(FindByToken on the replica), FindByID, and            *)
(* createSession's new handle.  An invalid session, or a failed query,   *)
(* ends the request with an error.                                         *)
ValidateSession(c) ==
    LET old == req[c].old
        row == ReadView[old]
    IN /\ pc[c] = "validate"
       /\ \/ /\ ValidSession(row, old)
             /\ \E t \in Tokens \ issued :
                   /\ issued' = issued \cup {t}
                   /\ req' = [req EXCEPT ![c] = [kind |-> "refresh", user |-> row.user,
                                                 token |-> t, old |-> old]]
             /\ pc' = [pc EXCEPT ![c] = "revokeToken"]
             /\ UNCHANGED faults
          \/ /\ ~ValidSession(row, old)
             /\ Done(c)
             /\ UNCHANGED <<issued, faults>>
          \/ /\ Fault
             /\ Done(c)
             /\ UNCHANGED issued
       /\ UNCHANGED <<sessions, replica, expired, returned>>

(* Insert, first statement: RevokeByToken(session.Token); error dropped. *)
InsertRevokeToken(c) ==
    /\ pc[c] = "revokeToken"
    /\ \/ /\ sessions' = RevokeByToken(sessions, req[c].token)
          /\ UNCHANGED faults
       \/ /\ Fault
          /\ UNCHANGED sessions
    /\ pc' = [pc EXCEPT ![c] = "revokeUser"]
    /\ UNCHANGED <<replica, expired, issued, returned, req>>

(* Mutation: Insert without the RevokeByUserID statement. *)
InsertRevokeUserSkipped(c) ==
    /\ pc[c] = "revokeUser"
    /\ pc' = [pc EXCEPT ![c] = "insert"]
    /\ UNCHANGED <<sessions, replica, expired, issued, returned, req, faults>>

(* Insert, second statement: RevokeByUserID(session.UserID); error       *)
(* dropped. *)
InsertRevokeUser(c) ==
    /\ pc[c] = "revokeUser"
    /\ \/ /\ sessions' = RevokeByUserID(sessions, req[c].user)
          /\ UNCHANGED faults
       \/ /\ Fault
          /\ UNCHANGED sessions
    /\ pc' = [pc EXCEPT ![c] = "insert"]
    /\ UNCHANGED <<replica, expired, issued, returned, req>>

(* Insert, third statement: the INSERT.  On success createSession        *)
(* returns the token: Login answers, RefreshToken goes on to revoke the  *)
(* old token.  On error the request fails.                                *)
InsertRow(c) ==
    LET t == req[c].token
    IN /\ pc[c] = "insert"
       /\ \/ /\ sessions' = [sessions EXCEPT ![t] =
                     [user |-> req[c].user, revoked |-> FALSE, deleted |-> FALSE]]
             /\ returned' = returned \cup {t}
             /\ IF req[c].kind = "refresh"
                   THEN /\ pc' = [pc EXCEPT ![c] = "revokeOld"]
                        /\ UNCHANGED req
                   ELSE Done(c)
             /\ UNCHANGED faults
          \/ /\ Fault
             /\ Done(c)
             /\ UNCHANGED <<sessions, returned>>
       /\ UNCHANGED <<replica, expired, issued>>

(* RefreshToken, last statement: RevokeByToken(oldHashed); error dropped. *)
RevokeOld(c) ==
    /\ pc[c] = "revokeOld"
    /\ \/ /\ sessions' = RevokeByToken(sessions, req[c].old)
          /\ UNCHANGED faults
       \/ /\ Fault
          /\ UNCHANGED sessions
    /\ Done(c)
    /\ UNCHANGED <<replica, expired, issued, returned>>

(* Logout: RevokeByToken of the presented token, one statement. *)
Logout(c, t) ==
    /\ pc[c] = "idle"
    /\ t \in returned
    /\ \/ /\ sessions' = RevokeByToken(sessions, t)
          /\ UNCHANGED faults
       \/ /\ Fault
          /\ UNCHANGED sessions
    /\ UNCHANGED <<replica, expired, issued, returned, pc, req>>

-----------------------------------------------------------------------------
(* Environment *)

(* The replica applies the primary's outstanding writes. *)
Replicate ==
    /\ replica # sessions
    /\ replica' = sessions
    /\ UNCHANGED <<sessions, expired, issued, returned, pc, req, faults>>

(* Time passes beyond a token's expires_at. *)
Expire(t) ==
    /\ t \in issued \ expired
    /\ expired' = expired \cup {t}
    /\ UNCHANGED <<sessions, replica, issued, returned, pc, req, faults>>

Init ==
    /\ sessions = [t \in Tokens |-> NoSession]
    /\ replica = sessions
    /\ expired = {}
    /\ issued = {}
    /\ returned = {}
    /\ pc = [c \in Clients |-> "idle"]
    /\ req = [c \in Clients |-> NoRequest]
    /\ faults = 0

(* Every step of client goroutine c. *)
ClientStep(c) ==
    \/ \E u \in Users, t \in Tokens : Login(c, u, t)
    \/ \E t \in Tokens : RefreshToken(c, t)
    \/ \E t \in Tokens : Logout(c, t)
    \/ ValidateSession(c)
    \/ InsertRevokeToken(c)
    \/ InsertRevokeUser(c)
    \/ InsertRow(c)
    \/ RevokeOld(c)

Next ==
    \/ \E c \in Clients : ClientStep(c)
    \/ Replicate
    \/ \E t \in Tokens : Expire(t)

Spec == Init /\ [][Next]_vars

-----------------------------------------------------------------------------
(* Properties *)

(* Every variable holds a value of its type, and a request inside Insert *)
(* carries a user and a new token. *)
TypeOK ==
    /\ sessions \in [Tokens -> Session \cup {NoSession}]
    /\ replica \in [Tokens -> Session \cup {NoSession}]
    /\ expired \subseteq issued
    /\ returned \subseteq issued
    /\ pc \in [Clients -> PC]
    /\ req \in [Clients -> Request]
    /\ \A c \in Clients :
          pc[c] \in {"revokeToken", "revokeUser", "insert", "revokeOld"}
              => req[c].user \in Users /\ req[c].token \in Tokens
    /\ faults \in 0..MaxFaults

(* Spec section 8 property 1: for every user, at most one session row is  *)
(* neither revoked nor deleted, after any sequence of Login,              *)
(* RefreshToken and Logout.  Insert's RevokeByUserID before the INSERT is *)
(* what is meant to keep it.                                               *)
AtMostOneActiveSession ==
    \A u \in Users :
        Cardinality({t \in Tokens : sessions[t].user = u
                                    /\ ~sessions[t].revoked
                                    /\ ~sessions[t].deleted}) <= 1

(* Scenarios S5 and S6: a refresh token that has been rotated or logged  *)
(* out is refused.  Whenever validateSession accepts a token, the        *)
(* primary still holds that session live and unrevoked.                    *)
RefreshAcceptsOnlyLiveSession ==
    [][\A c \in Clients :
          (pc[c] = "validate" /\ pc'[c] = "revokeToken")
              => LET r == sessions[req[c].old]
                 IN r.user # NoUser /\ ~r.deleted /\ ~r.revoked
                    /\ req[c].old \notin expired]_vars

(* Scenarios S5 and S6 on the primary: once validateSession would refuse *)
(* a refresh token that was handed to a caller (rotated, logged out or    *)
(* expired), it refuses it for ever.  No later statement of any           *)
(* concurrent request, a failed one included, brings that session back:  *)
(* createSession's INSERT only ever writes a freshly generated handle.   *)
RefusedStaysRefused ==
    [][\A t \in returned :
          ~ValidSession(sessions[t], t) => ~ValidSession(sessions[t], t)']_vars

=============================================================================
