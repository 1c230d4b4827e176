---------------------------- MODULE RefreshTokens -----------------------------
(***************************************************************************)
(* The refresh_tokens table under the handlers of backend/app/api/auth.py  *)
(* that touch it: the token issued by a login, /auth/refresh, /auth/logout *)
(* and /auth/logout-all.                                                   *)
(*                                                                         *)
(* A handler is a coroutine that runs one READ COMMITTED transaction and   *)
(* gives up the event loop at every statement, so requests interleave      *)
(* between the SELECT of the token, the flush of the writes (which locks   *)
(* the rows it updates) and the COMMIT that get_session issues whether the *)
(* handler returned or raised.                                             *)
(*                                                                         *)
(* Tokens are numbered; the raw value, its hash and the cookie are one.    *)
(* Audit rows of requests that change nothing else are left out.           *)
(***************************************************************************)
EXTENDS Naturals

CONSTANTS
  Users,
  Reqs,        \* requests that may be in progress at the same time
  MaxTokens,   \* bound: rows ever inserted
  Expiring     \* bound: the tokens that may reach expires_at

ASSUME TokensAssumption == MaxTokens \in Nat
ASSUME UsersAssumption  == "nobody" \notin Users

Tokens == 1..MaxTokens

VARIABLES
  status,      \* status[t]: no row, a row without revoked_at, a row with it
  owner,       \* owner[t]: user_id of the row
  parent,      \* parent[t]: the token whose rotation issued t, 0 for a login
  expired,     \* tokens past expires_at
  active,      \* users with is_active
  audit,       \* audit_log, one row per action and token or user
  req          \* req[r]: the state of request r

vars == <<status, owner, parent, expired, active, audit, req>>

(***************************************************************************)
(* stage of a request:                                                     *)
(*   idle      not running                                                 *)
(*   rotate, revoke   the token was read, the write is to come             *)
(*   reuse     a revoked token was read, the bulk UPDATE is to come        *)
(*   bulk      the bulk UPDATE has taken its snapshot                      *)
(*   written   the writes are flushed, the COMMIT is to come               *)
(*   done      it answered that all sessions are revoked                   *)
(* op is the action its audit row will carry.                              *)
(***************************************************************************)
Stages == {"idle", "rotate", "revoke", "reuse", "bulk", "written", "done"}
Ops    == {"none", "login", "refresh", "expired", "reuse", "logout", "logout_all"}

RequestAt(stage, op, tok, user, targets, fresh) ==
  [stage |-> stage, op |-> op, tok |-> tok, user |-> user,
   targets |-> targets, wrote |-> {}, fresh |-> fresh]

NoRequest == RequestAt("idle", "none", 0, "nobody", {}, 0)

Request == [stage: Stages, op: Ops, tok: 0..MaxTokens, user: Users \union {"nobody"},
            targets: SUBSET Tokens, wrote: SUBSET Tokens, fresh: 0..MaxTokens]

AuditRow == [action: Ops \ {"none"}, tok: 0..MaxTokens, user: Users]

Live(t)     == status[t] = "live"
LiveOf(u)   == {t \in Tokens : Live(t) /\ owner[t] = u}
Waiting(r)  == req[r].stage \in {"idle", "done"}

\* Held by a transaction that updated the row and has not ended yet.  A bulk UPDATE
\* takes its rows in the order of the table, so two of them queue and do not cross;
\* here it takes them all at once when the last is free.
LockedFor(r, t) == \E q \in Reqs \ {r} : req[q].stage = "written" /\ t \in req[q].wrote

Free == {t \in Tokens : status[t] = "absent" /\ \A r \in Reqs : req[r].fresh # t}

\* generate_refresh_token: a value nobody else holds.
NewToken(t) == t \in Free /\ \A s \in Free : t <= s

Start(r, request) == Waiting(r) /\ req' = [req EXCEPT ![r] = request]

\* The answer is sent. Only the one that promises something is remembered.
Finish(r, outcome) ==
  req' = [req EXCEPT ![r] =
            IF outcome = "all_revoked"
              THEN RequestAt("done", req[r].op, 0, "nobody", req[r].targets, 0)
              ELSE NoRequest]

Unchanged == UNCHANGED <<status, owner, parent, expired, active, audit>>

Init ==
  /\ status  = [t \in Tokens |-> "absent"]
  /\ owner   = [t \in Tokens |-> "nobody"]
  /\ parent  = [t \in Tokens |-> 0]
  /\ expired = {} /\ active = Users /\ audit = {}
  /\ req = [r \in Reqs |-> NoRequest]
-----------------------------------------------------------------------------
(* The handlers up to their writes.                                        *)

\* passkey_login_finish after the assertion is verified: _issue_tokens and the
\* audit row are flushed.
LoginBegin(r, u, new) ==
  /\ u \in active /\ NewToken(new)
  /\ Start(r, RequestAt("written", "login", 0, u, {}, new))
  /\ Unchanged

AcceptsToRotate(t) == Live(t)

\* SELECT by token_hash; what happens next is decided by this image of the row.
RefreshRead(r, t, new) ==
  /\ status[t] # "absent" /\ NewToken(new)
  /\ \/ /\ ~AcceptsToRotate(t)
        /\ Start(r, RequestAt("reuse", "reuse", t, owner[t], {}, 0))
     \/ /\ AcceptsToRotate(t) /\ t \in expired
        /\ Start(r, RequestAt("revoke", "expired", t, owner[t], {}, 0))
     \/ /\ AcceptsToRotate(t) /\ t \notin expired
        /\ Start(r, RequestAt("rotate", "refresh", t, owner[t], {}, new))
  /\ Unchanged

\* Logging out with a token that is revoked already changes nothing.
LogoutRead(r, t) ==
  /\ Live(t)
  /\ Start(r, RequestAt("revoke", "logout", t, owner[t], {}, 0))
  /\ Unchanged

\* get_current_user, then the bulk UPDATE takes the snapshot its WHERE runs on.
LogoutAllBegin(r, u) ==
  /\ u \in active
  /\ Start(r, RequestAt("bulk", "logout_all", 0, u, LiveOf(u), 0))
  /\ Unchanged

\* A revoked token was replayed: the same bulk UPDATE.
ReuseBegin(r) ==
  /\ req[r].stage = "reuse"
  /\ req' = [req EXCEPT ![r].stage = "bulk", ![r].targets = LiveOf(req[r].user)]
  /\ Unchanged
-----------------------------------------------------------------------------
(* The flushes: an UPDATE waits for whoever holds the row, then proceeds.  *)

\* session.get(User) found the user disabled: AuthError before any write.
RefuseInactive(r) ==
  /\ req[r].stage = "rotate" /\ req[r].user \notin active
  /\ Finish(r, "inactive")
  /\ Unchanged

\* UPDATE ... SET revoked_at, last_used_at WHERE id: the row is not looked at
\* again, it may have been revoked since it was read.  Then INSERT of the new one.
RotateWrite(r) ==
  /\ req[r].stage = "rotate" /\ req[r].user \in active
  /\ ~LockedFor(r, req[r].tok)
  /\ req' = [req EXCEPT ![r].stage = "written", ![r].wrote = {req[r].tok}]
  /\ Unchanged

RevokeWrite(r) ==
  /\ req[r].stage = "revoke"
  /\ ~LockedFor(r, req[r].tok)
  /\ req' = [req EXCEPT ![r].stage = "written", ![r].wrote = {req[r].tok}]
  /\ Unchanged

\* Rows of the snapshot that are still not revoked once their locks are free.
StillTargeted(r) == {t \in req[r].targets : Live(t)}

BulkWrite(r) ==
  /\ req[r].stage = "bulk"
  /\ \A t \in req[r].targets : ~LockedFor(r, t)
  /\ req' = [req EXCEPT ![r].stage = "written", ![r].wrote = StillTargeted(r)]
  /\ Unchanged
-----------------------------------------------------------------------------
(* get_session: COMMIT after the handler returned, and after it raised.    *)

\* Mutant of RowsAfter: the rotation forgets to revoke the old row.
RowsAfterInsertOnly(r) ==
  [t \in Tokens |-> IF t = req[r].fresh THEN "live"
                    ELSE IF t \in req[r].wrote /\ req[r].fresh = 0 THEN "revoked"
                    ELSE status[t]]

\* Mutant of RowsAfter: the ORM writes the whole row back, as it was read.
RowsAfterStaleWrite(r) ==
  [t \in Tokens |-> IF t = req[r].fresh THEN "live"
                    ELSE IF t \in req[r].wrote THEN "revoked"
                    ELSE IF t \in req[r].targets THEN "live"
                    ELSE status[t]]

RowsAfter(r) ==
  [t \in Tokens |-> IF t = req[r].fresh THEN "live"
                    ELSE IF t \in req[r].wrote THEN "revoked"
                    ELSE status[t]]

\* Mutant of AuditAfter: no row when the handler raises.
AuditAfterReturnOnly(r) ==
  IF req[r].op \in {"reuse", "expired"} THEN audit
  ELSE audit \union {[action |-> req[r].op, tok |-> req[r].tok, user |-> req[r].user]}

AuditAfter(r) ==
  audit \union {[action |-> req[r].op, tok |-> req[r].tok, user |-> req[r].user]}

Committed(r) ==
  /\ status' = RowsAfter(r)
  /\ owner'  = [t \in Tokens |-> IF t = req[r].fresh THEN req[r].user ELSE owner[t]]
  /\ parent' = [t \in Tokens |-> IF t = req[r].fresh THEN req[r].tok ELSE parent[t]]
  /\ audit'  = AuditAfter(r)
  /\ UNCHANGED <<expired, active>>

\* AuthError follows the writes of the reuse and of the expiry branch.
Raises(r) == req[r].op \in {"reuse", "expired"}

Outcome(r) == IF req[r].op \in {"reuse", "logout_all"} THEN "all_revoked" ELSE "other"

CommitOnReturn(r) ==
  /\ req[r].stage = "written" /\ ~Raises(r)
  /\ Committed(r)
  /\ Finish(r, Outcome(r))

\* Mutant of KeptOnRaise: get_session rolls back when the handler raises.
RolledBackOnRaise(r) == Unchanged

KeptOnRaise(r) == Committed(r)

CommitOnRaise(r) ==
  /\ req[r].stage = "written" /\ Raises(r)
  /\ KeptOnRaise(r)
  /\ Finish(r, Outcome(r))

\* The database fails the transaction, or the process dies: nothing remains of it.
Abort(r) ==
  /\ ~Waiting(r)
  /\ Finish(r, "error")
  /\ Unchanged
-----------------------------------------------------------------------------
(* Around the handlers.                                                    *)

\* Only a token that is not revoked is ever asked whether it expired.
Expire(t) ==
  /\ t \in Expiring /\ Live(t) /\ t \notin expired
  /\ expired' = expired \union {t}
  /\ UNCHANGED <<status, owner, parent, active, audit, req>>

\* No endpoint clears is_active: it is an operator's statement.
Disable(u) ==
  /\ u \in active /\ active' = active \ {u}
  /\ UNCHANGED <<status, owner, parent, expired, audit, req>>

Proceed(r) ==
  \/ ReuseBegin(r) \/ RefuseInactive(r) \/ RotateWrite(r) \/ RevokeWrite(r) \/ BulkWrite(r)
  \/ CommitOnReturn(r) \/ CommitOnRaise(r)

Next ==
  \/ \E r \in Reqs :
       \/ \E u \in Users, new \in Tokens : LoginBegin(r, u, new)
       \/ \E t \in Tokens, new \in Tokens : RefreshRead(r, t, new)
       \/ \E t \in Tokens : LogoutRead(r, t)
       \/ \E u \in Users : LogoutAllBegin(r, u)
       \/ Proceed(r)
       \/ Abort(r)
  \/ \E t \in Tokens : Expire(t)
  \/ \E u \in Users : Disable(u)

Spec == Init /\ [][Next]_vars
-----------------------------------------------------------------------------
TypeOK ==
  /\ status \in [Tokens -> {"absent", "live", "revoked"}]
  /\ owner \in [Tokens -> Users \union {"nobody"}]
  /\ parent \in [Tokens -> 0..MaxTokens]
  /\ expired \subseteq Tokens /\ active \subseteq Users
  /\ audit \subseteq AuditRow
  /\ req \in [Reqs -> Request]

\* Rotation is atomic: there is no moment, whatever runs beside it or fails, at
\* which a token and the one it was exchanged for are both usable, and the new one
\* is of the same user.
RotationAtomic ==
  \A t \in Tokens : status[t] # "absent" /\ parent[t] # 0 =>
    status[parent[t]] = "revoked" /\ owner[parent[t]] = owner[t]

\* Every revoked token is accounted for by an audit row of its own or by one that
\* says that all tokens of its owner were revoked.
RevocationAudited ==
  \A t \in Tokens : status[t] = "revoked" => \E a \in audit :
    \/ a.action \in {"refresh", "expired", "logout"} /\ a.tok = t
    \/ a.action \in {"reuse", "logout_all"} /\ a.user = owner[t]

\* A client that was told all sessions are revoked can rely on it for every token
\* that was usable when the UPDATE began: none of them comes back.
RevokeAllCovers ==
  \A r \in Reqs : req[r].stage = "done" =>
    \A t \in req[r].targets : status[t] = "revoked"

\* A revoked token stays revoked, and keeps its owner: no request that read the
\* row earlier writes its old image back.
RevokedForever ==
  [][\A t \in Tokens : status[t] = "revoked" =>
       status'[t] = "revoked" /\ owner'[t] = owner[t]]_vars
=============================================================================
