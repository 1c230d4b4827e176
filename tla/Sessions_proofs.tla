--------------------------- MODULE Sessions_proofs ----------------------------
(***************************************************************************)
(* Proofs, for any number of concurrent requests, users, tokens, tabs and  *)
(* calls, of the safety properties of RefreshTokens that overlapping       *)
(* requests do not break, and of those of BrowserSession.                  *)
(*                                                                         *)
(* The inductive invariant of the table is SessionInv.  RequestOK(q) is    *)
(* what a request in state q relies on while others run; it is kept by a   *)
(* step of another request because rows only move forward (Advances).      *)
(*                                                                         *)
(* That of the composition is BrowserInv: SessionInv, the promise of a tab *)
(* and its shared refresh, and Calm, which says how the jar, the requests  *)
(* under way and the table fit together while nothing has gone wrong.      *)
(***************************************************************************)
EXTENDS BrowserSession, TLAPS

-----------------------------------------------------------------------------
(* RefreshTokens.                                                          *)

OneRow  == {"refresh", "expired", "logout"}
AllRows == {"reuse", "logout_all"}

\* The tables: rows that exist have an owner, a rotated token is revoked, and
\* nothing is revoked without an audit row.
TablesOK ==
  /\ \A t \in Tokens : status[t] # "absent" => owner[t] \in Users
  /\ RotationAtomic
  /\ RevocationAudited

\* The token a request inserts has no row yet; the rows it read or targets exist
\* and the targets are its user's; what it wrote is what its op says.
RequestOK(q) ==
  /\ q.stage \notin {"idle", "done"} => q.op # "none" /\ q.user \in Users
  /\ q.fresh # 0 => status[q.fresh] = "absent"
  /\ q.tok # 0 => status[q.tok] # "absent" /\ owner[q.tok] = q.user
  /\ \A t \in q.targets : status[t] # "absent"
  /\ q.stage \in {"rotate", "revoke"} => q.tok # 0 /\ q.op \in OneRow /\ q.targets = {}
  /\ q.stage \in {"reuse", "bulk"} => q.fresh = 0 /\ q.op \in AllRows
  /\ q.stage \in {"bulk", "written"} => \A t \in q.targets : owner[t] = q.user
  /\ q.stage = "written" =>
       \/ q.op = "login" /\ q.tok = 0 /\ q.wrote = {}
       \/ q.op \in OneRow /\ q.tok # 0 /\ q.wrote = {q.tok}
       \/ /\ q.op \in AllRows /\ q.fresh = 0 /\ q.wrote \subseteq q.targets
          /\ \A t \in q.targets : t \in q.wrote \/ status[t] = "revoked"
  /\ q.stage = "done" => \A t \in q.targets : status[t] = "revoked"

\* No two requests insert the same token.
FreshDistinct ==
  \A p, r \in Reqs : p # r /\ req[p].fresh # 0 => req[p].fresh # req[r].fresh

SessionInv ==
  /\ TypeOK
  /\ TablesOK
  /\ \A r \in Reqs : RequestOK(req[r])
  /\ FreshDistinct

\* A row that exists stays, with its owner and, once revoked, revoked.
Advances ==
  \A t \in Tokens : status[t] # "absent" =>
    /\ status'[t] # "absent" /\ owner'[t] = owner[t]
    /\ status[t] = "revoked" => status'[t] = "revoked"

\* A step of one request that leaves the tables alone.
LEMMA LocalStep ==
  ASSUME SessionInv, NEW r \in Reqs, NEW q \in Request,
         req' = [req EXCEPT ![r] = q], Unchanged, RequestOK(q),
         q.fresh # 0 => \A p \in Reqs \ {r} : req[p].fresh # q.fresh
  PROVE  SessionInv' /\ Advances
<1>1. TypeOK' /\ req \in [Reqs -> Request]
  BY DEF SessionInv, TypeOK, Unchanged, Tokens
<1>2. TablesOK'
  BY DEF SessionInv, TablesOK, RotationAtomic, RevocationAudited, Unchanged, Tokens
<1>3. ASSUME NEW p \in Reqs PROVE RequestOK(req[p])'
  <2>1. req'[p] = IF p = r THEN q ELSE req[p]
    BY <1>1
  <2>2. RequestOK(req'[p])
    BY <2>1 DEF SessionInv
  <2> QED
    BY <2>2 DEF RequestOK, Unchanged, OneRow, AllRows
<1>4. FreshDistinct'
  BY <1>1 DEF SessionInv, FreshDistinct
<1>5. Advances
  BY DEF Advances, Unchanged
<1> QED
  BY <1>1, <1>2, <1>3, <1>4, <1>5 DEF SessionInv

\* A request that ends without a commit goes back to where it started from.
LEMMA NoRequestOK == NoRequest \in Request /\ RequestOK(NoRequest)
BY TokensAssumption DEF NoRequest, RequestAt, Request, RequestOK, Stages, Ops,
                        OneRow, AllRows, Tokens

\* What a handler begins with is a request.
LEMMA RequestTyped ==
  ASSUME NEW stage \in Stages, NEW op \in Ops, NEW tok \in 0..MaxTokens,
         NEW user \in Users \union {"nobody"}, NEW targets \in SUBSET Tokens,
         NEW fresh \in 0..MaxTokens
  PROVE  RequestAt(stage, op, tok, user, targets, fresh) \in Request
BY DEF RequestAt, Request

\* The first step of a handler that is given a token or issues one.
LEMMA BeginStep ==
  ASSUME SessionInv, NEW r \in Reqs, NEW u \in Users, NEW t \in Tokens, NEW new \in Tokens,
         LoginBegin(r, u, new) \/ RefreshRead(r, t, new) \/ LogoutRead(r, t)
  PROVE  SessionInv' /\ Advances
<1>0. t \in 0..MaxTokens /\ t # 0 /\ new \in 0..MaxTokens /\ new # 0 /\ 0 \in 0..MaxTokens
  BY TokensAssumption DEF Tokens
<1>n. NewToken(new) => status[new] = "absent" /\ \A p \in Reqs : req[p].fresh # new
  BY DEF NewToken, Free
<1>o. status[t] # "absent" => owner[t] \in Users
  BY DEF SessionInv, TablesOK
<1>1. CASE LoginBegin(r, u, new)
  <2> DEFINE q == RequestAt("written", "login", 0, u, {}, new)
  <2>1. q \in Request
    BY <1>0, RequestTyped DEF Stages, Ops
  <2>2. RequestOK(q) /\ \A p \in Reqs \ {r} : req[p].fresh # q.fresh
    BY <1>1, <1>n DEF LoginBegin, RequestOK, RequestAt, OneRow, AllRows
  <2>3. req' = [req EXCEPT ![r] = q] /\ Unchanged
    BY <1>1 DEF LoginBegin, Start
  <2> HIDE DEF q
  <2> QED
    BY <2>1, <2>2, <2>3, LocalStep
<1>2. CASE RefreshRead(r, t, new)
  <2>1. /\ status[t] # "absent" /\ owner[t] \in Users /\ status[new] = "absent"
        /\ \A p \in Reqs : req[p].fresh # new
        /\ Unchanged
    BY <1>2, <1>n, <1>o DEF RefreshRead
  <2>2. CASE req' = [req EXCEPT ![r] = RequestAt("reuse", "reuse", t, owner[t], {}, 0)]
    <3> DEFINE q == RequestAt("reuse", "reuse", t, owner[t], {}, 0)
    <3>1. q \in Request
      BY <1>0, <2>1, RequestTyped DEF Stages, Ops
    <3>2. RequestOK(q) /\ q.fresh = 0
      BY <2>1 DEF RequestOK, RequestAt, OneRow, AllRows
    <3> HIDE DEF q
    <3> QED
      BY <2>1, <2>2, <3>1, <3>2, LocalStep DEF q
  <2>3. CASE req' = [req EXCEPT ![r] = RequestAt("revoke", "expired", t, owner[t], {}, 0)]
    <3> DEFINE q == RequestAt("revoke", "expired", t, owner[t], {}, 0)
    <3>1. q \in Request
      BY <1>0, <2>1, RequestTyped DEF Stages, Ops
    <3>2. RequestOK(q) /\ q.fresh = 0
      BY <1>0, <2>1 DEF RequestOK, RequestAt, OneRow, AllRows
    <3> HIDE DEF q
    <3> QED
      BY <2>1, <2>3, <3>1, <3>2, LocalStep DEF q
  <2>4. CASE req' = [req EXCEPT ![r] = RequestAt("rotate", "refresh", t, owner[t], {}, new)]
    <3> DEFINE q == RequestAt("rotate", "refresh", t, owner[t], {}, new)
    <3>1. q \in Request
      BY <1>0, <2>1, RequestTyped DEF Stages, Ops
    <3>2. RequestOK(q) /\ \A p \in Reqs \ {r} : req[p].fresh # q.fresh
      BY <1>0, <2>1 DEF RequestOK, RequestAt, OneRow, AllRows
    <3> HIDE DEF q
    <3> QED
      BY <2>1, <2>4, <3>1, <3>2, LocalStep DEF q
  <2> QED
    BY <1>2, <2>2, <2>3, <2>4 DEF RefreshRead, Start
<1>3. CASE LogoutRead(r, t)
  <2> DEFINE q == RequestAt("revoke", "logout", t, owner[t], {}, 0)
  <2>1. status[t] # "absent" /\ owner[t] \in Users
    BY <1>3, <1>o DEF LogoutRead, Live
  <2>2. q \in Request
    BY <1>0, <2>1, RequestTyped DEF Stages, Ops
  <2>3. RequestOK(q) /\ q.fresh = 0
    BY <1>0, <2>1 DEF RequestOK, RequestAt, OneRow, AllRows
  <2>4. req' = [req EXCEPT ![r] = q] /\ Unchanged
    BY <1>3 DEF LogoutRead, Start
  <2> HIDE DEF q
  <2> QED
    BY <2>2, <2>3, <2>4, LocalStep
<1> QED
  BY <1>1, <1>2, <1>3

\* The steps between the first one and the commit, and the requests that end
\* without a commit.
LEMMA WorkStep ==
  ASSUME SessionInv, NEW r \in Reqs,
         \/ ReuseBegin(r) \/ RotateWrite(r) \/ RevokeWrite(r) \/ BulkWrite(r)
         \/ RefuseInactive(r) \/ Abort(r)
  PROVE  SessionInv' /\ Advances
<1>0. req[r] \in Request /\ RequestOK(req[r]) /\ 0 \notin Tokens
  BY DEF SessionInv, TypeOK, Tokens
<1>f. req[r].fresh # 0 => \A p \in Reqs \ {r} : req[p].fresh # req[r].fresh
  BY DEF SessionInv, FreshDistinct
<1>1. CASE ReuseBegin(r)
  <2> DEFINE q == [req[r] EXCEPT !.stage = "bulk", !.targets = LiveOf(req[r].user)]
  <2>1. q \in Request /\ q.fresh = req[r].fresh
    BY <1>0 DEF Request, Stages, LiveOf
  <2>2. RequestOK(q)
    BY <1>0, <1>1 DEF ReuseBegin, Request, RequestOK, LiveOf, Live
  <2>3. req' = [req EXCEPT ![r] = q] /\ Unchanged
    BY <1>1 DEF ReuseBegin
  <2> HIDE DEF q
  <2> QED
    BY <1>f, <2>1, <2>2, <2>3, LocalStep
<1>2. CASE RotateWrite(r) \/ RevokeWrite(r)
  <2> DEFINE q == [req[r] EXCEPT !.stage = "written", !.wrote = {req[r].tok}]
  <2>1. req[r].stage \in {"rotate", "revoke"} /\ req[r].tok \in Tokens
    BY <1>0, <1>2 DEF RotateWrite, RevokeWrite, Request, RequestOK, Tokens
  <2>2. q \in Request /\ q.fresh = req[r].fresh
    BY <1>0, <2>1 DEF Request, Stages
  <2>3. RequestOK(q)
    BY <1>0, <2>1 DEF Request, RequestOK, OneRow, AllRows
  <2>4. req' = [req EXCEPT ![r] = q] /\ Unchanged
    BY <1>2 DEF RotateWrite, RevokeWrite
  <2> HIDE DEF q
  <2> QED
    BY <1>f, <2>2, <2>3, <2>4, LocalStep
<1>3. CASE BulkWrite(r)
  <2> DEFINE q == [req[r] EXCEPT !.stage = "written", !.wrote = StillTargeted(r)]
  <2>1. q \in Request /\ q.fresh = req[r].fresh
    BY <1>0 DEF Request, Stages, StillTargeted
  <2>2. \A t \in req[r].targets : status[t] # "absent" /\ status[t] # "live"
                                    => status[t] = "revoked"
    BY <1>0 DEF Request, SessionInv, TypeOK
  <2>3. RequestOK(q)
    BY <1>0, <1>3, <2>2 DEF BulkWrite, StillTargeted, Live, Request, RequestOK
  <2>4. req' = [req EXCEPT ![r] = q] /\ Unchanged
    BY <1>3 DEF BulkWrite
  <2> HIDE DEF q
  <2> QED
    BY <1>f, <2>1, <2>3, <2>4, LocalStep
<1>4. CASE RefuseInactive(r) \/ Abort(r)
  <2>1. req' = [req EXCEPT ![r] = NoRequest] /\ Unchanged
    BY <1>4 DEF RefuseInactive, Abort, Finish
  <2>2. NoRequest.fresh = 0
    BY DEF NoRequest, RequestAt
  <2> QED
    BY <2>1, <2>2, NoRequestOK, LocalStep
<1> QED
  BY <1>1, <1>2, <1>3, <1>4

\* The commit: the tables take the request's writes, the others keep what they
\* rely on, and an answer that promises something starts by being true.
LEMMA CommitStep ==
  ASSUME SessionInv, NEW r \in Reqs, req[r].stage = "written",
         Committed(r), Finish(r, Outcome(r))
  PROVE  SessionInv' /\ Advances
<1> DEFINE q == req[r]
<1>0. q \in Request /\ RequestOK(q) /\ 0 \notin Tokens /\ req \in [Reqs -> Request]
  BY DEF SessionInv, TypeOK, Tokens
<1>1. /\ q.op \in Ops \ {"none"} /\ q.user \in Users
      /\ q.tok \in 0..MaxTokens /\ q.wrote \subseteq Tokens /\ q.targets \subseteq Tokens
      /\ q.fresh # 0 => status[q.fresh] = "absent"
      /\ q.tok # 0 => q.tok \in Tokens /\ status[q.tok] # "absent" /\ owner[q.tok] = q.user
      /\ \A t \in q.targets : status[t] # "absent" /\ owner[t] = q.user
      /\ \/ q.op = "login" /\ q.tok = 0 /\ q.wrote = {}
         \/ q.op \in OneRow /\ q.tok # 0 /\ q.wrote = {q.tok}
         \/ /\ q.op \in AllRows /\ q.fresh = 0 /\ q.wrote \subseteq q.targets
            /\ \A t \in q.targets : t \in q.wrote \/ status[t] = "revoked"
  BY <1>0 DEF RequestOK, Request, Tokens
<1>2. /\ status' = [t \in Tokens |-> IF t = q.fresh THEN "live"
                                     ELSE IF t \in q.wrote THEN "revoked" ELSE status[t]]
      /\ owner' = [t \in Tokens |-> IF t = q.fresh THEN q.user ELSE owner[t]]
      /\ parent' = [t \in Tokens |-> IF t = q.fresh THEN q.tok ELSE parent[t]]
      /\ audit' = audit \union {[action |-> q.op, tok |-> q.tok, user |-> q.user]}
      /\ expired' = expired /\ active' = active
  BY DEF Committed, RowsAfter, AuditAfter
<1>3. \A t \in q.wrote : status[t] # "absent" /\ t # q.fresh
  <2> TAKE t \in q.wrote
  <2>1. t \in Tokens /\ t # 0
    BY <1>0, <1>1
  <2>2. status[t] # "absent"
    BY <1>1
  <2> QED
    BY <1>1, <2>1, <2>2
<1>4. PICK next \in Request :
        /\ req' = [req EXCEPT ![r] = next] /\ next.fresh = 0
        /\ \/ next = NoRequest
           \/ /\ q.op \in AllRows
              /\ next = RequestAt("done", q.op, 0, "nobody", q.targets, 0)
  <2>1. CASE q.op \in AllRows
    <3>1. RequestAt("done", q.op, 0, "nobody", q.targets, 0) \in Request
      <4>1. "done" \in Stages /\ 0 \in 0..MaxTokens /\ q.op \in Ops
        BY <1>1, TokensAssumption DEF Stages
      <4> QED
        BY <1>1, <4>1, RequestTyped
    <3>2. req' = [req EXCEPT ![r] = RequestAt("done", q.op, 0, "nobody", q.targets, 0)]
      BY <2>1 DEF Finish, Outcome, AllRows
    <3> QED
      BY <2>1, <3>1, <3>2 DEF RequestAt
  <2>2. CASE q.op \notin AllRows
    <3>1. req' = [req EXCEPT ![r] = NoRequest]
      BY <2>2 DEF Finish, Outcome, AllRows
    <3> QED
      BY <3>1, NoRequestOK DEF NoRequest, RequestAt
  <2> QED
    BY <2>1, <2>2
<1> HIDE DEF q
<1>5. TypeOK'
  <2>1. TypeOK
    BY DEF SessionInv
  <2>2. status' \in [Tokens -> {"absent", "live", "revoked"}]
    BY <1>2, <2>1 DEF TypeOK
  <2>3. owner' \in [Tokens -> Users \union {"nobody"}] /\ parent' \in [Tokens -> 0..MaxTokens]
    BY <1>1, <1>2, <2>1 DEF TypeOK
  <2>4. audit' \subseteq AuditRow
    BY <1>1, <1>2, <2>1 DEF TypeOK, AuditRow
  <2>5. req' \in [Reqs -> Request]
    BY <1>0, <1>4
  <2> QED
    BY <1>2, <2>1, <2>2, <2>3, <2>4, <2>5 DEF TypeOK
<1>6. Advances
  BY <1>0, <1>1, <1>2, <1>3 DEF Advances
<1>7. TablesOK'
  <2>1. ASSUME NEW t \in Tokens, status'[t] # "absent" PROVE owner'[t] \in Users
    BY <1>1, <1>2, <1>3, <2>1 DEF SessionInv, TablesOK
  <2>2. ASSUME NEW t \in Tokens, status'[t] # "absent", parent'[t] # 0
        PROVE  status'[parent'[t]] = "revoked" /\ owner'[parent'[t]] = owner'[t]
    <3>1. CASE t = q.fresh
      <4>1. q.fresh # 0 /\ parent'[t] = q.tok
        BY <1>0, <1>2, <3>1
      <4>2. /\ q.tok \in Tokens /\ q.tok \in q.wrote /\ q.tok # q.fresh
            /\ owner[q.tok] = q.user
        BY <1>1, <2>2, <4>1
      <4>3. owner'[t] = q.user /\ owner'[q.tok] = q.user /\ status'[q.tok] = "revoked"
        BY <1>2, <3>1, <4>2
      <4> QED
        BY <4>1, <4>3
    <3>2. CASE t # q.fresh
      <4>1. status[t] # "absent" /\ parent'[t] = parent[t]
        BY <1>2, <1>3, <2>2, <3>2
      <4>2. /\ parent[t] \in Tokens /\ status[parent[t]] = "revoked"
            /\ owner[parent[t]] = owner[t] /\ parent'[t] = parent[t]
        BY <2>2, <4>1 DEF SessionInv, TypeOK, TablesOK, RotationAtomic, Tokens
      <4> QED
        BY <1>6, <4>1, <4>2 DEF Advances
    <3> QED
      BY <3>1, <3>2
  <2>3. ASSUME NEW t \in Tokens, status'[t] = "revoked"
        PROVE  \E a \in audit' :
                 \/ a.action \in {"refresh", "expired", "logout"} /\ a.tok = t
                 \/ a.action \in {"reuse", "logout_all"} /\ a.user = owner'[t]
    <3> DEFINE row == [action |-> q.op, tok |-> q.tok, user |-> q.user]
    <3>1. CASE t \in q.wrote /\ q.op \in OneRow
      <4>1. q.tok = t /\ row \in audit'
        BY <1>1, <1>2, <3>1 DEF OneRow, AllRows
      <4> QED
        BY <3>1, <4>1 DEF OneRow
    <3>2. CASE t \in q.wrote /\ q.op \notin OneRow
      <4>1. q.op \in AllRows /\ t \in q.targets /\ t # q.fresh /\ row \in audit'
        BY <1>1, <1>2, <1>3, <3>2
      <4>2. owner'[t] = q.user
        BY <1>1, <1>2, <4>1
      <4> QED
        BY <4>1, <4>2 DEF AllRows
    <3>3. CASE t \notin q.wrote
      <4>1. status[t] = "revoked"
        BY <1>2, <2>3, <3>3
      <4>2. owner'[t] = owner[t]
        BY <1>6, <4>1 DEF Advances
      <4> QED
        BY <1>2, <4>1, <4>2 DEF SessionInv, TablesOK, RevocationAudited
    <3> QED
      BY <3>1, <3>2, <3>3
  <2> QED
    BY <2>1, <2>2, <2>3 DEF TablesOK, RotationAtomic, RevocationAudited
<1>8. ASSUME NEW p \in Reqs PROVE RequestOK(req[p])'
  <2>1. CASE p # r
    <3>1. req'[p] = req[p] /\ RequestOK(req[p]) /\ req[p] \in Request
      BY <1>0, <1>4, <2>1 DEF SessionInv
    <3> DEFINE o == req[p]
    <3>2. /\ \A t \in o.targets : t \in Tokens /\ status[t] # "absent"
          /\ o.tok # 0 => o.tok \in Tokens
      BY <3>1 DEF RequestOK, Request, Tokens
    <3>3. o.fresh # 0 => status'[o.fresh] = "absent"
      <4>1. ASSUME o.fresh # 0
            PROVE  o.fresh \in Tokens /\ o.fresh # q.fresh /\ status[o.fresh] = "absent"
        BY <2>1, <3>1, <4>1 DEF RequestOK, Request, Tokens, SessionInv, FreshDistinct, q
      <4> QED
        BY <1>2, <1>3, <4>1
    <3>4. o.tok # 0 => status'[o.tok] # "absent" /\ owner'[o.tok] = o.user
      BY <1>6, <3>1, <3>2 DEF RequestOK, Advances
    <3>5. \A t \in o.targets :
            /\ status'[t] # "absent" /\ owner'[t] = owner[t]
            /\ status[t] = "revoked" => status'[t] = "revoked"
      BY <1>6, <3>2 DEF Advances
    <3> HIDE DEF o
    <3>6. RequestOK(o)
      BY <3>1 DEF o
    <3>7. RequestOK(o)'
      BY <3>1, <3>3, <3>4, <3>5, <3>6 DEF RequestOK, o
    <3> QED
      BY <3>1, <3>7 DEF o
  <2>2. CASE p = r
    <3>1. req'[p] = next
      BY <1>0, <1>4, <2>2
    <3>2. CASE next = NoRequest
      BY <3>1, <3>2 DEF NoRequest, RequestAt, RequestOK
    <3>3. CASE q.op \in AllRows /\ next = RequestAt("done", q.op, 0, "nobody", q.targets, 0)
      <4>1. \A t \in q.targets : status'[t] = "revoked" /\ status'[t] # "absent"
        BY <1>0, <1>1, <1>2, <1>3, <3>3 DEF OneRow, AllRows
      <4> QED
        BY <3>1, <3>3, <4>1 DEF RequestAt, RequestOK
    <3> QED
      BY <1>4, <3>2, <3>3
  <2> QED
    BY <2>1, <2>2
<1>9. FreshDistinct'
  <2>1. ASSUME NEW p \in Reqs PROVE req'[p].fresh = IF p = r THEN 0 ELSE req[p].fresh
    BY <1>0, <1>4
  <2> QED
    BY <2>1 DEF SessionInv, FreshDistinct
<1> QED
  BY <1>5, <1>6, <1>7, <1>8, <1>9 DEF SessionInv

\* The induction.
LEMMA SessionInit == Init => SessionInv
<1> SUFFICES ASSUME Init PROVE SessionInv
  OBVIOUS
<1>1. \A r \in Reqs : req[r] = NoRequest
  BY DEF Init
<1>2. TypeOK
  <2>1. req \in [Reqs -> Request]
    BY NoRequestOK DEF Init
  <2> QED
    BY <2>1, TokensAssumption DEF Init, TypeOK
<1>3. TablesOK
  BY DEF Init, TablesOK, RotationAtomic, RevocationAudited
<1>4. FreshDistinct
  BY <1>1 DEF FreshDistinct, NoRequest, RequestAt
<1> QED
  BY <1>1, <1>2, <1>3, <1>4, NoRequestOK DEF SessionInv

LEMMA SessionNext == SessionInv /\ [Next]_vars => SessionInv' /\ Advances
<1> SUFFICES ASSUME SessionInv, [Next]_vars PROVE SessionInv' /\ Advances
  OBVIOUS
<1>1. ASSUME NEW r \in Reqs, NEW u \in Users, NEW new \in Tokens, LoginBegin(r, u, new)
      PROVE  SessionInv' /\ Advances
  BY <1>1, BeginStep
<1>2. ASSUME NEW r \in Reqs, NEW t \in Tokens, NEW new \in Tokens, RefreshRead(r, t, new)
      PROVE  SessionInv' /\ Advances
  <2>1. owner[t] \in Users
    BY <1>2 DEF RefreshRead, SessionInv, TablesOK
  <2> QED
    BY <1>2, <2>1, BeginStep
<1>3. ASSUME NEW r \in Reqs, NEW t \in Tokens, LogoutRead(r, t)
      PROVE  SessionInv' /\ Advances
  <2>1. owner[t] \in Users
    BY <1>3 DEF LogoutRead, Live, SessionInv, TablesOK
  <2> QED
    BY <1>3, <2>1, BeginStep
<1>4. ASSUME NEW r \in Reqs, NEW u \in Users, LogoutAllBegin(r, u)
      PROVE  SessionInv' /\ Advances
  <2> DEFINE q == RequestAt("bulk", "logout_all", 0, u, LiveOf(u), 0)
  <2>1. q \in Request
    BY RequestTyped, TokensAssumption DEF Stages, Ops, LiveOf
  <2>2. RequestOK(q) /\ q.fresh = 0
    BY DEF LiveOf, Live, RequestOK, RequestAt, OneRow, AllRows
  <2>3. req' = [req EXCEPT ![r] = q] /\ Unchanged
    BY <1>4 DEF LogoutAllBegin, Start
  <2> HIDE DEF q
  <2> QED
    BY <2>1, <2>2, <2>3, LocalStep
<1>5. ASSUME NEW r \in Reqs, Proceed(r) \/ Abort(r)
      PROVE  SessionInv' /\ Advances
  <2>1. CASE CommitOnReturn(r) \/ CommitOnRaise(r)
    BY <2>1, CommitStep DEF CommitOnReturn, CommitOnRaise, KeptOnRaise
  <2> QED
    BY <1>5, <2>1, WorkStep DEF Proceed
<1>6. CASE \/ \E t \in Tokens : Expire(t)
           \/ \E u \in Users : Disable(u)
           \/ UNCHANGED vars
  <2>1. UNCHANGED <<status, owner, parent, audit, req>>
    BY <1>6 DEF Expire, Disable, vars
  <2>2. TypeOK'
    BY <1>6, <2>1 DEF SessionInv, TypeOK, Expire, Disable, vars
  <2>3. TablesOK' /\ FreshDistinct' /\ Advances
    BY <2>1 DEF SessionInv, TablesOK, RotationAtomic, RevocationAudited, FreshDistinct,
                Advances
  <2>4. ASSUME NEW r \in Reqs PROVE RequestOK(req[r])'
    <3>1. RequestOK(req[r])
      BY DEF SessionInv
    <3> QED
      BY <2>1, <3>1 DEF RequestOK
  <2> QED
    BY <2>2, <2>3, <2>4 DEF SessionInv
<1> QED
  BY <1>1, <1>2, <1>3, <1>4, <1>5, <1>6 DEF Next

LEMMA SessionAlways == Spec => []SessionInv
BY SessionInit, SessionNext, PTL DEF Spec

\* The state of the table and of the requests has its type throughout.
THEOREM TypeCorrect == Spec => []TypeOK
BY SessionAlways, PTL DEF SessionInv

\* /auth/refresh exchanges a token atomically: whatever else runs, and however
\* requests end, the old token is revoked whenever the new one exists.
THEOREM RotationIsAtomic == Spec => []RotationAtomic
BY SessionAlways, PTL DEF SessionInv, TablesOK

\* No token is ever revoked without an audit row that accounts for it, the ones
\* revoked by handlers that then raise included.
THEOREM RevocationsAudited == Spec => []RevocationAudited
BY SessionAlways, PTL DEF SessionInv, TablesOK

\* After logout-all or a detected reuse was answered, the tokens that were usable
\* when its UPDATE began are revoked for good.
THEOREM RevokeAllHolds == Spec => []RevokeAllCovers
<1>1. SessionInv => RevokeAllCovers
  BY DEF SessionInv, RequestOK, RevokeAllCovers
<1> QED
  BY <1>1, SessionAlways, PTL

\* A token that was revoked is never usable again, and never changes hands.
THEOREM RevocationIsFinal == Spec => RevokedForever
<1>1. Advances => \A t \in Tokens : status[t] = "revoked" =>
                    status'[t] = "revoked" /\ owner'[t] = owner[t]
  BY DEF Advances
<1> QED
  BY <1>1, SessionAlways, SessionNext, PTL DEF Spec, RevokedForever
-----------------------------------------------------------------------------
(* BrowserSession: the invariant.                                          *)

\* A shared refresh is the only one of its tab.
SharedOnce ==
  \A r, q \in Reqs :
    /\ Pending(r) /\ fetch[r].by = "shared"
    /\ Pending(q) /\ fetch[q].by = "shared"
    /\ fetch[r].tab = fetch[q].tab /\ fetch[r].tab \in Tabs
    => r = q

\* While nothing has gone wrong, requests under way were sent with the cookie the jar
\* holds, and several of them at once only without a cookie.
CookiesCalm ==
  /\ \A r \in Reqs : Pending(r) => fetch[r].cookie = jar
  /\ \A r, q \in Reqs : r # q /\ Pending(r) /\ Pending(q) => jar = 0 /\ fetch[r].by # "login"

\* No session behind a cookie: there is none, or a sign-out-all left it behind.
Spent(t) == t = 0 \/ LeftBehind(t)

\* What the backend is doing for a fetch, and what it answered.
ServedCalm(r) ==
  fetch[r].at = "served" =>
    /\ fetch[r].by \in {"shared", "silent", "login", "logout", "logout_all"}
    /\ req[r].op \in IF Refreshes(r) THEN {"refresh", "reuse"} ELSE {fetch[r].by}
    /\ req[r].tok = IF req[r].op \in {"refresh", "reuse", "logout"} THEN fetch[r].cookie ELSE 0
    /\ req[r].fresh = 0 <=> req[r].op \in {"reuse", "logout", "logout_all"}
    /\ req[r].op \in {"refresh", "logout"} => fetch[r].cookie # 0 /\ Live(fetch[r].cookie)
    /\ req[r].op = "reuse" => LeftBehind(fetch[r].cookie)

AnsweredCalm(r) ==
  fetch[r].at = "answered" =>
    /\ fetch[r].ok => /\ fetch[r].gives = -1 <=> fetch[r].by = "logout_all"
                      /\ fetch[r].gives = 0 <=> fetch[r].by = "logout"
    /\ ~fetch[r].ok => fetch[r].gives = -1 /\ Spent(fetch[r].cookie)
    /\ fetch[r].by # "login" /\ Spent(fetch[r].cookie) => fetch[r].gives \in {-1, 0}
    /\ fetch[r].gives \in Tokens => Live(fetch[r].gives)

\* The jar's token is live, or left behind, or the answer that replaces it is on its way.
JarCalm ==
  jar # 0 => \/ Live(jar) \/ LeftBehind(jar)
             \/ \E r \in Reqs : fetch[r].at = "answered" /\ fetch[r].gives # -1

\* A settled promise agrees with the jar; nobody signs in while there is one.
PromisesCalm ==
  /\ (\E r \in Reqs : Pending(r) /\ fetch[r].by = "login")
       => \A b \in Tabs : inFlight[b] = "null"
  /\ \A b \in Tabs : inFlight[b] = "failed" => Spent(jar)
  /\ \A b \in Tabs : inFlight[b] = "succeeded" => Spent(jar) \/ access[b] = "valid"

\* An audit row that names a token comes with the revocation of it; a reuse was of a
\* token left behind.
AuditCalm ==
  \A a \in audit :
    /\ a.tok # 0 => a.tok \in Tokens /\ status[a.tok] = "revoked"
    /\ a.action = "reuse" => LeftBehind(a.tok)

Calm ==
  /\ CookiesCalm /\ JarCalm /\ PromisesCalm /\ AuditCalm
  /\ \A r \in Reqs : ServedCalm(r) /\ AnsweredCalm(r)

BrowserInv ==
  /\ SessionInv /\ BrowserTypeOK
  /\ expired = {}
  /\ WaitersHaveRefresh /\ SharedOnce
  /\ upset = {} => Calm
-----------------------------------------------------------------------------
\* The backend of BrowserSession takes steps of RefreshTokens only.
LEMMA BackendStep ==
  ASSUME BrowserTypeOK, [BrowserNext]_allVars
  PROVE  [Next]_vars
<1>1. ASSUME NEW r \in Reqs, Arrives(r) PROVE [Next]_vars
  <2>1. fetch[r].cookie \in 0..MaxTokens
    BY DEF BrowserTypeOK, Fetch
  <2>2. ASSUME fetch[r].cookie # 0 PROVE fetch[r].cookie \in Tokens
    BY <2>1, <2>2, TokensAssumption DEF Tokens
  <2> QED
    BY <1>1, <2>2 DEF Arrives, Next
<1>2. ASSUME NEW r \in Reqs, Continues(r) \/ Returns(r) \/ Raised(r) \/ Breaks(r)
      PROVE  [Next]_vars
  BY <1>2 DEF Continues, Returns, Raised, Breaks, Next, Proceed
<1>3. ASSUME NEW r \in Reqs, Deliver(r) \/ Lose(r)
      PROVE  UNCHANGED vars
  BY <1>3 DEF Deliver, Lose, Finished
<1>4. ASSUME NEW b \in Tabs, AccessExpires(b) \/ Debounced(b) PROVE UNCHANGED vars
  BY <1>4 DEF AccessExpires, Debounced
<1>5. ASSUME NEW b \in Tabs, NEW r \in Reqs,
             Load(b, r) \/ Tick(b, r) \/ SignIn(b, r) \/ SignOut(b, r) \/ SignOutAll(b, r)
      PROVE  UNCHANGED vars
  BY <1>5 DEF Load, Tick, SignIn, SignOut, SignOutAll
<1>6. ASSUME NEW b \in Tabs, NEW c \in Calls,
             AskApi(b, c) \/ Got401(b, c) \/ Got401Settled(b, c)
      PROVE  UNCHANGED vars
  BY <1>6 DEF AskApi, Got401, Got401Settled
<1>7. CASE UNCHANGED allVars
  BY <1>7 DEF allVars
<1> QED
  BY <1>1, <1>2, <1>3, <1>4, <1>5, <1>6, <1>7 DEF BrowserNext
-----------------------------------------------------------------------------
(* Types.                                                                  *)

\* The three values a fetch takes: none, as sent, as answered.
LEMMA NoFetchTyped == NoFetch \in Fetch
BY TokensAssumption DEF NoFetch, Fetch, Makers

\* What is sent is a fetch, with the cookie of the jar.
LEMMA SentTyped ==
  ASSUME BrowserTypeOK, NEW b \in Tabs, NEW by \in Makers
  PROVE  /\ Sent(b, by) \in Fetch
         /\ Sent(b, by).by = by /\ Sent(b, by).tab = b
         /\ Sent(b, by).cookie = jar /\ Sent(b, by).at = "out"
<1>1. jar \in 0..MaxTokens /\ -1 \in -1..MaxTokens
  BY TokensAssumption DEF BrowserTypeOK
<1> QED
  BY <1>1 DEF Sent, Fetch

\* A fetch as it is answered.
WithAnswer(r, ok, gives) ==
  [fetch[r] EXCEPT !.at = "answered", !.ok = ok, !.gives = gives]

\* An answer changes nothing of what was asked.
LEMMA AnswerTyped ==
  ASSUME BrowserTypeOK, NEW r \in Reqs, NEW ok \in BOOLEAN, NEW gives \in -1..MaxTokens,
         Answered(r, ok, gives)
  PROVE  /\ WithAnswer(r, ok, gives) \in Fetch
         /\ fetch' = [fetch EXCEPT ![r] = WithAnswer(r, ok, gives)]
         /\ WithAnswer(r, ok, gives).by = fetch[r].by
         /\ WithAnswer(r, ok, gives).tab = fetch[r].tab
         /\ WithAnswer(r, ok, gives).cookie = fetch[r].cookie
         /\ WithAnswer(r, ok, gives).at = "answered"
         /\ WithAnswer(r, ok, gives).ok = ok
         /\ WithAnswer(r, ok, gives).gives = gives
<1>1. fetch \in [Reqs -> Fetch] /\ fetch[r] \in Fetch
  BY DEF BrowserTypeOK
<1>2. fetch' = [fetch EXCEPT ![r] = WithAnswer(r, ok, gives)]
  BY <1>1 DEF Answered, WithAnswer, Fetch
<1> QED
  BY <1>1, <1>2 DEF WithAnswer, Fetch

\* Nor does a handler that takes the request.
LEMMA ServeTyped ==
  ASSUME BrowserTypeOK, NEW r \in Reqs, Serve(r)
  PROVE  /\ fetch' \in [Reqs -> Fetch]
         /\ fetch'[r].by = fetch[r].by /\ fetch'[r].tab = fetch[r].tab
         /\ fetch'[r].cookie = fetch[r].cookie /\ fetch'[r].at = "served"
         /\ \A q \in Reqs \ {r} : fetch'[q] = fetch[q]
<1>1. fetch \in [Reqs -> Fetch] /\ fetch[r] \in Fetch
  BY DEF BrowserTypeOK
<1>2. [fetch[r] EXCEPT !.at = "served"] \in Fetch
  BY <1>1 DEF Fetch
<1>3. fetch' = [fetch EXCEPT ![r] = [fetch[r] EXCEPT !.at = "served"]]
  BY <1>1 DEF Serve, Fetch
<1> QED
  BY <1>1, <1>2, <1>3 DEF Fetch

\* The variables of the browser keep their types.
LEMMA BrowserTypes ==
  ASSUME BrowserTypeOK, TypeOK, [BrowserNext]_allVars
  PROVE  BrowserTypeOK'
<1>t. /\ fetch \in [Reqs -> Fetch] /\ jar \in 0..MaxTokens /\ 0 \in 0..MaxTokens
      /\ -1 \in -1..MaxTokens /\ 0 \in -1..MaxTokens
      /\ \A r \in Reqs : req[r].fresh \in -1..MaxTokens
  BY TokensAssumption DEF BrowserTypeOK, TypeOK, Request
<1>1. ASSUME NEW r \in Reqs, NEW f \in Fetch, fetch' = [fetch EXCEPT ![r] = f],
             UNCHANGED <<jar, access, inFlight, call>>,
             upset' \subseteq {"overlap", "signin", "fault"}
      PROVE  BrowserTypeOK'
  BY <1>t, <1>1 DEF BrowserTypeOK
<1>2. ASSUME NEW b \in Tabs, NEW by \in Makers
      PROVE  Overlaps(b, by) \subseteq {"overlap", "signin"}
  BY DEF Overlaps
<1>3. ASSUME NEW b \in Tabs, NEW r \in Reqs, Load(b, r)
      PROVE  BrowserTypeOK'
  <2>1. Abandoned(b) \in [Reqs -> Fetch]
    BY <1>t DEF Abandoned, Fetch
  <2>2. Sent(b, "silent") \in Fetch
    BY SentTyped DEF Makers
  <2>3. fetch' = [Abandoned(b) EXCEPT ![r] = Sent(b, "silent")]
    BY <1>3 DEF Load
  <2>4. fetch' \in [Reqs -> Fetch]
    BY <2>1, <2>2, <2>3
  <2>5. upset' \subseteq {"overlap", "signin", "fault"}
    BY <1>2, <1>3 DEF Load, BrowserTypeOK, Makers
  <2> QED
    BY <1>3, <2>4, <2>5 DEF Load, BrowserTypeOK
<1>4. ASSUME NEW b \in Tabs, NEW r \in Reqs, NEW by \in Makers, Send(r, b, by)
      PROVE  fetch' \in [Reqs -> Fetch] /\ upset' \subseteq {"overlap", "signin", "fault"}
  <2>1. fetch' = [fetch EXCEPT ![r] = Sent(b, by)] /\ Sent(b, by) \in Fetch
    BY <1>4, SentTyped DEF Send
  <2> QED
    BY <1>t, <1>2, <1>4, <2>1 DEF Send, BrowserTypeOK
<1>5. ASSUME NEW b \in Tabs, NEW r \in Reqs,
             Tick(b, r) \/ SignIn(b, r) \/ SignOut(b, r) \/ SignOutAll(b, r)
      PROVE  BrowserTypeOK'
  BY <1>4, <1>5 DEF Tick, SignIn, SignOut, SignOutAll, Makers, BrowserTypeOK
<1>6. ASSUME NEW b \in Tabs, AccessExpires(b) \/ Debounced(b)
      PROVE  BrowserTypeOK'
  BY <1>6 DEF AccessExpires, Debounced, BrowserTypeOK
<1>7. ASSUME NEW b \in Tabs, NEW c \in Calls, NEW to \in {"sent", "waiting", "ok", "refused"},
             call' = [call EXCEPT ![b][c] = to]
      PROVE  call' \in [Tabs -> [Calls -> {"idle", "sent", "waiting", "ok", "refused"}]]
  BY <1>7 DEF BrowserTypeOK
<1>8. ASSUME NEW b \in Tabs, NEW c \in Calls, AskApi(b, c) \/ Got401Settled(b, c)
      PROVE  BrowserTypeOK'
  <2>1. CASE AskApi(b, c)
    BY <1>7, <2>1 DEF AskApi, BrowserTypeOK
  <2>2. CASE Got401Settled(b, c)
    <3>1. call' \in [Tabs -> [Calls -> {"idle", "sent", "waiting", "ok", "refused"}]]
      BY <1>7, <2>2 DEF Got401Settled, Retried
    <3> QED
      BY <2>2, <3>1 DEF Got401Settled, BrowserTypeOK
  <2> QED
    BY <1>8, <2>1, <2>2
<1>9. ASSUME NEW b \in Tabs, NEW c \in Calls, Got401(b, c)
      PROVE  BrowserTypeOK'
  <2>1. call' \in [Tabs -> [Calls -> {"idle", "sent", "waiting", "ok", "refused"}]]
    BY <1>7, <1>9 DEF Got401
  <2>2. fetch' \in [Reqs -> Fetch] /\ upset' \subseteq {"overlap", "signin", "fault"}
    BY <1>t, <1>4, <1>9 DEF Got401, Makers, BrowserTypeOK
  <2> QED
    BY <1>9, <2>1, <2>2 DEF Got401, BrowserTypeOK
<1>10. ASSUME NEW r \in Reqs, Serve(r), UNCHANGED <<jar, access, inFlight, call, upset>>
       PROVE  BrowserTypeOK'
  BY <1>10, ServeTyped DEF BrowserTypeOK
<1>11. ASSUME NEW r \in Reqs, NEW ok \in BOOLEAN, NEW gives \in -1..MaxTokens,
              Answered(r, ok, gives), UNCHANGED <<jar, access, inFlight, call>>,
              upset' \subseteq {"overlap", "signin", "fault"}
       PROVE  BrowserTypeOK'
  BY <1>1, <1>11, AnswerTyped
<1>12. ASSUME NEW r \in Reqs, Arrives(r)
       PROVE  BrowserTypeOK'
  <2>1. upset' \subseteq {"overlap", "signin", "fault"}
    BY <1>12 DEF Arrives, BrowserTypeOK
  <2> QED
    BY <1>t, <1>10, <1>11, <1>12, <2>1 DEF Arrives
<1>13. ASSUME NEW r \in Reqs, Returns(r) \/ Raised(r) \/ Breaks(r)
       PROVE  BrowserTypeOK'
  <2>1. upset' \subseteq {"overlap", "signin", "fault"}
    BY <1>13 DEF Returns, Raised, Breaks, BrowserTypeOK
  <2> QED
    BY <1>t, <1>11, <1>13, <2>1 DEF Returns, Raised, Breaks, CookieGiven
<1>14. ASSUME NEW r \in Reqs, NEW ok \in BOOLEAN, Finished(r, ok), jar' \in 0..MaxTokens,
              upset' \subseteq {"overlap", "signin", "fault"}
       PROVE  BrowserTypeOK'
  <2>1. fetch' \in [Reqs -> Fetch]
    BY <1>t, <1>14, NoFetchTyped DEF Finished
  <2>2. CASE UNCHANGED <<access, inFlight, call>>
    BY <1>14, <2>1, <2>2 DEF BrowserTypeOK
  <2>3. CASE fetch[r].tab # "left" /\ Settle(fetch[r].tab, fetch[r].by, ok)
    <3> DEFINE b == fetch[r].tab
    <3>1. b \in Tabs
      BY <1>t, <2>3 DEF Fetch
    <3>2. access' \in [Tabs -> {"none", "valid", "expired"}]
      BY <2>3, <3>1 DEF Settle, BrowserTypeOK
    <3>3. inFlight' \in [Tabs -> {"null", "pending", "succeeded", "failed"}]
      BY <2>3, <3>1 DEF Settle, BrowserTypeOK
    <3>4. call' \in [Tabs -> [Calls -> {"idle", "sent", "waiting", "ok", "refused"}]]
      BY <2>3, <3>1 DEF Settle, BrowserTypeOK
    <3> QED
      BY <1>14, <2>1, <3>2, <3>3, <3>4 DEF BrowserTypeOK
  <2> QED
    BY <1>14, <2>2, <2>3 DEF Finished
<1>15. ASSUME NEW r \in Reqs, Deliver(r) \/ Lose(r)
       PROVE  BrowserTypeOK'
  <2>1. fetch[r].ok \in BOOLEAN /\ fetch[r].gives \in -1..MaxTokens
    BY <1>t DEF Fetch
  <2>2. JarAfter(r) \in 0..MaxTokens
    BY <1>t, <2>1, TokensAssumption DEF JarAfter
  <2>3. jar' \in 0..MaxTokens /\ upset' \subseteq {"overlap", "signin", "fault"}
    BY <1>t, <1>15, <2>2 DEF Deliver, Lose, BrowserTypeOK
  <2> QED
    BY <1>14, <1>15, <2>1, <2>3 DEF Deliver, Lose
<1>16. ASSUME NEW r \in Reqs, Continues(r)
       PROVE  BrowserTypeOK'
  BY <1>16 DEF Continues, browser, BrowserTypeOK
<1>17. CASE UNCHANGED allVars
  BY <1>17 DEF allVars, browser, BrowserTypeOK
<1> QED
  BY <1>3, <1>5, <1>6, <1>8, <1>9, <1>12, <1>13, <1>15, <1>16, <1>17 DEF BrowserNext
-----------------------------------------------------------------------------
(* The promise of a tab and the refresh that settles it.                   *)

\* The shared refreshes of a tab that are under way.
SharedOf(b) == {r \in Reqs : Pending(r) /\ fetch[r].tab = b /\ fetch[r].by = "shared"}

\* A step that neither begins nor ends a shared refresh.
LEMMA WaitersKept ==
  ASSUME WaitersHaveRefresh, SharedOnce, BrowserTypeOK, BrowserTypeOK',
         \A b \in Tabs : SharedOf(b)' = SharedOf(b),
         \A b \in Tabs : inFlight'[b] = "pending" <=> inFlight[b] = "pending",
         \A b \in Tabs, c \in Calls :
           call'[b][c] = "waiting" => call[b][c] = "waiting" \/ inFlight'[b] = "pending"
  PROVE  WaitersHaveRefresh' /\ SharedOnce'
<1>1. \A b \in Tabs : inFlight[b] = "pending" <=> SharedOf(b) # {}
  BY DEF WaitersHaveRefresh, SharedOf
<1>2. \A b \in Tabs : inFlight'[b] = "pending" <=> SharedOf(b)' # {}
  BY <1>1
<1>3. \A b \in Tabs : (\E r \in Reqs : Pending(r)' /\ fetch'[r].tab = b /\ fetch'[r].by = "shared")
                        <=> SharedOf(b)' # {}
  BY DEF SharedOf
<1>4. \A b \in Tabs, c \in Calls : call'[b][c] = "waiting" => inFlight'[b] = "pending"
  BY DEF WaitersHaveRefresh
<1>5. WaitersHaveRefresh'
  BY <1>2, <1>3, <1>4 DEF WaitersHaveRefresh
<1>6. \A b \in Tabs : \A r, q \in SharedOf(b)' : r = q
  <2>1. \A b \in Tabs : \A r, q \in SharedOf(b) : r = q
    BY DEF SharedOnce, SharedOf
  <2> QED
    BY <2>1
<1>7. SharedOnce'
  BY <1>6 DEF SharedOnce, SharedOf
<1> QED
  BY <1>5, <1>7

\* A tab's promise is pending exactly while its one shared refresh is under way, and
\* only then do its calls wait.
LEMMA WaitersStep ==
  ASSUME WaitersHaveRefresh, SharedOnce, BrowserTypeOK, BrowserTypeOK', TypeOK,
         [BrowserNext]_allVars
  PROVE  WaitersHaveRefresh' /\ SharedOnce'
<1>t. /\ fetch \in [Reqs -> Fetch]
      /\ call \in [Tabs -> [Calls -> {"idle", "sent", "waiting", "ok", "refused"}]]
      /\ inFlight \in [Tabs -> {"null", "pending", "succeeded", "failed"}]
  BY DEF BrowserTypeOK
<1>0. \A b \in Tabs : inFlight[b] = "pending" <=> SharedOf(b) # {}
  BY DEF WaitersHaveRefresh, SharedOf
<1>1. CASE UNCHANGED fetch /\ (UNCHANGED allVars \/ \E r \in Reqs : Continues(r))
  <2>1. UNCHANGED <<call, inFlight>> /\ \A b \in Tabs : SharedOf(b)' = SharedOf(b)
    BY <1>1 DEF Continues, browser, allVars, SharedOf, Pending
  <2> QED
    BY <2>1, WaitersKept
<1>2. ASSUME NEW b \in Tabs, AccessExpires(b) \/ Debounced(b)
      PROVE  WaitersHaveRefresh' /\ SharedOnce'
  <2>1. \A t \in Tabs : SharedOf(t)' = SharedOf(t)
    BY <1>2 DEF AccessExpires, Debounced, SharedOf, Pending
  <2>2. \A t \in Tabs : inFlight'[t] = "pending" <=> inFlight[t] = "pending"
    BY <1>t, <1>2 DEF AccessExpires, Debounced
  <2> QED
    BY <1>2, <2>1, <2>2, WaitersKept DEF AccessExpires, Debounced
<1>3. ASSUME NEW b \in Tabs, NEW c \in Calls, AskApi(b, c) \/ Got401Settled(b, c)
      PROVE  WaitersHaveRefresh' /\ SharedOnce'
  <2>1. \A t \in Tabs : SharedOf(t)' = SharedOf(t)
    BY <1>3 DEF AskApi, Got401Settled, SharedOf, Pending
  <2>2. \A t \in Tabs, d \in Calls : call'[t][d] = "waiting" => call[t][d] = "waiting"
    BY <1>t, <1>3 DEF AskApi, Got401Settled, Retried
  <2> QED
    BY <1>3, <2>1, <2>2, WaitersKept DEF AskApi, Got401Settled
<1>4. ASSUME NEW b \in Tabs, NEW r \in Reqs, NEW by \in Makers, Send(r, b, by)
      PROVE  /\ \A t \in Tabs : SharedOf(t)' = IF by = "shared" /\ t = b
                                                 THEN SharedOf(t) \union {r} ELSE SharedOf(t)
             /\ r \notin SharedOf(b)
  <2>1. /\ fetch'[r] = Sent(b, by) /\ \A q \in Reqs \ {r} : fetch'[q] = fetch[q]
        /\ fetch[r].at = "none"
    BY <1>t, <1>4 DEF Send, Pending
  <2>2. Sent(b, by).tab = b /\ Sent(b, by).by = by /\ Sent(b, by).at = "out"
    BY DEF Sent
  <2> QED
    BY <2>1, <2>2 DEF SharedOf, Pending
<1>5. ASSUME NEW b \in Tabs, NEW r \in Reqs,
             Tick(b, r) \/ SignIn(b, r) \/ SignOut(b, r) \/ SignOutAll(b, r)
      PROVE  WaitersHaveRefresh' /\ SharedOnce'
  <2>1. PICK by \in {"silent", "login", "logout", "logout_all"} : Send(r, b, by)
    BY <1>5 DEF Tick, SignIn, SignOut, SignOutAll
  <2>2. by \in Makers /\ by # "shared"
    BY DEF Makers
  <2>3. \A t \in Tabs : SharedOf(t)' = SharedOf(t)
    BY <1>4, <2>1, <2>2
  <2> QED
    BY <1>5, <2>3, WaitersKept DEF Tick, SignIn, SignOut, SignOutAll
<1>6. ASSUME NEW b \in Tabs, NEW c \in Calls, Got401(b, c)
      PROVE  WaitersHaveRefresh' /\ SharedOnce'
  <2>1. /\ \A t \in Tabs : inFlight'[t] = IF t = b THEN "pending" ELSE inFlight[t]
        /\ \A t \in Tabs, d \in Calls :
             call'[t][d] = IF t = b /\ d = c THEN "waiting" ELSE call[t][d]
        /\ inFlight[b] \in {"null", "pending"}
    BY <1>t, <1>6 DEF Got401
  <2>2. CASE MayShare(b)
    <3>1. UNCHANGED fetch /\ inFlight[b] = "pending"
      BY <1>6, <2>1, <2>2 DEF Got401, MayShare
    <3>2. \A t \in Tabs : SharedOf(t)' = SharedOf(t)
      BY <3>1 DEF SharedOf, Pending
    <3> QED
      BY <2>1, <3>1, <3>2, WaitersKept
  <2>3. CASE ~MayShare(b)
    <3>1. PICK r \in Reqs : Send(r, b, "shared")
      BY <1>6, <2>3 DEF Got401
    <3>2. \A t \in Tabs : SharedOf(t)' = IF t = b THEN SharedOf(t) \union {r} ELSE SharedOf(t)
      BY <1>4, <3>1 DEF Makers
    <3>3. SharedOf(b) = {}
      BY <1>0, <2>3 DEF MayShare
    <3>4. \A t \in Tabs : inFlight'[t] = "pending" <=> SharedOf(t)' # {}
      BY <1>0, <2>1, <3>2, <3>3
    <3>5. \A t \in Tabs : \A p, q \in SharedOf(t)' : p = q
      BY <3>2, <3>3 DEF SharedOnce, SharedOf
    <3>6. \A t \in Tabs, d \in Calls : call'[t][d] = "waiting" => inFlight'[t] = "pending"
      BY <2>1 DEF WaitersHaveRefresh
    <3> QED
      BY <3>4, <3>5, <3>6 DEF WaitersHaveRefresh, SharedOnce, SharedOf
  <2> QED
    BY <2>2, <2>3
<1>7. ASSUME NEW r \in Reqs, Arrives(r) \/ Returns(r) \/ Raised(r) \/ Breaks(r)
      PROVE  WaitersHaveRefresh' /\ SharedOnce'
  <2>1. /\ \A q \in Reqs : fetch'[q].by = fetch[q].by /\ fetch'[q].tab = fetch[q].tab
        /\ \A q \in Reqs : Pending(q)' <=> Pending(q)
    <3>1. CASE Serve(r) /\ fetch[r].at = "out"
      BY <3>1, ServeTyped DEF Pending
    <3>2. ASSUME NEW ok, NEW gives, Answered(r, ok, gives), fetch[r].at \in {"out", "served"}
          PROVE  /\ \A q \in Reqs : fetch'[q].by = fetch[q].by /\ fetch'[q].tab = fetch[q].tab
                 /\ \A q \in Reqs : Pending(q)' <=> Pending(q)
      BY <1>t, <3>2 DEF Answered, Pending, Fetch
    <3> QED
      BY <1>7, <3>1, <3>2 DEF Arrives, Returns, Raised, Breaks
  <2>2. \A t \in Tabs : SharedOf(t)' = SharedOf(t)
    BY <2>1 DEF SharedOf
  <2>3. UNCHANGED <<call, inFlight>>
    BY <1>7 DEF Arrives, Returns, Raised, Breaks
  <2> QED
    BY <2>2, <2>3, WaitersKept
<1>8. ASSUME NEW r \in Reqs, NEW ok \in BOOLEAN, Finished(r, ok), fetch[r].at = "answered"
      PROVE  WaitersHaveRefresh' /\ SharedOnce'
  <2>1. /\ \A q \in Reqs : Pending(q)' <=> q # r /\ Pending(q)
        /\ \A q \in Reqs \ {r} : fetch'[q] = fetch[q]
    BY <1>t, <1>8 DEF Finished, Pending, NoFetch
  <2>2. \A t \in Tabs : SharedOf(t)' = SharedOf(t) \ {r}
    BY <2>1 DEF SharedOf
  <2>3. CASE fetch[r].by # "shared" \/ fetch[r].tab = "left"
    <3>1. \A t \in Tabs : SharedOf(t)' = SharedOf(t)
      BY <2>2, <2>3, TabsAssumption DEF SharedOf
    <3>2. UNCHANGED <<inFlight, call>>
      BY <1>8, <2>3 DEF Finished, Settle
    <3> QED
      BY <3>1, <3>2, WaitersKept
  <2>4. CASE fetch[r].by = "shared" /\ fetch[r].tab # "left"
    <3> DEFINE b == fetch[r].tab
    <3>1. b \in Tabs /\ r \in SharedOf(b)
      BY <1>t, <1>8, <2>4 DEF SharedOf, Pending, Fetch
    <3>2. \A q \in SharedOf(b) : q = r
      BY <3>1 DEF SharedOf, SharedOnce
    <3>3. \A t \in Tabs \ {b} : r \notin SharedOf(t)
      BY DEF SharedOf
    <3>4. \A t \in Tabs : SharedOf(t)' = IF t = b THEN {} ELSE SharedOf(t)
      BY <2>2, <3>2, <3>3
    <3>5. Settle(b, "shared", ok)
      BY <1>8, <2>4 DEF Finished
    <3> HIDE DEF b
    <3>6. /\ \A t \in Tabs \ {b} : inFlight'[t] = inFlight[t] /\ call'[t] = call[t]
          /\ inFlight'[b] \in {"succeeded", "failed"}
          /\ \A c \in Calls : call'[b][c] # "waiting"
      BY <1>t, <3>1, <3>5 DEF Settle
    <3>7. \A t \in Tabs : inFlight'[t] = "pending" <=> SharedOf(t)' # {}
      BY <1>0, <3>4, <3>6
    <3>8. \A t \in Tabs : \A p, q \in SharedOf(t)' : p = q
      BY <3>4 DEF SharedOnce, SharedOf
    <3>9. \A t \in Tabs, d \in Calls : call'[t][d] = "waiting" => inFlight'[t] = "pending"
      BY <3>6 DEF WaitersHaveRefresh
    <3> QED
      BY <3>7, <3>8, <3>9 DEF WaitersHaveRefresh, SharedOnce, SharedOf
  <2> QED
    BY <2>3, <2>4
<1>9. ASSUME NEW r \in Reqs, Deliver(r) \/ Lose(r)
      PROVE  WaitersHaveRefresh' /\ SharedOnce'
  <2>1. fetch[r].ok \in BOOLEAN
    BY <1>t DEF Fetch
  <2> QED
    BY <1>8, <1>9, <2>1 DEF Deliver, Lose
<1>10. ASSUME NEW b \in Tabs, NEW r \in Reqs, Load(b, r)
       PROVE  WaitersHaveRefresh' /\ SharedOnce'
  <2>1. /\ \A q \in Reqs \ {r} : /\ fetch'[q].by = fetch[q].by /\ fetch'[q].at = fetch[q].at
                                 /\ fetch'[q].tab = IF fetch[q].tab = b THEN "left"
                                                                         ELSE fetch[q].tab
        /\ fetch'[r].by = "silent" /\ fetch[r].at = "none"
    BY <1>t, <1>10 DEF Load, Abandoned, Sent, Pending, Fetch
  <2>2. \A t \in Tabs : SharedOf(t)' = IF t = b THEN {} ELSE SharedOf(t)
    BY <2>1, TabsAssumption DEF SharedOf, Pending
  <2>3. /\ \A t \in Tabs : inFlight'[t] = IF t = b THEN "null" ELSE inFlight[t]
        /\ \A t \in Tabs, c \in Calls : call'[t][c] = IF t = b THEN "idle" ELSE call[t][c]
    BY <1>t, <1>10 DEF Load
  <2>7. \A t \in Tabs : inFlight'[t] = "pending" <=> SharedOf(t)' # {}
    BY <1>0, <2>2, <2>3
  <2>8. \A t \in Tabs : \A p, q \in SharedOf(t)' : p = q
    BY <2>2 DEF SharedOnce, SharedOf
  <2>9. \A t \in Tabs, d \in Calls : call'[t][d] = "waiting" => inFlight'[t] = "pending"
    BY <2>3 DEF WaitersHaveRefresh
  <2> QED
    BY <2>7, <2>8, <2>9 DEF WaitersHaveRefresh, SharedOnce, SharedOf
<1> QED
  BY <1>1, <1>2, <1>3, <1>5, <1>6, <1>7, <1>9, <1>10 DEF BrowserNext, Continues, allVars, browser
-----------------------------------------------------------------------------
(* Calm steps: upset is empty, before and after.                           *)

\* A request that has company carries no cookie, and is no sign-in.
LEMMA CalmBefore ==
  ASSUME BrowserInv, upset = {}
  PROVE  /\ Calm
         /\ \A r, q \in Reqs : r # q /\ Pending(r) /\ Pending(q) =>
              jar = 0 /\ fetch[r].cookie = 0 /\ fetch[r].by # "login"
         /\ \A r \in Reqs : fetch[r].at \in {"out", "served", "answered"} <=> Pending(r)
<1>1. Calm /\ fetch \in [Reqs -> Fetch]
  BY DEF BrowserInv, BrowserTypeOK
<1> QED
  BY <1>1 DEF Calm, CookiesCalm, Pending, Fetch

\* What was left behind stays so, whatever rows are added, unless one exchanges it or
\* signs it out.
LEMMA LeftKept ==
  ASSUME Advances, NEW t, LeftBehind(t), audit \subseteq audit',
         \A a \in audit' \ audit : a.tok = t => a.action = "reuse"
  PROVE  LeftBehind(t)'
BY DEF LeftBehind, Advances, Tokens

\* A step that leaves the tables alone.
LEMMA TablesSame ==
  ASSUME UNCHANGED <<status, owner, audit>>
  PROVE  /\ \A t : LeftBehind(t)' <=> LeftBehind(t)
         /\ \A t : Spent(t)' <=> Spent(t)
         /\ \A t : Live(t)' <=> Live(t)
         /\ AuditCalm => AuditCalm'
<1>1. \A t : LeftBehind(t)' <=> LeftBehind(t)
  BY DEF LeftBehind
<1>2. AuditCalm => AuditCalm'
  BY <1>1 DEF AuditCalm
<1> QED
  BY <1>1, <1>2 DEF Spent, Live

\* A request that sets out alone, or without a cookie and beside no sign-in, keeps it calm.
LEMMA CalmSend ==
  ASSUME BrowserInv, BrowserTypeOK', upset = {}, NEW b \in Tabs, NEW r \in Reqs,
         NEW by \in {"shared", "silent", "login", "logout", "logout_all"},
         ~Pending(r), fetch'[r] = Sent(b, by), Overlaps(b, by) = {},
         \A q \in Reqs \ {r} : /\ fetch'[q].by = fetch[q].by /\ fetch'[q].at = fetch[q].at
                               /\ fetch'[q].cookie = fetch[q].cookie
                               /\ fetch'[q].ok = fetch[q].ok /\ fetch'[q].gives = fetch[q].gives,
         by = "shared" => inFlight[b] = "null",
         \A t \in Tabs : \/ inFlight'[t] = inFlight[t] /\ access'[t] = access[t]
                         \/ inFlight'[t] = "null"
                         \/ inFlight'[t] = "pending" /\ by = "shared",
         UNCHANGED <<vars, jar>>
  PROVE  Calm'
<1>1. /\ CookiesCalm /\ JarCalm /\ PromisesCalm /\ AuditCalm
      /\ \A q \in Reqs : ServedCalm(q) /\ AnsweredCalm(q)
  BY CalmBefore DEF Calm
<1>2. /\ fetch'[r].by = by /\ fetch'[r].cookie = jar /\ fetch'[r].at = "out"
      /\ Pending(r)' /\ \A q \in Reqs \ {r} : Pending(q)' <=> Pending(q)
  BY DEF Sent, Pending
<1>3. ASSUME NEW q \in Reqs, Pending(q) PROVE jar = 0 /\ by # "login" /\ fetch[q].by # "login"
  <2>1. fetch[q].cookie = jar
    BY <1>1, <1>3 DEF CookiesCalm
  <2>2. ~(by = "shared" /\ fetch[q].by = "shared" /\ fetch[q].tab = b)
    BY <1>3 DEF BrowserInv, WaitersHaveRefresh
  <2> QED
    BY <1>3, <2>1, <2>2 DEF Overlaps
<1>4. by = "login" => \A t \in Tabs : inFlight[t] = "null"
  BY DEF Overlaps
<1>5. CookiesCalm'
  BY <1>1, <1>2, <1>3 DEF CookiesCalm
<1>6. /\ \A t : LeftBehind(t)' <=> LeftBehind(t)
      /\ \A t : Spent(t)' <=> Spent(t)
      /\ \A t : Live(t)' <=> Live(t)
      /\ AuditCalm'
  BY <1>1, TablesSame DEF vars
<1>7. JarCalm'
  <2>1. \A q \in Reqs : fetch[q].at = "answered" => fetch'[q].at = "answered"
                                                    /\ fetch'[q].gives = fetch[q].gives
    BY DEF Pending
  <2> QED
    BY <1>1, <1>6, <2>1 DEF JarCalm
<1>8. PromisesCalm'
  <2>1. (\E q \in Reqs : Pending(q)' /\ fetch'[q].by = "login") => by = "login"
    BY <1>2, <1>3
  <2> QED
    BY <1>1, <1>4, <1>6, <2>1 DEF PromisesCalm
<1>9. ASSUME NEW q \in Reqs PROVE ServedCalm(q)' /\ AnsweredCalm(q)'
  <2>1. ServedCalm(q) /\ AnsweredCalm(q) /\ UNCHANGED req
    BY <1>1 DEF vars
  <2>2. q # r => /\ fetch'[q].by = fetch[q].by /\ fetch'[q].at = fetch[q].at
                 /\ fetch'[q].cookie = fetch[q].cookie
                 /\ fetch'[q].ok = fetch[q].ok /\ fetch'[q].gives = fetch[q].gives
    OBVIOUS
  <2>3. ServedCalm(q)'
    BY <1>2, <1>6, <2>1, <2>2 DEF ServedCalm, Refreshes
  <2>4. AnsweredCalm(q)'
    BY <1>2, <1>6, <2>1, <2>2 DEF AnsweredCalm
  <2> QED
    BY <2>3, <2>4
<1> QED
  BY <1>5, <1>6, <1>7, <1>8, <1>9 DEF Calm

\* A step of a tab that sends nothing.
LEMMA CalmLocal ==
  ASSUME BrowserInv, upset = {}, UNCHANGED <<vars, jar, fetch>>,
         \A t \in Tabs :
           \/ inFlight'[t] = inFlight[t] /\ access'[t] = access[t]
           \/ inFlight'[t] = "null" /\ inFlight[t] \in {"null", "succeeded", "failed"}
           \/ inFlight'[t] = inFlight[t] /\ inFlight[t] \in {"null", "pending", "failed"}
  PROVE  Calm'
<1>1. /\ CookiesCalm /\ JarCalm /\ PromisesCalm /\ AuditCalm
      /\ \A q \in Reqs : ServedCalm(q) /\ AnsweredCalm(q)
  BY CalmBefore DEF Calm
<1>2. /\ \A t : LeftBehind(t)' <=> LeftBehind(t)
      /\ \A t : Spent(t)' <=> Spent(t)
      /\ \A t : Live(t)' <=> Live(t)
      /\ AuditCalm' /\ UNCHANGED req
  BY <1>1, TablesSame DEF vars
<1>3. CookiesCalm' /\ JarCalm'
  BY <1>1, <1>2 DEF CookiesCalm, JarCalm, Pending
<1>4. PromisesCalm'
  BY <1>1, <1>2 DEF PromisesCalm, Pending
<1>5. ASSUME NEW q \in Reqs PROVE ServedCalm(q)' /\ AnsweredCalm(q)'
  <2>1. ServedCalm(q)'
    BY <1>1, <1>2 DEF ServedCalm, Refreshes
  <2>2. AnsweredCalm(q)'
    BY <1>1, <1>2 DEF AnsweredCalm
  <2> QED
    BY <2>1, <2>2
<1> QED
  BY <1>2, <1>3, <1>4, <1>5 DEF Calm

\* A step of the backend for one request, which touches no other: those it has beside
\* it carry no cookie and are no sign-ins, so the rows do not matter to them.
LEMMA CalmServe ==
  ASSUME BrowserInv, upset = {}, NEW r \in Reqs, Pending(r), Pending(r)',
         UNCHANGED <<jar, inFlight, access>>,
         fetch'[r].by = fetch[r].by, fetch'[r].cookie = fetch[r].cookie,
         \A q \in Reqs \ {r} : fetch'[q] = fetch[q] /\ req'[q] = req[q],
         ServedCalm(r)', AnsweredCalm(r)', JarCalm', AuditCalm',
         Spent(jar) => Spent(jar)'
  PROVE  Calm'
<1>1. /\ CookiesCalm /\ PromisesCalm
      /\ \A q \in Reqs : ServedCalm(q) /\ AnsweredCalm(q)
      /\ \A q \in Reqs \ {r} : Pending(q) => fetch[q].cookie = 0 /\ fetch[q].by # "login"
      /\ \A q \in Reqs : fetch[q].at \in {"served", "answered"} => Pending(q)
  BY CalmBefore DEF Calm
<1>2. \A q \in Reqs : (Pending(q)' <=> Pending(q)) /\ fetch'[q].by = fetch[q].by
                      /\ fetch'[q].cookie = fetch[q].cookie
  BY DEF Pending
<1>3. CookiesCalm'
  BY <1>1, <1>2 DEF CookiesCalm
<1>4. PromisesCalm'
  BY <1>1, <1>2 DEF PromisesCalm
<1>5. ASSUME NEW q \in Reqs \ {r} PROVE ServedCalm(q)' /\ AnsweredCalm(q)'
  <2>1. ServedCalm(q) /\ AnsweredCalm(q) /\ fetch'[q] = fetch[q] /\ req'[q] = req[q]
    BY <1>1
  <2>2. 0 \notin Tokens /\ -1 \notin Tokens /\ ~LeftBehind(0)
    BY TokensAssumption DEF Tokens, LeftBehind
  <2>3. ServedCalm(q)'
    BY <1>1, <2>1, <2>2 DEF ServedCalm, Refreshes
  <2>4. AnsweredCalm(q)'
    BY <1>1, <2>1, <2>2 DEF AnsweredCalm, Spent
  <2> QED
    BY <2>3, <2>4
<1> QED
  BY <1>3, <1>4, <1>5 DEF Calm

\* A request reaches its handler.  A cookie it carries is that of the jar, which is live,
\* so that the handler finds neither a reuse nor an expiry, or was left behind.
LEMMA CalmArrives ==
  ASSUME BrowserInv, upset = {}, NEW r \in Reqs, Arrives(r)
  PROVE  Calm'
<1>1. /\ JarCalm /\ CookiesCalm /\ AuditCalm /\ expired = {} /\ fetch[r].at = "out" /\ Pending(r)
      /\ \A q \in Reqs \ {r} : Pending(q) => jar = 0 /\ fetch[r].by # "login"
      /\ fetch[r].cookie = jar /\ jar \in 0..MaxTokens
  BY CalmBefore DEF Arrives, Calm, CookiesCalm, BrowserInv, BrowserTypeOK
<1>2. BrowserTypeOK /\ req \in [Reqs -> Request] /\ UNCHANGED <<jar, inFlight, access>>
  BY DEF BrowserInv, SessionInv, TypeOK, Arrives
<1>3. jar # 0 => jar \in Tokens /\ (Live(jar) \/ LeftBehind(jar))
  <2>1. jar # 0 => jar \in Tokens
    BY <1>1, TokensAssumption DEF Tokens
  <2>2. jar # 0 => \A q \in Reqs : fetch[q].at # "answered"
    BY <1>1 DEF Pending
  <2> QED
    BY <1>1, <2>1, <2>2 DEF JarCalm
<1>4. ASSUME UNCHANGED <<status, owner, audit>>,
             fetch'[r].by = fetch[r].by, fetch'[r].cookie = fetch[r].cookie,
             fetch'[r].at \in {"served", "answered"},
             \A p \in Reqs \ {r} : fetch'[p] = fetch[p] /\ req'[p] = req[p],
             ServedCalm(r)', AnsweredCalm(r)'
      PROVE  Calm'
  <2>1. /\ \A t : LeftBehind(t)' <=> LeftBehind(t)
        /\ \A t : Spent(t)' <=> Spent(t)
        /\ \A t : Live(t)' <=> Live(t)
        /\ AuditCalm'
    BY <1>1, <1>4, TablesSame
  <2>2. JarCalm'
    BY <1>2, <1>3, <2>1 DEF JarCalm
  <2>3. Pending(r)'
    BY <1>4 DEF Pending
  <2>4. Spent(jar) => Spent(jar)'
    BY <1>2, <2>1 DEF Spent
  <2> QED
    BY <1>1, <1>2, <1>4, <2>1, <2>2, <2>3, <2>4, CalmServe
<1>5. ASSUME Serve(r), Unchanged, NEW q \in Request, req' = [req EXCEPT ![r] = q],
             fetch[r].by \in {"shared", "silent", "login", "logout", "logout_all"},
             q.op \in IF Refreshes(r) THEN {"refresh", "reuse"} ELSE {fetch[r].by},
             q.tok = IF q.op \in {"refresh", "reuse", "logout"} THEN jar ELSE 0,
             q.fresh = 0 <=> q.op \in {"reuse", "logout", "logout_all"},
             q.op \in {"refresh", "logout"} => jar # 0 /\ Live(jar),
             q.op = "reuse" => LeftBehind(jar)
      PROVE  Calm'
  <2>1. /\ fetch'[r].by = fetch[r].by /\ fetch'[r].cookie = fetch[r].cookie
        /\ fetch'[r].at = "served"
        /\ \A p \in Reqs \ {r} : fetch'[p] = fetch[p] /\ req'[p] = req[p]
        /\ req'[r] = q
    BY <1>2, <1>5, ServeTyped
  <2>2. UNCHANGED <<status, owner, audit>>
    BY <1>5 DEF Unchanged
  <2>3. (LeftBehind(jar)' <=> LeftBehind(jar)) /\ (Live(jar)' <=> Live(jar))
    BY <1>2, <2>2 DEF LeftBehind, Live
  <2>4. ServedCalm(r)'
    BY <1>1, <1>2, <1>5, <2>1, <2>3 DEF ServedCalm, Refreshes
  <2>5. AnsweredCalm(r)'
    BY <2>1 DEF AnsweredCalm
  <2> QED
    BY <1>4, <2>1, <2>2, <2>4, <2>5
<1>6. ASSUME NEW ok \in BOOLEAN, NEW gives \in {-1, 0}, Answered(r, ok, gives), UNCHANGED vars,
             \/ ok = FALSE /\ gives = -1 /\ fetch[r].cookie = 0
             \/ ok = TRUE /\ gives = 0 /\ fetch[r].by = "logout"
      PROVE  Calm'
  <2>1. gives \in -1..MaxTokens /\ gives \notin Tokens
    BY TokensAssumption DEF Tokens
  <2>2. /\ fetch'[r].by = fetch[r].by /\ fetch'[r].cookie = fetch[r].cookie
        /\ fetch'[r].at = "answered" /\ fetch'[r].ok = ok /\ fetch'[r].gives = gives
        /\ \A p \in Reqs \ {r} : fetch'[p] = fetch[p] /\ req'[p] = req[p]
    BY <1>2, <1>6, <2>1, AnswerTyped DEF BrowserTypeOK, vars
  <2>3. ServedCalm(r)'
    BY <2>2 DEF ServedCalm
  <2>4. AnsweredCalm(r)'
    BY <1>6, <2>1, <2>2 DEF AnsweredCalm, Spent
  <2>5. UNCHANGED <<status, owner, audit>>
    BY <1>6 DEF vars
  <2> QED
    BY <1>4, <2>2, <2>3, <2>4, <2>5
<1>7. ASSUME NEW new \in Tokens, Refreshes(r), fetch[r].cookie # 0,
             RefreshRead(r, fetch[r].cookie, new), Serve(r)
      PROVE  Calm'
  <2>0. fetch[r].by \in {"shared", "silent", "login", "logout", "logout_all"}
    BY <1>7 DEF Refreshes
  <2>1. jar \in Tokens /\ status[jar] # "absent" /\ owner[jar] \in Users /\ Unchanged
    BY <1>1, <1>3, <1>7 DEF RefreshRead, BrowserInv, SessionInv, TablesOK
  <2>2. new \in 0..MaxTokens /\ 0 \in 0..MaxTokens /\ new # 0
    BY TokensAssumption DEF Tokens
  <2>3. CASE Live(jar)
    <3> DEFINE q == RequestAt("rotate", "refresh", jar, owner[jar], {}, new)
    <3>1. req' = [req EXCEPT ![r] = q]
      BY <1>1, <1>7, <2>3 DEF RefreshRead, AcceptsToRotate, Start
    <3>2. q \in Request
      BY <1>1, <2>1, <2>2, RequestTyped DEF Stages, Ops
    <3>3. q.op = "refresh" /\ q.fresh # 0 /\ q.tok = jar
      BY <2>2 DEF RequestAt
    <3> HIDE DEF q
    <3> QED
      BY <1>1, <1>5, <1>7, <2>0, <2>1, <2>3, <3>1, <3>2, <3>3
  <2>4. CASE ~Live(jar)
    <3> DEFINE q == RequestAt("reuse", "reuse", jar, owner[jar], {}, 0)
    <3>1. req' = [req EXCEPT ![r] = q]
      BY <1>1, <1>7, <2>4 DEF RefreshRead, AcceptsToRotate, Start
    <3>2. q \in Request
      BY <1>1, <2>1, <2>2, RequestTyped DEF Stages, Ops
    <3>3. q.op = "reuse" /\ q.fresh = 0 /\ q.tok = jar
      BY DEF RequestAt
    <3> HIDE DEF q
    <3> QED
      BY <1>1, <1>3, <1>5, <1>7, <2>0, <2>1, <2>4, <3>1, <3>2, <3>3
  <2> QED
    BY <2>3, <2>4
<1>8. ASSUME NEW u \in Users, NEW new \in Tokens, fetch[r].by = "login",
             LoginBegin(r, u, new), Serve(r)
      PROVE  Calm'
  <2> DEFINE q == RequestAt("written", "login", 0, u, {}, new)
  <2>1. req' = [req EXCEPT ![r] = q] /\ Unchanged
    BY <1>8 DEF LoginBegin, Start
  <2>2. q \in Request
    BY TokensAssumption, RequestTyped DEF Stages, Ops, Tokens
  <2>3. q.op = "login" /\ q.fresh # 0 /\ q.tok = 0
    BY DEF RequestAt, Tokens
  <2> HIDE DEF q
  <2> QED
    BY <1>5, <1>8, <2>1, <2>2, <2>3 DEF Refreshes
<1>9. ASSUME fetch[r].by = "logout", fetch[r].cookie # 0, LogoutRead(r, fetch[r].cookie), Serve(r)
      PROVE  Calm'
  <2> DEFINE q == RequestAt("revoke", "logout", jar, owner[jar], {}, 0)
  <2>1. Live(jar) /\ jar \in Tokens /\ owner[jar] \in Users
    BY <1>1, <1>9 DEF LogoutRead, Tokens, Live, BrowserInv, SessionInv, TablesOK
  <2>2. req' = [req EXCEPT ![r] = q] /\ Unchanged
    BY <1>1, <1>9 DEF LogoutRead, Start
  <2>3. q \in Request
    BY <1>1, <2>1, TokensAssumption, RequestTyped DEF Stages, Ops
  <2>4. q.op = "logout" /\ q.fresh = 0 /\ q.tok = jar
    BY DEF RequestAt
  <2> HIDE DEF q
  <2> QED
    BY <1>1, <1>5, <1>9, <2>1, <2>2, <2>3, <2>4 DEF Refreshes
<1>10. ASSUME NEW u \in Users, fetch[r].by = "logout_all", LogoutAllBegin(r, u), Serve(r)
       PROVE  Calm'
  <2> DEFINE q == RequestAt("bulk", "logout_all", 0, u, LiveOf(u), 0)
  <2>1. req' = [req EXCEPT ![r] = q] /\ Unchanged
    BY <1>10 DEF LogoutAllBegin, Start
  <2>2. q \in Request
    BY TokensAssumption, RequestTyped DEF Stages, Ops, LiveOf
  <2>3. q.op = "logout_all" /\ q.fresh = 0 /\ q.tok = 0
    BY DEF RequestAt
  <2> HIDE DEF q
  <2> QED
    BY <1>5, <1>10, <2>1, <2>2, <2>3 DEF Refreshes
<1> QED
  BY <1>6, <1>7, <1>8, <1>9, <1>10 DEF Arrives

\* The handler works: what the request is about stays.
LEMMA CalmContinues ==
  ASSUME BrowserInv, upset = {}, NEW r \in Reqs, Continues(r)
  PROVE  Calm'
<1>1. Calm /\ fetch[r].at = "served" /\ req \in [Reqs -> Request] /\ Unchanged /\ UNCHANGED browser
  BY CalmBefore DEF BrowserInv, SessionInv, TypeOK, Continues, ReuseBegin, RotateWrite,
                    RevokeWrite, BulkWrite
<1>2. \A q \in Reqs : /\ req'[q].op = req[q].op /\ req'[q].fresh = req[q].fresh
                      /\ req'[q].tok = req[q].tok
  BY <1>1 DEF Continues, ReuseBegin, RotateWrite, RevokeWrite, BulkWrite, Request
<1>3. /\ \A t : LeftBehind(t)' <=> LeftBehind(t)
      /\ \A t : Spent(t)' <=> Spent(t)
      /\ \A t : Live(t)' <=> Live(t)
      /\ AuditCalm'
  BY <1>1, TablesSame DEF Unchanged, Calm
<1>4. CookiesCalm' /\ JarCalm' /\ PromisesCalm'
  BY <1>1, <1>3 DEF Calm, CookiesCalm, JarCalm, PromisesCalm, Pending, browser
<1>5. ASSUME NEW q \in Reqs PROVE ServedCalm(q)' /\ AnsweredCalm(q)'
  <2>1. ServedCalm(q) /\ AnsweredCalm(q) /\ UNCHANGED fetch
    BY <1>1 DEF Calm, browser
  <2>2. ServedCalm(q)'
    BY <1>2, <1>3, <2>1 DEF ServedCalm, Refreshes
  <2>3. AnsweredCalm(q)'
    BY <1>3, <2>1 DEF AnsweredCalm
  <2> QED
    BY <2>2, <2>3
<1> QED
  BY <1>3, <1>4, <1>5 DEF Calm

\* What any commit does to the table.
LEMMA CommitsOf ==
  ASSUME BrowserInv, NEW r \in Reqs, req[r].stage = "written", Committed(r),
         Finish(r, Outcome(r))
  PROVE  /\ SessionInv' /\ Advances
         /\ audit' = audit \union {[action |-> req[r].op, tok |-> req[r].tok, user |-> req[r].user]}
         /\ \A t \in Tokens : status'[t] = IF t = req[r].fresh THEN "live"
                                           ELSE IF t \in req[r].wrote THEN "revoked" ELSE status[t]
         /\ \A p \in Reqs \ {r} : req'[p] = req[p]
         /\ RequestOK(req[r]) /\ req[r] \in Request
<1>1. SessionInv' /\ Advances
  BY CommitStep DEF BrowserInv
<1>2. req \in [Reqs -> Request] /\ RequestOK(req[r])
  BY DEF BrowserInv, SessionInv, TypeOK
<1>3. \A p \in Reqs \ {r} : req'[p] = req[p]
  BY <1>2 DEF Finish
<1> QED
  BY <1>1, <1>2, <1>3 DEF Committed, RowsAfter, AuditAfter

\* The commit of a calm request: audit rows go on naming revoked tokens only; a cookie c
\* left behind stays so; a sign-out-all leaves a live one as it is or behind; an exchanged
\* one is not left behind.
LEMMA CalmCommit ==
  ASSUME BrowserInv, upset = {}, NEW r \in Reqs, fetch[r].at = "served",
         req[r].stage = "written", Committed(r), Finish(r, Outcome(r)),
         NEW c, c = fetch[r].cookie
  PROVE  /\ AuditCalm'
         /\ LeftBehind(c) => LeftBehind(c)'
         /\ req[r].op = "logout_all" /\ c # 0 /\ Live(c) => Live(c)' \/ LeftBehind(c)'
         /\ req[r].op = "refresh" => ~Spent(c)'
<1> DEFINE q == req[r]
           row == [action |-> q.op, tok |-> q.tok, user |-> q.user]
<1>1. /\ SessionInv' /\ Advances /\ audit' = audit \union {row}
      /\ \A t \in Tokens : status'[t] = IF t = q.fresh THEN "live"
                                        ELSE IF t \in q.wrote THEN "revoked" ELSE status[t]
      /\ RequestOK(q) /\ q \in Request
  BY CommitsOf
<1>2. /\ AuditCalm /\ c \in 0..MaxTokens
      /\ q.op \in {"login", "refresh", "reuse", "logout", "logout_all"}
      /\ q.tok = IF q.op \in {"refresh", "reuse", "logout"} THEN c ELSE 0
      /\ q.op \in {"refresh", "logout"} => c # 0 /\ Live(c)
      /\ q.op = "reuse" => LeftBehind(c)
  <2>1. Calm /\ fetch[r] \in Fetch
    BY CalmBefore DEF BrowserInv, BrowserTypeOK
  <2>2. ServedCalm(r) /\ AuditCalm
    BY <2>1 DEF Calm
  <2> QED
    BY <2>1, <2>2 DEF ServedCalm, Refreshes, Fetch
<1>3. (c # 0 => c \in Tokens) /\ 0 \notin Tokens
  BY <1>2, TokensAssumption DEF Tokens
<1>4. \A t : LeftBehind(t) => t \in Tokens /\ status[t] = "revoked" /\ ~Live(t)
  BY DEF LeftBehind, Live
<1> HIDE DEF q
<1>5. ASSUME NEW t, LeftBehind(t) PROVE LeftBehind(t)'
  <2>1. row.tok = t => row.action = "reuse"
    BY <1>2, <1>3, <1>4, <1>5
  <2> QED
    BY <1>1, <1>5, <2>1, LeftKept
<1>6. q.op \in {"refresh", "logout"} => status'[c] = "revoked" /\ c \in Tokens
  <2>1. ASSUME q.op \in {"refresh", "logout"} PROVE q.wrote = {c} /\ c \in Tokens /\ status[c] = "live"
    BY <1>1, <1>2, <1>3, <2>1 DEF RequestOK, OneRow, AllRows, Live, q
  <2>2. q.fresh # 0 => status[q.fresh] = "absent"
    BY <1>1 DEF RequestOK
  <2> QED
    BY <1>1, <1>3, <2>1, <2>2
<1>7. ASSUME NEW a \in audit'
      PROVE  /\ a.tok # 0 => a.tok \in Tokens /\ status'[a.tok] = "revoked"
             /\ a.action = "reuse" => LeftBehind(a.tok)'
  <2>1. CASE a \in audit
    <3>1. /\ a.tok # 0 => a.tok \in Tokens /\ status[a.tok] = "revoked"
          /\ a.action = "reuse" => LeftBehind(a.tok)
      BY <1>2, <2>1 DEF AuditCalm
    <3>2. a.tok # 0 => status'[a.tok] = "revoked"
      BY <1>1, <3>1 DEF Advances
    <3> QED
      BY <1>5, <3>1, <3>2
  <2>2. CASE a = row
    <3>1. a.tok = q.tok /\ a.action = q.op
      BY <2>2
    <3>2. q.op = "reuse" => LeftBehind(c)' /\ c \in Tokens /\ status[c] = "revoked"
      BY <1>2, <1>4, <1>5
    <3>3. q.op = "reuse" => status'[c] = "revoked"
      BY <1>1, <3>2 DEF Advances
    <3> QED
      BY <1>2, <1>6, <3>1, <3>2, <3>3
  <2> QED
    BY <1>1, <2>1, <2>2
<1>8. AuditCalm'
  BY <1>7 DEF AuditCalm
<1>9. ASSUME q.op = "logout_all", c # 0, Live(c) PROVE Live(c)' \/ LeftBehind(c)'
  <2>1. /\ q.fresh = 0 /\ c \in Tokens /\ status[c] = "live" /\ q.tok = 0
        /\ c \in q.wrote => owner[c] = q.user
    BY <1>1, <1>2, <1>3, <1>9 DEF RequestOK, OneRow, AllRows, Live, q
  <2>2. CASE c \notin q.wrote
    BY <1>1, <1>3, <2>1, <2>2 DEF Live
  <2>3. CASE c \in q.wrote
    <3>1. status'[c] = "revoked" /\ owner'[c] = q.user
      BY <1>1, <1>3, <2>1, <2>3 DEF Advances
    <3>2. row \in audit' /\ row.action = "logout_all" /\ row.user = q.user
      BY <1>1, <1>9
    <3>3. \A a \in audit' : a.tok # c
      BY <1>1, <1>2, <1>3, <2>1 DEF AuditCalm
    <3> QED
      BY <2>1, <3>1, <3>2, <3>3 DEF LeftBehind
  <2> QED
    BY <2>2, <2>3
<1>10. ASSUME q.op = "refresh" PROVE ~Spent(c)'
  <2>1. row \in audit' /\ row.tok = c /\ row.action = "refresh" /\ c # 0
    BY <1>1, <1>2, <1>10
  <2> QED
    BY <2>1 DEF Spent, LeftBehind
<1> QED
  BY <1>5, <1>8, <1>9, <1>10 DEF q

\* The answer that a commit ends in.
LEMMA CalmAnswer ==
  ASSUME BrowserInv, upset = {}, NEW r \in Reqs, fetch[r].at = "served",
         NEW ok \in BOOLEAN, NEW gives \in -1..MaxTokens, Answered(r, ok, gives)
  PROVE  /\ fetch'[r].by = fetch[r].by /\ fetch'[r].cookie = fetch[r].cookie
         /\ fetch'[r].at = "answered" /\ fetch'[r].ok = ok /\ fetch'[r].gives = gives
         /\ \A p \in Reqs \ {r} : fetch'[p] = fetch[p]
         /\ Pending(r) /\ Pending(r)' /\ fetch[r].cookie = jar
         /\ \A p \in Reqs : fetch[p].at = "answered" => jar = 0
<1>1. BrowserTypeOK /\ Pending(r) /\ CookiesCalm
  BY CalmBefore DEF BrowserInv, Calm
<1>2. \A p \in Reqs : fetch[p].at = "answered" => jar = 0
  BY <1>1, CalmBefore
<1>3. /\ fetch' = [fetch EXCEPT ![r] = WithAnswer(r, ok, gives)]
      /\ WithAnswer(r, ok, gives).by = fetch[r].by
      /\ WithAnswer(r, ok, gives).cookie = fetch[r].cookie
      /\ WithAnswer(r, ok, gives).at = "answered"
      /\ WithAnswer(r, ok, gives).ok = ok
      /\ WithAnswer(r, ok, gives).gives = gives
  BY <1>1, AnswerTyped
<1>4. /\ fetch'[r] = WithAnswer(r, ok, gives)
      /\ \A p \in Reqs \ {r} : fetch'[p] = fetch[p]
  BY <1>1, <1>3 DEF BrowserTypeOK
<1> QED
  BY <1>1, <1>2, <1>3, <1>4 DEF CookiesCalm, Pending

\* The handler returned: the token it inserted is live and on its way to the jar; a
\* sign-out-all inserted none, and leaves the cookie it revoked.
LEMMA CalmReturns ==
  ASSUME BrowserInv, upset = {}, NEW r \in Reqs, Returns(r)
  PROVE  Calm'
<1> DEFINE gives == CookieGiven(r)
<1>c. PICK c : c = fetch[r].cookie
  OBVIOUS
<1>1. /\ fetch[r].at = "served" /\ req[r].stage = "written" /\ ~Raises(r)
      /\ Committed(r) /\ Finish(r, Outcome(r)) /\ Answered(r, TRUE, gives)
      /\ UNCHANGED <<jar, inFlight, access>>
  BY DEF Returns, CommitOnReturn
<1>2. /\ Calm /\ ServedCalm(r) /\ JarCalm
      /\ fetch[r].by \in {"shared", "silent", "login", "logout", "logout_all"}
      /\ req[r].op = IF Refreshes(r) THEN "refresh" ELSE fetch[r].by
      /\ req[r].fresh = 0 <=> req[r].op \in {"reuse", "logout", "logout_all"}
  <2>1. Calm /\ ServedCalm(r) /\ JarCalm
    BY CalmBefore DEF Calm
  <2> QED
    BY <1>1, <2>1 DEF ServedCalm, Raises
<1>3. /\ gives \in -1..MaxTokens /\ (gives = -1 <=> fetch[r].by = "logout_all")
      /\ gives = 0 <=> fetch[r].by = "logout"
      /\ gives # -1 => gives = req[r].fresh
  <2>1. req[r].fresh \in 0..MaxTokens
    BY DEF BrowserInv, SessionInv, TypeOK, Request
  <2>2. req[r].fresh \in -1..MaxTokens /\ req[r].fresh # -1 /\ -1 \in -1..MaxTokens /\ -1 # 0
    BY <2>1, TokensAssumption
  <2> QED
    BY <1>2, <2>2 DEF CookieGiven, Refreshes
<1> HIDE DEF gives
<1>4. /\ fetch'[r].by = fetch[r].by /\ fetch'[r].cookie = fetch[r].cookie
      /\ fetch'[r].at = "answered" /\ fetch'[r].ok = TRUE /\ fetch'[r].gives = gives
      /\ \A p \in Reqs \ {r} : fetch'[p] = fetch[p]
      /\ Pending(r) /\ Pending(r)' /\ c = jar
      /\ \A p \in Reqs : fetch[p].at = "answered" => jar = 0
  BY <1>1, <1>3, <1>c, CalmAnswer
<1>5. /\ \A p \in Reqs \ {r} : req'[p] = req[p]
      /\ gives \in Tokens => status'[gives] = "live"
  <2>1. gives \in Tokens => gives # -1
    BY TokensAssumption DEF Tokens
  <2> QED
    BY <1>1, <1>3, <2>1, CommitsOf
<1>6. /\ AuditCalm'
      /\ LeftBehind(c) => LeftBehind(c)'
      /\ req[r].op = "logout_all" /\ c # 0 /\ Live(c) => Live(c)' \/ LeftBehind(c)'
      /\ req[r].op = "refresh" => ~Spent(c)'
  BY <1>1, <1>c, CalmCommit
<1>7. /\ LeftBehind(jar)' <=> LeftBehind(c)'
      /\ Live(jar)' <=> Live(c)'
      /\ Spent(fetch[r].cookie)' <=> Spent(c)'
      /\ Spent(jar)' <=> Spent(c)'
  BY <1>1, <1>4, <1>c
<1>8. ServedCalm(r)'
  BY <1>4 DEF ServedCalm
<1>9. AnsweredCalm(r)'
  <2>1. fetch[r].by # "login" /\ Spent(c)' => gives \in {-1, 0}
    BY <1>2, <1>3, <1>6 DEF Refreshes
  <2> QED
    BY <1>3, <1>4, <1>5, <1>7, <2>1 DEF AnsweredCalm, Live
<1>10. JarCalm'
  <2>1. CASE fetch[r].by # "logout_all"
    BY <1>3, <1>4, <2>1 DEF JarCalm
  <2>2. CASE fetch[r].by = "logout_all"
    BY <1>1, <1>2, <1>4, <1>6, <1>7, <2>2 DEF JarCalm, Refreshes
  <2> QED
    BY <2>1, <2>2
<1>11. Spent(jar) => Spent(jar)'
  BY <1>1, <1>4, <1>6, <1>7 DEF Spent
<1> QED
  BY <1>1, <1>4, <1>5, <1>6, <1>8, <1>9, <1>10, <1>11, CalmServe

\* A handler raises only for a token that was left behind: no row of the jar changes.
LEMMA CalmRaised ==
  ASSUME BrowserInv, upset = {}, NEW r \in Reqs, Raised(r)
  PROVE  Calm'
<1>c. PICK c : c = fetch[r].cookie
  OBVIOUS
<1>1. /\ fetch[r].at = "served" /\ req[r].stage = "written" /\ Raises(r)
      /\ Committed(r) /\ Finish(r, Outcome(r)) /\ Answered(r, FALSE, -1)
      /\ UNCHANGED <<jar, inFlight, access>>
  BY DEF Raised, CommitOnRaise, KeptOnRaise
<1>2. Calm /\ ServedCalm(r) /\ LeftBehind(c)
  <2>1. Calm /\ ServedCalm(r)
    BY CalmBefore DEF Calm
  <2> QED
    BY <1>1, <1>c, <2>1 DEF ServedCalm, Raises
<1>3. -1 \in -1..MaxTokens /\ -1 \notin Tokens
  BY TokensAssumption DEF Tokens
<1>4. /\ fetch'[r].by = fetch[r].by /\ fetch'[r].cookie = fetch[r].cookie
      /\ fetch'[r].at = "answered" /\ fetch'[r].ok = FALSE /\ fetch'[r].gives = -1
      /\ \A p \in Reqs \ {r} : fetch'[p] = fetch[p]
      /\ Pending(r) /\ Pending(r)' /\ c = jar
  BY <1>1, <1>3, <1>c, CalmAnswer
<1>5. \A p \in Reqs \ {r} : req'[p] = req[p]
  BY <1>1, CommitsOf
<1>6. AuditCalm' /\ LeftBehind(c)'
  BY <1>1, <1>2, <1>c, CalmCommit
<1>7. LeftBehind(jar)' /\ LeftBehind(fetch[r].cookie)'
  BY <1>1, <1>4, <1>6, <1>c
<1>8. ServedCalm(r)'
  BY <1>4 DEF ServedCalm
<1>9. AnsweredCalm(r)'
  BY <1>3, <1>4, <1>7 DEF AnsweredCalm, Spent
<1>10. JarCalm' /\ Spent(jar)'
  BY <1>7 DEF JarCalm, Spent
<1> QED
  BY <1>1, <1>4, <1>5, <1>6, <1>8, <1>9, <1>10, CalmServe

\* A tab is signed out for no other reason than that there is no session behind the jar.
SignedOutBySpentJar ==
  \A b \in Tabs :
    \/ \E c \in Calls : call[b][c] # "refused" /\ call'[b][c] = "refused"
    \/ access[b] # "none" /\ access'[b] = "none" /\ ~\E r \in Reqs : Load(b, r)
    => Spent(jar)'

\* The answer arrives: the jar takes a live token, or stays, or is emptied; a promise it
\* settles agrees with it; it signs the tab out only when the jar is spent.
LEMMA CalmDeliver ==
  ASSUME BrowserInv, BrowserTypeOK', upset = {}, NEW r \in Reqs, Deliver(r)
  PROVE  Calm' /\ SignedOutBySpentJar
<1> DEFINE b == fetch[r].tab
           by == fetch[r].by
           ok == fetch[r].ok
           gives == fetch[r].gives
<1>1. /\ CookiesCalm /\ JarCalm /\ PromisesCalm /\ AuditCalm /\ AnsweredCalm(r) /\ Pending(r)
      /\ fetch[r].at = "answered" /\ fetch[r].cookie = jar
      /\ \A q \in Reqs : ServedCalm(q) /\ AnsweredCalm(q)
      /\ \A q \in Reqs \ {r} : Pending(q) => jar = 0 /\ by # "login" /\ fetch[q].by # "login"
  BY CalmBefore DEF Deliver, Calm, CookiesCalm
<1>2. /\ BrowserTypeOK /\ BrowserTypeOK' /\ fetch \in [Reqs -> Fetch]
      /\ ok \in BOOLEAN /\ gives \in -1..MaxTokens
      /\ 0 \notin Tokens /\ -1 \notin Tokens
      /\ gives \notin {-1, 0} => gives \in Tokens
  <2>1. BrowserTypeOK /\ fetch \in [Reqs -> Fetch] /\ ok \in BOOLEAN /\ gives \in -1..MaxTokens
    BY DEF BrowserInv, BrowserTypeOK, Fetch
  <2> HIDE DEF gives
  <2>2. /\ 0 \notin Tokens /\ -1 \notin Tokens
        /\ gives \notin {-1, 0} => gives \in Tokens
    BY <2>1, TokensAssumption DEF Tokens
  <2> QED
    BY <2>1, <2>2
<1>3. /\ \A q \in Reqs : Pending(q)' <=> q # r /\ Pending(q)
      /\ \A q \in Reqs \ {r} : fetch'[q] = fetch[q]
      /\ UNCHANGED vars /\ ~Pending(r)'
  BY <1>2 DEF Deliver, Finished, Pending, NoFetch
<1>t. /\ \A t : LeftBehind(t)' <=> LeftBehind(t)
      /\ \A t : Spent(t)' <=> Spent(t)
      /\ \A t : Live(t)' <=> Live(t)
      /\ AuditCalm'
  BY <1>1, <1>3, TablesSame DEF vars
<1>4. jar' = IF gives = -1 THEN jar ELSE gives
  BY DEF Deliver, JarAfter
<1>5. /\ ~ok => gives = -1 /\ Spent(jar)
      /\ ok => (gives = -1 <=> by = "logout_all") /\ (gives = 0 <=> by = "logout")
      /\ Spent(jar) /\ by # "login" => gives \in {-1, 0}
      /\ gives \in Tokens => Live(gives)
  BY <1>1 DEF AnsweredCalm
<1> HIDE DEF gives
<1>6. /\ ~ok => Spent(jar')
      /\ by = "logout" => Spent(jar')
      /\ Spent(jar) /\ by # "login" => Spent(jar')
  <2>1. Spent(0)
    BY DEF Spent
  <2> QED
    BY <1>2, <1>4, <1>5, <2>1
<1>7. jar' # 0 => Live(jar') \/ LeftBehind(jar')
  <2>1. CASE gives = -1
    <3>1. jar # 0 => \A q \in Reqs : fetch[q].at = "answered" => fetch[q].gives = -1
      BY <1>1, <2>1 DEF Pending, gives
    <3> QED
      BY <1>1, <1>4, <2>1, <3>1 DEF JarCalm
  <2>2. CASE gives # -1
    BY <1>2, <1>4, <1>5, <2>2
  <2> QED
    BY <2>1, <2>2
<1>8. CookiesCalm'
  <2>1. ASSUME NEW q \in Reqs, Pending(q)'
        PROVE  fetch'[q] = fetch[q] /\ fetch[q].cookie = jar /\ fetch[q].by # "login"
               /\ jar = 0 /\ by # "login"
    BY <1>1, <1>3, <2>1 DEF CookiesCalm
  <2>2. jar = 0 /\ by # "login" => jar' = 0
    BY <1>1, <1>4, <1>5 DEF Spent
  <2> QED
    BY <2>1, <2>2 DEF CookiesCalm
<1>9. JarCalm'
  BY <1>t, <1>7 DEF JarCalm, Live, LeftBehind
<1>10. ASSUME NEW q \in Reqs PROVE ServedCalm(q)' /\ AnsweredCalm(q)'
  <2>1. CASE q = r
    BY <1>3, <2>1 DEF ServedCalm, AnsweredCalm, Pending
  <2>2. CASE q # r
    <3>1. fetch'[q] = fetch[q] /\ UNCHANGED req /\ ServedCalm(q) /\ AnsweredCalm(q)
      BY <1>1, <1>3, <2>2 DEF vars
    <3>2. ServedCalm(q)'
      BY <1>t, <3>1 DEF ServedCalm, Refreshes
    <3>3. AnsweredCalm(q)'
      BY <1>t, <3>1 DEF AnsweredCalm
    <3> QED
      BY <3>2, <3>3
  <2> QED
    BY <2>1, <2>2
<1>11. \/ UNCHANGED <<access, inFlight, call>>
       \/ b \in Tabs /\ Settle(b, by, ok)
  BY <1>2 DEF Deliver, Finished, Fetch
<1>12. by = "login" => \A t \in Tabs : inFlight[t] = "null"
  BY <1>1 DEF PromisesCalm
<1> HIDE DEF b, by, ok
<1>13. PromisesCalm'
  <2>1. ~(\E q \in Reqs : Pending(q)' /\ fetch'[q].by = "login")
    BY <1>1, <1>3
  <2>0. \A t \in Tabs : /\ inFlight[t] = "failed" => Spent(jar')
                        /\ inFlight[t] = "succeeded" => Spent(jar') \/ access[t] = "valid"
    BY <1>1, <1>6, <1>12 DEF PromisesCalm
  <2>2. CASE UNCHANGED <<access, inFlight, call>>
    BY <1>t, <2>0, <2>1, <2>2 DEF PromisesCalm, Spent, LeftBehind
  <2>3. CASE b \in Tabs /\ Settle(b, by, ok)
    <3>1. /\ \A t \in Tabs \ {b} : inFlight'[t] = inFlight[t] /\ access'[t] = access[t]
          /\ inFlight'[b] = IF by # "shared" THEN inFlight[b]
                            ELSE IF ok THEN "succeeded" ELSE "failed"
          /\ ok /\ by \notin {"logout", "logout_all"} => access'[b] = "valid"
          /\ by = "logout_all" => access'[b] = access[b]
      BY <1>2, <2>3 DEF Settle, BrowserTypeOK
    <3>2. \A t \in Tabs : inFlight'[t] = "failed" => Spent(jar')
      BY <1>2, <1>6, <2>0, <3>1 DEF ok
    <3>3. \A t \in Tabs : inFlight'[t] = "succeeded" => Spent(jar') \/ access'[t] = "valid"
      BY <1>2, <1>6, <2>0, <3>1 DEF ok
    <3> QED
      BY <1>t, <2>1, <3>2, <3>3 DEF PromisesCalm, Spent, LeftBehind
  <2> QED
    BY <1>11, <2>2, <2>3
<1>14. Calm'
  BY <1>t, <1>8, <1>9, <1>10, <1>13 DEF Calm
<1>15. ASSUME ok \/ by = "logout_all", by # "logout"
       PROVE  /\ \A t \in Tabs, d \in Calls : call'[t][d] = "refused" => call[t][d] = "refused"
              /\ \A t \in Tabs : access'[t] = "none" => access[t] = "none"
  BY <1>2, <1>11, <1>15 DEF Settle, BrowserTypeOK
<1>16. SignedOutBySpentJar
  BY <1>t, <1>6, <1>15 DEF SignedOutBySpentJar, Spent, LeftBehind
<1> QED
  BY <1>14, <1>16

\* The sending steps of a tab whose page stays.
LEMMA CalmSends ==
  ASSUME BrowserInv, BrowserTypeOK', upset = {}, upset' = {}, NEW b \in Tabs, NEW r \in Reqs,
         NEW by \in {"shared", "silent", "login", "logout", "logout_all"}, Send(r, b, by),
         by = "shared" => inFlight[b] = "null",
         \A t \in Tabs : \/ inFlight'[t] = inFlight[t] /\ access'[t] = access[t]
                         \/ inFlight'[t] = "pending" /\ by = "shared",
         UNCHANGED <<vars, jar>>
  PROVE  Calm'
<1>1. ~Pending(r) /\ Overlaps(b, by) = {}
  BY DEF Send
<1>2. fetch'[r] = Sent(b, by) /\ \A q \in Reqs \ {r} : fetch'[q] = fetch[q]
  BY DEF Send, BrowserInv, BrowserTypeOK
<1> QED
  BY <1>1, <1>2, CalmSend

\* A load that abandons nothing.
LEMMA CalmLoad ==
  ASSUME BrowserInv, BrowserTypeOK', upset = {}, upset' = {}, NEW b \in Tabs, NEW r \in Reqs,
         Load(b, r)
  PROVE  Calm'
<1>1. ~Pending(r) /\ Overlaps(b, "silent") = {}
  BY DEF Load
<1>2. /\ fetch'[r] = Sent(b, "silent")
      /\ \A q \in Reqs \ {r} : /\ fetch'[q].by = fetch[q].by /\ fetch'[q].at = fetch[q].at
                               /\ fetch'[q].cookie = fetch[q].cookie
                               /\ fetch'[q].ok = fetch[q].ok /\ fetch'[q].gives = fetch[q].gives
  BY DEF Load, Abandoned, BrowserInv, BrowserTypeOK, Fetch
<1>3. \A t \in Tabs : \/ inFlight'[t] = inFlight[t] /\ access'[t] = access[t]
                      \/ inFlight'[t] = "null"
  BY DEF Load, BrowserInv, BrowserTypeOK
<1>4. UNCHANGED <<vars, jar>>
  BY DEF Load
<1> QED
  BY <1>1, <1>2, <1>3, <1>4, CalmSend

\* A step that upsets nothing keeps the session calm, and refuses only for the reason.
LEMMA CalmStep ==
  ASSUME BrowserInv, BrowserTypeOK', [BrowserNext]_allVars, upset' = {}
  PROVE  upset = {} /\ Calm' /\ SignedOutBySpentJar
<1>1. upset = {}
  BY DEF BrowserNext, Load, Tick, SignIn, SignOut, SignOutAll, Send, AccessExpires, Debounced, AskApi,
         Got401, Got401Settled, Arrives, Continues, Returns, Raised, Breaks, Deliver, Lose,
         allVars, browser
<1>t. /\ access \in [Tabs -> {"none", "valid", "expired"}]
      /\ inFlight \in [Tabs -> {"null", "pending", "succeeded", "failed"}]
      /\ call \in [Tabs -> [Calls -> {"idle", "sent", "waiting", "ok", "refused"}]]
  BY DEF BrowserInv, BrowserTypeOK
<1>n. UNCHANGED <<call, access>> => SignedOutBySpentJar
  BY DEF SignedOutBySpentJar
<1>2. CASE UNCHANGED allVars
  BY <1>1, <1>n, <1>2, CalmLocal DEF allVars, browser
<1>3. ASSUME NEW b \in Tabs, AccessExpires(b) \/ Debounced(b)
      PROVE  Calm' /\ SignedOutBySpentJar
  <2>1. UNCHANGED <<vars, jar, fetch, call>>
    BY <1>3 DEF AccessExpires, Debounced
  <2>2. \A t \in Tabs :
          \/ inFlight'[t] = inFlight[t] /\ access'[t] = access[t]
          \/ inFlight'[t] = "null" /\ inFlight[t] \in {"null", "succeeded", "failed"}
    BY <1>t, <1>3 DEF AccessExpires, Debounced
  <2>3. \A t \in Tabs : access'[t] = "none" => access[t] = "none"
    BY <1>t, <1>3 DEF AccessExpires, Debounced
  <2>4. SignedOutBySpentJar
    BY <2>1, <2>3 DEF SignedOutBySpentJar
  <2> QED
    BY <1>1, <2>1, <2>2, <2>4, CalmLocal
<1>4. ASSUME NEW b \in Tabs, NEW r \in Reqs, Load(b, r)
      PROVE  Calm' /\ SignedOutBySpentJar
  <2>1. \A t \in Tabs \ {b} : access'[t] = access[t] /\ call'[t] = call[t]
    BY <1>t, <1>4 DEF Load
  <2>2. \A c \in Calls : call'[b][c] = "idle"
    BY <1>t, <1>4 DEF Load
  <2>3. SignedOutBySpentJar
    BY <1>4, <2>1, <2>2 DEF SignedOutBySpentJar
  <2> QED
    BY <1>1, <1>4, <2>3, CalmLoad
<1>5. ASSUME NEW b \in Tabs, NEW r \in Reqs,
             Tick(b, r) \/ SignIn(b, r) \/ SignOut(b, r) \/ SignOutAll(b, r)
      PROVE  Calm' /\ SignedOutBySpentJar
  <2>1. PICK by \in {"silent", "login", "logout", "logout_all"} : Send(r, b, by)
    BY <1>5 DEF Tick, SignIn, SignOut, SignOutAll
  <2>2. UNCHANGED <<vars, jar, access, inFlight, call>>
    BY <1>5 DEF Tick, SignIn, SignOut, SignOutAll
  <2> QED
    BY <1>1, <1>n, <2>1, <2>2, CalmSends
<1>6. ASSUME NEW b \in Tabs, NEW c \in Calls, AskApi(b, c)
      PROVE  Calm' /\ SignedOutBySpentJar
  <2>1. UNCHANGED <<vars, jar, fetch, access, inFlight>>
    BY <1>6 DEF AskApi
  <2>2. SignedOutBySpentJar
    BY <1>t, <1>6 DEF AskApi, SignedOutBySpentJar
  <2> QED
    BY <1>1, <2>1, <2>2, CalmLocal
<1>7. ASSUME NEW b \in Tabs, NEW c \in Calls, Got401(b, c)
      PROVE  Calm' /\ SignedOutBySpentJar
  <2>1. SignedOutBySpentJar
    BY <1>t, <1>7 DEF Got401, SignedOutBySpentJar
  <2>2. /\ \A t \in Tabs : inFlight'[t] = IF t = b THEN "pending" ELSE inFlight[t]
        /\ inFlight[b] \in {"null", "pending"} /\ UNCHANGED <<vars, jar, access>>
    BY <1>t, <1>7 DEF Got401
  <2>3. CASE MayShare(b)
    BY <1>1, <1>7, <2>1, <2>2, <2>3, CalmLocal DEF Got401, MayShare
  <2>4. CASE ~MayShare(b)
    <3>1. PICK r \in Reqs : Send(r, b, "shared")
      BY <1>7, <2>4 DEF Got401
    <3>2. inFlight[b] = "null"
      BY <2>4 DEF MayShare
    <3>3. \A t \in Tabs : \/ inFlight'[t] = inFlight[t] /\ access'[t] = access[t]
                          \/ inFlight'[t] = "pending"
      BY <2>2
    <3>4. Calm'
      BY <1>1, <2>2, <3>1, <3>2, <3>3, CalmSends
    <3> QED
      BY <2>1, <3>4
  <2> QED
    BY <2>3, <2>4
<1>8. ASSUME NEW b \in Tabs, NEW c \in Calls, Got401Settled(b, c)
      PROVE  Calm' /\ SignedOutBySpentJar
  <2>1. UNCHANGED <<vars, jar, fetch, inFlight>> /\ inFlight[b] \in {"succeeded", "failed"}
    BY <1>8 DEF Got401Settled
  <2>2. \A t \in Tabs : access'[t] = access[t] \/ inFlight[t] = "failed"
    BY <1>t, <1>8 DEF Got401Settled
  <2>3. Calm'
    BY <1>1, <2>1, <2>2, CalmLocal
  <2>4. PromisesCalm
    BY <1>1, CalmBefore DEF Calm
  <2>5. \A t \in Tabs, d \in Calls : call[t][d] # "refused" /\ call'[t][d] = "refused"
          => t = b /\ (inFlight[b] = "failed" \/ access[b] # "valid")
    BY <1>t, <1>8 DEF Got401Settled, Retried
  <2>6. SignedOutBySpentJar
    <3>1. Spent(jar)' <=> Spent(jar)
      BY <2>1 DEF Spent, LeftBehind, vars
    <3> QED
      BY <2>1, <2>2, <2>4, <2>5, <3>1 DEF SignedOutBySpentJar, PromisesCalm
  <2> QED
    BY <2>3, <2>6
<1>9. ASSUME NEW r \in Reqs, Arrives(r) \/ Continues(r) \/ Returns(r) \/ Raised(r)
      PROVE  Calm' /\ SignedOutBySpentJar
  <2>1. UNCHANGED <<call, access>>
    BY <1>9 DEF Arrives, Continues, Returns, Raised, browser
  <2> QED
    BY <1>1, <1>n, <1>9, <2>1, CalmArrives, CalmContinues, CalmReturns, CalmRaised
<1>10. ASSUME NEW r \in Reqs, Deliver(r)
       PROVE  Calm' /\ SignedOutBySpentJar
  BY <1>1, <1>10, CalmDeliver
<1>11. ASSUME NEW r \in Reqs, Breaks(r) \/ Lose(r)
       PROVE  FALSE
  BY <1>11 DEF Breaks, Lose
<1> QED
  BY <1>1, <1>2, <1>3, <1>4, <1>5, <1>6, <1>7, <1>8, <1>9, <1>10, <1>11 DEF BrowserNext

\* BrowserSession leaves expires_at out.
LEMMA NothingExpires ==
  ASSUME [BrowserNext]_allVars
  PROVE  expired' = expired
BY DEF BrowserNext, Load, Tick, SignIn, SignOut, SignOutAll, AccessExpires, Debounced, AskApi, Got401,
       Got401Settled, Arrives, Continues, Returns, Raised, Breaks, Deliver, Lose, Finished,
       RefreshRead, LoginBegin, LogoutRead, LogoutAllBegin, ReuseBegin, RotateWrite, RevokeWrite, BulkWrite,
       CommitOnReturn, CommitOnRaise, KeptOnRaise, Committed, Abort, Unchanged, allVars, vars

\* The induction, for the backend and the browser together.
LEMMA BrowserBegins == BrowserInit => BrowserInv
<1> SUFFICES ASSUME BrowserInit PROVE BrowserInv
  OBVIOUS
<1>1. \A r \in Reqs : fetch[r] = NoFetch /\ fetch[r].at = "none"
  BY DEF BrowserInit, NoFetch
<1>2. SessionInv /\ expired = {} /\ audit = {}
  BY SessionInit DEF BrowserInit, Init
<1>3. BrowserTypeOK
  BY NoFetchTyped, TokensAssumption DEF BrowserInit, BrowserTypeOK
<1>4. WaitersHaveRefresh /\ SharedOnce
  BY <1>1 DEF BrowserInit, WaitersHaveRefresh, SharedOnce, Pending
<1>5. Calm
  BY <1>1, <1>2 DEF BrowserInit, Calm, CookiesCalm, JarCalm, PromisesCalm, AuditCalm, ServedCalm, AnsweredCalm,
                    Pending
<1> QED
  BY <1>2, <1>3, <1>4, <1>5 DEF BrowserInv

LEMMA BrowserKeeps ==
  BrowserInv /\ [BrowserNext]_allVars
    => BrowserInv' /\ [Next]_vars /\ (upset' = {} => SignedOutBySpentJar)
<1> SUFFICES ASSUME BrowserInv, [BrowserNext]_allVars
             PROVE  BrowserInv' /\ [Next]_vars /\ (upset' = {} => SignedOutBySpentJar)
  OBVIOUS
<1>1. [Next]_vars
  BY BackendStep DEF BrowserInv
<1>2. SessionInv'
  BY <1>1, SessionNext DEF BrowserInv
<1>3. BrowserTypeOK'
  BY BrowserTypes DEF BrowserInv, SessionInv
<1>4. WaitersHaveRefresh' /\ SharedOnce'
  BY <1>3, WaitersStep DEF BrowserInv, SessionInv
<1>5. upset' = {} => Calm' /\ SignedOutBySpentJar
  BY <1>3, CalmStep
<1>6. expired' = {}
  BY NothingExpires DEF BrowserInv
<1> QED
  BY <1>1, <1>2, <1>3, <1>4, <1>5, <1>6 DEF BrowserInv

LEMMA BrowserAlways == BrowserSpec => []BrowserInv
BY BrowserBegins, BrowserKeeps, PTL DEF BrowserSpec

-----------------------------------------------------------------------------
\* The state of the browser has its type throughout.
THEOREM BrowserTypeCorrect == BrowserSpec => []BrowserTypeOK
BY BrowserAlways, PTL DEF BrowserInv

\* Without an overlap that refreshOnce does not coalesce, and without a fault, the only
\* requests of the browser that the backend takes for those of a thief carry a cookie that
\* a sign-out-all revoked and left in the jar.
THEOREM NeverReuseByItself == BrowserSpec => []NoReuseByItself
<1>1. BrowserInv => NoReuseByItself
  BY DEF BrowserInv, Calm, AuditCalm, NoReuseByItself
<1> QED
  BY <1>1, BrowserAlways, PTL

\* Once all is quiet and nothing went wrong, the cookie in the jar is one the backend
\* still honours, or one that a sign-out-all left there: never an exchanged one, and never
\* one that was signed out.
THEOREM JarStaysUsable == BrowserSpec => []JarUsable
<1>1. BrowserInv => JarUsable
  <2> SUFFICES ASSUME BrowserInv, Quiet, upset = {}, jar # 0
               PROVE  jar \in Tokens /\ (Live(jar) \/ LeftBehind(jar))
    BY DEF JarUsable
  <2>1. jar \in Tokens
    BY TokensAssumption DEF BrowserInv, BrowserTypeOK, Tokens
  <2>2. Live(jar) \/ LeftBehind(jar)
    BY DEF BrowserInv, Calm, JarCalm, Quiet, Pending
  <2> QED
    BY <2>1, <2>2
<1> QED
  BY <1>1, BrowserAlways, PTL

\* refreshInFlight is pending exactly while a shared refresh is under way, and calls wait
\* only for such a one.
THEOREM WaitersAreServed == BrowserSpec => []WaitersHaveRefresh
BY BrowserAlways, PTL DEF BrowserInv

\* api() refuses a call, and a tab drops its token, only when there is no session behind
\* the jar any more, something overlapped or something failed.
THEOREM SignedOutRightly == BrowserSpec => SignedOutForAReason
<1>1. BrowserInv /\ [BrowserNext]_allVars =>
        [\A b \in Tabs :
           \/ \E c \in Calls : call[b][c] # "refused" /\ call'[b][c] = "refused"
           \/ access[b] # "none" /\ access'[b] = "none" /\ ~\E r \in Reqs : Load(b, r)
           => jar' = 0 \/ LeftBehind(jar)' \/ upset' # {}]_allVars
  BY BrowserKeeps DEF SignedOutBySpentJar, Spent
<1> QED
  BY <1>1, BrowserAlways, PTL DEF BrowserSpec, SignedOutForAReason

\* The browser drives the handlers as RefreshTokens lets any client drive them: every
\* theorem above about Spec holds of BrowserSpec.
THEOREM BrowserUsesBackend == BrowserSpec => Spec
<1>1. BrowserInit => Init
  BY DEF BrowserInit
<1>2. BrowserInv /\ [BrowserNext]_allVars => [Next]_vars
  BY BrowserKeeps
<1> QED
  BY <1>1, <1>2, BrowserAlways, PTL DEF BrowserSpec, Spec
=============================================================================
