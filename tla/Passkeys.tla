------------------------------- MODULE Passkeys -------------------------------
(***************************************************************************)
(* Passkeys and the WebAuthn ceremonies: the begin and finish handlers of  *)
(* registration and login (backend/app/api/auth.py) with the challenges    *)
(* they keep in Redis, and rename and remove (backend/app/api/me.py).      *)
(*                                                                         *)
(* A finish handler takes its challenge with two Redis commands, reads     *)
(* with one or more statements, flushes its write, which locks the row,    *)
(* and is committed by get_session; requests interleave between these.     *)
(* A request that is refused writes an audit row and nothing else: that is *)
(* Abort.  Login's refresh token is RefreshTokens!LoginBegin.              *)
(***************************************************************************)
EXTENDS Naturals, FiniteSets

CONSTANTS
  Users,
  Credentials,    \* what the users' authenticators can create
  Counting,       \* those whose authenticator counts its signatures; others sign 0
  Reqs,           \* requests that may be in progress at the same time
  MaxChallenges   \* bound: ceremonies ever begun

ASSUME CountingAssumption   == Counting \subseteq Credentials
ASSUME ChallengesAssumption == MaxChallenges \in Nat
ASSUME UsersAssumption      == "nobody" \notin Users

Challenges == 1..MaxChallenges

VARIABLES
  issued,      \* the challenges 1..issued were stored
  ceremony,    \* ceremony[h]: kind and user of challenge h, and the browser's answer
  redis,       \* challenges that are in Redis
  passkey,     \* passkey[c]: the row with credential_id c
  inserted,    \* number of rows ever inserted, the last id given
  removed,     \* history: ids of the rows that were deleted
  redeemed,    \* history: [challenge, id] of the finishes that were committed
  overlapped,  \* history: users two of whose removals were counted before either ended
  req          \* req[r]: the state of request r

vars == <<issued, ceremony, redis, passkey, inserted, removed, redeemed, overlapped, req>>

web    == <<issued, ceremony>>
table  == <<passkey, inserted>>
traces == <<removed, redeemed, overlapped>>

NoCredential == "none"
ASSUME CredentialsAssumption == NoCredential \notin Credentials

Kinds     == {"register", "login"}
Ceremony  == [kind: Kinds \union {"none"}, user: Users \union {"nobody"},
              cred: Credentials \union {NoCredential}, count: Nat]
NoCeremony == [kind |-> "none", user |-> "nobody", cred |-> NoCredential, count |-> 0]

Row   == [id: Nat \ {0}, user: Users, count: Nat]
NoRow == [id |-> 0, user |-> "nobody", count |-> 0]

(***************************************************************************)
(* stage of a request: "got" the challenge was read, "consumed" and        *)
(* deleted; "ready" the checks passed and the write is to come; "loaded"   *)
(* the row to remove was read; "written" flushed.  row is the image of the *)
(* row the request will leave, or of the one it will delete.               *)
(***************************************************************************)
Stages  == {"idle", "got", "consumed", "loaded", "ready", "written"}
Ops     == {"none", "register", "login", "rename", "remove"}
Request == [stage: Stages, op: Ops, challenge: 0..MaxChallenges,
            cred: Credentials \union {NoCredential}, row: Row \union {NoRow}]
Idle    == [stage |-> "idle", op |-> "none", challenge |-> 0,
            cred |-> NoCredential, row |-> NoRow]

At(r, stage) == req[r].stage = stage
Goto(r, stage) == req' = [req EXCEPT ![r].stage = stage]
End(r) == req' = [req EXCEPT ![r] = Idle]

Exists(c) == passkey[c] # NoRow
Owned(u)  == {c \in Credentials : Exists(c) /\ passkey[c].user = u}

Answered(h) == ceremony[h].cred # NoCredential

\* What the authenticator has counted: its answers to login challenges.
DeviceCount(c) ==
  IF c \in Counting
    THEN Cardinality({h \in Challenges : ceremony[h].kind = "login" /\ ceremony[h].cred = c})
    ELSE 0

\* An uncommitted write of the row, or of the key in the unique index.
LockedFor(r, c) == \E q \in Reqs \ {r} : At(q, "written") /\ req[q].cred = c

Init ==
  /\ issued = 0 /\ ceremony = [h \in Challenges |-> NoCeremony] /\ redis = {}
  /\ passkey = [c \in Credentials |-> NoRow] /\ inserted = 0
  /\ removed = {} /\ redeemed = {} /\ overlapped = {}
  /\ req = [r \in Reqs |-> Idle]
-----------------------------------------------------------------------------
(* Begin, and what the browser does with it.                               *)

\* _store_challenge: under a fresh id, with a time to live.
StoreChallenge(kind, user) ==
  /\ issued < MaxChallenges
  /\ kind = "login" <=> user = "nobody"
  /\ issued' = issued + 1
  /\ ceremony' = [ceremony EXCEPT ![issued + 1].kind = kind, ![issued + 1].user = user]
  /\ redis' = redis \union {issued + 1}
  /\ UNCHANGED <<table, traces, req>>

ChallengeExpires(h) ==
  /\ h \in redis /\ redis' = redis \ {h}
  /\ UNCHANGED <<web, table, traces, req>>

\* The authenticator creates a new credential for every registration.
CreateCredential(h, c) ==
  /\ ceremony[h].kind = "register" /\ ~Answered(h)
  /\ \A other \in Challenges : ceremony[other].cred # c
  /\ ceremony' = [ceremony EXCEPT ![h].cred = c]
  /\ UNCHANGED <<issued, redis, table, traces, req>>

\* It signs with any credential it holds, whether the server knows it or not.
SignChallenge(h, c) ==
  /\ ceremony[h].kind = "login" /\ ~Answered(h)
  /\ \E other \in Challenges : ceremony[other].kind = "register" /\ ceremony[other].cred = c
  /\ ceremony' = [ceremony EXCEPT ![h].cred = c,
                    ![h].count = IF c \in Counting THEN DeviceCount(c) + 1 ELSE 0]
  /\ UNCHANGED <<issued, redis, table, traces, req>>
-----------------------------------------------------------------------------
(* Finish: the challenge is taken, the answer checked.                     *)

\* Requests may be sent twice: nothing here looks at who else sent the answer.
FinishGet(r, h) ==
  /\ At(r, "idle") /\ h \in redis /\ Answered(h)
  /\ req' = [req EXCEPT ![r] = [stage |-> "got", op |-> ceremony[h].kind, challenge |-> h,
                                cred |-> ceremony[h].cred, row |-> NoRow]]
  /\ UNCHANGED <<web, redis, table, traces>>

\* Mutant of RedisAfterFinish: the key is left to its time to live.
RedisUnchanged(h) == redis

RedisAfterFinish(h) == redis \ {h}

FinishDelete(r) ==
  /\ At(r, "got")
  /\ redis' = RedisAfterFinish(req[r].challenge)
  /\ Goto(r, "consumed")
  /\ UNCHANGED <<web, table, traces>>

\* The attestation is good and the credential is not stored yet.
RegisterCheck(r) ==
  /\ At(r, "consumed") /\ req[r].op = "register"
  /\ ~Exists(req[r].cred)
  /\ Goto(r, "ready")
  /\ UNCHANGED <<web, redis, table, traces>>

\* Mutant of StoredCount: the count is kept by the server.
CountedHere(c, count) == passkey[c].count + 1

\* verification.new_sign_count
StoredCount(c, count) == count

\* verify_authentication_response: the count must grow, unless nobody counts.
CountAccepted(c, count) ==
  (count > 0 \/ passkey[c].count > 0) => count > passkey[c].count

LoginCheck(r) ==
  LET c == req[r].cred
      count == ceremony[req[r].challenge].count
  IN
  /\ At(r, "consumed") /\ req[r].op = "login"
  /\ Exists(c) /\ CountAccepted(c, count)
  /\ req' = [req EXCEPT ![r].stage = "ready",
                        ![r].row = [passkey[c] EXCEPT !.count = StoredCount(c, count)]]
  /\ UNCHANGED <<web, redis, table, traces>>
-----------------------------------------------------------------------------
(* Rename and remove.                                                      *)

\* _load_owned_passkey, for the user of the access token.
LoadOwned(r, u, c, op) ==
  /\ At(r, "idle") /\ op \in {"rename", "remove"}
  /\ Exists(c) /\ passkey[c].user = u
  /\ req' = [req EXCEPT ![r] = [stage |-> IF op = "rename" THEN "ready" ELSE "loaded",
                                op |-> op, challenge |-> 0, cred |-> c, row |-> passkey[c]]]
  /\ UNCHANGED <<web, redis, table, traces>>

\* A removal of one of u's passkeys that has passed the check.
Removing(r, u) ==
  /\ req[r].op = "remove" /\ req[r].stage \in {"ready", "written"}
  /\ req[r].row.user = u

\* Mutant of MayRemove: off by one.
MayRemoveAny(u) == Cardinality(Owned(u)) >= 1

\* SELECT count(*): one is refused, more than one goes on.
MayRemove(u) == Cardinality(Owned(u)) > 1

RemoveCount(r) ==
  LET u == req[r].row.user IN
  /\ At(r, "loaded") /\ MayRemove(u)
  /\ Goto(r, "ready")
  /\ overlapped' = overlapped \union
       {v \in {u} : \E q \in Reqs : Removing(q, v) /\ req[q].cred # req[r].cred}
  /\ UNCHANGED <<web, redis, table, removed, redeemed>>
-----------------------------------------------------------------------------
(* The flushes and the commit.                                             *)

\* Mutant of StillThere: the row is merged back when it is gone.
MergedBack(r) == TRUE

\* The ORM raises StaleDataError when its UPDATE matches no row.
StillThere(r) == passkey[req[r].cred].id = req[r].row.id

WriteAllowed(r) ==
  CASE req[r].op = "register" -> ~Exists(req[r].cred)   \* unique credential_id
    [] req[r].op \in {"login", "rename"} -> StillThere(r)
    [] OTHER -> TRUE                                    \* a DELETE of nothing only warns

Write(r) ==
  /\ At(r, "ready") /\ ~LockedFor(r, req[r].cred)
  /\ WriteAllowed(r)
  /\ Goto(r, "written")
  /\ UNCHANGED <<web, redis, table, traces>>

\* A new id, and the user the challenge was stored for.
NewRow(r) ==
  [id |-> inserted + 1, user |-> ceremony[req[r].challenge].user,
   count |-> ceremony[req[r].challenge].count]

CommitRegister(r) ==
  /\ At(r, "written") /\ req[r].op = "register"
  /\ passkey' = [passkey EXCEPT ![req[r].cred] = NewRow(r)]
  /\ inserted' = inserted + 1
  /\ redeemed' = redeemed \union {[challenge |-> req[r].challenge, id |-> inserted + 1]}
  /\ End(r)
  /\ UNCHANGED <<web, redis, removed, overlapped>>

CommitLogin(r) ==
  /\ At(r, "written") /\ req[r].op = "login"
  /\ passkey' = [passkey EXCEPT ![req[r].cred] = req[r].row]
  /\ redeemed' = redeemed \union {[challenge |-> req[r].challenge, id |-> req[r].row.id]}
  /\ End(r)
  /\ UNCHANGED <<web, redis, inserted, removed, overlapped>>

\* The nickname is left out: only the lock and the row's presence matter.
CommitRename(r) ==
  /\ At(r, "written") /\ req[r].op = "rename"
  /\ End(r)
  /\ UNCHANGED <<web, redis, table, traces>>

\* DELETE by primary key.
CommitRemove(r) ==
  /\ At(r, "written") /\ req[r].op = "remove"
  /\ passkey' = [passkey EXCEPT ![req[r].cred] = IF StillThere(r) THEN NoRow ELSE @]
  /\ removed' = IF StillThere(r) THEN removed \union {req[r].row.id} ELSE removed
  /\ End(r)
  /\ UNCHANGED <<web, redis, inserted, redeemed, overlapped>>

\* Refused by a check, failed by the database or lost with the process.
Abort(r) ==
  /\ ~At(r, "idle") /\ End(r)
  /\ UNCHANGED <<web, redis, table, traces>>

Next ==
  \/ \E kind \in Kinds, user \in Users \union {"nobody"} : StoreChallenge(kind, user)
  \/ \E h \in Challenges : ChallengeExpires(h)
  \/ \E h \in Challenges, c \in Credentials : CreateCredential(h, c) \/ SignChallenge(h, c)
  \/ \E r \in Reqs :
       \/ \E h \in Challenges : FinishGet(r, h)
       \/ \E u \in Users, c \in Credentials, op \in Ops : LoadOwned(r, u, c, op)
       \/ FinishDelete(r) \/ RegisterCheck(r) \/ LoginCheck(r) \/ RemoveCount(r)
       \/ Write(r) \/ Abort(r)
       \/ CommitRegister(r) \/ CommitLogin(r) \/ CommitRename(r) \/ CommitRemove(r)

Spec == Init /\ [][Next]_vars
-----------------------------------------------------------------------------
TypeOK ==
  /\ issued \in 0..MaxChallenges /\ redis \subseteq 1..issued
  /\ ceremony \in [Challenges -> Ceremony]
  /\ passkey \in [Credentials -> Row \union {NoRow}] /\ inserted \in Nat
  /\ removed \subseteq Nat
  /\ redeemed \subseteq [challenge: Challenges, id: Nat] /\ overlapped \subseteq Users
  /\ req \in [Reqs -> Request]

\* auth.py:98: a challenge that led to a session or a passkey is out of Redis, so no
\* later request can redeem it again.
RedeemedIsSpent == \A done \in redeemed : done.challenge \notin redis

\* A login that overlaps the removal of its passkey opens no session once the
\* removal is committed.
SessionNeedsPasskey ==
  [][\A done \in redeemed' \ redeemed : ceremony[done.challenge].kind = "login" =>
       \E c \in Credentials : passkey[c].id = done.id]_vars

\* No write of a request that read the row before brings a removed passkey back.
RemovedStaysRemoved == \A c \in Credentials : passkey[c].id \notin removed

\* me.py:120-135: who has a passkey keeps one, whatever is registered, renamed, used or
\* removed meanwhile, unless two removals of different passkeys were both counted
\* before either was committed.
LastPasskeyKept ==
  [][\A u \in Users \ overlapped : Owned(u) # {} => Owned(u)' # {}]_vars

\* The stored sign_count never runs ahead of the authenticator, however logins are
\* repeated, overtake one another or fail: its next answer is always accepted.
NotLockedOut == \A c \in Credentials : passkey[c].count <= DeviceCount(c)
=============================================================================
