---------------------------- MODULE Passkeys_proofs ----------------------------
(***************************************************************************)
(* Proofs about Passkeys, for any users, credentials, number of requests   *)
(* in progress and number of ceremonies.                                   *)
(***************************************************************************)
EXTENDS Passkeys, FiniteSetTheorems, TLAPS

\* Ids are given once and in order.
RowsOK ==
  /\ \A c \in Credentials : passkey[c].id \in 0..inserted
  /\ \A c, d \in Credentials : passkey[c].id = passkey[d].id /\ passkey[c].id # 0 => c = d
  /\ removed \subseteq 1..inserted

CeremoniesOK ==
  /\ \A h \in Challenges : ceremony[h].kind = "register" => ceremony[h].user \in Users
  /\ \A done \in redeemed : done.challenge \in 1..issued

\* What a request knows: its challenge and what became of it, the row it read, and
\* that a row it has locked is still the one it read, or still missing.
Sound(q) ==
  /\ q \in Request
  /\ q.stage # "idle" => q.cred \in Credentials
  /\ q.op \in {"register", "login"} =>
       q.challenge \in 1..issued /\ q.op = ceremony[q.challenge].kind
  /\ q.op \in {"register", "login"} /\ q.stage # "got" => q.challenge \notin redis
  /\ q.stage = "loaded" \/ (q.stage \in {"ready", "written"} /\ q.op # "register")
       => q.row \in Row
  /\ q.stage = "written" /\ q.op \in {"login", "rename"} => passkey[q.cred].id = q.row.id
  /\ q.stage = "written" /\ q.op = "register" => passkey[q.cred] = NoRow

LocksExclude ==
  \A r, q \in Reqs : At(r, "written") /\ At(q, "written") /\ req[r].cred = req[q].cred => r = q

PasskeyInv ==
  /\ TypeOK /\ RowsOK /\ CeremoniesOK
  /\ \A r \in Reqs : Sound(req[r])
  /\ LocksExclude
  /\ RedeemedIsSpent /\ RemovedStaysRemoved

LEMMA IdleSound == Sound(Idle)
BY ChallengesAssumption DEF Sound, Idle, Request, Stages, Ops, NoCredential, NoRow

LEMMA PasskeyInit == Init => PasskeyInv
<1> SUFFICES ASSUME Init PROVE PasskeyInv
  OBVIOUS
<1>1. NoCeremony \in Ceremony /\ Idle \in Request /\ NoRow \in Row \union {NoRow}
  BY ChallengesAssumption
     DEF NoCeremony, Ceremony, Idle, Request, Stages, Ops, NoCredential
<1>2. TypeOK
  BY <1>1, ChallengesAssumption DEF Init, TypeOK
<1>3. RowsOK /\ CeremoniesOK /\ RedeemedIsSpent /\ RemovedStaysRemoved
  BY DEF Init, RowsOK, CeremoniesOK, RedeemedIsSpent, RemovedStaysRemoved, NoRow, NoCeremony
<1>4. \A r \in Reqs : Sound(req[r])
  BY IdleSound DEF Init
<1>5. LocksExclude
  BY DEF Init, LocksExclude, At, Idle
<1> QED
  BY <1>2, <1>3, <1>4, <1>5 DEF PasskeyInv
-----------------------------------------------------------------------------
\* A step that only moves one request, and does not take a lock.
LEMMA MoveRequest ==
  ASSUME PasskeyInv, NEW r \in Reqs, NEW q, Sound(q), q.stage # "written",
         req' = [req EXCEPT ![r] = q], overlapped' \subseteq Users,
         UNCHANGED <<issued, ceremony, redis, passkey, inserted, removed, redeemed>>
  PROVE  PasskeyInv'
<1>t. req \in [Reqs -> Request] /\ q \in Request
  BY DEF PasskeyInv, TypeOK, Sound
<1>1. TypeOK'
  BY <1>t DEF PasskeyInv, TypeOK
<1>2. Sound(q)' /\ \A p \in Reqs : Sound(req[p])'
  <2>1. \A x : Sound(x) => Sound(x)'
    BY DEF Sound
  <2> QED
    BY <1>t, <2>1 DEF PasskeyInv
<1>3. LocksExclude'
  BY <1>t DEF PasskeyInv, LocksExclude, At
<1>4. (\A p \in Reqs : Sound(req[p]))'
  BY <1>t, <1>2
<1> QED
  BY <1>1, <1>3, <1>4
  DEF PasskeyInv, RowsOK, CeremoniesOK, RedeemedIsSpent, RemovedStaysRemoved

\* A commit that leaves the rows of other credentials alone: whoever else has written
\* holds another lock.
LEMMA CommitKeepsOthers ==
  ASSUME PasskeyInv, NEW r \in Reqs, At(r, "written"), NEW x,
         passkey' = [passkey EXCEPT ![req[r].cred] = x],
         req' = [req EXCEPT ![r] = Idle],
         UNCHANGED <<issued, ceremony, redis>>
  PROVE  /\ req' \in [Reqs -> Request]
         /\ (\A p \in Reqs : Sound(req[p]))'
         /\ LocksExclude'
<1>t. /\ req \in [Reqs -> Request] /\ passkey \in [Credentials -> Row \union {NoRow}]
      /\ \A p \in Reqs : Sound(req[p])
  BY DEF PasskeyInv, TypeOK
<1>1. Idle \in Request
  BY IdleSound DEF Sound
<1>2. ASSUME NEW p \in Reqs, p # r
      PROVE  Sound(req[p])'
  <2>1. req'[p] = req[p] /\ Sound(req[p])
    BY <1>t, <1>2
  <2>2. ASSUME req[p].stage = "written"
        PROVE  passkey'[req[p].cred] = passkey[req[p].cred]
    <3>1. req[p].cred \in Credentials /\ req[p].cred # req[r].cred
      BY <1>2, <2>1, <2>2 DEF Sound, PasskeyInv, LocksExclude, At
    <3> QED
      BY <1>t, <3>1
  <2> QED
    BY <2>1, <2>2 DEF Sound
<1>3. Sound(Idle)'
  BY IdleSound DEF Sound, Idle
<1>4. \A p \in Reqs : Sound(req[p])'
  BY <1>t, <1>2, <1>3
<1>5. LocksExclude'
  BY <1>t DEF PasskeyInv, LocksExclude, At, Idle
<1>6. (\A p \in Reqs : Sound(req[p]))'
  BY <1>4
<1> QED
  BY <1>t, <1>1, <1>5, <1>6

LEMMA PasskeyNext == PasskeyInv /\ [Next]_vars => PasskeyInv'
<1> SUFFICES ASSUME PasskeyInv, [Next]_vars PROVE PasskeyInv'
  OBVIOUS
<1> USE DEF web, table, traces
<1>t. /\ req \in [Reqs -> Request] /\ passkey \in [Credentials -> Row \union {NoRow}]
      /\ ceremony \in [Challenges -> Ceremony] /\ issued \in 0..MaxChallenges
      /\ redis \subseteq 1..issued /\ inserted \in Nat /\ overlapped \subseteq Users
      /\ \A r \in Reqs : Sound(req[r])
  BY DEF PasskeyInv, TypeOK
<1>1. ASSUME NEW kind \in Kinds, NEW user \in Users \union {"nobody"},
             StoreChallenge(kind, user)
      PROVE  PasskeyInv'
  <2> DEFINE new == issued + 1
  <2>1. new \in Challenges /\ issued' = new /\ new \in 0..MaxChallenges
    BY <1>t, <1>1, ChallengesAssumption DEF StoreChallenge, Challenges
  <2>2. ceremony' \in [Challenges -> Ceremony]
    <3>1. ceremony[new] \in Ceremony
      BY <1>t, <2>1
    <3>2. [[ceremony[new] EXCEPT !.kind = kind] EXCEPT !.user = user] \in Ceremony
      BY <1>1, <3>1 DEF Ceremony
    <3> QED
      BY <1>t, <1>1, <2>1, <3>1, <3>2 DEF StoreChallenge, Ceremony
  <2>3. TypeOK'
    BY <1>t, <1>1, <2>1, <2>2 DEF StoreChallenge, PasskeyInv, TypeOK
  <2>4. \A h \in 1..issued : h \in 1..issued' /\ ceremony'[h] = ceremony[h] /\ h # new
    <3>1. \A h \in 1..issued : h \in Challenges /\ h # new /\ h \in 1..new
      BY <1>t, ChallengesAssumption DEF Challenges
    <3>2. \A h \in Challenges : h # new => ceremony'[h] = ceremony[h]
      BY <1>t, <1>1 DEF StoreChallenge
    <3> QED
      BY <2>1, <3>1, <3>2
  <2>5. CeremoniesOK'
    <3>1. ceremony'[new].kind = kind /\ ceremony'[new].user = user
      BY <1>t, <1>1, <2>1 DEF StoreChallenge, Ceremony
    <3>2. \A h \in Challenges : h # new => ceremony'[h] = ceremony[h]
      BY <1>t, <1>1 DEF StoreChallenge
    <3>3. kind = "register" => user \in Users
      BY <1>1 DEF StoreChallenge
    <3> QED
      BY <1>1, <2>4, <3>1, <3>2, <3>3 DEF StoreChallenge, PasskeyInv, CeremoniesOK
  <2>6. \A q : Sound(q) => Sound(q)'
    BY <1>1, <2>4 DEF StoreChallenge, Sound
  <2>7. RedeemedIsSpent'
    BY <1>1, <2>4 DEF StoreChallenge, PasskeyInv, RedeemedIsSpent, CeremoniesOK
  <2> QED
    BY <1>1, <2>3, <2>5, <2>6, <2>7
    DEF StoreChallenge, PasskeyInv, RowsOK, LocksExclude, At, RemovedStaysRemoved
<1>2. ASSUME NEW gone, redis' = redis \ {gone},
             UNCHANGED <<issued, ceremony, passkey, inserted, removed, redeemed, overlapped, req>>
      PROVE  PasskeyInv'
  <2>1. \A q : Sound(q) => Sound(q)'
    BY <1>2 DEF Sound
  <2> QED
    BY <1>2, <2>1 DEF PasskeyInv, TypeOK, RowsOK, CeremoniesOK, LocksExclude, At,
                      RedeemedIsSpent, RemovedStaysRemoved
<1>3. ASSUME NEW h \in Challenges, ChallengeExpires(h)
      PROVE  PasskeyInv'
  BY <1>2, <1>3 DEF ChallengeExpires
<1>4. ASSUME NEW h \in Challenges, NEW c \in Credentials,
             CreateCredential(h, c) \/ SignChallenge(h, c)
      PROVE  PasskeyInv'
  <2>1. /\ ceremony' \in [Challenges -> Ceremony]
        /\ \A g \in Challenges : ceremony'[g].kind = ceremony[g].kind
                                 /\ ceremony'[g].user = ceremony[g].user
        /\ UNCHANGED <<issued, redis, passkey, inserted, removed, redeemed, overlapped, req>>
    <3>1. CASE CreateCredential(h, c)
      BY <1>t, <3>1 DEF CreateCredential, Ceremony
    <3>2. CASE SignChallenge(h, c)
      <4>1. PICK n : ceremony' = [ceremony EXCEPT ![h].cred = c, ![h].count = n]
                     /\ n = IF c \in Counting THEN DeviceCount(c) + 1 ELSE 0
        BY <3>2 DEF SignChallenge
      <4>2. n \in Nat
        <5> DEFINE signed == {g \in Challenges : ceremony[g].kind = "login" /\ ceremony[g].cred = c}
        <5>1. IsFiniteSet(signed)
          <6>1. IsFiniteSet(Challenges)
            BY FS_Interval, ChallengesAssumption DEF Challenges
          <6> QED
            BY <6>1, FS_Subset
        <5>2. Cardinality(signed) \in Nat
          BY <5>1, FS_CardinalityType
        <5> QED
          BY <4>1, <5>2 DEF DeviceCount
      <4>3. UNCHANGED <<issued, redis, passkey, inserted, removed, redeemed, overlapped, req>>
        BY <3>2 DEF SignChallenge
      <4>4. ceremony[h] \in Ceremony
        BY <1>t
      <4>5. /\ [[ceremony[h] EXCEPT !.cred = c] EXCEPT !.count = n] \in Ceremony
            /\ [[ceremony[h] EXCEPT !.cred = c] EXCEPT !.count = n].kind = ceremony[h].kind
            /\ [[ceremony[h] EXCEPT !.cred = c] EXCEPT !.count = n].user = ceremony[h].user
        BY <4>2, <4>4 DEF Ceremony
      <4>6. ceremony' = [ceremony EXCEPT ![h] =
                           [[ceremony[h] EXCEPT !.cred = c] EXCEPT !.count = n]]
        BY <1>t, <4>1 DEF Ceremony
      <4> QED
        BY <1>t, <4>3, <4>5, <4>6
    <3> QED
      BY <1>4, <3>1, <3>2
  <2>2. \A q : Sound(q) => Sound(q)'
    <3>1. 1..issued \subseteq Challenges
      BY <1>t, ChallengesAssumption DEF Challenges
    <3> QED
      BY <2>1, <3>1 DEF Sound
  <2> QED
    BY <1>t, <2>1, <2>2 DEF PasskeyInv, TypeOK, RowsOK, CeremoniesOK, LocksExclude, At,
                            RedeemedIsSpent, RemovedStaysRemoved
<1>5. ASSUME NEW r \in Reqs, NEW h \in Challenges, FinishGet(r, h)
      PROVE  PasskeyInv'
  <2> DEFINE q == [stage |-> "got", op |-> ceremony[h].kind, challenge |-> h,
                   cred |-> ceremony[h].cred, row |-> NoRow]
  <2>1. h \in 1..issued /\ ceremony[h] \in Ceremony /\ ceremony[h].cred \in Credentials
    BY <1>t, <1>5 DEF FinishGet, Answered, Ceremony, NoCredential
  <2>2. q \in Request
    BY <2>1, ChallengesAssumption DEF Request, Stages, Ops, Kinds, Ceremony, Challenges
  <2>3. Sound(q)
    BY <2>1, <2>2 DEF Sound
  <2>4. q.stage # "written"
    OBVIOUS
  <2>5. req' = [req EXCEPT ![r] = q]
        /\ UNCHANGED <<issued, ceremony, redis, passkey, inserted, removed, redeemed, overlapped>>
    BY <1>5 DEF FinishGet
  <2> HIDE DEF q
  <2> QED
    BY <1>t, <2>3, <2>4, <2>5, MoveRequest
<1>6. ASSUME NEW r \in Reqs, FinishDelete(r)
      PROVE  PasskeyInv'
  <2> DEFINE q == [req[r] EXCEPT !.stage = "consumed"]
             gone == req[r].challenge
  <2>1. /\ redis' = redis \ {gone} /\ req' = [req EXCEPT ![r] = q]
        /\ UNCHANGED <<issued, ceremony, passkey, inserted, removed, redeemed, overlapped>>
        /\ req[r].stage = "got"
    BY <1>t, <1>6 DEF FinishDelete, RedisAfterFinish, Goto, At
  <2>2. \A p \in Reqs : Sound(req[p])'
    <3>2. req[r] \in Request /\ q \in Request
      BY <1>t DEF Request, Stages
    <3>3. q.stage = "consumed" /\ q.op = req[r].op /\ q.challenge = gone
          /\ q.cred = req[r].cred
      BY <3>2 DEF Request
    <3>4. Sound(req[r])
      BY <1>t
    <3> HIDE DEF q
    <3>5. q.challenge \notin redis'
      BY <2>1, <3>3
    <3>6. req'[r] = q
      BY <1>t, <2>1
    <3>7. Sound(req[r])'
      BY <2>1, <3>2, <3>3, <3>4, <3>5, <3>6 DEF Sound
    <3>8. \A p \in Reqs \ {r} : req'[p] = req[p]
      BY <1>t, <2>1
    <3>9. \A p \in Reqs \ {r} : Sound(req[p])'
      BY <1>t, <2>1, <3>8 DEF Sound
    <3> QED
      BY <3>7, <3>9
  <2>3. TypeOK'
    BY <1>t, <2>1 DEF PasskeyInv, TypeOK, Request, Stages
  <2>4. LocksExclude'
    <3>1. \A p \in Reqs : At(p, "written")' => At(p, "written") /\ req'[p] = req[p]
      BY <1>t, <2>1 DEF At, Request
    <3> QED
      BY <3>1 DEF PasskeyInv, LocksExclude
  <2>5. (\A p \in Reqs : Sound(req[p]))'
    BY <2>2
  <2> QED
    BY <2>1, <2>3, <2>4, <2>5
    DEF PasskeyInv, RowsOK, CeremoniesOK, RedeemedIsSpent, RemovedStaysRemoved
<1>7. ASSUME NEW r \in Reqs, RegisterCheck(r) \/ RemoveCount(r)
      PROVE  PasskeyInv'
  <2> DEFINE q == [req[r] EXCEPT !.stage = "ready"]
  <2>1. /\ req' = [req EXCEPT ![r] = q]
        /\ UNCHANGED <<issued, ceremony, redis, passkey, inserted, removed, redeemed>>
        /\ overlapped' \subseteq overlapped \union {req[r].row.user}
        /\ overlapped' # overlapped => req[r].stage = "loaded"
        /\ \/ req[r].stage = "consumed" /\ req[r].op = "register"
           \/ req[r].stage = "loaded"
    BY <1>t, <1>7 DEF RegisterCheck, RemoveCount, Goto, At
  <2>2. req[r] \in Request /\ q \in Request /\ Sound(req[r])
    BY <1>t DEF Request, Stages
  <2>3. q.stage = "ready" /\ q.op = req[r].op /\ q.challenge = req[r].challenge
        /\ q.cred = req[r].cred /\ q.row = req[r].row
    BY <2>2 DEF Request
  <2> HIDE DEF q
  <2>4. Sound(q)
    BY <2>1, <2>2, <2>3 DEF Sound
  <2>5. overlapped' \subseteq Users
    BY <1>t, <2>1, <2>2 DEF Sound, Row
  <2> QED
    BY <2>1, <2>3, <2>4, <2>5, MoveRequest
<1>8. ASSUME NEW r \in Reqs, LoginCheck(r)
      PROVE  PasskeyInv'
  <2> DEFINE n == ceremony[req[r].challenge].count
             row == [passkey[req[r].cred] EXCEPT !.count = n]
             q == [req[r] EXCEPT !.stage = "ready", !.row = row]
  <2>1. /\ req' = [req EXCEPT ![r] = q]
        /\ UNCHANGED <<issued, ceremony, redis, passkey, inserted, removed, redeemed, overlapped>>
        /\ req[r].stage = "consumed" /\ req[r].op = "login" /\ Exists(req[r].cred)
    BY <1>t, <1>8 DEF LoginCheck, StoredCount, At
  <2>2. req[r] \in Request /\ Sound(req[r])
    BY <1>t
  <2>3. row \in Row
    <3>1. req[r].cred \in Credentials /\ req[r].challenge \in Challenges
      BY <1>t, <2>1, <2>2, ChallengesAssumption DEF Sound, Challenges
    <3>2. passkey[req[r].cred] \in Row /\ n \in Nat
      BY <1>t, <2>1, <3>1 DEF Exists, Ceremony
    <3> QED
      BY <3>2 DEF Row
  <2> HIDE DEF row
  <2>4. q \in Request
    BY <2>2, <2>3 DEF Request, Stages
  <2>5. q.stage = "ready" /\ q.op = req[r].op /\ q.challenge = req[r].challenge
        /\ q.cred = req[r].cred /\ q.row = row
    BY <2>2 DEF Request
  <2> HIDE DEF q
  <2>6. Sound(q)
    BY <2>1, <2>2, <2>3, <2>4, <2>5 DEF Sound
  <2> QED
    BY <1>t, <2>1, <2>5, <2>6, MoveRequest
<1>9. ASSUME NEW r \in Reqs, NEW u \in Users, NEW c \in Credentials, NEW op \in Ops,
             LoadOwned(r, u, c, op)
      PROVE  PasskeyInv'
  <2> DEFINE q == [stage |-> IF op = "rename" THEN "ready" ELSE "loaded",
                   op |-> op, challenge |-> 0, cred |-> c, row |-> passkey[c]]
  <2>1. /\ req' = [req EXCEPT ![r] = q] /\ Exists(c) /\ op \in {"rename", "remove"}
        /\ UNCHANGED <<issued, ceremony, redis, passkey, inserted, removed, redeemed, overlapped>>
    BY <1>9 DEF LoadOwned
  <2>2. passkey[c] \in Row
    BY <1>t, <2>1 DEF Exists
  <2>3. q \in Request
    BY <2>2, ChallengesAssumption DEF Request, Stages
  <2>4. q.stage \in {"ready", "loaded"} /\ q.stage # "written"
    OBVIOUS
  <2>5. q.op = op /\ q.cred = c /\ q.row = passkey[c]
    OBVIOUS
  <2> HIDE DEF q
  <2>6. Sound(q)
    BY <2>1, <2>2, <2>3, <2>4, <2>5 DEF Sound
  <2> QED
    BY <1>t, <2>1, <2>4, <2>6, MoveRequest
<1>10. ASSUME NEW r \in Reqs, Abort(r) \/ CommitRename(r)
       PROVE  PasskeyInv'
  <2>1. req' = [req EXCEPT ![r] = Idle]
        /\ UNCHANGED <<issued, ceremony, redis, passkey, inserted, removed, redeemed, overlapped>>
    BY <1>10 DEF Abort, CommitRename, End
  <2>2. Idle.stage # "written"
    BY DEF Idle
  <2> QED
    BY <1>t, <2>1, <2>2, IdleSound, MoveRequest
<1>11. ASSUME NEW r \in Reqs, Write(r)
       PROVE  PasskeyInv'
  <2> DEFINE q == [req[r] EXCEPT !.stage = "written"]
  <2>1. /\ req' = [req EXCEPT ![r] = q]
        /\ UNCHANGED <<issued, ceremony, redis, passkey, inserted, removed, redeemed, overlapped>>
        /\ req[r].stage = "ready" /\ ~LockedFor(r, req[r].cred) /\ WriteAllowed(r)
    BY <1>t, <1>11 DEF Write, Goto, At
  <2>2. req[r] \in Request /\ q \in Request /\ Sound(req[r])
    BY <1>t DEF Request, Stages
  <2>3. q.stage = "written" /\ q.op = req[r].op /\ q.challenge = req[r].challenge
        /\ q.cred = req[r].cred /\ q.row = req[r].row
    BY <2>2 DEF Request
  <2> HIDE DEF q
  <2>4. Sound(q)
    <3>1. req[r].op \in {"login", "rename"} => passkey[req[r].cred].id = req[r].row.id
      BY <2>1 DEF WriteAllowed, StillThere
    <3>2. req[r].op = "register" => passkey[req[r].cred] = NoRow
      BY <2>1 DEF WriteAllowed, Exists
    <3> QED
      BY <2>1, <2>2, <2>3, <3>1, <3>2 DEF Sound
  <2>5. (\A p \in Reqs : Sound(req[p]))'
    <3>1. \A x : Sound(x) => Sound(x)'
      BY <2>1 DEF Sound
    <3>2. \A p \in Reqs : Sound(req[p])'
      BY <1>t, <2>1, <2>4, <3>1
    <3> QED
      BY <3>2
  <2>6. LocksExclude'
    <3>1. \A p \in Reqs \ {r} : req'[p] = req[p] /\ ~(At(p, "written") /\ req[p].cred = req[r].cred)
      BY <1>t, <2>1 DEF LockedFor
    <3>2. req'[r] = q
      BY <1>t, <2>1
    <3> QED
      BY <2>3, <3>1, <3>2 DEF PasskeyInv, LocksExclude, At
  <2>7. TypeOK'
    BY <1>t, <2>1, <2>2 DEF PasskeyInv, TypeOK
  <2> QED
    BY <2>1, <2>5, <2>6, <2>7
    DEF PasskeyInv, RowsOK, CeremoniesOK, RedeemedIsSpent, RemovedStaysRemoved
<1>12. ASSUME NEW r \in Reqs, CommitRegister(r)
       PROVE  PasskeyInv'
  <2> DEFINE c == req[r].cred
             h == req[r].challenge
             new == NewRow(r)
  <2>1. /\ passkey' = [passkey EXCEPT ![c] = new] /\ req' = [req EXCEPT ![r] = Idle]
        /\ inserted' = inserted + 1
        /\ redeemed' = redeemed \union {[challenge |-> h, id |-> inserted + 1]}
        /\ UNCHANGED <<issued, ceremony, redis, removed, overlapped>>
        /\ At(r, "written") /\ req[r].op = "register"
    BY <1>12 DEF CommitRegister, End
  <2>2. /\ c \in Credentials /\ h \in 1..issued /\ h \in Challenges /\ h \notin redis
        /\ ceremony[h].kind = "register"
    BY <1>t, <2>1, ChallengesAssumption DEF Sound, At, Challenges
  <2>3. new \in Row /\ new.id = inserted + 1
    BY <1>t, <2>2 DEF NewRow, Row, Ceremony, PasskeyInv, CeremoniesOK
  <2> HIDE DEF new
  <2>4. req' \in [Reqs -> Request] /\ (\A p \in Reqs : Sound(req[p]))' /\ LocksExclude'
    BY <2>1, CommitKeepsOthers
  <2>5. TypeOK'
    BY <1>t, <2>1, <2>2, <2>3, <2>4 DEF PasskeyInv, TypeOK
  <2>6. passkey'[c] = new /\ \A d \in Credentials \ {c} : passkey'[d] = passkey[d]
    BY <1>t, <2>1, <2>2
  <2>7. RowsOK' /\ RemovedStaysRemoved'
    BY <1>t, <2>1, <2>3, <2>6 DEF PasskeyInv, RowsOK, RemovedStaysRemoved
  <2>8. CeremoniesOK' /\ RedeemedIsSpent'
    BY <2>1, <2>2 DEF PasskeyInv, CeremoniesOK, RedeemedIsSpent
  <2> QED
    BY <2>4, <2>5, <2>7, <2>8 DEF PasskeyInv
<1>13. ASSUME NEW r \in Reqs, CommitLogin(r)
       PROVE  PasskeyInv'
  <2> DEFINE c == req[r].cred
             h == req[r].challenge
             row == req[r].row
  <2>1. /\ passkey' = [passkey EXCEPT ![c] = row] /\ req' = [req EXCEPT ![r] = Idle]
        /\ redeemed' = redeemed \union {[challenge |-> h, id |-> row.id]}
        /\ UNCHANGED <<issued, ceremony, redis, inserted, removed, overlapped>>
        /\ At(r, "written") /\ req[r].op = "login"
    BY <1>13 DEF CommitLogin, End
  <2>2. /\ c \in Credentials /\ h \in 1..issued /\ h \in Challenges /\ h \notin redis
        /\ row \in Row /\ passkey[c].id = row.id
    BY <1>t, <2>1, ChallengesAssumption DEF Sound, At, Challenges
  <2>3. req' \in [Reqs -> Request] /\ (\A p \in Reqs : Sound(req[p]))' /\ LocksExclude'
    BY <2>1, CommitKeepsOthers
  <2>4. [challenge |-> h, id |-> row.id] \in [challenge: Challenges, id: Nat]
    BY <2>2 DEF Row
  <2>5. TypeOK'
    BY <1>t, <2>1, <2>2, <2>3, <2>4 DEF PasskeyInv, TypeOK
  <2>6. \A d \in Credentials : passkey'[d].id = passkey[d].id
    BY <1>t, <2>1, <2>2
  <2>7. RowsOK' /\ RemovedStaysRemoved'
    BY <2>1, <2>6 DEF PasskeyInv, RowsOK, RemovedStaysRemoved
  <2>8. CeremoniesOK' /\ RedeemedIsSpent'
    BY <2>1, <2>2 DEF PasskeyInv, CeremoniesOK, RedeemedIsSpent
  <2> QED
    BY <2>3, <2>5, <2>7, <2>8 DEF PasskeyInv
<1>14. ASSUME NEW r \in Reqs, CommitRemove(r)
       PROVE  PasskeyInv'
  <2> DEFINE c == req[r].cred
             row == req[r].row
             left == IF StillThere(r) THEN NoRow ELSE passkey[c]
  <2>1. /\ passkey' = [passkey EXCEPT ![c] = left] /\ req' = [req EXCEPT ![r] = Idle]
        /\ removed' = IF StillThere(r) THEN removed \union {row.id} ELSE removed
        /\ UNCHANGED <<issued, ceremony, redis, inserted, redeemed, overlapped>>
        /\ At(r, "written") /\ req[r].op = "remove"
    BY <1>14 DEF CommitRemove, End
  <2>2. c \in Credentials /\ row \in Row
    BY <1>t, <2>1 DEF Sound, At
  <2>3. left \in Row \union {NoRow} /\ row.id \in Nat \ {0} /\ NoRow.id = 0
    BY <1>t, <2>2 DEF Row, NoRow
  <2>4. req' \in [Reqs -> Request] /\ (\A p \in Reqs : Sound(req[p]))' /\ LocksExclude'
    <3> HIDE DEF left
    <3> QED
      BY <2>1, CommitKeepsOthers
  <2>5. TypeOK'
    <3> HIDE DEF left
    <3> QED
      BY <1>t, <2>1, <2>2, <2>3, <2>4 DEF PasskeyInv, TypeOK
  <2>6. CeremoniesOK' /\ RedeemedIsSpent'
    BY <2>1 DEF PasskeyInv, CeremoniesOK, RedeemedIsSpent
  <2>7. RowsOK' /\ RemovedStaysRemoved'
    <3>1. \A d \in Credentials \ {c} : passkey'[d] = passkey[d]
      BY <1>t, <2>1
    <3>2. CASE StillThere(r)
      <4>1. passkey'[c].id = 0 /\ passkey[c].id = row.id /\ removed' = removed \union {row.id}
        BY <1>t, <2>1, <2>2, <2>3, <3>2 DEF StillThere
      <4>2. row.id \in 1..inserted
        BY <1>t, <2>2, <2>3, <4>1 DEF PasskeyInv, RowsOK
      <4>3. \A d \in Credentials : passkey'[d].id \in {0, passkey[d].id}
        BY <2>2, <3>1, <4>1
      <4>4. 0 \notin removed'
        BY <1>t, <2>3, <4>1 DEF PasskeyInv, RowsOK
      <4>5. \A d \in Credentials \ {c} : passkey[d].id # row.id
        BY <2>2, <2>3, <4>1 DEF PasskeyInv, RowsOK
      <4>6. RowsOK'
        <5>1. removed' \subseteq 1..inserted' /\ inserted' = inserted
          BY <2>1, <4>1, <4>2 DEF PasskeyInv, RowsOK
        <5>2. \A d \in Credentials : passkey'[d].id \in 0..inserted
          BY <1>t, <4>3 DEF PasskeyInv, RowsOK
        <5>3. \A d, e \in Credentials :
                passkey'[d].id = passkey'[e].id /\ passkey'[d].id # 0 => d = e
          BY <4>3 DEF PasskeyInv, RowsOK
        <5> QED
          BY <5>1, <5>2, <5>3 DEF RowsOK
      <4>7. RemovedStaysRemoved'
        BY <3>1, <4>1, <4>4, <4>5 DEF PasskeyInv, RemovedStaysRemoved
      <4> QED
        BY <4>6, <4>7
    <3>3. CASE ~StillThere(r)
      <4>1. passkey' = passkey /\ removed' = removed
        BY <1>t, <2>1, <3>3
      <4> QED
        BY <2>1, <4>1 DEF PasskeyInv, RowsOK, RemovedStaysRemoved
    <3> QED
      BY <3>2, <3>3
  <2> QED
    BY <2>4, <2>5, <2>6, <2>7 DEF PasskeyInv
<1>15. ASSUME UNCHANGED vars
       PROVE  PasskeyInv'
  BY <1>15 DEF vars, PasskeyInv, TypeOK, RowsOK, CeremoniesOK, Sound, LocksExclude, At,
               RedeemedIsSpent, RemovedStaysRemoved
<1> QED
  BY <1>1, <1>3, <1>4, <1>5, <1>6, <1>7, <1>8, <1>9, <1>10, <1>11, <1>12, <1>13, <1>14,
     <1>15 DEF Next

LEMMA Invariance == Spec => []PasskeyInv
BY PasskeyInit, PasskeyNext, PTL DEF Spec
-----------------------------------------------------------------------------
\* Every row, challenge and request has its type, whatever the interleaving.
THEOREM TypeCorrect == Spec => []TypeOK
<1>1. PasskeyInv => TypeOK
  BY DEF PasskeyInv
<1> QED
  BY <1>1, Invariance, PTL

\* auth.py:98, the one-shot challenge: once a finish is committed its challenge is not
\* in Redis, so it cannot be taken again.
THEOREM SpentChallenges == Spec => []RedeemedIsSpent
<1>1. PasskeyInv => RedeemedIsSpent
  BY DEF PasskeyInv
<1> QED
  BY <1>1, Invariance, PTL

\* me.py:135: a removed row is never written back, by a login or a rename that had read it
\* before, and its id is never given again.
THEOREM RemovalIsFinal == Spec => []RemovedStaysRemoved
<1>1. PasskeyInv => RemovedStaysRemoved
  BY DEF PasskeyInv
<1> QED
  BY <1>1, Invariance, PTL

\* auth.py:463: a login that is committed holds the lock of a row that is still there.
THEOREM SessionsNeedPasskeys == Spec => SessionNeedsPasskey
<1> DEFINE Opened == \A done \in redeemed' \ redeemed :
                       ceremony[done.challenge].kind = "login" =>
                         \E c \in Credentials : passkey[c].id = done.id
<1>1. PasskeyInv /\ [Next]_vars => [Opened]_vars
  <2> SUFFICES ASSUME PasskeyInv, Next, NEW done \in redeemed' \ redeemed,
                      ceremony[done.challenge].kind = "login"
               PROVE  \E c \in Credentials : passkey[c].id = done.id
    OBVIOUS
  <2>1. PICK r \in Reqs : CommitRegister(r) \/ CommitLogin(r)
    BY DEF Next, StoreChallenge, ChallengeExpires, CreateCredential, SignChallenge, FinishGet,
           LoadOwned, FinishDelete, RegisterCheck, LoginCheck, RemoveCount, Write, Abort,
           CommitRename, CommitRemove, traces
  <2>2. Sound(req[r])
    BY DEF PasskeyInv
  <2>3. CASE CommitRegister(r)
    <3>1. done.challenge = req[r].challenge
      BY <2>3 DEF CommitRegister
    <3>2. ceremony[req[r].challenge].kind = "register"
      BY <2>2, <2>3 DEF CommitRegister, Sound
    <3> QED
      BY <3>1, <3>2
  <2>4. CASE CommitLogin(r)
    <3>1. done.id = req[r].row.id
      BY <2>4 DEF CommitLogin
    <3>2. req[r].cred \in Credentials /\ passkey[req[r].cred].id = req[r].row.id
      BY <2>2, <2>4 DEF CommitLogin, Sound, At
    <3> QED
      BY <3>1, <3>2
  <2> QED
    BY <2>1, <2>3, <2>4
<1> QED
  BY <1>1, Invariance, PTL DEF Spec, SessionNeedsPasskey
-----------------------------------------------------------------------------
\* What a login request carries of the authenticator's count, with the answer it took.
Counted(q) ==
  q.op = "login" /\ q.stage # "idle" =>
    /\ q.cred = ceremony[q.challenge].cred /\ q.stage # "loaded"
    /\ q.stage \in {"ready", "written"} => q.row.count <= DeviceCount(q.cred)

AnswerCounted(h) ==
  ceremony[h].kind = "login" /\ Answered(h) => ceremony[h].count <= DeviceCount(ceremony[h].cred)

CountInv ==
  /\ \A h \in Challenges : h > issued => ceremony[h] = NoCeremony
  /\ \A h \in Challenges : ceremony[h].kind # "login" => ceremony[h].count = 0
  /\ \A h \in Challenges : AnswerCounted(h)
  /\ \A r \in Reqs : Counted(req[r])
  /\ NotLockedOut

\* The challenges are finitely many, and so are those signed with a credential.
LEMMA SignedFinite ==
  ASSUME NEW S, S \subseteq Challenges
  PROVE  IsFiniteSet(S) /\ Cardinality(S) \in Nat
<1>1. IsFiniteSet(Challenges)
  BY FS_Interval, ChallengesAssumption DEF Challenges
<1>2. IsFiniteSet(S)
  BY <1>1, FS_Subset
<1> QED
  BY <1>2, FS_CardinalityType

\* What the authenticator has counted is a number, and no step takes an answer back.
LEMMA DeviceCountType == \A c : DeviceCount(c) \in Nat
<1> TAKE c
<1> DEFINE signed == {h \in Challenges : ceremony[h].kind = "login" /\ ceremony[h].cred = c}
<1>1. Cardinality(signed) \in Nat
  <2>1. signed \subseteq Challenges
    OBVIOUS
  <2> HIDE DEF signed
  <2> QED
    BY <2>1, SignedFinite
<1> QED
  BY <1>1 DEF DeviceCount

LEMMA DeviceCountGrows ==
  ASSUME NEW c,
         \A h \in Challenges : ceremony[h].kind = "login" /\ ceremony[h].cred = c
                                 => ceremony'[h].kind = "login" /\ ceremony'[h].cred = c
  PROVE  /\ DeviceCount(c)' \in Nat
         /\ DeviceCount(c) <= DeviceCount(c)'
         /\ \A h \in Challenges :
              /\ c \in Counting /\ ceremony[h].cred # c
              /\ ceremony'[h].kind = "login" /\ ceremony'[h].cred = c
              => DeviceCount(c) + 1 <= DeviceCount(c)'
<1> DEFINE signed == {h \in Challenges : ceremony[h].kind = "login" /\ ceremony[h].cred = c}
           after  == {h \in Challenges : ceremony'[h].kind = "login" /\ ceremony'[h].cred = c}
<1>1. signed \subseteq after /\ after \subseteq Challenges /\ signed \subseteq Challenges
  OBVIOUS
<1>2. /\ DeviceCount(c) = IF c \in Counting THEN Cardinality(signed) ELSE 0
      /\ DeviceCount(c)' = IF c \in Counting THEN Cardinality(after) ELSE 0
  BY DEF DeviceCount
<1>3. \A h \in Challenges :
        /\ ceremony[h].cred # c => h \notin signed
        /\ ceremony'[h].kind = "login" /\ ceremony'[h].cred = c => h \in after
  OBVIOUS
<1> HIDE DEF signed, after
<1>4. /\ IsFiniteSet(signed) /\ Cardinality(signed) \in Nat
      /\ IsFiniteSet(after) /\ Cardinality(after) \in Nat
  BY <1>1, SignedFinite
<1>5. Cardinality(signed) <= Cardinality(after)
  BY <1>1, <1>4, FS_Subset
<1>6. ASSUME NEW h \in after, h \notin signed
      PROVE  Cardinality(signed) + 1 <= Cardinality(after)
  <2>1. Cardinality(signed \union {h}) = Cardinality(signed) + 1
    BY <1>4, <1>6, FS_AddElement
  <2>2. signed \union {h} \subseteq after
    BY <1>1, <1>6
  <2>3. Cardinality(signed \union {h}) <= Cardinality(after)
    BY <1>4, <2>2, FS_Subset
  <2> QED
    BY <2>1, <2>3
<1> QED
  BY <1>2, <1>3, <1>4, <1>5, <1>6

LEMMA CountInit == Init => CountInv
<1> SUFFICES ASSUME Init PROVE CountInv
  OBVIOUS
<1>1. \A c : DeviceCount(c) \in Nat /\ 0 <= DeviceCount(c)
  BY DeviceCountType
<1>2. NotLockedOut
  BY <1>1 DEF Init, NotLockedOut, NoRow
<1>3. \A r \in Reqs : Counted(req[r])
  BY DEF Init, Counted, Idle
<1> QED
  BY <1>2, <1>3 DEF Init, CountInv, NoCeremony, AnswerCounted, Answered

\* A step of one request that leaves the browsers alone.
LEMMA CountRequest ==
  ASSUME PasskeyInv, CountInv, NEW r \in Reqs, NEW q, Counted(q),
         req' = [req EXCEPT ![r] = q], UNCHANGED web,
         \A c \in Credentials : passkey'[c].count <= DeviceCount(c)
  PROVE  CountInv'
<1>1. UNCHANGED <<issued, ceremony>> /\ \A c : DeviceCount(c)' = DeviceCount(c)
  BY DEF web, DeviceCount
<1>2. \A p \in Reqs : Counted(req[p])'
  BY <1>1 DEF PasskeyInv, TypeOK, CountInv, Counted
<1>3. NotLockedOut'
  BY <1>1 DEF NotLockedOut
<1>4. (\A p \in Reqs : Counted(req[p]))'
  BY <1>2
<1> QED
  BY <1>1, <1>3, <1>4 DEF CountInv, AnswerCounted, Answered

\* A step of a browser, which changes one ceremony h: the requests, which hold answers
\* given before, and the rows only see the counts grow.
LEMMA CountCeremony ==
  ASSUME PasskeyInv, CountInv, NEW h \in Challenges, UNCHANGED <<passkey, req>>,
         issued' \in Nat, issued <= issued',
         h <= issued',
         \A g \in Challenges : g # h => ceremony'[g] = ceremony[g],
         ~Answered(h), ceremony'[h].cred \in Credentials \union {NoCredential},
         ceremony[h].kind = "login" => ceremony'[h].kind = "login",
         ceremony'[h].kind # "login" => ceremony'[h].count = 0,
         AnswerCounted(h)'
  PROVE  CountInv'
<1>t. /\ req \in [Reqs -> Request] /\ passkey \in [Credentials -> Row \union {NoRow}]
      /\ ceremony \in [Challenges -> Ceremony] /\ issued \in Nat
      /\ 1..issued \subseteq Challenges
  BY ChallengesAssumption DEF PasskeyInv, TypeOK, Challenges
<1>1. \A c \in Credentials : DeviceCount(c) \in Nat /\ DeviceCount(c)' \in Nat
                             /\ DeviceCount(c) <= DeviceCount(c)'
  <2> TAKE c \in Credentials
  <2>1. ceremony[h].cred # c
    BY CredentialsAssumption DEF Answered
  <2> QED
    BY <2>1, DeviceCountType, DeviceCountGrows
<1>2. ASSUME NEW p \in Reqs
      PROVE  Counted(req[p])'
  <2> SUFFICES ASSUME req[p].op = "login", req[p].stage # "idle"
               PROVE  /\ req[p].cred = ceremony'[req[p].challenge].cred
                      /\ req[p].stage # "loaded"
                      /\ req[p].stage \in {"ready", "written"} =>
                           req[p].row.count <= DeviceCount(req[p].cred)'
    BY DEF Counted
  <2> DEFINE g == req[p].challenge
             c == req[p].cred
  <2>1. Sound(req[p]) /\ Counted(req[p]) /\ req[p] \in Request
    BY <1>t DEF PasskeyInv, CountInv
  <2>2. c \in Credentials /\ g \in Challenges /\ c = ceremony[g].cred
        /\ req[p].stage # "loaded"
    BY <1>t, <2>1 DEF Sound, Counted
  <2>3. g # h
    BY <2>2, CredentialsAssumption DEF Answered
  <2>4. req[p].stage \in {"ready", "written"} =>
          req[p].row.count \in Nat /\ req[p].row.count <= DeviceCount(c)
    BY <2>1 DEF Sound, Counted, Row
  <2> QED
    BY <1>1, <2>2, <2>3, <2>4
<1>3. NotLockedOut'
  <2> SUFFICES ASSUME NEW c \in Credentials
               PROVE  passkey[c].count <= DeviceCount(c)'
    BY DEF NotLockedOut
  <2>1. passkey[c].count \in Nat /\ passkey[c].count <= DeviceCount(c)
    BY <1>t DEF Row, NoRow, CountInv, NotLockedOut
  <2> QED
    BY <1>1, <2>1
<1>4. ASSUME NEW g \in Challenges
      PROVE  /\ g > issued' => ceremony'[g] = NoCeremony
             /\ ceremony'[g].kind # "login" => ceremony'[g].count = 0
             /\ AnswerCounted(g)'
  <2>1. CASE g = h
    BY <1>t, <2>1, ChallengesAssumption DEF Answered, Challenges
  <2>2. CASE g # h
    <3>1. ceremony'[g] = ceremony[g] /\ ceremony[g] \in Ceremony
      BY <1>t, <2>2
    <3>2. Answered(g) => ceremony[g].cred \in Credentials
      BY <3>1 DEF Answered, Ceremony
    <3>3. ceremony[g].count \in Nat
      BY <3>1 DEF Ceremony
    <3>4. g > issued' => g > issued
      BY <1>t, ChallengesAssumption DEF Challenges
    <3>5. /\ g > issued => ceremony[g] = NoCeremony
          /\ ceremony[g].kind # "login" => ceremony[g].count = 0
          /\ AnswerCounted(g)
      BY DEF CountInv
    <3>6. Answered(g)' <=> Answered(g)
      BY <3>1 DEF Answered
    <3>7. ASSUME ceremony[g].kind = "login", Answered(g)
          PROVE  ceremony'[g].count <= DeviceCount(ceremony[g].cred)'
      <4> DEFINE c == ceremony[g].cred
      <4>1. c \in Credentials /\ ceremony[g].count <= DeviceCount(c)
        BY <3>2, <3>5, <3>7 DEF AnswerCounted
      <4> QED
        BY <1>1, <3>1, <3>3, <4>1
    <3> QED
      BY <3>1, <3>4, <3>5, <3>6, <3>7 DEF AnswerCounted
  <2> QED
    BY <2>1, <2>2
<1>5. (\A p \in Reqs : Counted(req[p]))'
  BY <1>2
<1>6. /\ \A g \in Challenges : g > issued' => ceremony'[g] = NoCeremony
      /\ \A g \in Challenges : ceremony'[g].kind # "login" => ceremony'[g].count = 0
      /\ \A g \in Challenges : AnswerCounted(g)'
  BY <1>4
<1> QED
  BY <1>3, <1>5, <1>6 DEF CountInv

LEMMA CountNext == PasskeyInv /\ CountInv /\ [Next]_vars => CountInv'
<1> SUFFICES ASSUME PasskeyInv, CountInv, [Next]_vars PROVE CountInv'
  OBVIOUS
<1>t. /\ req \in [Reqs -> Request] /\ passkey \in [Credentials -> Row \union {NoRow}]
      /\ ceremony \in [Challenges -> Ceremony] /\ issued \in 0..MaxChallenges
      /\ 1..issued \subseteq Challenges
      /\ \A r \in Reqs : Sound(req[r]) /\ Counted(req[r])
      /\ \A c \in Credentials : passkey[c].count <= DeviceCount(c)
      /\ Idle.op = "none" /\ Idle.stage = "idle"
  BY ChallengesAssumption
     DEF PasskeyInv, TypeOK, CountInv, NotLockedOut, Challenges, Idle
<1>i. Counted(Idle)
  BY <1>t DEF Counted
<1>1. ASSUME NEW kind \in Kinds, NEW user \in Users \union {"nobody"},
             StoreChallenge(kind, user)
      PROVE  CountInv'
  <2> DEFINE new == issued + 1
  <2>1. new \in Challenges /\ issued' = new /\ new \in Nat /\ issued <= new /\ new > issued
    BY <1>t, <1>1, ChallengesAssumption DEF StoreChallenge, Challenges
  <2>2. ceremony[new].kind = "none" /\ ceremony[new].count = 0 /\ ceremony[new] \in Ceremony
    BY <1>t, <2>1 DEF CountInv, NoCeremony
  <2>3. ~Answered(new)
    BY <2>1 DEF CountInv, Answered, NoCeremony
  <2>4. /\ ceremony' = [ceremony EXCEPT ![new].kind = kind, ![new].user = user]
        /\ UNCHANGED <<passkey, req>>
    BY <1>1 DEF StoreChallenge, table
  <2> HIDE DEF new
  <2>5. /\ ceremony'[new].cred = ceremony[new].cred /\ ceremony'[new].count = 0
        /\ \A g \in Challenges : g # new => ceremony'[g] = ceremony[g]
    BY <1>t, <2>1, <2>2, <2>4 DEF Ceremony
  <2> QED
    BY <1>t, <2>1, <2>2, <2>3, <2>4, <2>5, CountCeremony DEF AnswerCounted, Answered
<1>2. ASSUME NEW h \in Challenges, NEW c \in Credentials, CreateCredential(h, c)
      PROVE  CountInv'
  <2>1. /\ ceremony' = [ceremony EXCEPT ![h].cred = c] /\ ~Answered(h)
        /\ ceremony[h].kind = "register" /\ ceremony[h] \in Ceremony
        /\ UNCHANGED <<issued, passkey, req>>
    BY <1>t, <1>2 DEF CreateCredential, table
  <2>2. /\ ceremony'[h].cred = c /\ ceremony'[h].kind = "register"
        /\ ceremony'[h].count = ceremony[h].count
        /\ \A g \in Challenges : g # h => ceremony'[g] = ceremony[g]
    BY <1>t, <2>1 DEF Ceremony
  <2>3. ceremony[h].count = 0 /\ h <= issued
    BY <1>t, <2>1, ChallengesAssumption DEF CountInv, NoCeremony, Challenges
  <2> QED
    BY <1>t, <2>1, <2>2, <2>3, CountCeremony DEF AnswerCounted
<1>3. ASSUME NEW h \in Challenges, NEW c \in Credentials, SignChallenge(h, c)
      PROVE  CountInv'
  <2> DEFINE n == IF c \in Counting THEN DeviceCount(c) + 1 ELSE 0
  <2>1. /\ ceremony' = [ceremony EXCEPT ![h].cred = c, ![h].count = n] /\ ~Answered(h)
        /\ ceremony[h].kind = "login" /\ ceremony[h] \in Ceremony
        /\ UNCHANGED <<issued, passkey, req>>
    BY <1>t, <1>3 DEF SignChallenge, table
  <2>2. n = IF c \in Counting THEN DeviceCount(c) + 1 ELSE 0
    OBVIOUS
  <2> HIDE DEF n
  <2>3. /\ ceremony'[h].cred = c /\ ceremony'[h].kind = "login" /\ ceremony'[h].count = n
        /\ \A g \in Challenges : g # h => ceremony'[g] = ceremony[g]
    BY <1>t, <2>1 DEF Ceremony
  <2>4. h <= issued
    BY <1>t, <2>1, ChallengesAssumption DEF CountInv, NoCeremony, Challenges
  <2>5. n <= DeviceCount(c)'
    <3>1. ceremony[h].cred # c
      BY <2>1, CredentialsAssumption DEF Answered
    <3>2. /\ DeviceCount(c)' \in Nat
          /\ c \in Counting => DeviceCount(c) + 1 <= DeviceCount(c)'
      BY <2>3, <3>1, DeviceCountGrows
    <3> QED
      BY <2>2, <3>2
  <2>6. AnswerCounted(h)'
    BY <2>3, <2>5 DEF AnswerCounted
  <2> QED
    BY <1>t, <2>1, <2>3, <2>4, <2>6, CountCeremony
<1>4. ASSUME NEW r \in Reqs, NEW h \in Challenges, FinishGet(r, h)
      PROVE  CountInv'
  <2> DEFINE q == [stage |-> "got", op |-> ceremony[h].kind, challenge |-> h,
                   cred |-> ceremony[h].cred, row |-> NoRow]
  <2>1. Counted(q)
    BY DEF Counted
  <2>2. req' = [req EXCEPT ![r] = q] /\ UNCHANGED <<web, passkey>>
    BY <1>4 DEF FinishGet, table
  <2> HIDE DEF q
  <2> QED
    BY <1>t, <2>1, <2>2, CountRequest
<1>5. ASSUME NEW r \in Reqs,
             FinishDelete(r) \/ RegisterCheck(r) \/ RemoveCount(r) \/ Write(r)
      PROVE  CountInv'
  <2>1. PICK stage \in {"consumed", "ready", "written"} :
          /\ req' = [req EXCEPT ![r].stage = stage] /\ UNCHANGED <<web, passkey>>
          /\ req[r].stage # "idle"
          /\ req[r].op = "login" /\ stage # "consumed" => req[r].stage = "ready"
    <3>1. Counted(req[r])
      BY <1>t
    <3>2. CASE FinishDelete(r)
      BY <3>2 DEF FinishDelete, Goto, At, table
    <3>3. CASE RegisterCheck(r)
      BY <3>3 DEF RegisterCheck, Goto, At, table
    <3>4. CASE RemoveCount(r)
      BY <3>1, <3>4 DEF RemoveCount, Counted, Goto, At, table
    <3>5. CASE Write(r)
      BY <3>5 DEF Write, Goto, At, table
    <3> QED
      BY <1>5, <3>2, <3>3, <3>4, <3>5
  <2> DEFINE q == [req[r] EXCEPT !.stage = stage]
  <2>2. req[r] \in Request /\ Counted(req[r]) /\ req' = [req EXCEPT ![r] = q]
    BY <1>t, <2>1
  <2>3. q.stage = stage /\ q.op = req[r].op /\ q.challenge = req[r].challenge
        /\ q.cred = req[r].cred /\ q.row = req[r].row
    BY <2>2 DEF Request
  <2> HIDE DEF q
  <2>4. Counted(q)
    BY <2>1, <2>2, <2>3 DEF Counted
  <2> QED
    BY <1>t, <2>1, <2>2, <2>4, CountRequest
<1>6. ASSUME NEW r \in Reqs, LoginCheck(r)
      PROVE  CountInv'
  <2> DEFINE n == ceremony[req[r].challenge].count
             row == [passkey[req[r].cred] EXCEPT !.count = n]
             q == [req[r] EXCEPT !.stage = "ready", !.row = row]
  <2>1. /\ req' = [req EXCEPT ![r] = q] /\ UNCHANGED <<web, passkey>>
        /\ req[r].stage = "consumed" /\ req[r].op = "login" /\ Exists(req[r].cred)
    BY <1>t, <1>6 DEF LoginCheck, StoredCount, At, table
  <2>2. req[r] \in Request /\ Sound(req[r]) /\ Counted(req[r])
    BY <1>t
  <2>3. /\ req[r].cred \in Credentials /\ req[r].challenge \in Challenges
        /\ ceremony[req[r].challenge].kind = "login"
        /\ req[r].cred = ceremony[req[r].challenge].cred
    BY <1>t, <2>1, <2>2 DEF Sound, Counted
  <2>4. n <= DeviceCount(req[r].cred)
    BY <2>3, CredentialsAssumption DEF CountInv, AnswerCounted, Answered
  <2>5. row.count = n
    BY <1>t, <2>1, <2>3 DEF Exists, Row
  <2> HIDE DEF row, n
  <2>6. q.stage = "ready" /\ q.op = "login" /\ q.challenge = req[r].challenge
        /\ q.cred = req[r].cred /\ q.row = row
    BY <2>1, <2>2 DEF Request
  <2> HIDE DEF q
  <2>7. Counted(q)
    BY <2>3, <2>4, <2>5, <2>6 DEF Counted
  <2> QED
    BY <1>t, <2>1, <2>7, CountRequest
<1>7. ASSUME NEW r \in Reqs, NEW u \in Users, NEW c \in Credentials, NEW op \in Ops,
             LoadOwned(r, u, c, op)
      PROVE  CountInv'
  <2> DEFINE q == [stage |-> IF op = "rename" THEN "ready" ELSE "loaded",
                   op |-> op, challenge |-> 0, cred |-> c, row |-> passkey[c]]
  <2>1. /\ req' = [req EXCEPT ![r] = q] /\ op \in {"rename", "remove"}
        /\ UNCHANGED <<web, passkey>>
    BY <1>7 DEF LoadOwned, table
  <2>2. q.op = op
    OBVIOUS
  <2> HIDE DEF q
  <2>3. Counted(q)
    BY <2>1, <2>2 DEF Counted
  <2> QED
    BY <1>t, <2>1, <2>3, CountRequest
<1>8. ASSUME NEW r \in Reqs, Abort(r) \/ CommitRename(r)
      PROVE  CountInv'
  BY <1>t, <1>i, <1>8, CountRequest DEF Abort, CommitRename, End, table
<1>9. ASSUME NEW r \in Reqs, CommitRegister(r) \/ CommitLogin(r) \/ CommitRemove(r)
      PROVE  CountInv'
  <2> DEFINE c == req[r].cred
  <2>1. PICK row : /\ passkey' = [passkey EXCEPT ![c] = row]
                   /\ \/ req[r].op = "register" /\ row = NewRow(r)
                      \/ req[r].op = "login" /\ row = req[r].row
                      \/ row = NoRow
                      \/ row = passkey[c]
    BY <1>9 DEF CommitRegister, CommitLogin, CommitRemove
  <2>2. /\ req' = [req EXCEPT ![r] = Idle] /\ UNCHANGED web /\ req[r].stage = "written"
        /\ Sound(req[r]) /\ Counted(req[r])
    BY <1>t, <1>9 DEF CommitRegister, CommitLogin, CommitRemove, End, At
  <2>3. c \in Credentials /\ DeviceCount(c) \in Nat
    BY <2>2, DeviceCountType DEF Sound
  <2>4. row.count <= DeviceCount(c)
    <3>1. ASSUME req[r].op = "register"
          PROVE  NewRow(r).count = 0
      <4>1. req[r].challenge \in Challenges /\ ceremony[req[r].challenge].kind = "register"
        BY <1>t, <2>2, <3>1 DEF Sound
      <4> QED
        BY <4>1 DEF NewRow, CountInv
    <3> QED
      BY <1>t, <2>1, <2>2, <2>3, <3>1 DEF Counted, NoRow
  <2>5. \A d \in Credentials : passkey'[d].count <= DeviceCount(d)
    BY <1>t, <2>1, <2>3, <2>4
  <2> QED
    BY <1>i, <2>2, <2>5, CountRequest
<1>10. ASSUME UNCHANGED vars \/ \E h \in Challenges : ChallengeExpires(h)
       PROVE  CountInv'
  <2>1. UNCHANGED <<issued, ceremony, passkey, req>>
    BY <1>10 DEF vars, ChallengeExpires, web, table
  <2> QED
    BY <2>1 DEF CountInv, NotLockedOut, AnswerCounted, Answered, Counted, DeviceCount
<1> QED
  BY <1>1, <1>2, <1>3, <1>4, <1>5, <1>6, <1>7, <1>8, <1>9, <1>10 DEF Next

LEMMA CountInvariance == Spec => [](PasskeyInv /\ CountInv)
BY PasskeyInit, PasskeyNext, CountInit, CountNext, PTL DEF Spec

\* auth.py:463: however logins are repeated, overtake one another or fail, the stored
\* sign_count never runs ahead of the authenticator that counts.
THEOREM NeverLockedOut == Spec => []NotLockedOut
<1>1. PasskeyInv /\ CountInv => NotLockedOut
  BY DEF CountInv
<1> QED
  BY <1>1, CountInvariance, PTL
-----------------------------------------------------------------------------
\* The row a request read was inserted, and as long as its id is stored it has one owner.
ImageFits(q) ==
  q.stage # "idle" /\ q.row \in Row =>
    /\ q.row.id <= inserted
    /\ passkey[q.cred].id = q.row.id => passkey[q.cred].user = q.row.user

\* Removals of a user that passed the check and do not overlap are of the same passkey,
\* and another one is stored.
KeepsOne(u) ==
  u \notin overlapped =>
    /\ \A r, q \in Reqs : Removing(r, u) /\ Removing(q, u) => req[r].cred = req[q].cred
    /\ \A r \in Reqs : Removing(r, u) =>
         \E d \in Credentials : d # req[r].cred /\ passkey[d].user = u

RemovalInv ==
  /\ \A r \in Reqs : ImageFits(req[r])
  /\ \A u \in Users : KeepsOne(u)

\* A user's passkeys are the rows with that user.
LEMMA OwnedRows ==
  ASSUME NEW u \in Users
  PROVE  /\ \A c : c \in Owned(u) <=> c \in Credentials /\ passkey[c].user = u
         /\ \A c : c \in Owned(u)' <=> c \in Credentials /\ passkey'[c].user = u
<1>1. NoRow.user # u
  BY UsersAssumption DEF NoRow
<1> QED
  BY <1>1 DEF Owned, Exists

LEMMA MoreThanOne ==
  ASSUME NEW S, NEW c, Cardinality(S) > 1
  PROVE  \E d \in S : d # c
<1> SUFFICES ASSUME \A d \in S : d = c PROVE FALSE
  OBVIOUS
<1>1. S = {} \/ S = {c}
  OBVIOUS
<1>2. Cardinality({}) = 0 /\ Cardinality({c}) = 1
  BY FS_EmptySet, FS_Singleton
<1> QED
  BY <1>1, <1>2

\* An idle request removes nothing.
LEMMA IdleFits == ImageFits(Idle) /\ ImageFits(Idle)' /\ Idle.op = "none"
BY DEF ImageFits, Idle

LEMMA RemovalInit == Init => RemovalInv
BY IdleFits DEF Init, RemovalInv, KeepsOne, Removing

\* A step that moves one request, which removes nothing it did not remove before.
LEMMA RemovalRequest ==
  ASSUME PasskeyInv, RemovalInv, NEW r \in Reqs, NEW q, ImageFits(q),
         q.op = "remove" /\ q.stage \in {"ready", "written"} =>
           Removing(r, q.row.user) /\ q.cred = req[r].cred,
         req' = [req EXCEPT ![r] = q],
         UNCHANGED <<passkey, inserted, overlapped>>
  PROVE  RemovalInv'
<1>t. req \in [Reqs -> Request]
  BY DEF PasskeyInv, TypeOK
<1>1. \A p \in Reqs : req'[p] = IF p = r THEN q ELSE req[p]
  BY <1>t
<1>2. \A p \in Reqs : ImageFits(req[p])'
  BY <1>1 DEF RemovalInv, ImageFits
<1>3. \A p \in Reqs, u \in Users :
        Removing(p, u)' => Removing(p, u) /\ req'[p].cred = req[p].cred
  BY <1>1 DEF Removing
<1>4. ASSUME NEW u \in Users
      PROVE  KeepsOne(u)'
  BY <1>3 DEF RemovalInv, KeepsOne
<1>5. (\A p \in Reqs : ImageFits(req[p]))'
  BY <1>2
<1> QED
  BY <1>4, <1>5 DEF RemovalInv

\* A commit that writes one row: it keeps the ids and owners that other requests read,
\* and takes a passkey from a user only by a removal.
LEMMA RemovalCommit ==
  ASSUME PasskeyInv, RemovalInv, NEW r \in Reqs, NEW c \in Credentials, c = req[r].cred, NEW x,
         x.id \in 1..inserted => x.id = passkey[c].id /\ x.user = passkey[c].user,
         \A u \in Users : passkey[c].user = u /\ x.user # u => Removing(r, u),
         passkey' = [passkey EXCEPT ![c] = x],
         req' = [req EXCEPT ![r] = Idle],
         inserted' \in {inserted, inserted + 1}, overlapped' = overlapped
  PROVE  /\ RemovalInv'
         /\ \A u \in Users \ overlapped : Owned(u) # {} => Owned(u)' # {}
<1>t. /\ req \in [Reqs -> Request] /\ passkey \in [Credentials -> Row \union {NoRow}]
      /\ inserted \in Nat /\ \A p \in Reqs : Sound(req[p]) /\ ImageFits(req[p])
  BY DEF PasskeyInv, TypeOK, RemovalInv
<1>1. /\ \A p \in Reqs : req'[p] = IF p = r THEN Idle ELSE req[p]
      /\ \A d \in Credentials : passkey'[d] = IF d = c THEN x ELSE passkey[d]
  BY <1>t
<1>2. ASSUME NEW p \in Reqs
      PROVE  ImageFits(req[p])'
  <2>1. CASE p = r
    BY <1>1, <2>1, IdleFits DEF ImageFits
  <2>2. ASSUME p # r, req[p].stage # "idle", req[p].row \in Row
        PROVE  /\ req[p].row.id <= inserted'
               /\ passkey'[req[p].cred].id = req[p].row.id =>
                    passkey'[req[p].cred].user = req[p].row.user
    <3>1. /\ req[p].row.id \in 1..inserted /\ inserted <= inserted'
          /\ passkey[req[p].cred].id = req[p].row.id =>
               passkey[req[p].cred].user = req[p].row.user
      BY <1>t, <2>2 DEF ImageFits, Row
    <3>2. req[p].cred \in Credentials
      BY <1>t, <2>2 DEF Sound
    <3> QED
      BY <1>t, <1>1, <3>1, <3>2
  <2> QED
    BY <1>1, <2>1, <2>2 DEF ImageFits
<1>3. ASSUME NEW u \in Users, u \notin overlapped
      PROVE  /\ \A p \in Reqs : Removing(p, u)' =>
                  p # r /\ Removing(p, u) /\ req'[p].cred = req[p].cred
             /\ \A p \in Reqs \ {r} : Removing(p, u) =>
                  \E d \in Credentials : d # req[p].cred /\ passkey'[d].user = u
             /\ Owned(u) # {} => Owned(u)' # {}
  <2>0. KeepsOne(u)
    BY DEF RemovalInv
  <2>1. \A p \in Reqs : Removing(p, u)' =>
          p # r /\ Removing(p, u) /\ req'[p].cred = req[p].cred
    BY <1>1, IdleFits DEF Removing
  <2>2. \A p \in Reqs : Removing(p, u) =>
          \E d \in Credentials : d # req[p].cred /\ passkey[d].user = u
    BY <1>3, <2>0 DEF KeepsOne
  <2>3. \A p \in Reqs : Removing(p, u) /\ Removing(r, u) => req[p].cred = c
    BY <1>3, <2>0 DEF KeepsOne
  <2>4. ASSUME NEW p \in Reqs \ {r}, Removing(p, u)
        PROVE  \E d \in Credentials : d # req[p].cred /\ passkey'[d].user = u
    <3>1. PICK d \in Credentials : d # req[p].cred /\ passkey[d].user = u
      BY <2>2, <2>4
    <3> QED
      BY <1>1, <2>3, <2>4, <3>1
  <2>5. ASSUME NEW d \in Credentials, passkey[d].user = u
        PROVE  \E e \in Credentials : passkey'[e].user = u
    <3>1. CASE d = c /\ x.user # u
      <4>1. PICK e \in Credentials : e # c /\ passkey[e].user = u
        BY <2>2, <2>5, <3>1
      <4> QED
        BY <1>1, <4>1
    <3>2. CASE ~(d = c /\ x.user # u)
      BY <1>1, <2>5, <3>2
    <3> QED
      BY <3>1, <3>2
  <2>6. Owned(u) # {} => Owned(u)' # {}
    BY <2>5, OwnedRows
  <2> QED
    BY <2>1, <2>4, <2>6
<1>4. ASSUME NEW u \in Users
      PROVE  KeepsOne(u)'
  <2>1. u \notin overlapped =>
          \A p, q \in Reqs : Removing(p, u) /\ Removing(q, u) => req[p].cred = req[q].cred
    BY DEF RemovalInv, KeepsOne
  <2> QED
    BY <1>3, <2>1 DEF KeepsOne
<1>5. (\A p \in Reqs : ImageFits(req[p]))'
  BY <1>2
<1> QED
  BY <1>3, <1>4, <1>5 DEF RemovalInv

LEMMA RemovalNext ==
  ASSUME PasskeyInv, RemovalInv, [Next]_vars
  PROVE  /\ RemovalInv'
         /\ \A u \in Users \ overlapped : Owned(u) # {} => Owned(u)' # {}
<1> DEFINE Kept == \A u \in Users \ overlapped : Owned(u) # {} => Owned(u)' # {}
<1> USE DEF web, table, traces
<1>t. /\ req \in [Reqs -> Request] /\ passkey \in [Credentials -> Row \union {NoRow}]
      /\ inserted \in Nat
      /\ \A r \in Reqs : Sound(req[r]) /\ ImageFits(req[r])
      /\ \A c \in Credentials : passkey[c].id <= inserted
  BY DEF PasskeyInv, TypeOK, RemovalInv, RowsOK
<1>k. passkey' = passkey => Kept
  BY DEF Owned, Exists
<1>1. ASSUME UNCHANGED <<passkey, inserted, overlapped, req>>
      PROVE  RemovalInv' /\ passkey' = passkey
  BY <1>1 DEF RemovalInv, ImageFits, KeepsOne, Removing
<1>2. ASSUME \/ UNCHANGED vars
             \/ \E kind \in Kinds, user \in Users \union {"nobody"} : StoreChallenge(kind, user)
             \/ \E h \in Challenges : ChallengeExpires(h)
             \/ \E h \in Challenges, c \in Credentials :
                  CreateCredential(h, c) \/ SignChallenge(h, c)
      PROVE  UNCHANGED <<passkey, inserted, overlapped, req>>
  BY <1>2 DEF vars, StoreChallenge, ChallengeExpires, CreateCredential, SignChallenge
<1>3. ASSUME NEW r \in Reqs, NEW h \in Challenges, FinishGet(r, h)
      PROVE  RemovalInv' /\ passkey' = passkey
  <2> DEFINE q == [stage |-> "got", op |-> ceremony[h].kind, challenge |-> h,
                   cred |-> ceremony[h].cred, row |-> NoRow]
  <2>1. q.stage = "got" /\ q.row = NoRow
    OBVIOUS
  <2>2. req' = [req EXCEPT ![r] = q] /\ UNCHANGED <<passkey, inserted, overlapped>>
    BY <1>3 DEF FinishGet
  <2> HIDE DEF q
  <2>3. ImageFits(q)
    BY <2>1 DEF ImageFits, NoRow, Row
  <2> QED
    BY <2>1, <2>2, <2>3, RemovalRequest
<1>4. ASSUME NEW r \in Reqs, FinishDelete(r) \/ RegisterCheck(r) \/ Write(r)
      PROVE  RemovalInv' /\ passkey' = passkey
  <2>1. PICK stage \in {"consumed", "ready", "written"} :
          /\ req' = [req EXCEPT ![r] = [req[r] EXCEPT !.stage = stage]]
          /\ UNCHANGED <<passkey, inserted, overlapped>>
          /\ req[r].stage # "idle"
          /\ stage = "consumed" \/ req[r].op = "register" \/ req[r].stage = "ready"
    BY <1>t, <1>4 DEF FinishDelete, RegisterCheck, Write, Goto, At
  <2> DEFINE q == [req[r] EXCEPT !.stage = stage]
  <2>2. q.stage = stage /\ q.op = req[r].op /\ q.cred = req[r].cred /\ q.row = req[r].row
    BY <1>t DEF Request
  <2>3. req' = [req EXCEPT ![r] = q]
    BY <2>1
  <2> HIDE DEF q
  <2>4. ImageFits(q)
    BY <1>t, <2>1, <2>2 DEF ImageFits
  <2> QED
    BY <2>1, <2>2, <2>3, <2>4, RemovalRequest DEF Removing
<1>5. ASSUME NEW r \in Reqs, LoginCheck(r)
      PROVE  RemovalInv' /\ passkey' = passkey
  <2> DEFINE n == ceremony[req[r].challenge].count
             row == [passkey[req[r].cred] EXCEPT !.count = n]
             q == [req[r] EXCEPT !.stage = "ready", !.row = row]
  <2>1. /\ req' = [req EXCEPT ![r] = q] /\ UNCHANGED <<passkey, inserted, overlapped>>
        /\ req[r].stage = "consumed" /\ req[r].op = "login" /\ Exists(req[r].cred)
    BY <1>t, <1>5 DEF LoginCheck, StoredCount, At
  <2>2. req[r].cred \in Credentials
    BY <1>t, <2>1 DEF Sound
  <2>3. row.id = passkey[req[r].cred].id /\ row.user = passkey[req[r].cred].user
    BY <1>t, <2>1, <2>2 DEF Exists, Row
  <2> HIDE DEF row
  <2>4. q.op = "login" /\ q.cred = req[r].cred /\ q.row = row
    BY <1>t, <2>1 DEF Request
  <2> HIDE DEF q
  <2>5. ImageFits(q)
    BY <1>t, <2>2, <2>3, <2>4 DEF ImageFits
  <2> QED
    BY <2>1, <2>4, <2>5, RemovalRequest
<1>6. ASSUME NEW r \in Reqs, NEW u \in Users, NEW c \in Credentials, NEW op \in Ops,
             LoadOwned(r, u, c, op)
      PROVE  RemovalInv' /\ passkey' = passkey
  <2> DEFINE q == [stage |-> IF op = "rename" THEN "ready" ELSE "loaded",
                   op |-> op, challenge |-> 0, cred |-> c, row |-> passkey[c]]
  <2>1. /\ req' = [req EXCEPT ![r] = q] /\ UNCHANGED <<passkey, inserted, overlapped>>
    BY <1>6 DEF LoadOwned
  <2>2. /\ q.op = op /\ q.cred = c /\ q.row = passkey[c]
        /\ q.op = "remove" => q.stage = "loaded"
    OBVIOUS
  <2> HIDE DEF q
  <2>3. ImageFits(q)
    BY <1>t, <2>2 DEF ImageFits
  <2> QED
    BY <2>1, <2>2, <2>3, RemovalRequest
<1>7. ASSUME NEW r \in Reqs, Abort(r) \/ CommitRename(r)
      PROVE  RemovalInv' /\ passkey' = passkey
  <2>1. req' = [req EXCEPT ![r] = Idle] /\ UNCHANGED <<passkey, inserted, overlapped>>
    BY <1>7 DEF Abort, CommitRename, End
  <2> QED
    BY <2>1, IdleFits, RemovalRequest
<1>8. ASSUME NEW r \in Reqs, RemoveCount(r)
      PROVE  RemovalInv' /\ passkey' = passkey
  <2> DEFINE u == req[r].row.user
             c == req[r].cred
  <2>1. /\ req' = [req EXCEPT ![r] = [req[r] EXCEPT !.stage = "ready"]]
        /\ overlapped \subseteq overlapped'
        /\ u \notin overlapped' =>
             \A q \in Reqs : Removing(q, u) => req[q].cred = c
        /\ UNCHANGED <<passkey, inserted>>
        /\ req[r].stage = "loaded" /\ MayRemove(u)
    BY <1>t, <1>8 DEF RemoveCount, Goto, At
  <2>2. /\ req'[r].stage = "ready" /\ req'[r].op = req[r].op /\ req'[r].cred = c
        /\ req'[r].row = req[r].row
        /\ \A q \in Reqs \ {r} : req'[q] = req[q]
    BY <1>t, <2>1 DEF Request
  <2>3. u \in Users /\ \E d \in Credentials : d # c /\ passkey[d].user = u
    <3>1. u \in Users
      BY <1>t, <2>1 DEF Sound, Row
    <3>2. \E d \in Owned(u) : d # c
      <4>1. Cardinality(Owned(u)) > 1
        BY <2>1 DEF MayRemove
      <4> HIDE DEF u, c
      <4> QED
        BY <4>1, MoreThanOne
    <3> QED
      BY <3>1, <3>2, OwnedRows
  <2>4. (\A q \in Reqs : ImageFits(req[q]))'
    BY <1>t, <2>1, <2>2 DEF ImageFits
  <2>5. ASSUME NEW v \in Users
        PROVE  KeepsOne(v)'
    <3>1. \A q \in Reqs \ {r} : Removing(q, v)' => Removing(q, v)
      BY <2>2 DEF Removing
    <3>2. Removing(r, v)' => v = u
      BY <2>2 DEF Removing
    <3>3. KeepsOne(v)
      BY DEF RemovalInv
    <3> QED
      BY <2>1, <2>2, <2>3, <3>1, <3>2, <3>3 DEF KeepsOne
  <2> QED
    BY <2>1, <2>4, <2>5 DEF RemovalInv
<1>9. ASSUME NEW r \in Reqs, CommitRegister(r) \/ CommitLogin(r) \/ CommitRemove(r)
      PROVE  RemovalInv' /\ Kept
  <2> DEFINE c == req[r].cred
  <2>0. /\ req[r].stage = "written" /\ c \in Credentials /\ Sound(req[r]) /\ ImageFits(req[r])
        /\ NoRow.id = 0 /\ NoRow.user = "nobody"
    BY <1>t, <1>9 DEF CommitRegister, CommitLogin, CommitRemove, At, Sound, NoRow
  <2>1. PICK x : /\ passkey' = [passkey EXCEPT ![c] = x]
                 /\ \/ req[r].op = "register" /\ x = NewRow(r)
                    \/ req[r].op = "login" /\ x = req[r].row
                    \/ req[r].op = "remove" /\ StillThere(r) /\ x = NoRow
                    \/ x = passkey[c]
    BY <1>9 DEF CommitRegister, CommitLogin, CommitRemove
  <2>2. /\ req' = [req EXCEPT ![r] = Idle] /\ inserted' \in {inserted, inserted + 1}
        /\ overlapped' = overlapped
    BY <1>9 DEF CommitRegister, CommitLogin, CommitRemove, End
  <2>3. req[r].op \in {"login", "remove"} =>
          /\ req[r].row \in Row
          /\ passkey[c].id = req[r].row.id => passkey[c].user = req[r].row.user
    BY <2>0 DEF Sound, ImageFits
  <2>4. x.id \in 1..inserted => x.id = passkey[c].id /\ x.user = passkey[c].user
    BY <1>t, <2>0, <2>1, <2>3 DEF NewRow, Sound
  <2>5. ASSUME NEW u \in Users, passkey[c].user = u, x.user # u
        PROVE  Removing(r, u)
    <3>1. "nobody" # u
      BY UsersAssumption
    <3>2. req[r].op = "register" => passkey[c].user = "nobody"
      BY <2>0 DEF Sound
    <3>3. req[r].op = "login" => passkey[c].id = req[r].row.id
      BY <2>0 DEF Sound
    <3>4. req[r].op = "remove" /\ StillThere(r)
      BY <2>1, <2>3, <2>5, <3>1, <3>2, <3>3
    <3> QED
      BY <2>0, <2>3, <2>5, <3>4 DEF Removing, StillThere
  <2> QED
    BY <2>0, <2>1, <2>2, <2>4, <2>5, RemovalCommit
<1> QED
  BY <1>k, <1>1, <1>2, <1>3, <1>4, <1>5, <1>6, <1>7, <1>8, <1>9 DEF Next

\* me.py:120-135: the check before a removal keeps the last passkey of a user, whatever
\* else happens, unless two removals of different passkeys overlap between their counts
\* and their commits.
THEOREM LastPasskeyIsKept == Spec => LastPasskeyKept
<1> DEFINE Kept == \A u \in Users \ overlapped : Owned(u) # {} => Owned(u)' # {}
<1>1. PasskeyInv /\ RemovalInv /\ [Next]_vars => RemovalInv' /\ [Kept]_vars
  BY RemovalNext
<1>2. Spec => [][Kept]_vars
  BY <1>1, RemovalInit, PasskeyInit, PasskeyNext, PTL DEF Spec
<1> QED
  BY <1>2 DEF LastPasskeyKept
=============================================================================
