-------------------------- MODULE PolledReads_proofs --------------------------
(***************************************************************************)
(* Proofs about PolledReads, for any users, endpoints and number of        *)
(* requests in progress.                                                   *)
(***************************************************************************)
EXTENDS PolledReads, TLAPS

Writing(r, k) == req[r].stage = "audit" /\ req[r].key = k

\* A key that was never read has no row and nobody writing one; of a key that was
\* read there is at most one row or one request about to write it.
SeenInv ==
  /\ TypeOK
  /\ \A k \in Keys, r \in Reqs : Writing(r, k) =>
       k \in seen /\ rows[k] = 0 /\ \A p \in Reqs : Writing(p, k) => p = r
  /\ \A k \in Keys : k \notin seen => rows[k] = 0
  /\ OneRowPerProcess

LEMMA SeenInit == Init => SeenInv
<1> SUFFICES ASSUME Init PROVE SeenInv
  OBVIOUS
<1>1. TypeOK
  <2>1. process \in 1..MaxProcess /\ rows \in [Keys -> 0..MaxRows]
    BY ProcessAssumption DEF Init, MaxRows
  <2>2. req \in [Reqs -> {Idle} \union [stage: Stages, key: Keys]]
    BY DEF Init
  <2> QED
    BY <2>1, <2>2 DEF Init, TypeOK
<1>2. \A r \in Reqs, k \in Keys : ~Writing(r, k)
  BY DEF Init, Writing, Idle
<1> QED
  BY <1>1, <1>2 DEF Init, SeenInv, OneRowPerProcess

LEMMA SeenNext == SeenInv /\ [Next]_vars => SeenInv'
<1> SUFFICES ASSUME SeenInv, [Next]_vars PROVE SeenInv'
  OBVIOUS
<1> USE DEF Stages, MaxRows
<1>t. TypeOK /\ req \in [Reqs -> {Idle} \union [stage: Stages, key: Keys]]
  BY DEF SeenInv, TypeOK
<1>1. ASSUME NEW r \in Reqs, NEW q \in {Idle} \union [stage: Stages, key: Keys],
             q.stage # "audit", req' = [req EXCEPT ![r] = q],
             UNCHANGED <<snapshot, seen, rows, answered, lost, process>>
      PROVE  SeenInv'
  <2>1. TypeOK'
    BY <1>t, <1>1 DEF TypeOK
  <2>2. \A p \in Reqs, k \in Keys : Writing(p, k)' => Writing(p, k)
    BY <1>t, <1>1 DEF Writing
  <2> QED
    BY <1>1, <2>1, <2>2 DEF SeenInv, OneRowPerProcess
<1>i. Idle.stage # "audit"
  BY DEF Idle
<1>2. ASSUME NEW r \in Reqs, NEW k \in Keys, Begin(r, k)
      PROVE  SeenInv'
  <2> DEFINE q == [stage |-> "begun", key |-> k]
  <2>1. q \in [stage: Stages, key: Keys] /\ q.stage # "audit"
    OBVIOUS
  <2>2. req' = [req EXCEPT ![r] = q] /\ UNCHANGED <<snapshot, seen, rows, answered, lost, process>>
    BY <1>2 DEF Begin
  <2> HIDE DEF q
  <2> QED
    BY <1>1, <2>1, <2>2
<1>3. ASSUME NEW r \in Reqs, NotFound(r)
      PROVE  SeenInv'
  BY <1>i, <1>1, <1>3 DEF NotFound
<1>8. ASSUME NEW r \in Reqs, DbError(r)
      PROVE  SeenInv'
  <2>1. req[r] \in [stage: Stages, key: Keys]
    BY <1>t, <1>8 DEF DbError, Busy, Idle
  <2>2. TypeOK'
    BY <1>t, <1>8, <2>1 DEF DbError, TypeOK
  <2>3. \A p \in Reqs, k \in Keys : Writing(p, k)' => Writing(p, k) /\ p # r
    BY <1>t, <1>i, <1>8 DEF DbError, Writing
  <2> QED
    BY <1>8, <2>2, <2>3 DEF DbError, SeenInv, OneRowPerProcess
<1>4. ASSUME NEW r \in Reqs, ReadFiles(r)
      PROVE  SeenInv'
  <2> DEFINE key == req[r].key
             stage == IF key \in seen THEN "read" ELSE "audit"
  <2>1. req[r].stage = "begun" /\ req[r] \in [stage: Stages, key: Keys]
    BY <1>t, <1>4 DEF ReadFiles, Idle
  <2>2. /\ seen' = seen \union {key} /\ req' = [req EXCEPT ![r].stage = stage]
        /\ UNCHANGED <<snapshot, rows, answered, lost, process>>
    BY <1>4 DEF ReadFiles, SeenAfterRead
  <2>3. TypeOK'
    BY <1>t, <2>1, <2>2 DEF TypeOK
  <2>4. ASSUME NEW p \in Reqs, NEW k \in Keys, Writing(p, k)'
        PROVE  Writing(p, k) \/ (p = r /\ k = key /\ key \notin seen)
    <3>1. CASE p # r
      <4> HIDE DEF stage
      <4>1. req'[p] = req[p]
        BY <1>t, <2>2, <3>1
      <4> QED
        BY <2>4, <4>1 DEF Writing
    <3>2. CASE p = r
      <4>1. req'[p].stage = stage /\ req'[p].key = key
        BY <1>t, <2>1, <2>2, <3>2
      <4>2. stage = "audit" /\ k = key
        BY <2>4, <4>1 DEF Writing
      <4> QED
        BY <3>2, <4>2
    <3> QED
      BY <3>1, <3>2
  <2>5. ASSUME NEW p \in Reqs, NEW k \in Keys, Writing(p, k)'
        PROVE  /\ k \in seen' /\ rows'[k] = 0
               /\ \A o \in Reqs : Writing(o, k)' => o = p
    <3>1. CASE Writing(p, k)
      BY <2>2, <2>4, <3>1 DEF SeenInv
    <3>2. CASE p = r /\ k = key /\ key \notin seen
      BY <2>2, <2>4, <3>2 DEF SeenInv
    <3> QED
      BY <2>4, <2>5, <3>1, <3>2
  <2> QED
    BY <2>2, <2>3, <2>5 DEF SeenInv, OneRowPerProcess
<1>5. ASSUME NEW r \in Reqs, Commit(r)
      PROVE  SeenInv'
  <2> DEFINE key == req[r].key
  <2>1. req[r] \in [stage: Stages, key: Keys]
    BY <1>t, <1>5 DEF Commit, Idle
  <2>2. /\ req' = [req EXCEPT ![r] = Idle] /\ answered' = answered \union {key}
        /\ UNCHANGED <<snapshot, seen, lost, process>>
        /\ \/ rows' = rows
           \/ Writing(r, key) /\ rows' = [rows EXCEPT ![key] = 1]
    <3>1. CASE req[r].stage = "audit"
      <4>1. Writing(r, key) /\ rows[key] = 0
        BY <2>1, <3>1 DEF Writing, SeenInv
      <4> QED
        BY <1>t, <1>5, <3>1, <4>1 DEF Commit, RowsAfterWrite, TypeOK
    <3>2. CASE req[r].stage # "audit"
      BY <1>5, <3>2 DEF Commit
    <3> QED
      BY <3>1, <3>2
  <2>3. TypeOK'
    BY <1>t, <2>1, <2>2 DEF TypeOK
  <2>4. \A p \in Reqs, k \in Keys : Writing(p, k)' => Writing(p, k) /\ p # r
    BY <1>t, <1>i, <2>2 DEF Writing
  <2> QED
    BY <1>t, <2>1, <2>2, <2>3, <2>4 DEF SeenInv, OneRowPerProcess, TypeOK
<1>6. CASE Restart
  <2>1. TypeOK'
    BY <1>t, <1>6, ProcessAssumption DEF Restart, TypeOK
  <2> QED
    BY <1>6, <2>1, <1>i DEF Restart, SeenInv, OneRowPerProcess, Writing
<1>7. CASE RunnerWrites \/ UNCHANGED vars
  <2>1. TypeOK'
    BY <1>t, <1>7 DEF RunnerWrites, vars, TypeOK
  <2> QED
    BY <1>7, <2>1 DEF RunnerWrites, vars, SeenInv, OneRowPerProcess, Writing
<1> QED
  BY <1>2, <1>3, <1>4, <1>5, <1>6, <1>7, <1>8 DEF Next

LEMMA SeenAlways == Spec => []SeenInv
BY SeenInit, SeenNext, PTL DEF Spec

\* Types of the audit bookkeeping and of the requests.
THEOREM TypeCorrect == Spec => []TypeOK
BY SeenAlways, PTL DEF SeenInv

\* However many first reads arrive together and whichever of them fail, a process
\* writes at most one audit row for a user at a polled endpoint.
THEOREM AuditedAtMostOnce == Spec => []OneRowPerProcess
BY SeenAlways, PTL DEF SeenInv
-----------------------------------------------------------------------------
RowExpected(k) ==
  rows[k] > 0 \/ (\E r \in Reqs : Writing(r, k)) \/ k \in lost

\* Who is shown the data went through _AUDIT_SEEN, and a key that is in it has its
\* row, has it under way or has lost it.
ReaderInv ==
  /\ \A r \in Reqs : req[r].stage \in {"read", "audit"} => req[r].key \in seen
  /\ answered \subseteq seen
  /\ \A k \in seen : RowExpected(k)

LEMMA ReaderInit == Init => ReaderInv
BY DEF Init, ReaderInv, Idle

LEMMA ReaderNext ==
  ASSUME SeenInv, ReaderInv, [Next]_vars
  PROVE  ReaderInv'
<1> USE DEF Stages, MaxRows
<1>t. /\ req \in [Reqs -> {Idle} \union [stage: Stages, key: Keys]]
      /\ rows \in [Keys -> 0..MaxRows] /\ seen \subseteq Keys
  BY DEF SeenInv, TypeOK
<1>i. Idle.stage = "idle"
  BY DEF Idle
<1>1. ASSUME NEW r \in Reqs, NEW q, q.stage = "idle" \/ q.stage = "begun",
             req[r].stage = "idle" \/ req[r].stage = "begun", req' = [req EXCEPT ![r] = q],
             UNCHANGED <<seen, rows, answered, lost>>
      PROVE  ReaderInv'
  <2>1. ASSUME NEW p \in Reqs, req[p].stage \in {"read", "audit"}
                 \/ req'[p].stage \in {"read", "audit"}
        PROVE  req'[p] = req[p]
    BY <1>t, <1>1, <2>1
  <2> QED
    BY <1>1, <2>1 DEF ReaderInv, RowExpected, Writing
<1>2. ASSUME NEW r \in Reqs, NEW k \in Keys, Begin(r, k)
      PROVE  ReaderInv'
  <2> DEFINE q == [stage |-> "begun", key |-> k]
  <2>1. q.stage = "begun"
    OBVIOUS
  <2>2. /\ req' = [req EXCEPT ![r] = q] /\ req[r].stage = "idle"
        /\ UNCHANGED <<seen, rows, answered, lost>>
    BY <1>2 DEF Begin, Busy
  <2> HIDE DEF q
  <2> QED
    BY <1>1, <2>1, <2>2
<1>3. ASSUME NEW r \in Reqs, NotFound(r)
      PROVE  ReaderInv'
  BY <1>i, <1>1, <1>3 DEF NotFound
<1>4. ASSUME NEW r \in Reqs, ReadFiles(r)
      PROVE  ReaderInv'
  <2> DEFINE key == req[r].key
             stage == IF key \in seen THEN "read" ELSE "audit"
  <2>1. req[r].stage = "begun" /\ req[r] \in [stage: Stages, key: Keys]
    BY <1>t, <1>4 DEF ReadFiles, Idle
  <2>2. /\ seen' = seen \union {key} /\ req' = [req EXCEPT ![r].stage = stage]
        /\ UNCHANGED <<rows, answered, lost>>
    BY <1>4 DEF ReadFiles, SeenAfterRead
  <2>3. req'[r].stage = stage /\ req'[r].key = key
    BY <1>t, <2>1, <2>2
  <2>4. \A p \in Reqs : p # r => req'[p] = req[p]
    BY <1>t, <2>2
  <2>5. ASSUME NEW k \in seen' PROVE RowExpected(k)'
    <3>1. CASE k \in seen
      <4>1. \A p \in Reqs : Writing(p, k) => Writing(p, k)'
        BY <2>1, <2>4 DEF Writing
      <4> QED
        BY <2>2, <3>1, <4>1 DEF ReaderInv, RowExpected
    <3>2. CASE k \notin seen
      <4>1. k = key /\ stage = "audit"
        BY <2>2, <2>5, <3>2
      <4> QED
        BY <2>3, <4>1 DEF RowExpected, Writing
    <3> QED
      BY <3>1, <3>2
  <2> QED
    BY <2>2, <2>3, <2>4, <2>5 DEF ReaderInv
<1>5. ASSUME NEW r \in Reqs, Commit(r)
      PROVE  ReaderInv'
  <2> DEFINE key == req[r].key
  <2>1. /\ req' = [req EXCEPT ![r] = Idle] /\ answered' = answered \union {key}
        /\ UNCHANGED <<seen, lost>> /\ req[r].stage \in {"read", "audit"}
    BY <1>5 DEF Commit
  <2>2. key \in seen /\ key \in Keys
    BY <1>t, <2>1 DEF ReaderInv
  <2>3. /\ \A k \in Keys : rows[k] > 0 => rows'[k] > 0
        /\ req[r].stage = "audit" => rows'[key] > 0
    BY <1>t, <1>5, <2>2 DEF Commit, RowsAfterWrite
  <2>4. \A p \in Reqs : p # r => req'[p] = req[p]
    BY <1>t, <2>1
  <2>5. req'[r].stage = "idle"
    BY <1>t, <1>i, <2>1
  <2>6. ASSUME NEW k \in seen PROVE RowExpected(k)'
    BY <1>t, <2>1, <2>3, <2>4 DEF ReaderInv, RowExpected, Writing
  <2> QED
    BY <2>1, <2>2, <2>4, <2>5, <2>6 DEF ReaderInv
<1>6. ASSUME NEW r \in Reqs, DbError(r)
      PROVE  ReaderInv'
  <2>1. /\ req' = [req EXCEPT ![r] = Idle] /\ UNCHANGED <<seen, rows, answered>>
        /\ lost \subseteq lost' /\ (req[r].stage = "audit" => req[r].key \in lost')
    BY <1>6 DEF DbError
  <2>2. \A p \in Reqs : p # r => req'[p] = req[p]
    BY <1>t, <2>1
  <2>3. req'[r].stage = "idle"
    BY <1>t, <1>i, <2>1
  <2>4. ASSUME NEW k \in seen PROVE RowExpected(k)'
    <3>1. CASE \E p \in Reqs : Writing(p, k)
      <4>1. PICK p \in Reqs : Writing(p, k)
        BY <3>1
      <4>2. CASE p = r
        BY <2>1, <4>1, <4>2 DEF RowExpected, Writing
      <4>3. CASE p # r
        BY <2>2, <4>1, <4>3 DEF RowExpected, Writing
      <4> QED
        BY <4>2, <4>3
    <3>2. CASE rows[k] > 0 \/ k \in lost
      BY <2>1, <3>2 DEF RowExpected
    <3> QED
      BY <2>4, <3>1, <3>2 DEF ReaderInv, RowExpected
  <2> QED
    BY <2>1, <2>2, <2>3, <2>4 DEF ReaderInv
<1>7. CASE Restart
  BY <1>7, <1>i DEF Restart, ReaderInv
<1>8. CASE RunnerWrites \/ UNCHANGED vars
  BY <1>8 DEF RunnerWrites, vars, ReaderInv, RowExpected, Writing
<1> QED
  BY <1>2, <1>3, <1>4, <1>5, <1>6, <1>7, <1>8 DEF Next

\* Whoever was shown the data in this lifetime of the backend has an audit row, or
\* has one under way, unless that very row failed to be committed.
THEOREM ReadersAreAudited == Spec => []ReadersAudited
<1>1. ReaderInv => ReadersAudited
  BY DEF ReaderInv, ReadersAudited, RowExpected, Writing
<1> QED
  BY <1>1, SeenAlways, SeenInit, SeenNext, ReaderInit, ReaderNext, PTL DEF Spec
=============================================================================
