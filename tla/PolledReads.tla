----------------------------- MODULE PolledReads ------------------------------
(***************************************************************************)
(* The audit rows of the polled endpoints GET /aurum/status, /positions/   *)
(* open, /regime and /control (backend/app/api/aurum.py): the first read   *)
(* of a user at an endpoint writes one, later reads of the same process    *)
(* find the pair in _AUDIT_SEEN and write none.                            *)
(***************************************************************************)
EXTENDS Naturals

CONSTANTS
  Users,
  Endpoints,   \* the polled endpoints
  Guarded,     \* those that answer 404 while there is no snapshot
  Reqs,        \* requests that may be in progress at the same time
  MaxProcess   \* bound: lifetimes of the backend process

ASSUME GuardedAssumption  == Guarded \subseteq Endpoints
ASSUME ProcessAssumption  == MaxProcess \in Nat \ {0}

Keys == Users \X Endpoints
NeedsSnapshot(k) == k[2] \in Guarded

VARIABLES
  snapshot,    \* whether the runner has written current_state.json
  seen,        \* _AUDIT_SEEN
  rows,        \* rows[k]: audit rows for key k written by this process
  answered,    \* keys for which this process answered a read with data
  lost,        \* history: keys whose audit row this process failed to commit
  process,     \* which lifetime of the backend this is
  req          \* req[r]: stage and key of request r

vars == <<snapshot, seen, rows, answered, lost, process, req>>

Idle    == [stage |-> "idle"]
Stages  == {"begun", "read", "audit"}
Busy(r) == req[r].stage # "idle"
MaxRows == 2   \* bound: rows told apart per key

Init ==
  /\ snapshot = FALSE /\ seen = {}
  /\ rows = [k \in Keys |-> 0] /\ answered = {} /\ lost = {}
  /\ process = 1 /\ req = [r \in Reqs |-> Idle]

\* The handler waits for get_current_user.
Begin(r, k) ==
  /\ ~Busy(r)
  /\ req' = [req EXCEPT ![r] = [stage |-> "begun", key |-> k]]
  /\ UNCHANGED <<snapshot, seen, rows, answered, lost, process>>

\* /aurum/status raises before it reaches the audit.
NotFound(r) ==
  /\ req[r].stage = "begun" /\ NeedsSnapshot(req[r].key) /\ ~snapshot
  /\ req' = [req EXCEPT ![r] = Idle]
  /\ UNCHANGED <<snapshot, seen, rows, answered, lost, process>>

\* Mutant of SeenAfterRead: nothing is added.
NeverSeen(k) == seen

\* The test and the add run without giving up the event loop.
SeenAfterRead(k) == seen \union {k}

ReadFiles(r) ==
  LET k == req[r].key IN
  /\ req[r].stage = "begun" /\ (NeedsSnapshot(k) => snapshot)
  /\ seen' = SeenAfterRead(k)
  /\ req' = [req EXCEPT ![r].stage = IF k \in seen THEN "read" ELSE "audit"]
  /\ UNCHANGED <<snapshot, rows, answered, lost, process>>

\* Mutant of RowsAfterWrite: the row is added to the session and not flushed.
RowForgotten(k) == rows

RowsAfterWrite(k) == [rows EXCEPT ![k] = IF @ < MaxRows THEN @ + 1 ELSE @]

\* write_audit and the commit of get_session, then the answer.
Commit(r) ==
  LET k == req[r].key IN
  /\ req[r].stage \in {"read", "audit"}
  /\ rows' = IF req[r].stage = "audit" THEN RowsAfterWrite(k) ELSE rows
  /\ answered' = answered \union {k}
  /\ req' = [req EXCEPT ![r] = Idle]
  /\ UNCHANGED <<snapshot, seen, lost, process>>

\* The flush or the commit fails: 500, and no row.
DbError(r) ==
  /\ Busy(r)
  /\ req' = [req EXCEPT ![r] = Idle]
  /\ lost' = IF req[r].stage = "audit" THEN lost \union {req[r].key} ELSE lost
  /\ UNCHANGED <<snapshot, seen, rows, answered, process>>

\* A new process starts with an empty set.
Restart ==
  /\ process < MaxProcess /\ process' = process + 1
  /\ seen' = {} /\ rows' = [k \in Keys |-> 0] /\ answered' = {} /\ lost' = {}
  /\ req' = [r \in Reqs |-> Idle]
  /\ UNCHANGED snapshot

RunnerWrites ==
  /\ ~snapshot /\ snapshot' = TRUE
  /\ UNCHANGED <<seen, rows, answered, lost, process, req>>

Next ==
  \/ \E r \in Reqs :
       \/ \E k \in Keys : Begin(r, k)
       \/ NotFound(r) \/ ReadFiles(r) \/ Commit(r) \/ DbError(r)
  \/ Restart \/ RunnerWrites

Spec == Init /\ [][Next]_vars
-----------------------------------------------------------------------------
TypeOK ==
  /\ snapshot \in BOOLEAN /\ seen \subseteq Keys /\ answered \subseteq Keys
  /\ lost \subseteq Keys
  /\ rows \in [Keys -> 0..MaxRows] /\ process \in 1..MaxProcess
  /\ req \in [Reqs -> {Idle} \union [stage: Stages, key: Keys]]

\* aurum.py:63-66 "one audit row each time the backend cycles, not per request",
\* however many first reads arrive together.
OneRowPerProcess == \A k \in Keys : rows[k] <= 1

\* docs/integration_aurum2_to_platform.md:164-165 "The first read in a process
\* lifetime audits": a user who was shown the data has a row, or one is about to be
\* committed.  The exception is a row that failed: the pair stays in _AUDIT_SEEN, so
\* no later read of that lifetime makes up for it.
ReadersAudited ==
  \A k \in answered :
    \/ rows[k] > 0
    \/ \E r \in Reqs : req[r].stage = "audit" /\ req[r].key = k
    \/ k \in lost
=============================================================================
