----------------------------- MODULE AurumControl -----------------------------
(***************************************************************************)
(* The control channel from the platform to the aurum_2 runner: the        *)
(* handlers of POST /aurum/pause, /resume and /stop (backend/app/api/      *)
(* aurum.py, backend/app/aurum/control.py), the two flag files and the     *)
(* rows in audit_log and control_actions.                                  *)
(*                                                                         *)
(* A handler changes the file first, in one synchronous stretch of code,   *)
(* and then inserts both rows in its database transaction; nothing ties    *)
(* the two together.  Requests are numbered in the order their             *)
(* transactions begin: the number is the request_id and, since both tables *)
(* default ts to now(), also the order of the rows in time.                *)
(***************************************************************************)
EXTENDS Naturals

CONSTANTS
  Users, Owners,  \* users, and those with the OWNER role
  Reqs,           \* requests that may be in progress at the same time
  MaxActions,     \* bound: control requests ever begun
  Failures        \* whether the disk, the database or the backend may fail

ASSUME OwnersAssumption  == Owners \subseteq Users
ASSUME ActionsAssumption == MaxActions \in Nat
ASSUME FailuresAssumption == Failures \in BOOLEAN

Ids     == 1..MaxActions
Actions == {"pause", "resume", "stop"}
Row     == [id: Ids, action: Actions, user: Users]

VARIABLES
  pauseFlag,       \* request_id in pause.flag, 0 when there is no such file
  stopFlag,        \* request_id in stop.flag, 0 when there is no such file
  audit,           \* the rows of audit_log for control actions
  actions,         \* the rows of control_actions
  took,            \* history: the actions whose effect on the files took place
  begun,           \* number of requests begun
  req,             \* req[r]: stage and pending row of request r
  unanswered,      \* history: request_ids of requests that did not succeed
  runner,          \* aurum_2: is it paused, has it latched a stop
  echoed           \* request_ids the runner wrote into control_event lines

vars == <<pauseFlag, stopFlag, audit, actions, took, begun, req, unanswered, runner, echoed>>

flags    == <<pauseFlag, stopFlag>>
tables   == <<audit, actions>>
platform == <<flags, tables, took, begun, req, unanswered>>
aurum2   == <<runner, echoed>>

Stages == {"begun", "effected", "audited", "written"}
Idle   == [stage |-> "idle"]

Busy(r) == req[r].stage # "idle"
At(r, stage) == req[r].stage = stage
Goto(r, stage) == req' = [req EXCEPT ![r].stage = stage]
End(r) == req' = [req EXCEPT ![r] = Idle]

Init ==
  /\ pauseFlag = 0 /\ stopFlag = 0
  /\ audit = {} /\ actions = {} /\ took = {}
  /\ begun = 0 /\ req = [r \in Reqs |-> Idle] /\ unanswered = {}
  /\ runner = [paused |-> FALSE, stopped |-> FALSE] /\ echoed = {}
-----------------------------------------------------------------------------
(* The handlers.                                                           *)

\* request.state.request_id, or a new uuid4.
RequestId(n) == n

\* get_current_user runs the first statement of the transaction.
Begin(r, action, user) ==
  /\ ~Busy(r) /\ begun < MaxActions
  /\ begun' = begun + 1
  /\ req' = [req EXCEPT ![r] = [stage |-> "begun",
                row |-> [id |-> RequestId(begun + 1), action |-> action, user |-> user]]]
  /\ UNCHANGED <<flags, tables, took, unanswered, aurum2>>

\* _require_owner, in the route and again in the writer.
MayControl(row) == row.user \in Owners

\* The user may not, or it is a stop whose header X-Confirm-Stop does not say yes; what
\* the header says is as free as the action itself.
Forbid(r) ==
  /\ At(r, "begun")
  /\ ~MayControl(req[r].row) \/ req[r].row.action = "stop"
  /\ End(r)
  /\ UNCHANGED <<flags, tables, took, begun, unanswered, aurum2>>

\* Mutant of FilesAfter: a resume clears whatever flag there is.
ResumeClearsAll(row) ==
  /\ pauseFlag' = CASE row.action = "pause"  -> row.id
                    [] row.action = "resume" -> 0
                    [] OTHER -> pauseFlag
  /\ stopFlag' = CASE row.action = "stop"   -> row.id
                   [] row.action = "resume" -> 0
                   [] OTHER -> stopFlag

\* _atomic_write_json replaces the file as a whole; unlink of a file that is
\* not there is not an error.
FilesAfter(row) ==
  /\ pauseFlag' = CASE row.action = "pause"  -> row.id
                    [] row.action = "resume" -> 0
                    [] OTHER -> pauseFlag
  /\ stopFlag' = IF row.action = "stop" THEN row.id ELSE stopFlag

Effect(r) ==
  /\ At(r, "begun") /\ MayControl(req[r].row)
  /\ FilesAfter(req[r].row)
  /\ took' = took \union {req[r].row}
  /\ Goto(r, "effected")
  /\ UNCHANGED <<tables, begun, unanswered, aurum2>>

\* Mutant of AfterFileError: the error is logged and the rows are written.
RecordedAnyway(r) == Goto(r, "effected")

\* An OSError of the write, the replace or the unlink leaves the handler.
AfterFileError(r) == End(r)

FileError(r) ==
  /\ Failures
  /\ At(r, "begun") /\ MayControl(req[r].row)
  /\ AfterFileError(r)
  /\ UNCHANGED <<flags, tables, took, begun, unanswered, aurum2>>

\* _record: the flush inside write_audit, then the flush of the second row.
WriteAudit(r) ==
  /\ At(r, "effected") /\ Goto(r, "audited")
  /\ UNCHANGED <<flags, tables, took, begun, unanswered, aurum2>>

WriteAction(r) ==
  /\ At(r, "audited") /\ Goto(r, "written")
  /\ UNCHANGED <<flags, tables, took, begun, unanswered, aurum2>>

\* Mutant of ActionsAfter: a stop is logged but not listed.
StopNotListed(row) == IF row.action = "stop" THEN actions ELSE actions \union {row}

ActionsAfter(row) == actions \union {row}

Commit(r) ==
  /\ At(r, "written")
  /\ audit' = audit \union {req[r].row} /\ actions' = ActionsAfter(req[r].row)
  /\ End(r)
  /\ UNCHANGED <<flags, took, begun, unanswered, aurum2>>

\* Mutant of AfterDbError: what had been flushed is committed.
KeepsFlushed(r) ==
  /\ audit' = IF At(r, "audited") THEN audit \union {req[r].row} ELSE audit
  /\ UNCHANGED actions

\* A statement that fails takes the whole transaction with it: the commit that
\* get_session issues on an exception finds nothing to commit.
AfterDbError(r) == UNCHANGED tables

DbError(r) ==
  /\ Failures
  /\ req[r].stage \in {"effected", "audited", "written"}
  /\ AfterDbError(r)
  /\ End(r)
  /\ unanswered' = unanswered \union {req[r].row.id}
  /\ UNCHANGED <<flags, took, begun, aurum2>>

\* The backend dies: transactions are rolled back, files stay.
Crash ==
  /\ Failures /\ \E r \in Reqs : Busy(r)
  /\ req' = [r \in Reqs |-> Idle]
  /\ unanswered' = unanswered \union {req[r].row.id : r \in {q \in Reqs : Busy(q)}}
  /\ UNCHANGED <<flags, tables, took, begun, aurum2>>
-----------------------------------------------------------------------------
(* The runner, as docs/integration_aurum2_to_platform.md describes it.     *)

\* Presence of the file is the paused state; the id of the request is echoed.
PollPause ==
  /\ runner.paused # (pauseFlag # 0)
  /\ runner' = [runner EXCEPT !.paused = (pauseFlag # 0)]
  /\ echoed' = echoed \union ({pauseFlag} \ {0})
  /\ UNCHANGED platform

\* Latched in memory after the first read.
PollStop ==
  /\ stopFlag # 0 /\ ~runner.stopped
  /\ runner' = [runner EXCEPT !.stopped = TRUE]
  /\ echoed' = echoed \union {stopFlag}
  /\ UNCHANGED platform

Handle(r) ==
  \/ Forbid(r) \/ Effect(r) \/ WriteAudit(r) \/ WriteAction(r) \/ Commit(r)

Next ==
  \/ \E r \in Reqs :
       \/ \E action \in Actions, user \in Users : Begin(r, action, user)
       \/ Handle(r) \/ FileError(r) \/ DbError(r)
  \/ Crash \/ PollPause \/ PollStop

Spec == Init /\ [][Next]_vars

\* The runner polls as long as it runs.
FairSpec == Spec /\ WF_vars(PollStop) /\ WF_vars(PollPause)
-----------------------------------------------------------------------------
TypeOK ==
  /\ pauseFlag \in 0..MaxActions /\ stopFlag \in 0..MaxActions
  /\ audit \subseteq Row /\ actions \subseteq Row /\ took \subseteq Row
  /\ begun \in 0..MaxActions
  /\ req \in [Reqs -> {Idle} \union [stage: Stages, row: Row]]
  /\ runner \in [paused: BOOLEAN, stopped: BOOLEAN]
  /\ unanswered \subseteq Ids /\ echoed \subseteq Ids

\* control.py:3-6: the two tables carry the same actions under the same
\* request_id, whichever statement fails.
RowsTogether == audit = actions

\* No row claims an action that was not carried out on the files, or one that was
\* asked for by somebody who is not an owner.
RowsAreTrue == actions \subseteq took /\ \A row \in took : row.user \in Owners

Recorded(id) == \E row \in actions : row.id = id
InProgress(id) == \E r \in Reqs : Busy(r) /\ req[r].row.id = id

\* docs/integration_aurum2_to_platform.md:130-134: a query on the request_id joins
\* the runner's control_event with the rows of both tables.  What the runner obeyed
\* is recorded, or its request is still running, or its sender got no success.
JoinsAllThree ==
  \A id \in echoed : Recorded(id) \/ InProgress(id) \/ id \in unanswered

\* No handler takes a stop back: once requested, the runner gets to read it.
StopReached == (\E row \in took : row.action = "stop") ~> runner.stopped
=============================================================================
