------------------------------ MODULE JournalEtl ------------------------------
(***************************************************************************)
(* The background task of backend/app/workers/journal_etl.py: it tails the *)
(* journal files the aurum_2 runner appends to and copies every line that  *)
(* parses into paper_events, remembering in etl_checkpoints the file it    *)
(* reached.                                                                *)
(*                                                                         *)
(* Three parties act: the runner (another process; it appends to the       *)
(* newest file and opens a new one), the database (it may be unreachable   *)
(* for a while) and the ETL task (it may be stopped, cancelled or killed   *)
(* at any point and is started again with the backend).                    *)
(*                                                                         *)
(* A file is its rank in the lexicographic order of the file names, a      *)
(* journal line is its kind:                                               *)
(*   contract  valid, carries an event_id                                  *)
(*   legacy    valid, without event_id: the ETL makes one up from the file *)
(*             and the line number it counted                              *)
(*   junk      _parse_line returns None                                    *)
(*   poison    _parse_line returns a row, but the INSERT of any batch that *)
(*             holds it fails (a NUL character or a NaN inside the JSONB)  *)
(***************************************************************************)
EXTENDS Naturals, Sequences, FiniteSets

CONSTANTS
  NFiles,       \* bound: journal files the runner opens
  MaxLines,     \* bound: lines per file
  BatchSize,    \* AURUM_ETL_BATCH_SIZE
  Kinds,        \* the kinds of line the runner writes
  TornWrites,   \* may the reader see a line before its newline is written?
  LateAppends   \* may the runner append to a file older than the newest?

ASSUME BoundsAssumption == NFiles \in Nat /\ MaxLines \in Nat
ASSUME BatchAssumption  == BatchSize \in Nat \ {0}
ASSUME KindsAssumption  == Kinds \subseteq {"contract", "legacy", "junk", "poison"}
ASSUME RunnerAssumption == TornWrites \in BOOLEAN /\ LateAppends \in BOOLEAN

VARIABLES
  journal,      \* journal[f]: the complete lines of file f
  newest,       \* the files that exist are 1..newest
  partial,      \* the kind of the line whose head is written to newest, or "none"
  dbUp,         \* does the database answer?
  events,       \* committed rows of paper_events
  checkpoint,   \* etl_checkpoints: the row last_event_id names; its file is
                \* last_processed_file
  pc,           \* where run_loop is
  stop,         \* stop_event
  backoff,      \* run_loop's backoff, in seconds
  files,        \* the pass walks the files path..files
  path,         \* the file _process_file has open
  next,         \* the journal line it reads next
  shift,        \* how far enumerate() is ahead of the journal's line numbers
  torn,         \* was the head of line `next' already returned as a line?
  batch,        \* rows parsed and not yet inserted
  txn,          \* rows inserted and not yet committed
  seen          \* the last row parsed in this file (last_ts, last_event_id)

runnerVars == <<journal, newest, partial>>
dbVars     == <<dbUp, events, checkpoint>>
readVars   == <<next, shift, torn, batch, txn, seen>>
passVars   == <<files, path, readVars>>
vars       == <<runnerVars, dbVars, pc, stop, backoff, passVars>>

Files == 1..NFiles

(***************************************************************************)
(* A row of paper_events, as far as its event_id goes: the line it came    *)
(* from and, when the id is synthetic, the line number that went into it.  *)
(* Lines of one file are taken to differ in ts or type, so two legacy      *)
(* lines never share an id.                                                *)
(***************************************************************************)
Row   == [file: Nat, line: Nat, number: Nat]
NoRow == [file |-> 0, line |-> 0, number |-> 0]

Parses(k) == k \in {"contract", "legacy", "poison"}

\* Mutant of ParseLine: the synthetic id is drawn anew at every parse (uuid4).
ParseLineFreshId(f, i, lineno) ==
  [file |-> f, line |-> i,
   number |-> IF journal[f][i] = "legacy" THEN lineno + Cardinality(events) ELSE 0]

ParseLine(f, i, lineno) ==
  [file |-> f, line |-> i,
   number |-> IF journal[f][i] = "legacy" THEN lineno ELSE 0]

Poisoned(row) == journal[row.file][row.line] = "poison"

Written(f, i) == i \in 1..Len(journal[f]) /\ Parses(journal[f][i])

Holds(rows, f, i) == \E r \in rows : r.file = f /\ r.line = i

Ingested(f, i) == Holds(events, f, i)

MinOf(a, b) == IF a < b THEN a ELSE b
-----------------------------------------------------------------------------
\* No file open: _process_file's locals are gone and its transaction is closed.
NothingOpen ==
  /\ files' = 0 /\ path' = 0 /\ next' = 1 /\ shift' = 0 /\ torn' = FALSE
  /\ batch' = {} /\ txn' = {} /\ seen' = NoRow

OpenFile(f) ==
  /\ path' = f /\ next' = 1 /\ shift' = 0 /\ torn' = FALSE
  /\ batch' = {} /\ txn' = {} /\ seen' = NoRow

Init ==
  /\ journal = [f \in Files |-> <<>>]
  /\ newest = 0 /\ partial = "none"
  /\ dbUp = TRUE /\ events = {} /\ checkpoint = NoRow
  /\ pc = "top" /\ stop = FALSE /\ backoff = 1
  /\ files = 0 /\ path = 0 /\ next = 1 /\ shift = 0 /\ torn = FALSE
  /\ batch = {} /\ txn = {} /\ seen = NoRow
-----------------------------------------------------------------------------
(* The runner (external).                                                  *)

Rotate ==
  /\ newest < NFiles /\ partial = "none"
  /\ newest' = newest + 1
  /\ UNCHANGED <<journal, partial, dbVars, pc, stop, backoff, passVars>>

AppendLine(f, k) ==
  /\ f \in 1..newest /\ Len(journal[f]) < MaxLines
  /\ \/ f = newest /\ partial = "none"
     \/ f < newest /\ LateAppends
  /\ journal' = [journal EXCEPT ![f] = Append(@, k)]
  /\ UNCHANGED <<newest, partial, dbVars, pc, stop, backoff, passVars>>

BeginLine(k) ==
  /\ TornWrites /\ newest > 0 /\ partial = "none"
  /\ Len(journal[newest]) < MaxLines
  /\ partial' = k
  /\ UNCHANGED <<journal, newest, dbVars, pc, stop, backoff, passVars>>

EndLine ==
  /\ partial # "none"
  /\ journal' = [journal EXCEPT ![newest] = Append(@, partial)]
  /\ partial' = "none"
  /\ UNCHANGED <<newest, dbVars, pc, stop, backoff, passVars>>

(* The database.                                                           *)

DbFails ==
  /\ dbUp /\ dbUp' = FALSE
  /\ UNCHANGED <<runnerVars, events, checkpoint, pc, stop, backoff, passVars>>

DbRecovers ==
  /\ ~dbUp /\ dbUp' = TRUE
  /\ UNCHANGED <<runnerVars, events, checkpoint, pc, stop, backoff, passVars>>
-----------------------------------------------------------------------------
(* run_loop and run_once.                                                  *)

\* Mutant of KeepRunning: the loop never looks at stop_event.
KeepRunningRegardless == TRUE

KeepRunning == ~stop

ExitLoop ==
  /\ pc = "top" /\ stop
  /\ pc' = "down"
  /\ UNCHANGED <<runnerVars, dbVars, stop, backoff, passVars>>

\* No journal directory or no file in it: run_once returns at once.
PassOverNothing ==
  /\ pc = "top" /\ KeepRunning /\ newest = 0
  /\ pc' = "wait" /\ backoff' = 1
  /\ UNCHANGED <<runnerVars, dbVars, stop, passVars>>

\* Mutants of ResumeFile: the checkpoint is ignored; its file is taken as done.
ResumeFromEarliest  == 1
ResumeAfterCheckpoint ==
  IF checkpoint.file + 1 \in 1..newest THEN checkpoint.file + 1 ELSE newest

ResumeFile == IF checkpoint.file \in 1..newest THEN checkpoint.file ELSE 1

\* The file list is fixed here; files opened later wait for the next pass.
StartPass ==
  /\ pc = "top" /\ KeepRunning /\ newest > 0 /\ dbUp
  /\ files' = newest
  /\ OpenFile(ResumeFile)
  /\ pc' = "read"
  /\ UNCHANGED <<runnerVars, dbVars, stop, backoff>>

\* The poll interval ends, or stop_event ends it early.
EndWait ==
  /\ pc = "wait" /\ pc' = "top"
  /\ UNCHANGED <<runnerVars, dbVars, stop, backoff, passVars>>

\* Mutant of NextBackoff: the ceiling is left out.
NextBackoffUncapped == 2 * backoff

NextBackoff == MinOf(2 * backoff, 30)

EndBackoff ==
  /\ pc = "backoff" /\ pc' = "top"
  /\ backoff' = NextBackoff
  /\ UNCHANGED <<runnerVars, dbVars, stop, passVars>>
-----------------------------------------------------------------------------
(* _process_file.                                                          *)

Reading == pc = "read" /\ Cardinality(batch) < BatchSize

AtFragment == path = newest /\ partial # "none"

ReadLine ==
  /\ Reading /\ ~torn /\ next <= Len(journal[path])
  /\ next' = next + 1
  /\ IF Parses(journal[path][next])
       THEN LET row == ParseLine(path, next, next + shift)
            IN  batch' = batch \union {row} /\ seen' = row
       ELSE UNCHANGED <<batch, seen>>
  /\ UNCHANGED <<runnerVars, dbVars, pc, stop, backoff, files, path, shift, torn, txn>>

\* At the end of the open file the iterator returns a line without newline.
ReadFragment ==
  /\ Reading /\ ~torn /\ next = Len(journal[path]) + 1 /\ AtFragment
  /\ torn' = TRUE
  /\ UNCHANGED <<runnerVars, dbVars, pc, stop, backoff, files, path, next, shift,
                 batch, txn, seen>>

\* ... and what was appended since as one more line: both halves are junk.
ReadRemainder ==
  /\ Reading /\ torn /\ next <= Len(journal[path])
  /\ next' = next + 1 /\ shift' = shift + 1 /\ torn' = FALSE
  /\ UNCHANGED <<runnerVars, dbVars, pc, stop, backoff, files, path, batch, txn, seen>>

EndOfFile ==
  /\ Reading /\ next = Len(journal[path]) + 1
  /\ AtFragment => torn
  /\ pc' = "eof"
  /\ UNCHANGED <<runnerVars, dbVars, stop, backoff, passVars>>

BatchDue ==
  \/ pc = "read" /\ Cardinality(batch) >= BatchSize
  \/ pc = "eof" /\ batch # {}

\* ON CONFLICT (event_id) DO NOTHING: a union of sets of ids.
InsertBatch ==
  /\ BatchDue /\ dbUp
  /\ \A row \in batch : ~Poisoned(row)
  /\ txn' = txn \union batch
  /\ batch' = {}
  /\ UNCHANGED <<runnerVars, dbVars, pc, stop, backoff, files, path, next, shift,
                 torn, seen>>

\* Mutant of CommitDue: the last, partly filled batch is not inserted.
CommitWithoutLastBatch == pc = "eof"

CommitDue == pc = "eof" /\ batch = {}

\* What the COMMIT makes durable: the file's rows and, if it had any, the checkpoint.
Durable ==
  /\ events' = events \union txn
  /\ checkpoint' = IF seen = NoRow THEN checkpoint ELSE seen

CommitFile ==
  /\ CommitDue /\ dbUp
  /\ Durable
  /\ IF path < files
       THEN /\ OpenFile(path + 1)
            /\ pc' = "read"
            /\ UNCHANGED <<files, backoff>>
       ELSE /\ NothingOpen
            /\ pc' = "wait" /\ backoff' = 1
  /\ UNCHANGED <<runnerVars, dbUp, stop>>

\* The connection is lost after the server committed: the task sees an error.
CommitUnacknowledged ==
  /\ CommitDue /\ dbUp
  /\ Durable
  /\ dbUp' = FALSE
  /\ NothingOpen
  /\ pc' = "backoff"
  /\ UNCHANGED <<runnerVars, stop, backoff>>

\* A statement raises: rollback (or the session's close) and back off.
StatementFails ==
  /\ \/ pc = "top" /\ KeepRunning /\ newest > 0 /\ ~dbUp
     \/ BatchDue /\ (~dbUp \/ \E row \in batch : Poisoned(row))
     \/ CommitDue /\ ~dbUp
  /\ NothingOpen
  /\ pc' = "backoff"
  /\ UNCHANGED <<runnerVars, dbVars, stop, backoff>>
-----------------------------------------------------------------------------
(* main.lifespan and the process around the task.                          *)

RequestStop ==
  /\ pc # "down" /\ ~stop /\ stop' = TRUE
  /\ UNCHANGED <<runnerVars, dbVars, pc, backoff, passVars>>

\* Killed, or cancelled when the task outlives the five seconds of shutdown.
Crash ==
  /\ pc # "down" /\ pc' = "down"
  /\ NothingOpen
  /\ UNCHANGED <<runnerVars, dbVars, stop, backoff>>

Boot ==
  /\ pc = "down" /\ pc' = "top"
  /\ stop' = FALSE /\ backoff' = 1
  /\ UNCHANGED <<runnerVars, dbVars, passVars>>

Runner ==
  \/ Rotate
  \/ \E f \in Files, k \in Kinds : AppendLine(f, k)
  \/ \E k \in Kinds : BeginLine(k)
  \/ EndLine

RunLoop ==
  \/ ExitLoop \/ PassOverNothing \/ StartPass \/ EndWait \/ EndBackoff
  \/ ReadLine \/ ReadFragment \/ ReadRemainder \/ EndOfFile
  \/ InsertBatch \/ CommitFile \/ StatementFails

Next ==
  \/ Runner \/ RunLoop
  \/ DbFails \/ DbRecovers \/ CommitUnacknowledged
  \/ RequestStop \/ Crash \/ Boot

Spec == Init /\ [][Next]_vars

\* The event loop runs the task whenever it is ready; nothing else is promised.
FairSpec == Spec /\ WF_vars(RunLoop)
-----------------------------------------------------------------------------
FlagsOK == dbUp \in BOOLEAN /\ stop \in BOOLEAN /\ torn \in BOOLEAN

JournalOK == journal \in [Files -> Seq(Kinds)] /\ partial \in Kinds \union {"none"}

RowsOK ==
  /\ events \subseteq Row /\ txn \subseteq Row /\ batch \subseteq Row
  /\ checkpoint \in Row /\ seen \in Row

PositionOK ==
  /\ newest \in 0..NFiles /\ files \in 0..NFiles /\ path \in 0..files
  /\ next \in Nat \ {0} /\ shift \in Nat
  /\ pc \in {"top", "read", "eof", "wait", "backoff", "down"}
  /\ pc \in {"read", "eof"} => path >= 1 /\ files <= newest
  /\ backoff \in 1..30

TypeOK == FlagsOK /\ JournalOK /\ RowsOK /\ PositionOK

\* What resuming from the checkpoint relies on: every line that parses, of
\* every file older than the checkpoint's, is already in paper_events.  run_once
\* never looks at those files again.
CheckpointComplete ==
  \A f \in Files : f < checkpoint.file =>
    \A i \in 1..Len(journal[f]) : Parses(journal[f][i]) => Ingested(f, i)

\* Replays leave no trace: a journal line has at most one row, however often
\* its file is read again after an error, a restart or a new pass.
OneRowPerLine ==
  \A r, s \in events : r.file = s.file /\ r.line = s.line => r = s

\* last_event_id names a row that is durable in paper_events, so the lag read
\* from the checkpoint never describes work that was rolled back.
CheckpointIsDurable == checkpoint # NoRow => checkpoint \in events

\* The checkpoint never goes back to an older file.
CheckpointForward == [][checkpoint'.file >= checkpoint.file]_vars

\* _process_file fails at a poison line on every pass, and with it every file behind.
Obstructed(f) == \E g \in 1..f : \E i \in 1..Len(journal[g]) : journal[g][i] = "poison"

\* Once the database answers and the process stays up, every line that parses reaches
\* paper_events, the lines behind junk and the ones first met torn included, unless a
\* line whose INSERT fails stands in the same file or an earlier one.
EventuallyIngested ==
  <>[](dbUp /\ pc # "down") =>
    \A f \in Files : \A i \in 1..MaxLines :
      Written(f, i) ~> Ingested(f, i) \/ Obstructed(f)

\* After stop_event is set the task ends, even while the database is down.
StopHonoured == stop ~> pc = "down"

-----------------------------------------------------------------------------
Mirror == INSTANCE JournalMirror
            WITH mirrored <- {<<r.file, r.line>> : r \in events},
                 mark <- checkpoint.file

\* Whatever passes, errors, restarts and commits do, paper_events is a growing copy of
\* the journal and the checkpoint a mark behind which all is copied: see JournalMirror.
ImplementsMirror == Mirror!Spec
=============================================================================
