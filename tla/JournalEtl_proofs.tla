-------------------------- MODULE JournalEtl_proofs ---------------------------
(***************************************************************************)
(* Proofs, for every number of files and lines, every batch size and every *)
(* mix of line kinds, of the safety properties of JournalEtl.              *)
(***************************************************************************)
EXTENDS JournalEtl, TLAPS

LEMMA FlagsStep == FlagsOK /\ [Next]_vars => FlagsOK'
<1> SUFFICES ASSUME FlagsOK, [Next]_vars PROVE FlagsOK'
  OBVIOUS
<1>1. ASSUME Runner PROVE UNCHANGED <<dbUp, stop, torn>>
  BY <1>1 DEF Runner, Rotate, AppendLine, BeginLine, EndLine, dbVars, passVars, readVars
<1>2. CASE DbFails \/ DbRecovers
  BY <1>2 DEF DbFails, DbRecovers, passVars, readVars, FlagsOK
<1>3. CASE RunLoop
  BY <1>3, Zenon DEF RunLoop, ExitLoop, PassOverNothing, EndWait, EndBackoff, StartPass,
       ReadLine, ReadFragment, ReadRemainder, EndOfFile, InsertBatch, CommitFile,
       StatementFails, OpenFile, NothingOpen, dbVars, passVars, readVars, FlagsOK
<1>4. CASE CommitUnacknowledged
  BY <1>4, Zenon DEF CommitUnacknowledged, NothingOpen, FlagsOK
<1>5. CASE RequestStop \/ Crash \/ Boot
  BY <1>5, Zenon DEF RequestStop, Crash, Boot, NothingOpen, dbVars, passVars, readVars, FlagsOK
<1>6. CASE UNCHANGED vars
  BY <1>6 DEF vars, dbVars, passVars, readVars, FlagsOK
<1> QED
  BY <1>1, <1>2, <1>3, <1>4, <1>5, <1>6, Zenon DEF Next, FlagsOK

LEMMA JournalStep == JournalOK /\ [Next]_vars => JournalOK'
<1> SUFFICES ASSUME JournalOK, [Next]_vars PROVE JournalOK'
  OBVIOUS
<1>1. ASSUME NEW f \in Files, NEW k \in Kinds, AppendLine(f, k) PROVE JournalOK'
  BY <1>1 DEF AppendLine, JournalOK
<1>2. ASSUME NEW k \in Kinds, BeginLine(k) PROVE JournalOK'
  BY <1>2 DEF BeginLine, JournalOK
<1>3. CASE EndLine
  <2>1. partial \in Kinds
    BY <1>3 DEF EndLine, JournalOK
  <2>2. CASE newest \in Files
    BY <1>3, <2>1, <2>2 DEF EndLine, JournalOK
  <2>3. CASE newest \notin Files
    BY <1>3, <2>3 DEF EndLine, JournalOK
  <2> QED
    BY <2>2, <2>3
<1>4. CASE Rotate
  BY <1>4 DEF Rotate, JournalOK
<1>5. CASE UNCHANGED runnerVars
  BY <1>5 DEF runnerVars, JournalOK
<1>6. CASE RunLoop
  BY <1>6, <1>5 DEF RunLoop, ExitLoop, PassOverNothing, EndWait, EndBackoff, StartPass,
       ReadLine, ReadFragment, ReadRemainder, EndOfFile, InsertBatch, CommitFile,
       StatementFails
<1> QED
  BY <1>1, <1>2, <1>3, <1>4, <1>5, <1>6 DEF Next, Runner, DbFails, DbRecovers,
     CommitUnacknowledged, RequestStop, Crash, Boot, vars

LEMMA RowsStep == RowsOK /\ PositionOK /\ [Next]_vars => RowsOK'
<1> SUFFICES ASSUME RowsOK, PositionOK, [Next]_vars PROVE RowsOK'
  OBVIOUS
<1>1. NoRow \in Row
  BY DEF NoRow, Row
<1>2. CASE UNCHANGED <<dbVars, batch, txn, seen>>
  BY <1>2 DEF RowsOK, dbVars
<1>3. CASE Runner
  BY <1>2, <1>3 DEF Runner, Rotate, AppendLine, BeginLine, EndLine, passVars, readVars
<1>4. CASE ReadLine
  <2>1. ParseLine(path, next, next + shift) \in Row
    BY DEF ParseLine, Row, PositionOK
  <2>2. batch' \subseteq Row /\ seen' \in Row
    BY <1>4, <2>1 DEF ReadLine, RowsOK
  <2> QED
    BY <1>4, <2>2 DEF ReadLine, RowsOK, dbVars
<1>5. CASE InsertBatch
  BY <1>5 DEF InsertBatch, RowsOK, dbVars
<1>6. CASE StartPass \/ StatementFails \/ Crash
  BY <1>1, <1>6 DEF StartPass, StatementFails, Crash, OpenFile, NothingOpen, RowsOK, dbVars
<1>7. CASE CommitFile \/ CommitUnacknowledged
  BY <1>1, <1>7 DEF CommitFile, CommitUnacknowledged, Durable, OpenFile, NothingOpen, RowsOK
<1>8. CASE DbFails \/ DbRecovers
  BY <1>8 DEF DbFails, DbRecovers, RowsOK, passVars, readVars
<1>9. CASE ExitLoop \/ PassOverNothing \/ EndWait \/ EndBackoff \/ ReadFragment
           \/ ReadRemainder \/ EndOfFile \/ RequestStop \/ Boot \/ UNCHANGED vars
  BY <1>2, <1>9 DEF ExitLoop, PassOverNothing, EndWait, EndBackoff, ReadFragment,
     ReadRemainder, EndOfFile, RequestStop, Boot, vars, passVars, readVars
<1> QED
  BY <1>3, <1>4, <1>5, <1>6, <1>7, <1>8, <1>9 DEF Next, RunLoop

LEMMA PositionStep == PositionOK /\ [Next]_vars => PositionOK'
<1> SUFFICES ASSUME PositionOK, [Next]_vars PROVE PositionOK'
  OBVIOUS
<1> USE BoundsAssumption DEF PositionOK
<1>1. CASE Rotate
  BY <1>1 DEF Rotate, passVars, readVars
<1>2. CASE UNCHANGED <<newest, pc, backoff, files, path, next, shift>>
  BY <1>2
<1>3. ASSUME NEW f \in Files, NEW k \in Kinds, AppendLine(f, k) PROVE PositionOK'
  BY <1>3 DEF AppendLine, passVars, readVars
<1>14. ASSUME NEW k \in Kinds, BeginLine(k) PROVE PositionOK'
  BY <1>14 DEF BeginLine, passVars, readVars
<1>4. CASE EndLine \/ DbFails \/ DbRecovers \/ RequestStop \/ InsertBatch
  BY <1>4, <1>2 DEF EndLine, DbFails, DbRecovers, RequestStop, InsertBatch, runnerVars,
     passVars, readVars
<1>5. CASE ExitLoop \/ PassOverNothing \/ EndWait \/ Boot
  BY <1>5 DEF ExitLoop, PassOverNothing, EndWait, Boot, runnerVars, passVars, readVars
<1>6. CASE EndBackoff
  <2>1. NextBackoff \in 1..30
    BY DEF NextBackoff, MinOf
  <2> QED
    BY <1>6, <2>1 DEF EndBackoff, runnerVars, passVars, readVars
<1>7. CASE StartPass
  <2>1. ResumeFile \in 1..newest
    BY <1>7 DEF StartPass, ResumeFile
  <2> QED
    BY <1>7, <2>1 DEF StartPass, OpenFile, runnerVars
<1>8. CASE ReadLine \/ ReadFragment \/ ReadRemainder \/ EndOfFile
  <2>1. UNCHANGED <<newest, files, path, backoff>>
    BY <1>8 DEF ReadLine, ReadFragment, ReadRemainder, EndOfFile, runnerVars, passVars
  <2>2. next' \in {next, next + 1} /\ shift' \in {shift, shift + 1}
    BY <1>8 DEF ReadLine, ReadFragment, ReadRemainder, EndOfFile, passVars, readVars
  <2>3. pc = "read" /\ pc' \in {"read", "eof"}
    BY <1>8 DEF ReadLine, ReadFragment, ReadRemainder, EndOfFile, Reading
  <2> QED
    BY <2>1, <2>2, <2>3
<1>9. CASE CommitFile
  BY <1>9 DEF CommitFile, CommitDue, OpenFile, NothingOpen, runnerVars
<1>10. CASE StatementFails \/ Crash \/ CommitUnacknowledged
  BY <1>10 DEF StatementFails, Crash, CommitUnacknowledged, NothingOpen, runnerVars
<1>11. CASE UNCHANGED vars
  BY <1>11, <1>2 DEF vars, runnerVars, passVars, readVars
<1>12. CASE Runner
  BY <1>1, <1>3, <1>4, <1>12, <1>14 DEF Runner
<1>13. CASE RunLoop
  BY <1>4, <1>5, <1>6, <1>7, <1>8, <1>9, <1>10, <1>13 DEF RunLoop
<1> QED
  BY <1>4, <1>5, <1>10, <1>11, <1>12, <1>13 DEF Next

\* Every variable keeps its type: no pass walks past the files that exist, and
\* the backoff of run_loop stays within its thirty seconds.
THEOREM TypeCorrect == Spec => []TypeOK
<1>1. Init => TypeOK
  <2> SUFFICES ASSUME Init PROVE TypeOK
    OBVIOUS
  <2>1. FlagsOK
    BY DEF Init, FlagsOK
  <2>2. JournalOK
    BY DEF Init, JournalOK
  <2>3. RowsOK
    BY DEF Init, RowsOK, Row, NoRow
  <2>4. PositionOK
    BY BoundsAssumption DEF Init, PositionOK
  <2> QED
    BY <2>1, <2>2, <2>3, <2>4 DEF TypeOK
<1>2. TypeOK /\ [Next]_vars => TypeOK'
  BY FlagsStep, JournalStep, RowsStep, PositionStep DEF TypeOK
<1> QED
  BY <1>1, <1>2, PTL DEF Spec
-----------------------------------------------------------------------------
InPass == pc \in {"read", "eof"}

\* What makes the checkpoint resumable: it is never ahead of the file being read,
\* and the row it will name is in the transaction that will commit it.
ResumeInv ==
  /\ checkpoint.file <= newest
  /\ checkpoint # NoRow => checkpoint \in events
  /\ InPass => checkpoint.file <= path
  /\ seen # NoRow => /\ InPass /\ seen.file = path
                     /\ seen \in txn \union batch

LEMMA ResumeStep == TypeOK /\ ResumeInv /\ [Next]_vars => ResumeInv'
<1> SUFFICES ASSUME TypeOK, ResumeInv, [Next]_vars PROVE ResumeInv'
  OBVIOUS
<1> USE DEF ResumeInv, InPass
<1>t. RowsOK /\ PositionOK
  BY DEF TypeOK
<1>n. \A r \in Row : r.file \in Nat
  BY DEF Row
<1>1. CASE UNCHANGED <<newest, events, checkpoint, pc, path, txn, batch, seen>>
  BY <1>1
<1>2. CASE Rotate
  BY <1>2, <1>t, <1>n DEF Rotate, RowsOK, PositionOK, dbVars, passVars, readVars
<1>3. CASE Runner
  BY <1>1, <1>2, <1>3 DEF Runner, AppendLine, BeginLine, EndLine, dbVars, passVars, readVars
<1>4. CASE ExitLoop \/ PassOverNothing \/ EndWait \/ EndBackoff \/ Boot
  BY <1>4 DEF ExitLoop, PassOverNothing, EndWait, EndBackoff, Boot, runnerVars, dbVars,
     passVars, readVars
<1>5. CASE StartPass
  <2>1. checkpoint.file <= ResumeFile
    BY <1>5, <1>t, <1>n DEF ResumeFile, StartPass, PositionOK, RowsOK
  <2> QED
    BY <1>5, <2>1 DEF StartPass, OpenFile, runnerVars, dbVars
<1>6. CASE ReadLine
  <2>1. ParseLine(path, next, next + shift).file = path
    BY DEF ParseLine
  <2>2. CASE Parses(journal[path][next])
    BY <1>6, <2>1, <2>2 DEF ReadLine, Reading, runnerVars, dbVars
  <2>3. CASE ~Parses(journal[path][next])
    BY <1>6, <2>3 DEF ReadLine, runnerVars, dbVars
  <2> QED
    BY <2>2, <2>3
<1>7. CASE ReadFragment \/ ReadRemainder
  BY <1>1, <1>7 DEF ReadFragment, ReadRemainder, runnerVars, dbVars
<1>8. CASE EndOfFile
  BY <1>8 DEF EndOfFile, Reading, runnerVars, dbVars, passVars, readVars
<1>9. CASE InsertBatch
  BY <1>9 DEF InsertBatch, runnerVars, dbVars
<1>10. CASE CommitFile \/ CommitUnacknowledged
  <2>1. events' = events \union txn /\ checkpoint' \in {checkpoint, seen} /\ newest' = newest
    BY <1>10 DEF CommitFile, CommitUnacknowledged, Durable, runnerVars
  <2>2. pc = "eof" /\ batch = {} /\ seen' = NoRow
    BY <1>10 DEF CommitFile, CommitUnacknowledged, CommitDue, OpenFile, NothingOpen
  <2>3. checkpoint'.file <= path /\ path <= newest /\ path \in Nat
    BY <1>10, <1>t, <2>2 DEF CommitFile, CommitUnacknowledged, Durable, PositionOK
  <2>4. InPass' => path' = path + 1
    BY <1>10 DEF CommitFile, CommitUnacknowledged, OpenFile, NothingOpen
  <2>5. checkpoint'.file \in Nat
    BY <2>1, <1>t, <1>n DEF RowsOK
  <2>6. checkpoint'.file <= newest' /\ (InPass' => checkpoint'.file <= path')
    BY <2>1, <2>3, <2>4, <2>5, <1>t DEF PositionOK
  <2>7. checkpoint' # NoRow => checkpoint' \in events'
    BY <1>10, <2>1, <2>2 DEF CommitFile, CommitUnacknowledged, Durable
  <2> QED
    BY <2>2, <2>6, <2>7
<1>11. CASE StatementFails \/ Crash
  BY <1>11 DEF StatementFails, Crash, NothingOpen, runnerVars, dbVars
<1>12. CASE DbFails \/ DbRecovers \/ RequestStop \/ UNCHANGED vars
  BY <1>1, <1>12 DEF DbFails, DbRecovers, RequestStop, vars, runnerVars, dbVars, passVars, readVars
<1> QED
  BY <1>3, <1>4, <1>5, <1>6, <1>7, <1>8, <1>9, <1>10, <1>11, <1>12
     DEF Next, RunLoop

LEMMA ResumeAlways == Spec => []ResumeInv
<1>1. Init => ResumeInv
  BY DEF Init, ResumeInv, InPass, NoRow
<1> QED
  BY <1>1, ResumeStep, TypeCorrect, PTL DEF Spec

\* The row the checkpoint names survives whatever happens to the task: it became
\* durable in the same COMMIT.
THEOREM CheckpointDurable == Spec => []CheckpointIsDurable
<1>1. ResumeInv => CheckpointIsDurable
  BY DEF ResumeInv, CheckpointIsDurable
<1> QED
  BY <1>1, ResumeAlways, PTL

\* No step, and in particular no restart and no replay, moves the checkpoint back
\* to an older file.
THEOREM CheckpointNeverBack == Spec => CheckpointForward
<1>1. TypeOK /\ ResumeInv /\ [Next]_vars => [checkpoint'.file >= checkpoint.file]_vars
  <2> SUFFICES ASSUME TypeOK, ResumeInv, Next PROVE checkpoint'.file >= checkpoint.file
    OBVIOUS
  <2>1. checkpoint.file \in Nat /\ path \in Nat
    BY DEF TypeOK, RowsOK, PositionOK, Row
  <2>2. CASE checkpoint' = checkpoint
    BY <2>1, <2>2
  <2>3. CASE CommitFile \/ CommitUnacknowledged
    BY <2>1, <2>3 DEF CommitFile, CommitUnacknowledged, Durable, CommitDue, ResumeInv, InPass
  <2> QED
    BY <2>2, <2>3 DEF Next, Runner, RunLoop, Rotate, AppendLine, BeginLine, EndLine, ExitLoop,
       PassOverNothing, StartPass, EndWait, EndBackoff, ReadLine, ReadFragment, ReadRemainder,
       EndOfFile, InsertBatch, StatementFails, DbFails, DbRecovers, RequestStop, Crash, Boot,
       dbVars
<1> QED
  BY <1>1, ResumeAlways, TypeCorrect, PTL DEF Spec, CheckpointForward
-----------------------------------------------------------------------------
Complete(f, rows) ==
  \A i \in 1..Len(journal[f]) : Parses(journal[f][i]) => Holds(rows, f, i)

\* Why a file may be left behind: when a pass goes on to another file, the one it
\* leaves was closed before the pass listed the directory, so reading it to its
\* end reads all it will ever hold.
CompleteInv ==
  /\ \A f \in Files : f < checkpoint.file => Complete(f, events)
  /\ InPass => \A f \in Files : f < path => Complete(f, events)
  /\ InPass /\ path < files =>
       /\ ~torn
       /\ \A i \in 1..Len(journal[path]) : i < next /\ Parses(journal[path][i])
            => Holds(events \union txn \union batch, path, i)
  /\ pc = "eof" /\ path < files => next = Len(journal[path]) + 1

LEMMA HoldsGrows ==
  ASSUME NEW small, NEW large, NEW f, NEW i, small \subseteq large, Holds(small, f, i)
  PROVE  Holds(large, f, i)
BY DEF Holds

LEMMA CompleteGrows ==
  ASSUME NEW small, NEW large, NEW f, small \subseteq large, Complete(f, small)
  PROVE  Complete(f, large)
BY HoldsGrows DEF Complete

\* The runner writes to the newest file only, so no file before it changes.
LEMMA RunnerKeepsOldFiles ==
  ASSUME ~LateAppends, TypeOK, Runner
  PROVE  /\ newest <= newest' /\ newest' \in Nat
         /\ \A f \in Files : f < newest => journal'[f] = journal[f]
         /\ UNCHANGED <<events, checkpoint, pc, path, files, next, torn, batch, txn>>
<1> USE DEF TypeOK, JournalOK, PositionOK
<1>1. CASE Rotate
  BY <1>1 DEF Rotate, dbVars, passVars, readVars
<1>2. ASSUME NEW f \in Files, NEW k \in Kinds, AppendLine(f, k)
      PROVE  /\ f = newest /\ newest' = newest
             /\ \A g \in Files : g # f => journal'[g] = journal[g]
             /\ UNCHANGED <<events, checkpoint, pc, path, files, next, torn, batch, txn>>
  BY <1>2 DEF AppendLine, dbVars, passVars, readVars
<1>3. ASSUME NEW k \in Kinds, BeginLine(k)
      PROVE  UNCHANGED <<journal, newest, events, checkpoint, pc, path, files, next, torn,
                         batch, txn>>
  BY <1>3 DEF BeginLine, dbVars, passVars, readVars
<1>4. CASE EndLine
  BY <1>4 DEF EndLine, dbVars, passVars, readVars
<1>5. newest \in Nat
  BY BoundsAssumption
<1>6. ASSUME NEW f \in Files, NEW k \in Kinds, AppendLine(f, k)
      PROVE  /\ newest <= newest' /\ newest' \in Nat
             /\ \A g \in Files : g < newest => journal'[g] = journal[g]
  BY <1>2, <1>5, <1>6, BoundsAssumption DEF Files
<1> QED
  BY <1>1, <1>2, <1>3, <1>4, <1>5, <1>6 DEF Runner

LEMMA CompleteStep ==
  ASSUME ~LateAppends, TypeOK, ResumeInv, CompleteInv, [Next]_vars
  PROVE  CompleteInv'
<1>t. /\ newest \in Nat /\ files \in Nat /\ path \in Nat /\ next \in Nat
      /\ InPass => path <= files /\ files <= newest /\ path \in Files
      /\ checkpoint.file \in Nat /\ checkpoint.file <= newest
      /\ \A f \in Files : f \in Nat /\ f >= 1 /\ Len(journal[f]) \in Nat
  BY BoundsAssumption DEF TypeOK, PositionOK, RowsOK, JournalOK, Row, ResumeInv, InPass, Files
\* Steps that leave the journal's old files, the rows and the position alone.
<1>1. CASE Runner
  <2>1. /\ newest <= newest' /\ newest' \in Nat
        /\ \A f \in Files : f < newest => journal'[f] = journal[f]
        /\ UNCHANGED <<events, checkpoint, pc, path, files, next, torn, batch, txn>>
    BY <1>1, RunnerKeepsOldFiles
  <2>2. ASSUME NEW f \in Files, f < newest, Complete(f, events) PROVE Complete(f, events)'
    BY <2>1, <2>2 DEF Complete, Holds
  <2>3. \A f \in Files : f < checkpoint'.file => Complete(f, events)'
    BY <1>t, <2>1, <2>2 DEF CompleteInv
  <2>4. InPass' => \A f \in Files : f < path' => Complete(f, events)'
    BY <1>t, <2>1, <2>2 DEF CompleteInv, InPass
  <2>5. InPass /\ path < files => journal'[path] = journal[path]
    BY <1>t, <2>1
  <2>6. (InPass /\ path < files =>
          /\ ~torn
          /\ \A i \in 1..Len(journal[path]) : i < next /\ Parses(journal[path][i])
               => Holds(events \union txn \union batch, path, i))'
    BY <2>1, <2>5 DEF CompleteInv, InPass, Holds
  <2>7. (pc = "eof" /\ path < files => next = Len(journal[path]) + 1)'
    BY <2>1, <2>5 DEF CompleteInv, InPass
  <2> QED
    BY <2>3, <2>4, <2>6, <2>7 DEF CompleteInv
<1>2. CASE UNCHANGED <<journal, events, checkpoint, pc, path, files, next, torn, batch, txn>>
  BY <1>2 DEF CompleteInv, InPass, Complete, Holds
<1>3. CASE UNCHANGED <<journal, events, checkpoint>> /\ pc' \notin {"read", "eof"}
  BY <1>3 DEF CompleteInv, InPass, Complete, Holds
<1>4. CASE StartPass
  <2>1. /\ UNCHANGED <<journal, events, checkpoint>>
        /\ path' = ResumeFile /\ next' = 1 /\ torn' = FALSE /\ pc' = "read"
    BY <1>4 DEF StartPass, OpenFile, runnerVars, dbVars
  <2>2. \A f \in Files : f < path' => Complete(f, events)
    BY <1>t, <2>1 DEF ResumeFile, CompleteInv
  <2> QED
    BY <2>1, <2>2 DEF CompleteInv, InPass, Complete, Holds
<1>5. CASE ReadLine
  <2>1. /\ UNCHANGED <<journal, events, checkpoint, pc, path, files, torn, txn>>
        /\ pc = "read" /\ next' = next + 1 /\ batch \subseteq batch'
    BY <1>5 DEF ReadLine, Reading, runnerVars, dbVars
  <2>2. ASSUME InPass, path < files, NEW i \in 1..Len(journal[path]), i < next',
               Parses(journal[path][i])
        PROVE  Holds(events \union txn \union batch', path, i)
    <3>1. CASE i < next
      <4>1. Holds(events \union txn \union batch, path, i)
        BY <2>2, <3>1 DEF CompleteInv
      <4> QED
        BY <2>1, <4>1, HoldsGrows
    <3>2. CASE i = next
      <4>1. ParseLine(path, next, next + shift) \in batch'
        BY <1>5, <2>2, <3>2 DEF ReadLine
      <4> QED
        BY <3>2, <4>1 DEF Holds, ParseLine
    <3> QED
      BY <1>t, <2>1, <2>2, <3>1, <3>2
  <2>3. (InPass /\ path < files =>
          /\ ~torn
          /\ \A i \in 1..Len(journal[path]) : i < next /\ Parses(journal[path][i])
               => Holds(events \union txn \union batch, path, i))'
    BY <2>1, <2>2 DEF CompleteInv, InPass, Holds
  <2> QED
    BY <2>1, <2>3 DEF CompleteInv, InPass, Complete, Holds
<1>6. CASE ReadFragment \/ ReadRemainder
  <2>1. /\ UNCHANGED <<journal, events, checkpoint, pc, path, files, batch, txn>>
        /\ pc = "read"
    BY <1>6 DEF ReadFragment, ReadRemainder, Reading, runnerVars, dbVars
  <2>2. ~(path < files)
    BY <1>6, <1>t, <2>1 DEF ReadFragment, ReadRemainder, AtFragment, CompleteInv, InPass
  <2> QED
    BY <2>1, <2>2 DEF CompleteInv, InPass, Complete, Holds
<1>7. CASE EndOfFile
  <2>1. /\ UNCHANGED <<journal, events, checkpoint, path, files, next, torn, batch, txn>>
        /\ pc = "read" /\ next = Len(journal[path]) + 1
    BY <1>7 DEF EndOfFile, Reading, runnerVars, dbVars, passVars, readVars
  <2> QED
    BY <2>1 DEF CompleteInv, InPass, Complete, Holds
<1>8. CASE InsertBatch
  <2>1. /\ UNCHANGED <<journal, events, checkpoint, pc, path, files, next, torn>>
        /\ events' \union txn' \union batch' = events \union txn \union batch
    BY <1>8 DEF InsertBatch, runnerVars, dbVars, passVars, readVars
  <2> QED
    BY <2>1 DEF CompleteInv, InPass, Complete, Holds
<1>9. CASE CommitFile \/ CommitUnacknowledged
  <2>1. /\ UNCHANGED journal /\ events' = events \union txn
        /\ pc = "eof" /\ batch = {}
    BY <1>9 DEF CommitFile, CommitUnacknowledged, CommitDue, Durable, runnerVars
  <2>2. \A f \in Files : Complete(f, events) => Complete(f, events)'
    BY <2>1, CompleteGrows DEF Complete, Holds
  <2>3. \A f \in Files : f < path => Complete(f, events)'
    BY <2>1, <2>2 DEF CompleteInv, InPass
  <2>4. checkpoint' = checkpoint \/ checkpoint'.file = path
    BY <1>9 DEF CommitFile, CommitUnacknowledged, Durable, ResumeInv
  <2>5. \A f \in Files : f < checkpoint'.file => Complete(f, events)'
    BY <2>2, <2>3, <2>4 DEF CompleteInv
  <2>6. CASE pc' \notin {"read", "eof"}
    BY <2>5, <2>6 DEF CompleteInv, InPass
  <2>7. CASE CommitFile /\ path < files
    <3>1. /\ path' = path + 1 /\ pc' = "read" /\ next' = 1 /\ torn' = FALSE
      BY <2>7 DEF CommitFile, OpenFile
    <3>2. ASSUME NEW i \in 1..Len(journal[path]), Parses(journal[path][i])
          PROVE  Holds(events', path, i)
      <4>1. i < next
        BY <1>t, <2>1, <2>7, <3>2 DEF CompleteInv, InPass
      <4>2. Holds(events \union txn \union batch, path, i)
        BY <2>1, <2>7, <3>2, <4>1 DEF CompleteInv, InPass
      <4> QED
        BY <2>1, <4>2, HoldsGrows
    <3>3. ASSUME NEW f \in Files, f = path PROVE Complete(f, events)'
      BY <2>1, <3>2, <3>3 DEF Complete, Holds
    <3>4. ASSUME NEW f \in Files, f < path' PROVE f < path \/ f = path
      BY <1>t, <3>1, <3>4
    <3>5. \A f \in Files : f < path' => Complete(f, events)'
      BY <2>3, <3>3, <3>4
    <3>6. /\ ~torn' /\ pc' # "eof"
          /\ \A i \in 1..Len(journal'[path']) : ~(i < next')
      BY <3>1
    <3> QED
      BY <2>5, <3>5, <3>6 DEF CompleteInv, InPass
  <2> QED
    BY <1>9, <2>6, <2>7 DEF CommitFile, CommitUnacknowledged
<1> QED
  BY <1>1, <1>2, <1>3, <1>4, <1>5, <1>6, <1>7, <1>8, <1>9
     DEF Next, RunLoop, ExitLoop, PassOverNothing, EndWait, EndBackoff, StatementFails,
         DbFails, DbRecovers, RequestStop, Crash, Boot, vars, runnerVars, dbVars, passVars,
         readVars

\* With a runner that writes to the newest file only, a file older than the
\* checkpoint's has nothing left to ingest: run_once may start at the checkpoint.
THEOREM CheckpointCovers == ASSUME ~LateAppends PROVE Spec => []CheckpointComplete
<1>1. Init => CompleteInv
  BY BoundsAssumption DEF Init, CompleteInv, InPass, NoRow, Files
<1>2. TypeOK /\ ResumeInv /\ CompleteInv /\ [Next]_vars => CompleteInv'
  BY CompleteStep
<1>3. CompleteInv => CheckpointComplete
  BY DEF CompleteInv, CheckpointComplete, Complete, Ingested
<1> QED
  BY <1>1, <1>2, <1>3, TypeCorrect, ResumeAlways, PTL DEF Spec
-----------------------------------------------------------------------------
\* A row as a pass without torn lines makes it: the line number it counted is the
\* number of the line in the file, so every pass makes the same row.
TrueRow(r) ==
  /\ r.file \in 1..newest /\ r.line \in 1..Len(journal[r.file])
  /\ r.number = IF journal[r.file][r.line] = "legacy" THEN r.line ELSE 0

OneRowInv ==
  /\ partial = "none" /\ ~torn /\ shift = 0
  /\ \A r \in events \union txn \union batch : TrueRow(r)

LEMMA OneRowStep ==
  ASSUME ~TornWrites, TypeOK, OneRowInv, [Next]_vars
  PROVE  OneRowInv'
<1>t. /\ newest \in Nat /\ newest <= NFiles /\ next \in Nat /\ next >= 1
      /\ InPass => path \in 1..newest
      /\ \A f \in Files : journal[f] \in Seq(Kinds)
      /\ events \subseteq Row /\ txn \subseteq Row /\ batch \subseteq Row
  BY BoundsAssumption DEF TypeOK, PositionOK, RowsOK, JournalOK, InPass, Files
<1>1. CASE Rotate
  <2>1. \A r : TrueRow(r) => TrueRow(r)'
    BY <1>1, <1>t DEF Rotate, TrueRow
  <2> QED
    BY <1>1, <2>1 DEF Rotate, OneRowInv, dbVars, passVars, readVars
<1>2. ASSUME NEW f \in Files, NEW k \in Kinds, AppendLine(f, k) PROVE OneRowInv'
  <2>1. ASSUME NEW g \in Files, NEW i \in 1..Len(journal[g])
        PROVE  i \in 1..Len(journal'[g]) /\ journal'[g][i] = journal[g][i]
    <3>1. CASE g = f
      BY <1>2, <1>t, <2>1, <3>1 DEF AppendLine, TypeOK, JournalOK
    <3>2. CASE g # f
      BY <1>2, <1>t, <2>1, <3>2 DEF AppendLine, TypeOK, JournalOK
    <3> QED
      BY <3>1, <3>2
  <2>2. newest' = newest /\ 1..newest \subseteq Files
    BY <1>2, <1>t, BoundsAssumption DEF AppendLine, Files
  <2>3. \A r : TrueRow(r) => TrueRow(r)'
    BY <2>1, <2>2 DEF TrueRow
  <2> QED
    BY <1>2, <2>3 DEF AppendLine, OneRowInv, dbVars, passVars, readVars
<1>3. CASE EndLine \/ \E k \in Kinds : BeginLine(k)
  BY <1>3 DEF EndLine, BeginLine, OneRowInv
<1>4. CASE /\ UNCHANGED <<journal, newest, partial>>
           /\ torn' => torn
           /\ shift' = shift \/ shift' = 0
           /\ events' \union txn' \union batch' \subseteq events \union txn \union batch
  <2>1. ~torn' /\ shift' = 0 /\ partial' = "none"
    BY <1>4 DEF OneRowInv
  <2>2. \A r \in events' \union txn' \union batch' : TrueRow(r)'
    BY <1>4 DEF OneRowInv, TrueRow
  <2> QED
    BY <2>1, <2>2 DEF OneRowInv
<1>5. CASE ReadLine
  <2>1. UNCHANGED <<journal, newest, partial, torn, shift, events, txn>>
    BY <1>5 DEF ReadLine, runnerVars, dbVars
  <2>5. path \in 1..newest /\ path \in Files
    BY <1>5, <1>t, BoundsAssumption DEF ReadLine, Reading, InPass, Files
  <2>2. path \in 1..newest /\ next \in 1..Len(journal[path])
    BY <1>5, <1>t, <2>5 DEF ReadLine
  <2>3. TrueRow(ParseLine(path, next, next + shift))
    BY <1>t, <2>2 DEF TrueRow, ParseLine, OneRowInv
  <2>4. batch' \subseteq batch \union {ParseLine(path, next, next + shift)}
    BY <1>5 DEF ReadLine
  <2> QED
    BY <2>1, <2>3, <2>4 DEF OneRowInv, TrueRow
<1>6. CASE ReadFragment \/ ReadRemainder
  BY <1>6 DEF ReadFragment, ReadRemainder, AtFragment, OneRowInv
<1>7. CASE CommitFile \/ CommitUnacknowledged \/ InsertBatch \/ StatementFails \/ Crash
           \/ StartPass
  BY <1>4, <1>7 DEF CommitFile, CommitUnacknowledged, InsertBatch, StatementFails, Crash,
     StartPass, Durable, OpenFile, NothingOpen, runnerVars, dbVars
<1>8. CASE UNCHANGED <<runnerVars, events, torn, shift, txn, batch>>
  BY <1>4, <1>8 DEF runnerVars
<1> QED
  BY <1>1, <1>2, <1>3, <1>5, <1>6, <1>7, <1>8
     DEF Next, Runner, RunLoop, ExitLoop, PassOverNothing, EndWait, EndBackoff, EndOfFile,
         DbFails, DbRecovers, RequestStop, Boot, vars, dbVars, passVars, readVars

\* When the reader never sees half a line, replaying a file any number of times
\* leaves one row per journal line, legacy lines included.
THEOREM ReplayIdempotent == ASSUME ~TornWrites PROVE Spec => []OneRowPerLine
<1>1. Init => OneRowInv
  BY DEF Init, OneRowInv
<1>2. TypeOK /\ OneRowInv /\ [Next]_vars => OneRowInv'
  BY OneRowStep
<1>3. TypeOK /\ OneRowInv => OneRowPerLine
  <2> SUFFICES ASSUME TypeOK, OneRowInv, NEW r \in events, NEW s \in events,
                      r.file = s.file, r.line = s.line
               PROVE  r = s
    BY DEF OneRowPerLine
  <2>1. r \in Row /\ s \in Row
    BY DEF TypeOK, RowsOK
  <2>2. r.number = s.number
    BY DEF OneRowInv, TrueRow
  <2> QED
    BY <2>1, <2>2 DEF Row
<1> QED
  BY <1>1, <1>2, <1>3, TypeCorrect, PTL DEF Spec
-----------------------------------------------------------------------------
\* A row comes from a line that is in the journal and parses.
FromLine(r) ==
  /\ r.file \in 1..newest /\ r.line \in 1..Len(journal[r.file])
  /\ Parses(journal[r.file][r.line])

OriginInv == \A r \in events \union txn \union batch : FromLine(r)

\* The journal is append-only: no step of the runner takes a line away or changes it.
LEMMA JournalGrows ==
  ASSUME TypeOK, Runner
  PROVE  /\ newest \in Nat /\ newest' \in Nat /\ newest <= newest'
         /\ \A f \in 1..newest : \A i \in 1..Len(journal[f]) :
              i \in 1..Len(journal'[f]) /\ journal'[f][i] = journal[f][i]
         /\ UNCHANGED <<events, checkpoint, txn, batch>>
<1>t. /\ newest \in Nat /\ newest <= NFiles /\ NFiles \in Nat
      /\ journal \in [Files -> Seq(Kinds)]
      /\ 1..newest \subseteq Files
  BY BoundsAssumption DEF TypeOK, PositionOK, JournalOK, Files
<1>1. ASSUME NEW g \in Files, NEW k, journal' = [journal EXCEPT ![g] = Append(@, k)],
             k \in Kinds, NEW f \in 1..newest, NEW i \in 1..Len(journal[f])
      PROVE  i \in 1..Len(journal'[f]) /\ journal'[f][i] = journal[f][i]
  <2>1. f \in Files /\ journal[f] \in Seq(Kinds)
    BY <1>t, <1>1
  <2>2. CASE f = g
    BY <1>t, <1>1, <2>1, <2>2
  <2>3. CASE f # g
    BY <1>t, <1>1, <2>1, <2>3
  <2> QED
    BY <2>2, <2>3
<1>2. CASE Rotate
  BY <1>t, <1>2 DEF Rotate, dbVars, passVars, readVars
<1>3. ASSUME NEW f \in Files, NEW k \in Kinds, AppendLine(f, k)
      PROVE  /\ newest' = newest /\ journal' = [journal EXCEPT ![f] = Append(@, k)]
             /\ UNCHANGED <<events, checkpoint, txn, batch>>
             /\ \A g \in 1..newest : \A i \in 1..Len(journal[g]) :
                  i \in 1..Len(journal'[g]) /\ journal'[g][i] = journal[g][i]
  <2>1. /\ newest' = newest /\ journal' = [journal EXCEPT ![f] = Append(@, k)]
        /\ UNCHANGED <<events, checkpoint, txn, batch>>
    BY <1>3 DEF AppendLine, dbVars, passVars, readVars
  <2> QED
    BY <1>1, <2>1
<1>4. ASSUME NEW k \in Kinds, BeginLine(k)
      PROVE  UNCHANGED <<newest, journal, events, checkpoint, txn, batch>>
  BY <1>4 DEF BeginLine, dbVars, passVars, readVars
<1>5. CASE EndLine
  <2>1. /\ newest' = newest /\ journal' = [journal EXCEPT ![newest] = Append(@, partial)]
        /\ partial \in Kinds /\ UNCHANGED <<events, checkpoint, txn, batch>>
    BY <1>5 DEF EndLine, TypeOK, JournalOK, dbVars, passVars, readVars
  <2>2. CASE newest \in Files
    BY <1>1, <1>t, <2>1, <2>2
  <2>3. CASE newest \notin Files
    BY <1>t, <2>1, <2>3
  <2> QED
    BY <2>2, <2>3
<1> QED
  BY <1>t, <1>1, <1>2, <1>3, <1>4, <1>5 DEF Runner

LEMMA OriginStep == TypeOK /\ OriginInv /\ [Next]_vars => OriginInv'
<1> SUFFICES ASSUME TypeOK, OriginInv, [Next]_vars PROVE OriginInv'
  OBVIOUS
<1>1. CASE Runner
  <2>1. \A r : FromLine(r) => FromLine(r)'
    BY <1>1, JournalGrows DEF FromLine
  <2>2. UNCHANGED <<events, txn, batch>>
    BY <1>1, JournalGrows
  <2> QED
    BY <2>1, <2>2 DEF OriginInv
<1>2. CASE /\ UNCHANGED <<journal, newest>>
           /\ events' \union txn' \union batch' \subseteq events \union txn \union batch
  BY <1>2 DEF OriginInv, FromLine
<1>3. CASE ReadLine
  <2>1. UNCHANGED <<journal, newest, events, txn>>
    BY <1>3 DEF ReadLine, runnerVars, dbVars
  <2>2. path \in 1..newest /\ next \in 1..Len(journal[path])
    BY <1>3, BoundsAssumption
       DEF ReadLine, Reading, TypeOK, PositionOK, JournalOK, Files
  <2>3. CASE Parses(journal[path][next])
    <3>1. FromLine(ParseLine(path, next, next + shift))
      BY <2>2, <2>3 DEF FromLine, ParseLine
    <3>2. batch' = batch \union {ParseLine(path, next, next + shift)}
      BY <1>3, <2>3 DEF ReadLine
    <3> QED
      BY <2>1, <3>1, <3>2 DEF OriginInv, FromLine
  <2>4. CASE ~Parses(journal[path][next])
    BY <1>2, <1>3, <2>1, <2>4 DEF ReadLine
  <2> QED
    BY <2>3, <2>4
<1>4. CASE CommitFile \/ CommitUnacknowledged \/ InsertBatch \/ StatementFails \/ Crash
           \/ StartPass
  BY <1>2, <1>4 DEF CommitFile, CommitUnacknowledged, InsertBatch, StatementFails, Crash,
     StartPass, Durable, OpenFile, NothingOpen, runnerVars, dbVars
<1>5. CASE UNCHANGED <<runnerVars, events, txn, batch>>
  BY <1>2, <1>5 DEF runnerVars
<1> QED
  BY <1>1, <1>3, <1>4, <1>5
     DEF Next, RunLoop, ExitLoop, PassOverNothing, EndWait, EndBackoff, EndOfFile,
         ReadFragment, ReadRemainder, DbFails, DbRecovers, RequestStop, Boot, vars, dbVars,
         passVars, readVars

\* A step of the runner makes the mirror's journal grow, or is not seen in it.
LEMMA RunnerGrows ==
  ASSUME ~LateAppends, TypeOK, Runner
  PROVE  Mirror!Grow \/ UNCHANGED Mirror!mirrorVars
<1>t. /\ newest \in Nat /\ newest <= NFiles /\ NFiles \in Nat
      /\ journal \in [Files -> Seq(Kinds)] /\ partial \in Kinds \union {"none"}
  BY BoundsAssumption DEF TypeOK, PositionOK, JournalOK, Files
<1>k. UNCHANGED <<events, checkpoint>>
  BY JournalGrows
<1>1. CASE Rotate
  BY <1>k, <1>1 DEF Rotate, Mirror!Grow
<1>2. ASSUME NEW f \in Files, NEW k \in Kinds, AppendLine(f, k)
      PROVE  Mirror!Grow
  <2>1. f = newest /\ newest > 0
    BY <1>2, <1>t DEF AppendLine, Files
  <2> QED
    BY <1>k, <1>2, <2>1 DEF AppendLine, Mirror!Grow
<1>3. CASE \E k \in Kinds : BeginLine(k)
  BY <1>k, <1>3 DEF BeginLine, Mirror!mirrorVars
<1>4. CASE EndLine
  <2>1. /\ newest' = newest /\ journal' = [journal EXCEPT ![newest] = Append(@, partial)]
        /\ partial \in Kinds
    BY <1>4, <1>t DEF EndLine
  <2>2. CASE newest > 0
    BY <1>k, <2>1, <2>2 DEF Mirror!Grow
  <2>3. CASE newest = 0
    BY <1>k, <1>t, <2>1, <2>3 DEF Mirror!mirrorVars, Files
  <2> QED
    BY <1>t, <2>2, <2>3
<1> QED
  BY <1>1, <1>2, <1>3, <1>4 DEF Runner

\* A commit copies lines and may move the mark.
LEMMA CommitCopies ==
  ASSUME TypeOK, ResumeInv, OriginInv, OriginInv', CompleteInv',
         CommitFile \/ CommitUnacknowledged
  PROVE  Mirror!Copy
<1>1. /\ UNCHANGED <<journal, newest>> /\ events' = events \union txn /\ pc = "eof"
      /\ checkpoint' = checkpoint \/ (checkpoint' = seen /\ seen # NoRow)
  BY DEF CommitFile, CommitUnacknowledged, CommitDue, Durable, runnerVars
<1>2. {<<r.file, r.line>> : r \in events} \subseteq {<<r.file, r.line>> : r \in events'}
  BY <1>1
<1>3. ASSUME NEW p \in {<<r.file, r.line>> : r \in events'}
      PROVE  p[1] \in 1..newest /\ p[2] \in Mirror!Copyable(p[1])
  <2>1. PICK r \in events' : p = <<r.file, r.line>>
    BY <1>3
  <2>2. FromLine(r)'
    BY DEF OriginInv
  <2> QED
    BY <1>1, <2>1, <2>2 DEF FromLine, Parses, Mirror!Copyable
<1>4. checkpoint'.file \in checkpoint.file..newest
  <2>1. /\ checkpoint.file \in Nat /\ checkpoint.file <= newest /\ newest \in Nat
        /\ path \in Nat /\ path <= newest /\ checkpoint.file <= path
    BY <1>1, BoundsAssumption DEF ResumeInv, InPass, TypeOK, PositionOK, RowsOK, Row
  <2>2. checkpoint'.file \in {checkpoint.file, path}
    BY <1>1 DEF ResumeInv
  <2> QED
    BY <2>1, <2>2
<1>5. ASSUME NEW f \in 1..NFiles, f < checkpoint'.file, NEW i \in Mirror!Copyable(f)
      PROVE  <<f, i>> \in {<<r.file, r.line>> : r \in events'}
  <2>1. i \in 1..Len(journal[f]) /\ journal[f][i] \in Kinds /\ journal[f][i] # "junk"
    BY <1>5 DEF Mirror!Copyable, TypeOK, JournalOK, Files
  <2>2. Parses(journal[f][i])
    BY <2>1, KindsAssumption DEF Parses
  <2>3. Holds(events', f, i)
    BY <1>1, <1>5, <2>1, <2>2 DEF CompleteInv, Complete, Files
  <2> QED
    BY <2>3 DEF Holds
<1> QED
  BY <1>1, <1>2, <1>3, <1>4, <1>5 DEF Mirror!Copy

\* The ETL task implements the mirror, for every number of files and lines, every batch
\* size and every mix of lines: passes, errors, restarts and half-read lines are not seen
\* in paper_events, as long as the runner appends to its newest file only.
THEOREM MirrorImplemented == ASSUME ~LateAppends PROVE Spec => ImplementsMirror
<1>1. Init => Mirror!Init
  BY DEF Init, Mirror!Init, NoRow, Files
<1>2. Init => OriginInv /\ CompleteInv
  BY BoundsAssumption DEF Init, OriginInv, CompleteInv, InPass, NoRow, Files
<1>3. TypeOK /\ ResumeInv /\ CompleteInv /\ OriginInv /\ [Next]_vars
        => CompleteInv' /\ OriginInv'
  BY CompleteStep, OriginStep
<1>4. /\ TypeOK /\ ResumeInv /\ OriginInv /\ OriginInv' /\ CompleteInv'
      /\ [Next]_vars
      => [Mirror!Next]_(Mirror!mirrorVars)
  <2> SUFFICES ASSUME TypeOK, ResumeInv, OriginInv, OriginInv', CompleteInv', [Next]_vars
               PROVE  Mirror!Next \/ UNCHANGED Mirror!mirrorVars
    OBVIOUS
  <2>1. CASE Runner
    BY <2>1, RunnerGrows DEF Mirror!Next
  <2>2. CASE CommitFile \/ CommitUnacknowledged
    BY <2>2, CommitCopies DEF Mirror!Next
  <2>3. CASE UNCHANGED <<journal, newest, events, checkpoint>>
    BY <2>3 DEF Mirror!mirrorVars
  <2> QED
    BY <2>1, <2>2, <2>3
       DEF Next, RunLoop, ExitLoop, PassOverNothing, StartPass, EndWait, EndBackoff, ReadLine,
           ReadFragment, ReadRemainder, EndOfFile, InsertBatch, StatementFails, DbFails,
           DbRecovers, RequestStop, Crash, Boot, vars, runnerVars, dbVars
<1> QED
  BY <1>1, <1>2, <1>3, <1>4, TypeCorrect, ResumeAlways, PTL
     DEF Spec, ImplementsMirror, Mirror!Spec
=============================================================================
