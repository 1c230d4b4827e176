---------------------------- MODULE JournalMirror -----------------------------
(***************************************************************************)
(* What the journal ETL promises, without passes, batches, transactions or *)
(* restarts: a growing copy of an append-only journal split into files,    *)
(* and a mark such that every file before it has been copied completely.   *)
(***************************************************************************)
EXTENDS Naturals, Sequences

CONSTANTS NFiles, Kinds

VARIABLES journal, newest, mirrored, mark

mirrorVars == <<journal, newest, mirrored, mark>>

Copyable(f) == {i \in 1..Len(journal[f]) : journal[f][i] # "junk"}

Init ==
  /\ journal = [f \in 1..NFiles |-> <<>>]
  /\ newest = 0 /\ mirrored = {} /\ mark = 0

\* The journal grows at the end of its newest file, or by a new file.
Grow ==
  /\ \/ /\ newest < NFiles /\ newest' = newest + 1
        /\ UNCHANGED journal
     \/ /\ newest > 0
        /\ \E k \in Kinds : journal' = [journal EXCEPT ![newest] = Append(@, k)]
        /\ UNCHANGED newest
  /\ UNCHANGED <<mirrored, mark>>

\* Lines are copied, in any number, and never taken back; the mark advances at
\* most to a file whose predecessors are copied.
Copy ==
  /\ mirrored \subseteq mirrored'
  /\ \A p \in mirrored' : p[1] \in 1..newest /\ p[2] \in Copyable(p[1])
  /\ mark' \in mark..newest
  /\ \A f \in 1..NFiles : f < mark' => \A i \in Copyable(f) : <<f, i>> \in mirrored'
  /\ UNCHANGED <<journal, newest>>

Next == Grow \/ Copy

Spec == Init /\ [][Next]_mirrorVars
=============================================================================
