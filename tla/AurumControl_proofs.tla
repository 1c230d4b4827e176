------------------------- MODULE AurumControl_proofs --------------------------
(***************************************************************************)
(* Proofs about AurumControl, for any users, any number of requests in     *)
(* progress and any number of actions.                                     *)
(***************************************************************************)
EXTENDS AurumControl, TLAPS

AfterEffect == {"effected", "audited", "written"}

\* A request past its effect on the files is accounted for in took.
ControlInv ==
  /\ TypeOK
  /\ RowsTogether
  /\ RowsAreTrue
  /\ \A r \in Reqs : req[r].stage \in AfterEffect => req[r].row \in took

LEMMA ControlInit == Init => ControlInv
BY ActionsAssumption
   DEF Init, ControlInv, TypeOK, RowsTogether, RowsAreTrue, Idle, AfterEffect

LEMMA ControlNext == ControlInv /\ [Next]_vars => ControlInv'
<1> SUFFICES ASSUME ControlInv, [Next]_vars PROVE ControlInv'
  OBVIOUS
<1> USE ActionsAssumption DEF Ids, Row, Stages, Idle, AfterEffect, flags, tables, aurum2
<1>1. ASSUME NEW r \in Reqs, NEW action \in Actions, NEW user \in Users,
             Begin(r, action, user)
      PROVE  ControlInv'
  <2>1. begun + 1 \in Ids /\ begun + 1 \in 0..MaxActions
    BY <1>1 DEF Begin, ControlInv, TypeOK
  <2>2. TypeOK'
    BY <1>1, <2>1 DEF Begin, ControlInv, TypeOK, RequestId, tables
  <2> QED
    BY <1>1, <2>2 DEF Begin, ControlInv, TypeOK, RowsTogether, RowsAreTrue, tables
<1>2. ASSUME NEW r \in Reqs, Forbid(r) \/ FileError(r)
      PROVE  ControlInv'
  <2>1. /\ req' = [req EXCEPT ![r] = Idle]
        /\ UNCHANGED <<pauseFlag, stopFlag, audit, actions, took, begun, unanswered,
                       runner, echoed>>
    BY <1>2 DEF Forbid, FileError, AfterFileError, End, tables
  <2>2. TypeOK'
    BY <2>1 DEF ControlInv, TypeOK
  <2> QED
    BY <2>1, <2>2 DEF ControlInv, TypeOK, RowsTogether, RowsAreTrue
<1>3. ASSUME NEW r \in Reqs, Effect(r)
      PROVE  ControlInv'
  <2>1. req[r].stage = "begun" /\ req[r] \in [stage: Stages, row: Row]
        /\ req[r].row.user \in Owners
    BY <1>3 DEF Effect, At, MayControl, ControlInv, TypeOK
  <2>2. pauseFlag' \in 0..MaxActions /\ stopFlag' \in 0..MaxActions
    BY <1>3, <2>1 DEF Effect, FilesAfter, ControlInv, TypeOK
  <2>3. TypeOK'
    BY <1>3, <2>1, <2>2 DEF Effect, Goto, ControlInv, TypeOK, tables
  <2> QED
    BY <1>3, <2>1, <2>3
    DEF Effect, Goto, ControlInv, TypeOK, RowsTogether, RowsAreTrue, tables
<1>4. ASSUME NEW r \in Reqs, WriteAudit(r) \/ WriteAction(r)
      PROVE  ControlInv'
  BY <1>4 DEF WriteAudit, WriteAction, At, Goto, ControlInv, TypeOK, RowsTogether,
              RowsAreTrue, tables
<1>5. ASSUME NEW r \in Reqs, Commit(r)
      PROVE  ControlInv'
  <2>1. req[r].row \in Row /\ req[r].row \in took
    BY <1>5 DEF Commit, At, ControlInv, TypeOK
  <2> QED
    BY <1>5, <2>1 DEF Commit, ActionsAfter, End, ControlInv, TypeOK, RowsTogether,
                      RowsAreTrue
<1>6. ASSUME NEW r \in Reqs, DbError(r)
      PROVE  ControlInv'
  <2>1. req[r].row \in Row
    BY <1>6 DEF DbError, ControlInv, TypeOK
  <2> QED
    BY <1>6, <2>1 DEF DbError, AfterDbError, End, ControlInv, TypeOK, RowsTogether,
                      RowsAreTrue
<1>7. CASE Crash
  <2>1. \A r \in Reqs : Busy(r) => req[r].row.id \in Ids
    <3> SUFFICES ASSUME NEW r \in Reqs, Busy(r) PROVE req[r].row.id \in Ids
      OBVIOUS
    <3>1. req[r] \in [stage: Stages, row: Row]
      BY DEF Busy, ControlInv, TypeOK
    <3> QED
      BY <3>1
  <2>2. {req[r].row.id : r \in {q \in Reqs : Busy(q)}} \subseteq Ids
    BY <2>1
  <2>3. unanswered' \subseteq Ids
    BY <1>7, <2>2 DEF Crash, ControlInv, TypeOK
  <2> QED
    BY <1>7, <2>3 DEF Crash, ControlInv, TypeOK, RowsTogether, RowsAreTrue
<1>8. CASE PollPause \/ PollStop
  <2>1. UNCHANGED <<pauseFlag, stopFlag, audit, actions, took, begun, req, unanswered>>
    BY <1>8 DEF PollPause, PollStop, platform
  <2>2. runner' \in [paused: BOOLEAN, stopped: BOOLEAN]
    <3>1. (pauseFlag # 0) \in BOOLEAN /\ runner \in [paused: BOOLEAN, stopped: BOOLEAN]
      BY DEF ControlInv, TypeOK
    <3>2. CASE PollPause
      BY <3>1, <3>2 DEF PollPause
    <3>3. CASE PollStop
      BY <3>1, <3>3 DEF PollStop
    <3> QED
      BY <1>8, <3>2, <3>3
  <2>3. echoed' \subseteq Ids
    BY <1>8 DEF PollPause, PollStop, ControlInv, TypeOK
  <2>4. TypeOK'
    BY <2>1, <2>2, <2>3 DEF ControlInv, TypeOK
  <2> QED
    BY <2>1, <2>4 DEF ControlInv, RowsTogether, RowsAreTrue
<1>9. CASE UNCHANGED vars
  BY <1>9 DEF vars, ControlInv, TypeOK, RowsTogether, RowsAreTrue
<1> QED
  BY <1>1, <1>2, <1>3, <1>4, <1>5, <1>6, <1>7, <1>8, <1>9 DEF Next, Handle

LEMMA ControlAlways == Spec => []ControlInv
BY ControlInit, ControlNext, PTL DEF Spec

\* Flags, rows, requests and the runner have their types throughout.
THEOREM TypeCorrect == Spec => []TypeOK
BY ControlAlways, PTL DEF ControlInv

\* audit_log and control_actions never differ on a control action, whichever
\* statement fails and whenever the backend dies.
THEOREM TablesAgree == Spec => []RowsTogether
BY ControlAlways, PTL DEF ControlInv

\* A row is only ever there for an action that an owner asked for and that took
\* effect on the files.
THEOREM RowsCorrect == Spec => []RowsAreTrue
BY ControlAlways, PTL DEF ControlInv
-----------------------------------------------------------------------------
\* Where an action that took effect is to be found: in the tables, with a request
\* that still runs, or nowhere, and then its sender was not told it succeeded.
Accounted(row) ==
  \/ row \in actions
  \/ \E r \in Reqs : req[r].stage \in AfterEffect /\ req[r].row = row
  \/ row.id \in unanswered

Known(id) == \E row \in took : row.id = id

\* The flags and the runner's lines carry ids of effects that are accounted for.
JoinInv ==
  /\ \A row \in took : Accounted(row)
  /\ pauseFlag # 0 => Known(pauseFlag)
  /\ stopFlag # 0 => Known(stopFlag)
  /\ \A id \in echoed : Known(id)

LEMMA JoinInit == Init => JoinInv
BY DEF Init, JoinInv

LEMMA JoinNext ==
  ASSUME ControlInv, JoinInv, [Next]_vars
  PROVE  JoinInv'
<1> USE DEF AfterEffect, flags, tables, aurum2
<1>t. req \in [Reqs -> {Idle} \union [stage: Stages, row: Row]]
  BY DEF ControlInv, TypeOK
<1>1. ASSUME NEW r \in Reqs, NEW q, q.stage = "idle" \/ q.stage = "begun",
             req[r].stage = "idle" \/ req[r].stage = "begun",
             req' = [req EXCEPT ![r] = q],
             UNCHANGED <<pauseFlag, stopFlag, actions, took, unanswered, echoed>>
      PROVE  JoinInv'
  <2>1. ASSUME NEW row \in took PROVE Accounted(row)'
    <3>1. ASSUME NEW p \in Reqs, req[p].stage \in AfterEffect
          PROVE  req'[p] = req[p]
      BY <1>t, <1>1, <3>1
    <3> QED
      BY <1>1, <3>1 DEF JoinInv, Accounted
  <2> QED
    BY <1>1, <2>1 DEF JoinInv, Known
<1>2. ASSUME NEW r \in Reqs, NEW action \in Actions, NEW user \in Users,
             Begin(r, action, user)
      PROVE  JoinInv'
  <2> DEFINE q == [stage |-> "begun",
                   row |-> [id |-> RequestId(begun + 1), action |-> action, user |-> user]]
  <2>1. q.stage = "begun"
    OBVIOUS
  <2>2. req' = [req EXCEPT ![r] = q] /\ req[r].stage = "idle"
        /\ UNCHANGED <<pauseFlag, stopFlag, actions, took, unanswered, echoed>>
    BY <1>2 DEF Begin, Busy
  <2> HIDE DEF q
  <2> QED
    BY <1>1, <2>1, <2>2
<1>3. ASSUME NEW r \in Reqs, Forbid(r) \/ FileError(r)
      PROVE  JoinInv'
  <2>1. Idle.stage = "idle"
    BY DEF Idle
  <2>2. req' = [req EXCEPT ![r] = Idle] /\ req[r].stage = "begun"
        /\ UNCHANGED <<pauseFlag, stopFlag, actions, took, unanswered, echoed>>
    BY <1>3 DEF Forbid, FileError, AfterFileError, At, End
  <2> QED
    BY <1>1, <2>1, <2>2
<1>4. ASSUME NEW r \in Reqs, Effect(r)
      PROVE  JoinInv'
  <2> DEFINE new == req[r].row
  <2>1. /\ took' = took \union {new} /\ UNCHANGED <<actions, unanswered, echoed>>
        /\ req[r].stage = "begun" /\ req' = [req EXCEPT ![r].stage = "effected"]
        /\ pauseFlag' \in {pauseFlag, 0, new.id} /\ stopFlag' \in {stopFlag, new.id}
    BY <1>4 DEF Effect, FilesAfter, At, Goto
  <2>2. ASSUME NEW row \in took' PROVE Accounted(row)'
    <3>1. req'[r].stage = "effected" /\ req'[r].row = new
      BY <1>t, <2>1 DEF Idle
    <3>2. ASSUME NEW p \in Reqs, req[p].stage \in AfterEffect
          PROVE  req'[p] = req[p]
      BY <1>t, <2>1, <3>2
    <3>3. CASE row = new
      BY <3>1, <3>3 DEF Accounted
    <3>4. CASE row \in took
      BY <2>1, <3>2, <3>4 DEF JoinInv, Accounted
    <3> QED
      BY <2>1, <3>3, <3>4
  <2>3. \A id : Known(id) => Known(id)'
    BY <2>1 DEF Known
  <2>4. Known(new.id)'
    BY <2>1 DEF Known
  <2>5. (pauseFlag # 0 => Known(pauseFlag))' /\ (stopFlag # 0 => Known(stopFlag))'
    BY <2>1, <2>3, <2>4 DEF JoinInv
  <2> QED
    BY <2>1, <2>2, <2>3, <2>5 DEF JoinInv
<1>5. ASSUME NEW r \in Reqs, WriteAudit(r) \/ WriteAction(r)
      PROVE  JoinInv'
  <2>1. PICK stage \in {"audited", "written"} :
          /\ req' = [req EXCEPT ![r].stage = stage]
          /\ UNCHANGED <<pauseFlag, stopFlag, actions, took, unanswered, echoed>>
    BY <1>5 DEF WriteAudit, WriteAction, Goto
  <2>2. ASSUME NEW p \in Reqs, req[p].stage \in AfterEffect
        PROVE  req'[p].stage \in AfterEffect /\ req'[p].row = req[p].row
    BY <1>t, <2>1, <2>2 DEF Idle
  <2> QED
    BY <2>1, <2>2 DEF JoinInv, Accounted, Known
<1>6. ASSUME NEW r \in Reqs, Commit(r) \/ DbError(r)
      PROVE  JoinInv'
  <2>1. /\ req' = [req EXCEPT ![r] = Idle]
        /\ UNCHANGED <<pauseFlag, stopFlag, took, echoed>>
        /\ actions \subseteq actions' /\ unanswered \subseteq unanswered'
        /\ req[r].row \in actions' \/ req[r].row.id \in unanswered'
    BY <1>6 DEF Commit, ActionsAfter, DbError, AfterDbError, End
  <2>2. ASSUME NEW p \in Reqs, p # r PROVE req'[p] = req[p]
    BY <1>t, <2>1, <2>2
  <2>3. ASSUME NEW row \in took PROVE Accounted(row)'
    BY <2>1, <2>2 DEF JoinInv, Accounted
  <2> QED
    BY <2>1, <2>3 DEF JoinInv, Known
<1>7. CASE Crash
  <2>1. \A r \in Reqs : req[r].stage \in AfterEffect => req[r].row.id \in unanswered'
    BY <1>7 DEF Crash, Busy
  <2>2. ASSUME NEW row \in took PROVE Accounted(row)'
    BY <1>7, <2>1 DEF Crash, JoinInv, Accounted
  <2> QED
    BY <1>7, <2>2 DEF Crash, JoinInv, Known
<1>8. CASE PollPause \/ PollStop
  <2>1. UNCHANGED <<pauseFlag, stopFlag, actions, took, unanswered, req>>
        /\ echoed' \subseteq echoed \union ({pauseFlag, stopFlag} \ {0})
    BY <1>8 DEF PollPause, PollStop, platform
  <2> QED
    BY <2>1 DEF JoinInv, Accounted, Known
<1>9. CASE UNCHANGED vars
  BY <1>9 DEF vars, JoinInv, Accounted, Known
<1> QED
  BY <1>2, <1>3, <1>4, <1>5, <1>6, <1>7, <1>8, <1>9 DEF Next, Handle

\* Every request_id the runner echoes leads to the rows of the request, unless it is
\* about to write them or its sender was not told that it succeeded.
THEOREM EchoesJoin == Spec => []JoinsAllThree
<1>1. ControlInv /\ JoinInv => JoinsAllThree
  <2> SUFFICES ASSUME JoinInv, NEW id \in echoed
               PROVE  Recorded(id) \/ InProgress(id) \/ id \in unanswered
    BY DEF JoinsAllThree
  <2>1. PICK row \in took : row.id = id
    BY DEF JoinInv, Known
  <2> QED
    BY <2>1 DEF JoinInv, Accounted, Recorded, InProgress, Busy, AfterEffect
<1> QED
  BY <1>1, ControlAlways, ControlNext, ControlInit, JoinInit, JoinNext, PTL DEF Spec
=============================================================================
