------------------------ MODULE BrokerAdapters_proofs ------------------------
(***************************************************************************)
(* Proofs about BrokerAdapters, for any set of calls and any settings of   *)
(* the two environment variables.                                          *)
(*                                                                         *)
(* IInv relates what the adapter waits for, how far the subprocess got and *)
(* what it wrote.  It is needed because an answer is made of the exit code *)
(* and the output, while the properties are about the broker's verdict and *)
(* the session that found it out.                                          *)
(***************************************************************************)
EXTENDS BrokerAdapters, TLAPS

\* There is a subprocess only behind the stages that deal with one.
ProcFits(c) ==
  /\ stage[c] \in {"idle", "mt5", "oanda"} => proc[c] = "none"
  /\ stage[c] = "talk" => proc[c] \in Alive \union {"exited", "gone"}
  /\ stage[c] = "reap" => proc[c] \in {"killed", "exited", "gone"}
  /\ stage[c] = "done" => proc[c] \in {"none", "gone"}

\* The session is open from mt5.initialize on, and a clean exit closed it.
SessionFits(c) ==
  /\ proc[c] \in {"none", "started"} => ~session[c]
  /\ code[c] = "ok" => ~session[c]
  /\ proc[c] \in Alive \union {"none", "killed"} => code[c] = "none"

\* Output is written after the broker's verdict is known.
OutputFits(c) ==
  /\ proc[c] \in {"none", "started", "connected"} => out[c] = "none"
  /\ proc[c] = "connected" => verdict[c] = "accepted"
  /\ out[c] = "ok" => verdict[c] = "accepted"
  /\ out[c] = "auth" => verdict[c] = "refused"

ResultFits(c) ==
  /\ stage[c] # "done" => result[c] = "none"
  /\ stage[c] = "done" => result[c] # "none"
  /\ result[c] = "success" => verdict[c] = "accepted" \/ mode = "test"
  /\ result[c] = "auth_failed" => verdict[c] = "refused"
  /\ result[c] \in {"success", "auth_failed"} => ~session[c]

IInv ==
  /\ TypeOK
  /\ \A c \in Calls : ProcFits(c) /\ SessionFits(c) /\ OutputFits(c) /\ ResultFits(c)

\* What a step of call c does to the state of every other call: nothing.
OthersKept(c) ==
  /\ mode' = mode
  /\ \A d \in Calls \ {c} :
       /\ stage'[d] = stage[d] /\ proc'[d] = proc[d] /\ code'[d] = code[d]
       /\ out'[d] = out[d] /\ session'[d] = session[d] /\ verdict'[d] = verdict[d]
       /\ result'[d] = result[d]

Fits(c) == ProcFits(c) /\ SessionFits(c) /\ OutputFits(c) /\ ResultFits(c)

\* The initial states satisfy the invariant.
LEMMA InitFits == Init => IInv
  BY ModesAssumption DEF Init, IInv, TypeOK, ProcFits, SessionFits, OutputFits, ResultFits,
     AdapterStages, ProcStages, Alive, Outputs, Verdicts, Answers

\* Every step keeps the types.
LEMMA TypeStep == TypeOK /\ [Next]_vars => TypeOK'
<1> SUFFICES ASSUME TypeOK, [Next]_vars PROVE TypeOK'
  OBVIOUS
<1> USE DEF TypeOK, AdapterStages, ProcStages, Alive, Outputs, Verdicts, Answers
<1>1. CASE UNCHANGED vars
  BY <1>1 DEF vars
<1>2. ASSUME NEW c \in Calls, Begin(c) PROVE TypeOK'
  BY <1>2 DEF Begin, runner
<1>3. ASSUME NEW c \in Calls, Adapter(c) PROVE TypeOK'
  <2>1. CASE WithoutRunner(c)
    BY <2>1 DEF WithoutRunner, Answer, runner
  <2>2. CASE SpawnFails(c)
    BY <2>2 DEF SpawnFails, Answer, runner
  <2>3. CASE Spawn(c)
    BY <2>3 DEF Spawn
  <2>4. CASE Collect(c)
    <3>1. Judge(code[c], out[c]) \in Answers
      BY DEF Judge
    <3> QED
      BY <2>4, <3>1 DEF Collect, Answer, runner
  <2>5. CASE Timeout(c)
    BY <2>5 DEF Timeout, TimerMayFire, Answer
  <2>6. CASE Reap(c)
    BY <2>6 DEF Reap, Answer, runner
  <2>7. CASE OandaResponds(c)
    <3>1. PICK resp \in Responses :
            /\ Answer(c, OandaOutcome(resp))
            /\ verdict' = [verdict EXCEPT ![c] =
                 CASE resp \in {"2xx", "2xx_odd"} -> "accepted"
                   [] resp \in {"401", "403"}     -> "refused"
                   [] OTHER                       -> "failed"]
      BY <2>7 DEF OandaResponds
    <3>2. OandaOutcome(resp) \in Answers
      BY DEF OandaOutcome, Responses
    <3> QED
      BY <2>7, <3>1, <3>2 DEF OandaResponds, Answer, Responses
  <2>8. CASE LoopSeesExit(c)
    BY <2>8 DEF LoopSeesExit
  <2> QED
    BY <1>3, <2>1, <2>2, <2>3, <2>4, <2>5, <2>6, <2>7, <2>8 DEF Adapter
<1>4. ASSUME NEW c \in Calls, Runner(c) PROVE TypeOK'
  <2>1. CASE RunnerLacksLibrary(c)
    BY <2>1 DEF RunnerLacksLibrary
  <2>2. CASE RunnerConnects(c)
    <3>1. CASE session' = [session EXCEPT ![c] = TRUE]
      BY <2>2, <3>1 DEF RunnerConnects
    <3>2. CASE \E v \in {"refused", "failed"} :
                 /\ proc' = [proc EXCEPT ![c] = "closing"]
                 /\ verdict' = [verdict EXCEPT ![c] = v]
                 /\ out' = [out EXCEPT ![c] = IF v = "refused" THEN "auth" ELSE "error"]
                 /\ session' = session
      <4>1. PICK v \in {"refused", "failed"} :
              /\ proc' = [proc EXCEPT ![c] = "closing"]
              /\ verdict' = [verdict EXCEPT ![c] = v]
              /\ out' = [out EXCEPT ![c] = IF v = "refused" THEN "auth" ELSE "error"]
              /\ session' = session
        BY <3>2
      <4>2. (IF v = "refused" THEN "auth" ELSE "error") \in Outputs
        OBVIOUS
      <4> QED
        BY <2>2, <4>1, <4>2 DEF RunnerConnects
    <3> QED
      BY <2>2, <3>1, <3>2 DEF RunnerConnects
  <2>3. CASE RunnerAnswers(c)
    BY <2>3 DEF RunnerAnswers
  <2>4. CASE RunnerExits(c)
    BY <2>4 DEF RunnerExits
  <2>5. CASE ProcessDies(c)
    BY <2>5 DEF ProcessDies
  <2> QED
    BY <1>4, <2>1, <2>2, <2>3, <2>4, <2>5 DEF Runner
<1>5. ASSUME NEW c \in Calls, Release(c) PROVE TypeOK'
  BY <1>5 DEF Release
<1> QED
  BY <1>1, <1>2, <1>3, <1>4, <1>5 DEF Next

\* A step of one call leaves the others alone.
LEMMA OthersStep ==
  ASSUME TypeOK, NEW c \in Calls, Begin(c) \/ Adapter(c) \/ Runner(c) \/ Release(c)
  PROVE  OthersKept(c)
<1> USE DEF TypeOK, OthersKept
<1>1. CASE Begin(c)
  BY <1>1 DEF Begin, runner
<1>2. CASE Adapter(c)
  BY <1>2 DEF Adapter, WithoutRunner, SpawnFails, Spawn, Collect, Timeout, Reap, OandaResponds,
     LoopSeesExit, Answer, runner
<1>3. CASE Runner(c)
  BY <1>3 DEF Runner, RunnerLacksLibrary, RunnerConnects, RunnerAnswers, RunnerExits,
     ProcessDies
<1>4. CASE Release(c)
  BY <1>4 DEF Release
<1> QED
  BY <1>1, <1>2, <1>3, <1>4

\* A step of a call keeps its part of the invariant.
LEMMA FitsStep ==
  ASSUME TypeOK, NEW c \in Calls, Fits(c), Begin(c) \/ Adapter(c) \/ Runner(c) \/ Release(c)
  PROVE  Fits(c)'
<1> USE DEF TypeOK, Fits, ProcFits, SessionFits, OutputFits, ResultFits, Alive
<1>1. CASE Begin(c)
  BY <1>1 DEF Begin, runner
<1>2. CASE Adapter(c)
  <2>1. CASE WithoutRunner(c)
    BY <2>1 DEF WithoutRunner, Answer, runner
  <2>2. CASE SpawnFails(c)
    BY <2>2 DEF SpawnFails, Answer, runner
  <2>3. CASE Spawn(c)
    BY <2>3 DEF Spawn
  <2>4. CASE Collect(c)
    <3>1. /\ Judge(code[c], out[c]) # "none"
          /\ Judge(code[c], out[c]) = "success" => code[c] = "ok" /\ out[c] = "ok"
          /\ Judge(code[c], out[c]) = "auth_failed" => code[c] = "ok" /\ out[c] = "auth"
      BY DEF Judge
    <3> QED
      BY <2>4, <3>1 DEF Collect, Answer, runner
  <2>5. CASE Timeout(c)
    BY <2>5 DEF Timeout, TimerMayFire, Answer
  <2>6. CASE Reap(c)
    BY <2>6 DEF Reap, Reaped, Answer, runner
  <2>7. CASE OandaResponds(c)
    <3>1. PICK resp \in Responses :
            /\ Answer(c, OandaOutcome(resp))
            /\ verdict' = [verdict EXCEPT ![c] =
                 CASE resp \in {"2xx", "2xx_odd"} -> "accepted"
                   [] resp \in {"401", "403"}     -> "refused"
                   [] OTHER                       -> "failed"]
      BY <2>7 DEF OandaResponds
    <3>2. /\ OandaOutcome(resp) # "none"
          /\ OandaOutcome(resp) = "success" => resp = "2xx"
          /\ OandaOutcome(resp) = "auth_failed" => resp \in {"401", "403"}
      BY DEF OandaOutcome, Responses
    <3> QED
      BY <2>7, <3>1, <3>2 DEF OandaResponds, Answer, Responses
  <2>8. CASE LoopSeesExit(c)
    BY <2>8 DEF LoopSeesExit
  <2> QED
    BY <1>2, <2>1, <2>2, <2>3, <2>4, <2>5, <2>6, <2>7, <2>8 DEF Adapter
<1>3. CASE Runner(c)
  <2>1. CASE RunnerLacksLibrary(c)
    BY <2>1 DEF RunnerLacksLibrary
  <2>2. CASE RunnerConnects(c)
    BY <2>2 DEF RunnerConnects
  <2>3. CASE RunnerAnswers(c)
    BY <2>3 DEF RunnerAnswers
  <2>4. CASE RunnerExits(c)
    BY <2>4 DEF RunnerExits
  <2>5. CASE ProcessDies(c)
    BY <2>5 DEF ProcessDies
  <2> QED
    BY <1>3, <2>1, <2>2, <2>3, <2>4, <2>5 DEF Runner
<1>4. CASE Release(c)
  BY <1>4 DEF Release
<1> QED
  BY <1>1, <1>2, <1>3, <1>4

\* Fits of a call depends on the state of that call only.
LEMMA OtherFits ==
  ASSUME NEW c \in Calls, NEW d \in Calls \ {c}, OthersKept(c), Fits(d)
  PROVE  Fits(d)'
  BY DEF OthersKept, Fits, ProcFits, SessionFits, OutputFits, ResultFits

\* Every step keeps the invariant.
LEMMA InvStep == IInv /\ [Next]_vars => IInv'
<1> SUFFICES ASSUME IInv, [Next]_vars PROVE IInv'
  OBVIOUS
<1>1. TypeOK /\ TypeOK'
  BY TypeStep DEF IInv
<1>2. ASSUME NEW d \in Calls PROVE Fits(d)'
  <2>1. Fits(d)
    BY DEF IInv, Fits
  <2>2. CASE UNCHANGED vars
    BY <2>1, <2>2 DEF vars, Fits, ProcFits, SessionFits, OutputFits, ResultFits
  <2>3. ASSUME NEW c \in Calls, Begin(c) \/ Adapter(c) \/ Runner(c) \/ Release(c)
        PROVE  Fits(d)'
    <3>1. CASE d = c
      BY <1>1, <2>1, <2>3, <3>1, FitsStep
    <3>2. CASE d # c
      BY <1>1, <2>1, <2>3, <3>2, OthersStep, OtherFits
    <3> QED
      BY <3>1, <3>2
  <2> QED
    BY <2>2, <2>3 DEF Next
<1> QED
  BY <1>1, <1>2 DEF IInv, Fits

\* The invariant holds in every behaviour.
LEMMA Inductive == Spec => []IInv
  BY InitFits, InvStep, PTL DEF Spec

\* The state of every call keeps its type.
THEOREM TypeCorrect == Spec => []TypeOK
<1>1. IInv => TypeOK
  BY DEF IInv
<1> QED
  BY <1>1, Inductive, PTL

\* No timeout, kill or dying runner makes an adapter report an acceptance or a refusal
\* that the broker did not give.
THEOREM AnswersAreTruthful == Spec => []Truthful
<1>1. IInv => Truthful
  BY DEF IInv, ResultFits, Truthful
<1> QED
  BY <1>1, Inductive, PTL

\* No subprocess is left running or unreaped behind an answer.
THEOREM NoneLeftBehind == Spec => []NoProcessLeft
<1>1. IInv => NoProcessLeft
  BY DEF IInv, ProcFits, NoProcessLeft
<1> QED
  BY <1>1, Inductive, PTL

\* When the adapter reports what the broker said, the session is closed.
THEOREM ShutdownFirst == Spec => []AnsweredAfterShutdown
<1>1. IInv => AnsweredAfterShutdown
  BY DEF IInv, ResultFits, AnsweredAfterShutdown
<1> QED
  BY <1>1, Inductive, PTL

\* Every step of an adapter asks, answers with one of the promised outcomes, releases
\* or stutters: the safety part of BrokerCall, that is, of ImplementsCall.
THEOREM CallSteps == Spec => Call!Init /\ [][Call!Next]_CallState
<1>1. Init => Call!Init
  BY DEF Init, Call!Init, CallState
<1>2. IInv /\ [Next]_vars => [Call!Next]_CallState
  <2> SUFFICES ASSUME IInv, [Next]_vars PROVE Call!Next \/ CallState' = CallState
    OBVIOUS
  <2> USE DEF IInv, TypeOK
  <2>1. CASE UNCHANGED vars
    BY <2>1 DEF vars, CallState
  <2>2. ASSUME NEW c \in Calls, Begin(c) \/ Adapter(c) \/ Runner(c) \/ Release(c)
        PROVE  Call!Next \/ CallState' = CallState
    <3> DEFINE Seen(d) == IF stage[d] = "idle" THEN "none"
                          ELSE IF stage[d] = "done" THEN result[d] ELSE "asked"
    <3>1. OthersKept(c) /\ IInv'
      BY <2>2, OthersStep, InvStep DEF Next
    <3>2. CallState' = [CallState EXCEPT ![c] = Seen(c)']
      BY <3>1 DEF OthersKept, CallState
    <3>3. CallState[c] = Seen(c)
      BY DEF CallState
    <3>4. CASE stage'[c] = stage[c] /\ result'[c] = result[c]
      <4>1. Seen(c)' = Seen(c)
        BY <3>4
      <4>2. CallState = [d \in Calls |-> Seen(d)]
        BY DEF CallState
      <4> QED
        BY <3>2, <3>3, <4>1, <4>2
    <3>5. CASE Begin(c)
      <4>1. Seen(c) = "none" /\ Seen(c)' = "asked"
        BY <3>5 DEF Begin, AdapterStages
      <4> QED
        BY <3>2, <3>3, <4>1 DEF Call!Next, Call!Ask
    <3>6. CASE Release(c)
      <4>1. Seen(c) \in Call!Outcomes /\ Seen(c)' = "none"
        BY <3>6 DEF Release, ResultFits, Answers, Call!Outcomes
      <4> QED
        BY <3>2, <3>3, <4>1 DEF Call!Next, Call!Release
    <3>7. CASE stage[c] \notin {"idle", "done"} /\ stage'[c] = "done"
      <4>1. Seen(c) = "asked" /\ Seen(c)' \in Call!Outcomes
        BY <3>1, <3>7 DEF ResultFits, Answers, Call!Outcomes
      <4> QED
        BY <3>2, <3>3, <4>1 DEF Call!Next, Call!Answer, Call!Reply
    <3>8. CASE stage[c] \notin {"idle", "done"} /\ stage'[c] \notin {"idle", "done"}
      <4>1. Seen(c)' = Seen(c)
        BY <3>8
      <4>2. CallState = [d \in Calls |-> Seen(d)]
        BY DEF CallState
      <4> QED
        BY <3>2, <3>3, <4>1, <4>2
    <3>9. CASE Adapter(c) \/ Runner(c)
      <4>1. \/ stage'[c] = stage[c] /\ result'[c] = result[c]
            \/ stage[c] \notin {"idle", "done"} /\ stage'[c] = "done"
            \/ stage[c] \notin {"idle", "done"} /\ stage'[c] \notin {"idle", "done"}
        BY <3>9 DEF Adapter, WithoutRunner, SpawnFails, Spawn, Collect, Timeout, TimerMayFire,
           Reap, OandaResponds, LoopSeesExit, Answer, runner, Runner, RunnerLacksLibrary,
           RunnerConnects, RunnerAnswers, RunnerExits, ProcessDies
      <4> QED
        BY <4>1, <3>4, <3>7, <3>8
    <3> QED
      BY <2>2, <3>5, <3>6, <3>9
  <2> QED
    BY <2>1, <2>2 DEF Next
<1> QED
  BY <1>1, <1>2, Inductive, PTL DEF Spec
=============================================================================
