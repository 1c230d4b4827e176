---------------------------- MODULE BrokerAdapters ----------------------------
(***************************************************************************)
(* The two adapters of backend/app/brokers: one call of test_connection or *)
(* get_account_info from its first line to its answer.                     *)
(*                                                                         *)
(* MT5 starts workers/mt5_runner.py as a subprocess, writes the request to *)
(* its stdin and waits for its output with a timeout; OANDA is one request *)
(* over HTTP.  Credentials are well formed: the schemas saw to that.       *)
(***************************************************************************)
EXTENDS Naturals

CONSTANTS Calls, Modes

Settings == {"test", "unset", "runner"}
ASSUME ModesAssumption == Modes \subseteq Settings

VARIABLES
  mode,      \* MT5_TEST_MODE, or WINDOWS_HOST_RUNNER unset or set
  stage,     \* stage[c]: where the adapter is
  proc,      \* proc[c]: the subprocess
  code,      \* code[c]: its exit code, "ok" for 0
  out,       \* out[c]: what it wrote to stdout
  session,   \* session[c]: whether mt5.initialize was not followed by mt5.shutdown
  verdict,   \* verdict[c]: what the broker made of the credentials
  result     \* result[c]: the answer

vars == <<mode, stage, proc, code, out, session, verdict, result>>
runner == <<proc, code, out, session, verdict>>

(***************************************************************************)
(* Stages of the adapter: mt5 or oanda (nothing done yet), talk (in        *)
(* communicate), reap (in proc.wait after the kill), done.                 *)
(* Stages of the subprocess: started, connected (mt5.initialize returned), *)
(* closing (the answer is written), killed (SIGKILL pending), exited, gone *)
(* (the event loop has seen the exit and closed the transport).            *)
(***************************************************************************)
AdapterStages == {"idle", "mt5", "oanda", "talk", "reap", "done"}
ProcStages    == {"none", "started", "connected", "closing", "killed", "exited", "gone"}
Alive         == {"started", "connected", "closing"}
Verdicts      == {"none", "accepted", "refused", "failed"}
Outputs       == {"none", "ok", "auth", "error"}
Answers       == {"none", "success", "auth_failed", "connection_error", "raised"}

Init ==
  /\ mode \in Modes
  /\ stage   = [c \in Calls |-> "idle"]
  /\ proc    = [c \in Calls |-> "none"]
  /\ code    = [c \in Calls |-> "none"]
  /\ out     = [c \in Calls |-> "none"]
  /\ session = [c \in Calls |-> FALSE]
  /\ verdict = [c \in Calls |-> "none"]
  /\ result  = [c \in Calls |-> "none"]

\* get_adapter and the call of one of its methods.
Begin(c) ==
  /\ stage[c] = "idle"
  /\ \E adapter \in {"mt5", "oanda"} : stage' = [stage EXCEPT ![c] = adapter]
  /\ UNCHANGED <<mode, runner, result>>

Answer(c, answer) ==
  /\ stage'  = [stage EXCEPT ![c] = "done"]
  /\ result' = [result EXCEPT ![c] = answer]
  /\ UNCHANGED mode
-----------------------------------------------------------------------------
(* MT5                                                                     *)

\* The canned answer of the test mode, or no runner is configured.
WithoutRunner(c) ==
  /\ stage[c] = "mt5" /\ mode # "runner"
  /\ Answer(c, IF mode = "test" THEN "success" ELSE "connection_error")
  /\ UNCHANGED runner

\* Only a FileNotFoundError of create_subprocess_exec is turned into a BrokerError.
SpawnFails(c) ==
  /\ stage[c] = "mt5" /\ mode = "runner"
  /\ \E answer \in {"connection_error", "raised"} : Answer(c, answer)
  /\ UNCHANGED runner

Spawn(c) ==
  /\ stage[c] = "mt5" /\ mode = "runner"
  /\ stage' = [stage EXCEPT ![c] = "talk"]
  /\ proc'  = [proc EXCEPT ![c] = "started"]
  /\ UNCHANGED <<mode, code, out, session, verdict, result>>

\* _fail: MetaTrader5 cannot be imported, before there is anything to shut down.
RunnerLacksLibrary(c) ==
  /\ proc[c] = "started"
  /\ proc' = [proc EXCEPT ![c] = "exited"]
  /\ code' = [code EXCEPT ![c] = "ok"] /\ out' = [out EXCEPT ![c] = "error"]
  /\ UNCHANGED <<mode, stage, session, verdict, result>>

\* _connect: mt5.initialize logs in, is refused, or fails for another reason; the
\* last two are written out at once.
RunnerConnects(c) ==
  /\ proc[c] = "started"
  /\ \/ /\ proc' = [proc EXCEPT ![c] = "connected"]
        /\ session' = [session EXCEPT ![c] = TRUE]
        /\ verdict' = [verdict EXCEPT ![c] = "accepted"]
        /\ UNCHANGED out
     \/ \E v \in {"refused", "failed"} :
          /\ proc' = [proc EXCEPT ![c] = "closing"]
          /\ verdict' = [verdict EXCEPT ![c] = v]
          /\ out' = [out EXCEPT ![c] = IF v = "refused" THEN "auth" ELSE "error"]
          /\ UNCHANGED session
  /\ UNCHANGED <<mode, stage, code, result>>

\* The operation: its data, or an error such as account_info() returning None.
RunnerAnswers(c) ==
  /\ proc[c] = "connected"
  /\ proc' = [proc EXCEPT ![c] = "closing"]
  /\ \E o \in {"ok", "error"} : out' = [out EXCEPT ![c] = o]
  /\ UNCHANGED <<mode, stage, code, session, verdict, result>>

\* mt5.shutdown in the finally, then the process ends.
RunnerExits(c) ==
  /\ proc[c] = "closing"
  /\ proc' = [proc EXCEPT ![c] = "exited"] /\ code' = [code EXCEPT ![c] = "ok"]
  /\ session' = [session EXCEPT ![c] = FALSE]
  /\ UNCHANGED <<mode, stage, out, verdict, result>>

\* The interpreter dies, or the kernel carries out the kill.
ProcessDies(c) ==
  /\ proc[c] \in Alive \union {"killed"}
  /\ proc' = [proc EXCEPT ![c] = "exited"] /\ code' = [code EXCEPT ![c] = "failed"]
  /\ UNCHANGED <<mode, stage, out, session, verdict, result>>

\* asyncio learns of the exit, wakes the waiters and forgets the process.
LoopSeesExit(c) ==
  /\ proc[c] = "exited"
  /\ proc' = [proc EXCEPT ![c] = "gone"]
  /\ UNCHANGED <<mode, stage, code, out, session, verdict, result>>

\* Mutants of Judge: the exit code is not looked at; every error is one of credentials.
JudgeOutputOnly(exit, written)  ==
  CASE written = "ok" -> "success" [] written = "auth" -> "auth_failed"
    [] OTHER -> "connection_error"
JudgeAuthByDefault(exit, written) ==
  IF exit = "ok" /\ written = "ok" THEN "success" ELSE "auth_failed"

Judge(exit, written) ==
  IF exit # "ok" THEN "connection_error"
  ELSE CASE written = "ok"   -> "success"
         [] written = "auth" -> "auth_failed"
         [] OTHER            -> "connection_error"

\* communicate returned in time.  The data of an ok has every key that is read then: the
\* operations of mt5_runner.py write them all.
Collect(c) ==
  /\ stage[c] = "talk" /\ proc[c] = "gone"
  /\ Answer(c, Judge(code[c], out[c]))
  /\ UNCHANGED runner

\* Mutant of TimerMayFire: communicate is awaited without a timeout.
NoTimer(c) == FALSE

TimerMayFire(c) == stage[c] = "talk"

\* The timer is first.  The kill of a process that is gone already raises
\* ProcessLookupError, which nobody catches.
Timeout(c) ==
  /\ TimerMayFire(c)
  /\ \/ /\ proc[c] = "gone" /\ Answer(c, "raised") /\ UNCHANGED proc
     \/ /\ proc[c] # "gone"
        /\ stage' = [stage EXCEPT ![c] = "reap"]
        /\ proc'  = [proc EXCEPT ![c] = IF @ = "exited" THEN @ ELSE "killed"]
        /\ UNCHANGED <<mode, result>>
  /\ UNCHANGED <<code, out, session, verdict>>

\* Mutant of Reaped: the answer does not wait for the killed process.
NotReaped(c) == TRUE

Reaped(c) == proc[c] = "gone"

Reap(c) ==
  /\ stage[c] = "reap" /\ Reaped(c)
  /\ Answer(c, "connection_error")
  /\ UNCHANGED runner
-----------------------------------------------------------------------------
(* OANDA                                                                   *)

Responses == {"2xx", "2xx_odd", "401", "403", "404", "5xx", "4xx", "none"}

\* _raise_for_status and what follows; a 2xx whose body is not the JSON it should be
\* raises ValueError or KeyError.  "none" is a timeout or a network error.
OandaOutcome(resp) ==
  CASE resp = "2xx"            -> "success"
    [] resp = "2xx_odd"        -> "raised"
    [] resp \in {"401", "403"} -> "auth_failed"
    [] OTHER                   -> "connection_error"

OandaResponds(c) ==
  /\ stage[c] = "oanda"
  /\ \E resp \in Responses :
       /\ Answer(c, OandaOutcome(resp))
       /\ verdict' = [verdict EXCEPT ![c] =
            CASE resp \in {"2xx", "2xx_odd"} -> "accepted"
              [] resp \in {"401", "403"}     -> "refused"
              [] OTHER                       -> "failed"]
  /\ UNCHANGED <<proc, code, out, session>>

\* The caller has the answer and forgets the adapter.
Release(c) ==
  /\ stage[c] = "done"
  /\ stage'   = [stage EXCEPT ![c] = "idle"]
  /\ proc'    = [proc EXCEPT ![c] = "none"]
  /\ code'    = [code EXCEPT ![c] = "none"]
  /\ out'     = [out EXCEPT ![c] = "none"]
  /\ session' = [session EXCEPT ![c] = FALSE]
  /\ verdict' = [verdict EXCEPT ![c] = "none"]
  /\ result'  = [result EXCEPT ![c] = "none"]
  /\ UNCHANGED mode
-----------------------------------------------------------------------------
Runner(c) ==
  \/ RunnerLacksLibrary(c) \/ RunnerConnects(c) \/ RunnerAnswers(c) \/ RunnerExits(c)
  \/ ProcessDies(c)

Adapter(c) ==
  \/ WithoutRunner(c) \/ SpawnFails(c) \/ Spawn(c) \/ Collect(c) \/ Timeout(c) \/ Reap(c)
  \/ OandaResponds(c) \/ LoopSeesExit(c)

Next == \E c \in Calls : Begin(c) \/ Adapter(c) \/ Runner(c) \/ Release(c)

\* The timers of the two adapters fire, the event loop runs, and a killed process
\* ends.  Nothing is assumed of the runner or of the broker.
Fairness ==
  \A c \in Calls :
    /\ WF_vars(Adapter(c))
    /\ WF_vars(proc[c] = "killed" /\ ProcessDies(c))

Spec == Init /\ [][Next]_vars /\ Fairness
-----------------------------------------------------------------------------
TypeOK ==
  /\ mode \in Modes /\ stage \in [Calls -> AdapterStages]
  /\ proc \in [Calls -> ProcStages] /\ code \in [Calls -> {"none", "ok", "failed"}]
  /\ out \in [Calls -> Outputs] /\ session \in [Calls -> BOOLEAN]
  /\ verdict \in [Calls -> Verdicts] /\ result \in [Calls -> Answers]

\* base.py:74 "Verify credentials work": no timeout, kill or dying runner makes an
\* adapter report an acceptance or a refusal the broker did not give.  The canned
\* answers of the test mode are not about a broker.
Truthful ==
  \A c \in Calls :
    /\ result[c] = "success" => verdict[c] = "accepted" \/ mode = "test"
    /\ result[c] = "auth_failed" => verdict[c] = "refused"

\* However a call ends, by its output or by the kill, no subprocess is left running
\* or unreaped behind the answer.
NoProcessLeft == \A c \in Calls : stage[c] = "done" => proc[c] \in {"none", "gone"}

\* mt5_runner.py:32 "kills the MT5 connection on exit": when the adapter reports what
\* the broker said, the session that found it out is closed.  A kill skips the
\* finally, and then the call reports a connection error.
AnsweredAfterShutdown ==
  \A c \in Calls : result[c] \in {"success", "auth_failed"} => ~session[c]

\* What the caller sees of a call.
CallState == [c \in Calls |-> IF stage[c] = "idle" THEN "none"
                              ELSE IF stage[c] = "done" THEN result[c] ELSE "asked"]

Call == INSTANCE BrokerCall WITH
          Failures <- {"auth_failed", "connection_error"}, call <- CallState

\* Whoever asks is answered once and in bounded time, even if the runner and the
\* broker never do anything: see BrokerCall.
ImplementsCall == Call!Spec
=============================================================================
