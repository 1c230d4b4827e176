------------------------------ MODULE BrokerCall ------------------------------
(***************************************************************************)
(* What a handler relies on when it calls an adapter (backend/app/brokers/ *)
(* base.py): whoever asks is answered once, with one of four outcomes, and *)
(* within a bounded time.                                                  *)
(***************************************************************************)
CONSTANTS
  Calls,
  Failures   \* what a failed test or a BrokerError may say

VARIABLE call   \* call[c]: "none", "asked", or how it was answered

\* "raised" is an exception that is not a BrokerError.
Outcomes == {"success", "raised"} \union Failures

Init == call = [c \in Calls |-> "none"]

Ask(c)      == call[c] = "none" /\ call' = [call EXCEPT ![c] = "asked"]
Reply(c, o) == call[c] = "asked" /\ call' = [call EXCEPT ![c] = o]
Release(c)  == call[c] \in Outcomes /\ call' = [call EXCEPT ![c] = "none"]
Answer(c)   == \E o \in Outcomes : Reply(c, o)

Next == \E c \in Calls : Ask(c) \/ Answer(c) \/ Release(c)

Spec == Init /\ [][Next]_call /\ \A c \in Calls : WF_call(Answer(c))
=============================================================================
