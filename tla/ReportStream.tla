----------------------------- MODULE ReportStream -----------------------------
(***************************************************************************)
(* What each half of a running gadget, device -> host (InPath) and host -> *)
(* device (OutPath), promises of each source of reports: the reports come  *)
(* out in order, each once and none left out, at most Capacity of them are *)
(* under way, and while the gadget runs each one does come out.            *)
(***************************************************************************)
EXTENDS Integers

CONSTANTS Source, Capacity

VARIABLES
  produced,  \* reports of each source that went in
  consumed,  \* reports of each source that came out
  stopped    \* the gadget is shut down

streamVars == <<produced, consumed, stopped>>

Init ==
  /\ produced = [s \in Source |-> 0]
  /\ consumed = [s \in Source |-> 0]
  /\ stopped = FALSE

Produce(s) ==
  /\ produced[s] - consumed[s] < Capacity
  /\ produced' = [produced EXCEPT ![s] = @ + 1]
  /\ UNCHANGED <<consumed, stopped>>

Consume(s) ==
  /\ consumed[s] < produced[s]
  /\ consumed' = [consumed EXCEPT ![s] = @ + 1]
  /\ UNCHANGED <<produced, stopped>>

Stop ==
  /\ ~stopped
  /\ stopped' = TRUE
  /\ UNCHANGED <<produced, consumed>>

Next == Stop \/ \E s \in Source : Produce(s) \/ Consume(s)

Spec == Init /\ [][Next]_streamVars

FairSpec == Spec /\ \A s \in Source : WF_streamVars(~stopped /\ Consume(s))
=============================================================================
