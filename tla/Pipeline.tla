------------------------------ MODULE Pipeline ------------------------------
(***************************************************************************)
(* What the workflow of a project promises, whatever reopens, holds or     *)
(* rejects a stage on the way: a stage opens when everything it depends on *)
(* was approved, and a stage is approved after it was opened.              *)
(***************************************************************************)
EXTENDS Integers

CONSTANTS Last, Templates

VARIABLES deps,    \* the stages that each stage depends on
          opened,  \* stages entered so far
          passed   \* stages approved so far

Stages == 1 .. Last
vars   == <<deps, opened, passed>>

Init ==
  /\ deps \in Templates
  /\ opened = {1} /\ passed = {}

Approve(s) ==
  /\ s \in opened /\ deps[s] \subseteq passed
  /\ passed' = passed \cup {s}
  /\ UNCHANGED <<deps, opened>>

Open(S) ==
  /\ \A s \in S : deps[s] \subseteq passed
  /\ opened' = opened \cup S
  /\ UNCHANGED <<deps, passed>>

Next == (\E s \in Stages : Approve(s)) \/ (\E S \in SUBSET Stages : Open(S))

Spec == Init /\ [][Next]_vars
=============================================================================
