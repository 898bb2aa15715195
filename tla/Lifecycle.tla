----------------------------- MODULE Lifecycle ------------------------------
(***************************************************************************)
(* What an executor promises to whoever listens to its reports: about each *)
(* job the phases come in order, the last one is Succeeded or Failed,      *)
(* success is reported only after a container ended well, and start,       *)
(* finish and failure are never taken back.  Dispatch relies on this;      *)
(* DockerExecutor implements it.                                           *)
(***************************************************************************)
EXTENDS Phases

CONSTANT Job

VARIABLE life    \* the last report about each job

Init == life = [j \in Job |-> NewLife]

Step(j, p, code) ==
  /\ p \in Follow(life[j].phase, life[j].bad)
  /\ CodeKnown(life[j].phase, p, code)
  /\ life' = [life EXCEPT ![j] = LifeStep(life[j], p, code)]

Next == \E j \in Job, p \in LifePhase, code \in BOOLEAN : Step(j, p, code)

Spec == Init /\ [][Next]_life
=============================================================================
