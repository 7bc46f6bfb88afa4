------------------------------ MODULE Pipeline ------------------------------
(***************************************************************************)
(* What pause and resume promise about a sequential pipeline               *)
(* (docs/functionalities.md, "Sequential" and "Pipeline Pause/Resume"):    *)
(* the steps run in order, a step that needs an approval stops the whole   *)
(* pipeline, and after the approval it goes on at that very step.  A       *)
(* resumed run that fails leaves the pipeline paused where it was.         *)
(***************************************************************************)
EXTENDS Naturals

CONSTANT Steps  \* the number of steps

VARIABLES
    phase,  \* "idle", "running", "pausing" or "paused"
    at,     \* the step that runs, 0 before the first
    kept    \* the step at which the stored pause is, 0 for none

pipelineVars == <<phase, at, kept>>

PipelineInit == phase = "idle" /\ at = 0 /\ kept = 0

Move(from, to) == phase = from /\ phase' = to

Start == Move("idle", "running") /\ at' = 0 /\ UNCHANGED kept

\* The first step of a run: the one the pause is at, if there is one
Begin ==
    /\ Move("running", "running")
    /\ at = 0
    /\ at' = IF kept = 0 THEN 1 ELSE kept
    /\ UNCHANGED kept

Advance ==
    /\ Move("running", "running")
    /\ at \in 1 .. Steps - 1
    /\ at' = at + 1
    /\ UNCHANGED kept

Ask == Move("running", "pausing") /\ at > 0 /\ kept' = at /\ UNCHANGED at

Stop == Move("pausing", "paused") /\ UNCHANGED <<at, kept>>

Resume == Move("paused", "running") /\ at' = 0 /\ UNCHANGED kept

Fail == Move("running", "paused") /\ kept > 0 /\ at' = kept /\ UNCHANGED kept

Finish == Move("running", "idle") /\ at' = 0 /\ kept' = 0

Drop == Move("paused", "idle") /\ at' = 0 /\ kept' = 0

PipelineNext ==
    \/ Start \/ Begin \/ Advance \/ Ask \/ Stop
    \/ Resume \/ Fail \/ Finish \/ Drop

PipelineSpec == PipelineInit /\ [][PipelineNext]_pipelineVars

=============================================================================
