----------------------------- MODULE ScriptRun -----------------------------
(***************************************************************************)
(* What a script run promises: the steps are done in order; a step passes  *)
(* only if the reviewer accepted a claim of it; an accepted step is        *)
(* neither failed nor tried again; each step is tried at most MaxAttempts  *)
(* times, and the run passes only when all steps have passed.              *)
(***************************************************************************)
EXTENDS Naturals

CONSTANTS NumSteps, MaxAttempts

VARIABLES
  passed,    \* how many steps have passed
  tries,     \* the number of this attempt at the current step
  accepted,  \* the reviewer has accepted the current step
  result     \* "none" until the run is over

vars == <<passed, tries, accepted, result>>

Init == passed = 0 /\ tries = 1 /\ accepted = FALSE /\ result = "none"

Working == result = "none" /\ passed < NumSteps

Accept ==
  /\ Working /\ ~ accepted
  /\ accepted' = TRUE
  /\ UNCHANGED <<passed, tries, result>>

Pass ==
  /\ Working /\ accepted
  /\ passed' = passed + 1
  /\ tries' = 1
  /\ accepted' = FALSE
  /\ UNCHANGED result

Retry ==
  /\ Working /\ ~ accepted
  /\ tries < MaxAttempts
  /\ tries' = tries + 1
  /\ UNCHANGED <<passed, accepted, result>>

Fail ==
  /\ Working /\ ~ accepted
  /\ tries = MaxAttempts
  /\ result' = "failed"
  /\ UNCHANGED <<passed, tries, accepted>>

Succeed ==
  /\ result = "none"
  /\ passed = NumSteps
  /\ result' = "passed"
  /\ UNCHANGED <<passed, tries, accepted>>

(* The machine or the model is unreachable, or the run has gone on for too *)
(* long.                                                                   *)
Stop ==
  /\ result = "none"
  /\ result' = "stopped"
  /\ UNCHANGED <<passed, tries, accepted>>

Next == Accept \/ Pass \/ Retry \/ Fail \/ Succeed \/ Stop

Spec == Init /\ [][Next]_vars
=============================================================================
