-------------------------------- MODULE Runner --------------------------------
(***************************************************************************)
(* What every tick of scheduler/runner.py asks before it starts, releases  *)
(* or claims anything: the operator's pause, the company profile and the   *)
(* night's rotation. While one of them holds, the loop only beats.         *)
(***************************************************************************)

VARIABLE holding \* the tick does nothing: paused, no company profile, rotating

HoldsOrGoesOn == holding' = ~holding

=============================================================================
