---------------------------- MODULE CaptureRun ----------------------------
(***************************************************************************)
(* What a face capture promises the screen that shows it: frames are       *)
(* handed over once per run, all of them taken while it was on the screen. *)
(* A capture that has its frames hands them over even after it has left.   *)
(***************************************************************************)
VARIABLES on,      \* the capture is on the screen
          stage    \* "ready", "framing", "settling", "handed" or "failed"

vars == <<on, stage>>

Init == on = TRUE /\ stage = "ready"

Start == on /\ stage \in {"ready", "failed"} /\ stage' = "framing" /\ UNCHANGED on

\* The last frame needs the picture.
LastFrame == on /\ stage = "framing" /\ stage' = "settling" /\ UNCHANGED on

Fail == stage = "framing" /\ stage' = "failed" /\ UNCHANGED on

Hand == stage = "settling" /\ stage' = "handed" /\ UNCHANGED on

Leave == on /\ on' = FALSE /\ UNCHANGED stage

Next == Start \/ LastFrame \/ Fail \/ Hand \/ Leave

Spec == Init /\ [][Next]_vars
===========================================================================
