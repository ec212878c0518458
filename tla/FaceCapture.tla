---------------------------- MODULE FaceCapture ----------------------------
(***************************************************************************)
(* The kiosk's capture (kiosk/client/src/ui): the camera hook, the head    *)
(* tracker it loads, and the run that follows the provider's steps, guided *)
(* by the tracker or on a timer.  The component may leave the screen at    *)
(* any await.  A reading of the tracker is whether the person is where the *)
(* step wants them ("there") or not; a frame is the step it was taken for. *)
(***************************************************************************)
EXTENDS Naturals, Sequences, FiniteSets

CONSTANTS Moves,       \* the head movements: the keys of MOVES
          Center,      \* any other step: look straight ahead
          MaxSteps,    \* bound: steps of a challenge
          Steady,      \* STEADY: readings in a row
          Window,      \* readings that fit a window (LOOK_WINDOW_MS, ACTION_MAX_MS)
          MaxEffects,  \* bound: times the camera effect runs
          MaxRuns      \* bound: presses of Start

ASSUME CaptureAssumption == /\ Center \notin Moves
                            /\ {MaxSteps, Steady, Window, MaxEffects, MaxRuns} \subseteq Nat
                            /\ 0 < Steady /\ Steady <= Window

VARIABLES
    steps,     \* challenge.steps
    mounted,   \* the component is on the screen
    effect,    \* which run of useCamera's effect is current (prefer changed in between)
    opening,   \* effects inside start(), and how far: "first" or "match"
    streams,   \* effects whose camera stream is live
    status,    \* useCamera's status
    loads,     \* runs of the tracker's effect whose tracker is still loading
    wanted,    \* the run of the tracker's effect not cancelled, or 0
    tracker,   \* tracker.current: "none" or "running"
    settled,   \* trackerSettled
    run,       \* where run() waits: "idle", "prepare", "waiting", "framing",
               \* "pause", or how it ended: "handed", "failed"
    mode,      \* "guided" or "timed", fixed when the run starts
    group,     \* index of the group of steps under way
    taken,     \* frames taken of this group
    streak,    \* until(): readings in a row that held
    polls,     \* until(): readings made
    frames,    \* the frames so far
    waited,    \* for each frame, whether until() returned true just before it
    started    \* presses of Start so far

cam == <<effect, opening, streams, status>>
head == <<loads, wanted, tracker, settled>>
runvars == <<run, mode, group, taken, streak, polls, frames, waited, started>>
vars == <<steps, mounted, effect, opening, streams, status, loads, wanted,
          tracker, settled, run, mode, group, taken, streak, polls, frames, waited,
          started>>

\* One more step: counted with the last group, or the first of its own.
Grouped(out, step) ==
    LET last == Len(out) IN
    IF out # <<>> /\ out[last].step = step
    THEN [out EXCEPT ![last] = [step |-> step, count |-> out[last].count + 1]]
    ELSE Append(out, [step |-> step, count |-> 1])

\* groups(): consecutive identical steps, so each is asked for once.
groups(s) ==
    LET out[n \in 0..Len(s)] == IF n = 0 THEN <<>> ELSE Grouped(out[n - 1], s[n])
    IN  out[Len(s)]

Plan == groups(steps)
Step == Plan[group].step
IsMove == Step \in Moves

Init == /\ steps \in UNION {[1..n -> Moves \cup {Center}] : n \in 1..MaxSteps}
        /\ mounted = TRUE
        /\ effect = 1 /\ opening = {<<1, "first">>} /\ streams = {}
        /\ status = "starting"
        /\ loads = {} /\ wanted = 0 /\ tracker = "none" /\ settled = FALSE
        /\ run = "idle" /\ mode = "timed" /\ group = 1 /\ taken = 0
        /\ streak = 0 /\ polls = 0 /\ frames = <<>> /\ waited = <<>> /\ started = 0

---------------------------------------------------------------------------
\* useCamera.

\* The effect's cleanup: cancelled, and the stream it assigned stopped.
Cleanup == streams' = streams \ {effect}

\* Mutant of Ready: whoever asked for it, the camera that comes is kept.
ReadyAnyway(e) ==
    /\ streams' = streams \cup {e} /\ status' = "ready"
    /\ IF status = "ready" THEN UNCHANGED <<loads, wanted>>
       ELSE loads' = loads \cup {e} /\ wanted' = e

\* The camera of effect e is on.  The tracker's effect follows the status: it
\* runs when the status becomes "ready" and is cleaned up when that changes.
Ready(e) ==
    IF mounted /\ e = effect
    THEN /\ streams' = streams \cup {e} /\ status' = "ready"
         /\ IF status = "ready"
            THEN UNCHANGED <<loads, wanted>>
            ELSE loads' = loads \cup {e} /\ wanted' = e
    ELSE UNCHANGED <<streams, status, loads, wanted>>

\* getUserMedia resolves.  The camera may be another than the named one, which
\* is then opened instead.
Opened(o) ==
    /\ o \in opening /\ o[2] = "first"
    /\ \/ /\ opening' = (opening \ {o}) \cup {<<o[1], "match">>}
          /\ UNCHANGED <<streams, status, loads, wanted>>
       \/ opening' = opening \ {o} /\ Ready(o[1])
    /\ UNCHANGED <<steps, mounted, effect, tracker, settled, runvars>>

OpenedMatch(o) ==
    /\ o \in opening /\ o[2] = "match"
    /\ opening' = opening \ {o} /\ Ready(o[1])
    /\ UNCHANGED <<steps, mounted, effect, tracker, settled, runvars>>

OpenFails(o) ==
    /\ o \in opening
    /\ opening' = opening \ {o}
    /\ IF mounted /\ o[1] = effect
       THEN status' = "denied" /\ wanted' = 0 /\ tracker' = "none"
       ELSE UNCHANGED <<status, wanted, tracker>>
    /\ UNCHANGED <<steps, mounted, effect, streams, loads, settled, runvars>>

\* The dashboard names another camera (settings.cameraLabel): the effect runs
\* again.  Its status stays what it was until the new camera answers.
PreferChanges ==
    /\ mounted /\ effect < MaxEffects
    /\ effect' = effect + 1
    /\ opening' = opening \cup {<<effect + 1, "first">>}
    /\ Cleanup
    /\ UNCHANGED <<steps, mounted, status, head, runvars>>

Unmount ==
    /\ mounted
    /\ mounted' = FALSE
    /\ Cleanup
    /\ wanted' = 0 /\ tracker' = "none"
    /\ UNCHANGED <<steps, effect, opening, status, loads, settled, runvars>>

---------------------------------------------------------------------------
\* The head tracker.

\* trackHead resolves; one whose effect was cancelled is stopped at once.
TrackerReady(l) ==
    /\ l \in loads /\ loads' = loads \ {l}
    /\ tracker' = IF l = wanted THEN "running" ELSE tracker
    /\ settled' = TRUE
    /\ UNCHANGED <<steps, mounted, cam, wanted, runvars>>

TrackerFails(l) ==
    /\ l \in loads /\ loads' = loads \ {l}
    /\ settled' = TRUE
    /\ UNCHANGED <<steps, mounted, cam, wanted, tracker, runvars>>

---------------------------------------------------------------------------
\* run().

\* Entering group g: a movement is announced first, a look is waited for.
Enter(g) ==
    /\ group' = g /\ taken' = 0 /\ streak' = 0 /\ polls' = 0
    /\ run' = IF g > Len(Plan) THEN "handed"
              ELSE IF Plan[g].step \in Moves THEN "prepare" ELSE "waiting"

Start ==
    /\ mounted /\ run \in {"idle", "failed"} /\ started < MaxRuns
    /\ status = "ready" /\ settled
    /\ started' = started + 1
    /\ mode' = IF tracker = "running" THEN "guided" ELSE "timed"
    /\ frames' = <<>> /\ waited' = <<>>
    /\ Enter(1)
    /\ UNCHANGED <<steps, mounted, cam, head>>

\* movement(): two seconds to read what comes next, then "go".
Go ==
    /\ run = "prepare"
    /\ run' = "waiting"
    /\ UNCHANGED <<steps, mounted, cam, head, mode, group, taken, streak, polls,
                   frames, waited, started>>

\* One reading of until().  The deadline is looked at before each reading, so
\* the window's last reading may still complete the streak.
Poll ==
    /\ run = "waiting" /\ mode = "guided" /\ polls < Window
    /\ \E there \in BOOLEAN :
         /\ streak' = IF there THEN streak + 1 ELSE 0
         /\ run' = IF streak' >= Steady THEN "framing" ELSE "waiting"
    /\ polls' = polls + 1
    /\ UNCHANGED <<steps, mounted, cam, head, mode, group, taken, frames, waited, started>>

\* Mutant of TimesOut: only a look has a deadline.
LookTimesOut ==
    /\ run = "waiting" /\ mode = "guided" /\ polls = Window /\ ~IsMove
    /\ run' = "failed"
    /\ UNCHANGED <<steps, mounted, cam, head, mode, group, taken, streak, polls,
                   frames, waited, started>>

\* StepTimeout: the window passed without the streak.
TimesOut ==
    /\ run = "waiting" /\ mode = "guided" /\ polls = Window
    /\ run' = "failed"
    /\ UNCHANGED <<steps, mounted, cam, head, mode, group, taken, streak, polls,
                   frames, waited, started>>

\* The timed capture waits a fixed time instead, once per group.
TimedWait ==
    /\ run = "waiting" /\ mode = "timed"
    /\ run' = "framing"
    /\ UNCHANGED <<steps, mounted, cam, head, mode, group, taken, streak, polls,
                   frames, waited, started>>

\* Mutant of Take: a look waits before its first frame alone.
TakeInOneGo ==
    /\ run = "framing" /\ mounted
    /\ frames' = Append(frames, Step)
    /\ waited' = Append(waited, streak >= Steady)
    /\ taken' = taken + 1
    /\ streak' = IF IsMove THEN streak ELSE 0
    /\ polls' = IF IsMove THEN polls ELSE 0
    /\ run' = IF taken' = Plan[group].count THEN "pause" ELSE "framing"
    /\ UNCHANGED <<steps, mounted, cam, head, mode, group, started>>

\* Mutant of Take: a frame needs no picture.
TakeUnseen ==
    /\ run = "framing"
    /\ frames' = Append(frames, Step)
    /\ waited' = Append(waited, streak >= Steady)
    /\ taken' = taken + 1
    /\ streak' = IF IsMove THEN streak ELSE 0
    /\ polls' = IF IsMove THEN polls ELSE 0
    /\ run' = IF taken' = Plan[group].count THEN "pause"
              ELSE IF mode = "guided" /\ ~IsMove THEN "waiting" ELSE "framing"
    /\ UNCHANGED <<steps, mounted, cam, head, mode, group, started>>

\* take(), then the gap.  A look waits again before every frame when guided;
\* a movement's frames follow each other.
Take ==
    /\ run = "framing"
    /\ IF mounted
       THEN /\ frames' = Append(frames, Step)
            /\ waited' = Append(waited, streak >= Steady)
            /\ taken' = taken + 1
            /\ streak' = IF IsMove THEN streak ELSE 0
            /\ polls' = IF IsMove THEN polls ELSE 0
            /\ run' = IF taken' = Plan[group].count THEN "pause"
                      ELSE IF mode = "guided" /\ ~IsMove THEN "waiting" ELSE "framing"
       ELSE run' = "failed" /\ UNCHANGED <<frames, waited, taken, streak, polls>>
    /\ UNCHANGED <<steps, mounted, cam, head, mode, group, started>>

\* The camera went away, or the canvas gave no picture.
TakeFails ==
    /\ run = "framing"
    /\ run' = "failed"
    /\ UNCHANGED <<steps, mounted, cam, head, mode, group, taken, streak, polls,
                   frames, waited, started>>

\* What is left of the movement's five seconds, or the gap after a look; after
\* the last group run() hands the frames over, mounted or not.
Pause ==
    /\ run = "pause"
    /\ Enter(group + 1)
    /\ UNCHANGED <<steps, mounted, cam, head, mode, frames, waited, started>>

---------------------------------------------------------------------------
Next == \/ \E o \in opening : Opened(o) \/ OpenedMatch(o) \/ OpenFails(o)
        \/ PreferChanges \/ Unmount
        \/ \E l \in loads : TrackerReady(l) \/ TrackerFails(l)
        \/ Start \/ Go \/ Poll \/ TimesOut \/ TimedWait \/ Take \/ TakeFails \/ Pause

Spec == Init /\ [][Next]_vars

\* Timers fire, readings are made, and a request for the camera is answered.
FairSpec == /\ Spec
            /\ WF_vars(Go \/ Poll \/ TimesOut \/ TimedWait \/ Take \/ Pause)
            /\ WF_vars(\E o \in opening : Opened(o) \/ OpenedMatch(o) \/ OpenFails(o))

---------------------------------------------------------------------------
\* "Every frame waits, not just the first": with a tracker, no look is taken of
\* a face not seen straight ahead for STEADY readings since the last frame, and
\* no movement before it was reached.
FramesWaitForThePerson ==
    mode = "guided" => \A i \in 1..Len(waited) : waited[i]

\* useCamera: a camera left on is the one of the screen that shows it.  After
\* an unmount, or a change of camera, nothing else is on once the requests in
\* flight have been answered.
OnlyTheShownCameraIsOn ==
    streams \subseteq (IF mounted THEN {effect} ELSE {})

\* A run that starts ends, handed over or failed, whatever the person does: a
\* person who never moves runs into the window (until, StepTimeout).
RunsEnd == (run \in {"prepare", "waiting", "framing", "pause"}) ~> (run \in {"handed", "failed"})

\* The capture keeps the promise KioskVisit's captures are built on.
stage == IF run \in {"handed", "failed"} THEN run
         ELSE IF run = "idle" THEN "ready"
         ELSE IF frames = steps THEN "settling" ELSE "framing"

Promise == INSTANCE CaptureRun WITH on <- mounted

KeepsItsPromise == Promise!Spec
============================================================================
