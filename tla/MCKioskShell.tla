--------------------------- MODULE MCKioskShell ---------------------------
(* Two scenes of KioskShell for TLC, which a behaviour never changes: one  *)
(* kiosk and its accidents; and one device that is paired as either of two *)
(* kiosks in turn, with nothing lost.                                      *)
EXTENDS KioskShell

CONSTANT k1

VARIABLE scene   \* "accidents" or "two kiosks"

\* Nobody pairs, re-sets or revokes k.
LeftAlone(k) ==
    /\ k \in codes' \ gone' /\ k \in service'
    /\ secret'[k] = 0 /\ epoch'[k] = 0
    /\ \A c \in pairs' : c.kiosk # k

SceneInit == Init /\ scene \in {"accidents", "two kiosks"}

SceneNext ==
    /\ Next
    /\ \/ scene = "accidents" /\ \A k \in Kiosks \ {k1} : LeftAlone(k)
       \/ scene = "two kiosks" /\ UNCHANGED faults
    /\ UNCHANGED scene

FairSceneSpec == SceneInit /\ [][SceneNext]_<<vars, scene>> /\ Fairness
===========================================================================
