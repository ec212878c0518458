------------------------- MODULE MCRefreshScenes -------------------------
(* Two scenes of RefreshRotation for TLC, which a behaviour never changes: *)
(* one family, with all that can go wrong in an exchange; and two, with    *)
(* the accounts and tokens that change under the sweeps.                   *)
EXTENDS MCRefreshRotation

VARIABLE scene   \* "rotation" or "revocation"

RevocationNext ==
    \/ \E f \in Family, t \in Token : Redeem(f, t)
    \/ \E r \in Request, t \in Token, c \in Client : Present(r, t, c)
    \/ \E r \in Request, fs \in (SUBSET Family) \ {{}} : Revoke(r, fs)
    \/ \E r \in Request : Step(r)
    \/ \E t \in Token : TokenExpires(t)
    \/ \E u \in User : SetActive(u)

SceneInit == Init /\ scene \in {"rotation", "revocation"}

SceneSpec ==
    /\ SceneInit
    /\ [][/\ \/ scene = "rotation" /\ RotationNext
             \/ scene = "revocation" /\ RevocationNext
          /\ UNCHANGED scene]_<<vars, scene>>

\* Sweeps of both families, in whatever order they come to the rows, beside
\* exchanges of either and workers that die.
SweepingNext ==
    \/ \E f \in Family, t \in Token : Redeem(f, t)
    \/ \E r \in Request, t \in Token, c \in Client : Present(r, t, c)
    \/ \E r \in Request : Revoke(r, Family) \/ Step(r) \/ Crash(r)

FairSceneInit == Init /\ scene \in {"rotation", "sweeping"}

\* What becomes of the requests of either scene, everybody scheduled fairly.
FairSceneSpec ==
    /\ FairSceneInit
    /\ [][/\ \/ scene = "rotation" /\ RotationNext
             \/ scene = "sweeping" /\ SweepingNext
          /\ UNCHANGED scene]_<<vars, scene>>
    /\ Fairness
==========================================================================
