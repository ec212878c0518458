------------------------ MODULE MCRefreshRotation ------------------------
(* Small instances of RefreshRotation for TLC: one user, two clients, the  *)
(* families shared out between them; and one family by itself.             *)
EXTENDS RefreshRotation, TLC

CONSTANTS c1, c2, f1, f2, u1

MCClientOf == (f1 :> c1) @@ (f2 :> c2)
MCUserOf == [f \in Family |-> u1]
OneClientOf == f1 :> c1
BothClientOf == [f \in Family |-> c1]
OneUserOf == f1 :> u1

\* Tokens and workers are interchangeable.
Interchangeable == Permutations(Token) \cup Permutations(Request)

\* One family, with all that can go wrong in an exchange.
RotationNext ==
    \/ \E t \in Token : Redeem(f1, t)
    \/ \E r \in Request, t \in Token, c \in Client : Present(r, t, c)
    \/ \E r \in Request : Revoke(r, {f1}) \/ Step(r) \/ Crash(r)
    \/ \E t \in Token : LeaseExpires(t) \/ ReplayExpires(t)
==========================================================================
