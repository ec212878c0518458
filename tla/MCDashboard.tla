----------------------------- MODULE MCDashboard -----------------------------
(* The bounds of an instance, by kind of page: what two writes do to each     *)
(* other, what a loss or somebody else does to one, and where a page leads.   *)
EXTENDS Dashboard

MCMaxWrites == [k \in AllKinds |-> IF k \in {"kiosk", "app"} THEN 1 ELSE 2]
MCMaxOdds   == [k \in AllKinds |-> 1]
MCMaxMounts == [k \in AllKinds |-> IF k \in {"client", "kiosk", "app"} THEN 3 ELSE 2]

\* The pages with the most buttons: two writes, or one and something odd.
Busy == {"client", "group", "user", "api"}
SceneNext == Next /\ (kind \in Busy => made' + odds' <= 2)

FairSceneSpec == Init /\ [][SceneNext]_vars /\ Fairness
=============================================================================
