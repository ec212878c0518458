-------------------------- MODULE MCAuthorizeFlow --------------------------
(* Two scenes of AuthorizeFlow for TLC, which a behaviour never changes:     *)
(* every kind of request, made in one tab at a time of a new browser; and    *)
(* two tabs at once, of somebody already signed in, on the same challenge.   *)
EXTENDS AuthorizeFlow, TLC

CONSTANTS u1, u2, s1, s2

Plain  == [fresh |-> FALSE, consent |-> FALSE, silent |-> FALSE, hint |-> None,
           level |-> 0, scope |-> {"a"}, trusted |-> FALSE]
Anew   == [Plain EXCEPT !.fresh = TRUE, !.consent = TRUE]
Silent == [Plain EXCEPT !.silent = TRUE]
Hinted == [Plain EXCEPT !.hint = u1, !.trusted = TRUE]
Face   == [Plain EXCEPT !.level = 3, !.trusted = TRUE]
More   == [Plain EXCEPT !.scope = {"b"}]

AsksAlone    == {Anew, Hinted, Face}
AsksTogether == {Silent, More}
MCAsks == AsksAlone \cup AsksTogether

VARIABLE scene   \* "alone" or "together"

\* Tabs and challenge ids are interchangeable.
Symmetry == Permutations(Tab) \cup Permutations(Challenge)

\* A new browser; u1 has second factors, nobody else has.
AloneInit ==
    /\ scene = "alone"
    /\ cookie = None
    /\ \A u \in User : consents[u] = None
    /\ enrolled = [u \in User |-> IF u = u1 THEN Factor ELSE {}]

\* Somebody is signed in, and has consented to one scope.
TogetherInit ==
    /\ scene = "together"
    /\ cookie = s1 /\ session[s1].user = u1
    /\ consents = [u \in User |-> IF u = u1 THEN [born |-> 0, scope |-> {"a"}] ELSE None]
    /\ enrolled = [u \in User |-> {}]

\* What a tab does in either scene.
InTab(t) ==
    \/ Close(t) \/ Send(t) \/ Touch(t) \/ ReadChallenge(t)
    \/ Decide(t) \/ SaveChallenge(t) \/ Issue(t) \/ Delete(t)
    \/ Rejected(t) \/ NextStep(t)
    \/ \E m \in Factor : AddMethod(t, m)
    \/ Consent(t) \/ Record(t) \/ Die(t)

Unused(t) == page[t] = "none" /\ pc[t] = "idle"

AloneNext ==
    \E t \in Tab :
        /\ \A x \in Tab \ {t} : Unused(x)
        /\ \/ InTab(t) \/ Logout(t) \/ Drop(t)
           \/ \E p \in AsksAlone : Open(t, p) \/ \E h \in Challenge : Reopen(t, p, h)
           \/ \E u \in User : SignIn(t, u)
           \/ \E s \in Session : Create(t, s)

\* Bounds of the scene: one challenge, and a shorter clock.
TogetherNext ==
    /\ \/ \E t \in Tab :
            \/ InTab(t) \/ SignIn(t, u1)
            \/ \E p \in AsksTogether : Open(t, p) \/ \E h \in Challenge : Reopen(t, p, h)
       \/ \E h \in Challenge : Expire(h)
       \/ Withdraw(u1) \/ Enrol(u1, "otp")
    /\ Cardinality(made') <= 1 /\ clock' <= 2

SceneInit == Init /\ (AloneInit \/ TogetherInit)

SceneSpec ==
    /\ SceneInit
    /\ [][/\ \/ scene = "alone" /\ AloneNext
             \/ scene = "together" /\ TogetherNext
          /\ UNCHANGED scene]_<<vars, scene>>
=============================================================================
