------------------------------- MODULE SignIn -------------------------------
(***************************************************************************)
(* The sign-in pages (web/auth-ui) in one browser tab, with the provider's *)
(* endpoints behind them: the login steps and the ways between them, the   *)
(* consent screen, and password recovery.                                  *)
(*                                                                         *)
(* React unmounts a step without stopping what it awaits: a request lives  *)
(* in "posts" until its answer lands, and a capture that has its last      *)
(* frame submits it from wherever the person has gone.  A mutation's       *)
(* onSuccess runs even then; its status is only shown by its own step.     *)
(***************************************************************************)
EXTENDS Naturals, FiniteSets

CONSTANTS None,
          TRIES,      \* faces that may fail to match before face sign-in pauses
          MaxSteps,   \* bound: steps mounted
          MaxChecks   \* bound: face challenges issued, and retries of one mounting

Methods == {"otp", "face"}
Kinds == {"challenge", "login", "otp", "check", "face", "allow", "deny", "reset", "forgot"}

\* What comes back: the provider's answers, and "network" when none does.
Replies == {"ok", "expired", "network", "rejected", "no_session", "complete", "required",
            "paused", "face_challenge_invalid", "poor_capture", "engine_unavailable",
            "face_rejected", "allow", "deny", "answered", "invalid_reset_token"}

ASSUME SignInAssumption ==
    /\ None \notin Nat \cup Kinds \cup Replies \cup {"choose", "resume", "sessions", "commit"}
    /\ \A S \in SUBSET Methods : None # S
    /\ {TRIES, MaxSteps, MaxChecks} \subseteq Nat

VARIABLES
    \* The page.
    route,      \* "login", "consent", "forgot" or "reset"
    chal,       \* the ["challenge", id] query: status and methods
    step,       \* LoginFlow's step, or None
    owed,       \* LoginFlow's owedMethods, or None
    flow,       \* which mounting of LoginFlow is on the screen
    mount,      \* which mounting of a step is
    status,     \* its mutation: "idle", "pending", "answered", "complete" or an error
    check,      \* FaceStep's faceChallenge query: status, challenge, and the attempt in its key
    camera,     \* FaceCapture's state
    leaving,    \* window.location.assign was called: where to, or None
    gone,       \* the page is unloaded
    posts,      \* requests sent, and not landed
    captures,   \* captures of unmounted steps that have their last frame
    sent,       \* history: the face challenges sent with a capture
    lost,       \* history: an answer to something done never arrived
    \* The provider.
    enrolled, need,   \* the person's second factors; what the client asks for
    asked,      \* the challenge's methods: {} unless it is a step-up
    amr,        \* the session's methods; {} without a session
    live,       \* the authorization challenge is known
    failures,   \* faces that failed to match
    issued,     \* face challenges issued, and those not consumed
    password, token, sweep, elsewhere   \* recovery; a session signed in elsewhere

view == <<chal, step, owed, flow, mount, status, check, camera>>
leave == <<leaving, gone>>
server == <<enrolled, need, asked, amr, live, failures, issued, password, token, sweep, elsewhere>>
factors == <<enrolled, need, asked, password, token, sweep, elsewhere>>
vars == <<route, view, leave, posts, captures, sent, lost, server>>

NoCheck == [status |-> "none", id |-> 0, attempt |-> 0]
Post(kind, id, m, f) == [kind |-> kind, id |-> id, mount |-> m, flow |-> f, attempt |-> 0,
                         reply |-> None, owes |-> {}]

\* What one second factor answers: the person's authenticator, and a client
\* that asks for two factors, whichever they are.
OwesAny(used) == used \cap Methods = {} /\ ("otp" \in enrolled \/ need = "mfa")

\* Mutant of Outstanding: what the client asks for, given or not.
OutstandingAnyway(used) ==
    IF need = "face" /\ "face" \in enrolled THEN {"face"}
    ELSE IF OwesAny(used) THEN enrolled
    ELSE {}

\* Mutant of Outstanding: one second factor does not do for the other.
OutstandingBoth(used) == enrolled \ used

\* auth_methods.outstanding: a client that asks for a face takes nothing else.
Outstanding(used) ==
    IF need = "face" /\ "face" \in enrolled THEN {"face"} \ used
    ELSE IF OwesAny(used) THEN enrolled
    ELSE {}

Init ==
    /\ route \in {"login", "consent", "reset"}
    /\ enrolled \in SUBSET Methods /\ need \in {"any", "mfa", "face"}
    /\ amr \in {{}} \cup {{"pwd"} \cup given : given \in SUBSET enrolled} /\ live = TRUE
    /\ chal = [status |-> "pending", methods |-> {}]
    /\ asked \in {{}, IF amr = {} THEN {} ELSE Outstanding(amr)}
    /\ step = None /\ owed = None /\ flow = 1 /\ mount = 0 /\ status = "idle"
    /\ check = NoCheck /\ camera = "off" /\ leaving = None /\ gone = FALSE
    /\ posts = IF route = "reset" THEN {} ELSE {Post("challenge", 0, 0, 1)}
    /\ captures = {} /\ sent = {} /\ lost = FALSE
    /\ failures = 0 /\ issued = [all |-> {}, live |-> {}]
    /\ password = "old" /\ token = TRUE /\ sweep = None /\ elsewhere = "none"

\* What LoginFlow renders.
methods == IF owed # None THEN owed ELSE chal.methods
stepFor(ms) == IF Cardinality(ms) > 1 THEN "choose" ELSE IF ms = {"face"} THEN "face" ELSE "otp"
current == IF chal.status # "ok" THEN chal.status
           ELSE IF step # None THEN step
           ELSE IF chal.methods # {} THEN stepFor(methods) ELSE "credentials"
OnSwitch == Cardinality(methods) > 1

\* Still working, or done and on the way back to the application.
working == status \in {"pending", "complete"}

\* outcomeOf: whether trying again can help.
Retryable == {"poor_capture", "face_rejected", "engine_unavailable", "face_challenge_invalid", "network"}
Problem == IF status \notin {"idle", "pending", "answered", "complete"} THEN status
           ELSE IF check.status \notin {"none", "pending", "ok"} THEN check.status ELSE None

Here == ~gone

---------------------------------------------------------------------------
\* Mounting and leaving a step.

\* A capture that has its last frame goes on without its step.
Orphaned == IF camera = "last" THEN captures \cup {check.id} ELSE captures

\* A fetch under way outlives the step: who asks with the same key joins it.
Fetches(n) ==
    IF \E p \in posts : p.kind = "check" /\ p.attempt = n THEN {}
    ELSE {[Post("check", 0, 0, 0) EXCEPT !.attempt = n]}

\* FaceStep mounts with attempt 0 and no data kept from an earlier mounting.
Fresh(s) ==
    /\ mount' = mount + 1 /\ status' = "idle" /\ camera' = "off"
    /\ captures' = Orphaned
    /\ check' = IF s = "face" THEN [NoCheck EXCEPT !.status = "pending"] ELSE NoCheck

Opens(s) == IF s = "face" THEN Fetches(0) ELSE {}

\* MethodChoice's buttons.
Choose(s) ==
    /\ Here /\ route = "login" /\ current = "choose" /\ s \in methods
    /\ mount < MaxSteps
    /\ step' = s /\ Fresh(s)
    /\ posts' = posts \cup Opens(s)
    /\ UNCHANGED <<route, chal, owed, flow, leave, sent, lost, server>>

\* "Use another method", in the footer and after an outcome nothing can help:
\* there while the step is working, too.
SwitchMethod ==
    /\ Here /\ route = "login" /\ current \in Methods /\ OnSwitch /\ mount < MaxSteps
    /\ step' = "choose" /\ Fresh("choose")
    /\ UNCHANGED <<route, chal, owed, flow, leave, posts, sent, lost, server>>

\* "Forgot your password?" and "Back to sign in": LoginFlow's state is gone,
\* the challenge is read from the cache.
Forgot ==
    /\ Here /\ route = "login" /\ current = "credentials" /\ mount < MaxSteps
    /\ route' = "forgot" /\ step' = None /\ owed' = None /\ flow' = flow + 1 /\ Fresh("forgot")
    /\ UNCHANGED <<chal, leave, posts, sent, lost, server>>

BackToSignIn ==
    /\ Here /\ route = "forgot" /\ mount < MaxSteps
    /\ route' = "login" /\ Fresh("credentials")
    /\ UNCHANGED <<chal, step, owed, flow, leave, posts, sent, lost, server>>

---------------------------------------------------------------------------
\* Forms and buttons.

Sends(kind, id) == status' = "pending" /\ posts' = posts \cup {Post(kind, id, mount, flow)}

Credentials ==
    /\ Here /\ route = "login" /\ current = "credentials" /\ ~working
    /\ Sends("login", 0)
    /\ UNCHANGED <<route, chal, step, owed, flow, mount, check, camera, leave, captures, sent, lost, server>>

Totp ==
    /\ Here /\ route = "login" /\ current = "otp" /\ ~working
    /\ Sends("otp", 0)
    /\ UNCHANGED <<route, chal, step, owed, flow, mount, check, camera, leave, captures, sent, lost, server>>

\* Allow access and Deny; enabled again once answered.
Consent(approved) ==
    /\ Here /\ route = "consent" /\ chal.status = "ok" /\ status # "pending"
    /\ Sends(IF approved THEN "allow" ELSE "deny", 0)
    /\ UNCHANGED <<route, chal, step, owed, flow, mount, check, camera, leave, captures, sent, lost, server>>

RequestReset ==
    /\ Here /\ route = "forgot" /\ status \notin {"pending", "answered"}
    /\ Sends("forgot", 0)
    /\ UNCHANGED <<route, chal, step, owed, flow, mount, check, camera, leave, captures, sent, lost, server>>

SaveNewPassword ==
    /\ Here /\ route = "reset" /\ status \notin {"pending", "answered"}
    /\ Sends("reset", 0)
    /\ UNCHANGED <<route, chal, step, owed, flow, mount, check, camera, leave, captures, sent, lost, server>>

\* ErrorState's retry.
RefetchChallenge ==
    /\ Here /\ chal.status = "network"
    /\ chal' = [chal EXCEPT !.status = "pending"]
    /\ posts' = posts \cup {Post("challenge", 0, mount, flow)}
    /\ UNCHANGED <<route, step, owed, flow, mount, status, check, camera, leave, captures, sent, lost, server>>

---------------------------------------------------------------------------
\* The face step: FaceCapture is on the screen while there is a challenge, no
\* problem, and nothing working.

OnCamera == Here /\ route = "login" /\ current = "face" /\ Problem = None
            /\ ~working /\ check.status = "ok"

CameraAnswers ==
    /\ OnCamera /\ camera = "off"
    /\ camera' \in {"ready", "denied"}
    /\ UNCHANGED <<route, chal, step, owed, flow, mount, status, check, leave, posts, captures, sent, lost, server>>

RunCapture ==
    /\ OnCamera /\ camera = "ready" /\ camera' = "capturing"
    /\ UNCHANGED <<route, chal, step, owed, flow, mount, status, check, leave, posts, captures, sent, lost, server>>

\* The frames, up to the last; or the camera goes away.
Frames ==
    /\ OnCamera /\ camera = "capturing" /\ camera' \in {"last", "ready"}
    /\ UNCHANGED <<route, chal, step, owed, flow, mount, status, check, leave, posts, captures, sent, lost, server>>

Captured ==
    /\ OnCamera /\ camera = "last"
    /\ camera' = "off"
    /\ Sends("face", check.id)
    /\ sent' = sent \cup {check.id}
    /\ UNCHANGED <<route, chal, step, owed, flow, mount, check, leave, captures, lost, server>>

\* The last gap of a capture whose step is gone: onCaptured all the same.
CapturedAway(id) ==
    /\ Here /\ id \in captures
    /\ captures' = captures \ {id}
    /\ posts' = posts \cup {Post("face", id, 0, flow)}
    /\ sent' = sent \cup {id}
    /\ UNCHANGED <<route, view, leave, lost, server>>

\* Mutant of NextAttempt: the mutation alone is reset.
SameAttempt == UNCHANGED <<check, posts>>

\* retry(): the mutation is reset and the query's key moves on.
NextAttempt ==
    /\ check' = [NoCheck EXCEPT !.status = "pending", !.attempt = check.attempt + 1]
    /\ posts' = posts \cup Fetches(check.attempt + 1)

Retry ==
    /\ Here /\ route = "login" /\ current = "face" /\ Problem \in Retryable
    /\ check.attempt < MaxChecks
    /\ status' = "idle" /\ camera' = "off"
    /\ NextAttempt
    /\ UNCHANGED <<route, chal, step, owed, flow, mount, leave, captures, sent, lost, server>>

---------------------------------------------------------------------------
\* The provider.

Answer(p, reply) == posts' = (posts \ {p}) \cup {[p EXCEPT !.reply = reply]}
Quiet == UNCHANGED <<route, view, leave, captures, sent, lost>>

\* _next_step, for a session that has just used m.
NextStep(p, used) ==
    posts' = (posts \ {p}) \cup
        {[p EXCEPT !.reply = IF Outstanding(used) = {} THEN "complete" ELSE "required",
                   !.owes = Outstanding(used)]}

\* The request does not arrive, or its answer does not.
NetworkFails(p) ==
    /\ p.reply # "network" /\ (p.kind = "reset" => sweep = None)
    /\ Answer(p, "network")
    /\ lost' = (lost \/ p.reply # None)
    /\ UNCHANGED <<route, view, leave, captures, sent, server>>

ReadChallenge(p) ==
    /\ p.kind = "challenge" /\ p.reply = None
    /\ Answer(p, IF live THEN "ok" ELSE "expired")
    /\ Quiet /\ UNCHANGED server

\* Signing in again on the session's own browser starts its methods over.
Login(p) ==
    /\ p.kind = "login" /\ p.reply = None
    /\ \/ Answer(p, IF live THEN "rejected" ELSE "expired") /\ UNCHANGED amr
       \/ live /\ amr' = {"pwd"} /\ NextStep(p, {"pwd"})
    /\ Quiet /\ UNCHANGED <<factors, live, failures, issued>>

VerifyTotp(p) ==
    /\ p.kind = "otp" /\ p.reply = None
    /\ \/ amr = {} /\ Answer(p, "no_session") /\ UNCHANGED amr
       \/ amr # {} /\ Answer(p, IF live THEN "rejected" ELSE "expired") /\ UNCHANGED amr
       \/ amr # {} /\ live /\ amr' = amr \cup {"otp"} /\ NextStep(p, amr')
    /\ Quiet /\ UNCHANGED <<factors, live, failures, issued>>

IssueCheck(p) ==
    /\ p.kind = "check" /\ p.reply = None /\ Cardinality(issued.all) < MaxChecks
    /\ LET id == Cardinality(issued.all) + 1
           refusal == IF amr = {} THEN "no_session" ELSE IF ~live THEN "expired"
                      ELSE IF failures >= TRIES THEN "paused" ELSE None IN
       \/ refusal # None /\ Answer(p, refusal) /\ UNCHANGED issued
       \/ /\ refusal = None
          /\ issued' = [all |-> issued.all \cup {id}, live |-> issued.live \cup {id}]
          /\ posts' = (posts \ {p}) \cup {[p EXCEPT !.reply = "ok", !.id = id]}
    /\ Quiet /\ UNCHANGED <<factors, amr, live, failures>>

\* The challenge is consumed before the frames are looked at.
VerifyFace(p) ==
    /\ p.kind = "face" /\ p.reply = None
    /\ LET refusal == IF amr = {} THEN "no_session" ELSE IF ~live THEN "expired"
                      ELSE IF failures >= TRIES THEN "paused"
                      ELSE IF p.id \notin issued.live THEN "face_challenge_invalid" ELSE None IN
       \/ refusal # None /\ Answer(p, refusal) /\ UNCHANGED <<amr, failures, issued>>
       \/ /\ refusal = None
          /\ issued' = [issued EXCEPT !.live = @ \ {p.id}]
          /\ \/ Answer(p, "poor_capture") /\ UNCHANGED <<amr, failures>>
             \/ Answer(p, "engine_unavailable") /\ UNCHANGED <<amr, failures>>
             \/ /\ failures' = failures + 1 /\ UNCHANGED amr
                \* attemptsLeft: with none, the outcome shown is the pause.
                /\ Answer(p, IF failures' >= TRIES THEN "paused" ELSE "face_rejected")
             \/ amr' = amr \cup {"face"} /\ NextStep(p, amr') /\ failures' = 0
    /\ Quiet /\ UNCHANGED <<factors, live>>

\* consent(): a refusal deletes the challenge.
DecideConsent(p) ==
    /\ p.kind \in {"allow", "deny"} /\ p.reply = None
    /\ \/ amr = {} /\ Answer(p, "no_session") /\ UNCHANGED live
       \/ amr # {} /\ ~live /\ Answer(p, "expired") /\ UNCHANGED live
       \/ amr # {} /\ live /\ Answer(p, p.kind) /\ live' = (p.kind = "allow")
    /\ Quiet /\ UNCHANGED <<factors, amr, failures, issued>>

SendLink(p) ==
    /\ p.kind = "forgot" /\ p.reply = None
    /\ Answer(p, "answered")
    /\ Quiet /\ UNCHANGED server

\* Mutant of SpendToken: answered before the new password counts.
SpendTokenAndAnswer(p) ==
    /\ p.kind = "reset" /\ p.reply = None /\ sweep = None
    /\ \/ ~token /\ Answer(p, "invalid_reset_token") /\ UNCHANGED <<token, sweep>>
       \/ token /\ token' = FALSE /\ sweep' = "sessions" /\ Answer(p, "answered")
    /\ Quiet /\ UNCHANGED <<enrolled, need, asked, password, elsewhere, amr, live, failures, issued>>

\* confirm_reset: the token goes first; the sessions there are end; the new
\* password counts when the transaction commits.
SpendToken(p) ==
    /\ p.kind = "reset" /\ p.reply = None /\ sweep = None
    /\ \/ ~token /\ Answer(p, "invalid_reset_token") /\ UNCHANGED <<token, sweep>>
       \/ token /\ token' = FALSE /\ sweep' = "sessions" /\ UNCHANGED posts
    /\ Quiet /\ UNCHANGED <<enrolled, need, asked, password, elsewhere, amr, live, failures, issued>>

EndAllSessions ==
    /\ sweep = "sessions" /\ sweep' = "commit"
    /\ elsewhere' = IF elsewhere = "signed in" THEN "none" ELSE elsewhere
    /\ amr' = {}
    /\ Quiet /\ UNCHANGED <<posts, enrolled, need, asked, password, token, live, failures, issued>>

CommitPassword(p) ==
    /\ p.kind = "reset" /\ p.reply = None /\ sweep = "commit"
    /\ sweep' = None /\ password' = "new"
    /\ Answer(p, "answered")
    /\ Quiet /\ UNCHANGED <<enrolled, need, asked, token, elsewhere, amr, live, failures, issued>>

\* Another browser signs in with the old password while a reset is open here.
Elsewhere ==
    /\ route = "reset"
    /\ \/ elsewhere = "none" /\ password = "old" /\ elsewhere' = "verified"
       \/ elsewhere = "verified" /\ elsewhere' = "signed in"
    /\ Quiet /\ UNCHANGED <<posts, enrolled, need, asked, password, token, sweep, amr, live, failures, issued>>

Expire ==
    /\ live /\ live' = FALSE
    /\ Quiet /\ UNCHANGED <<posts, factors, amr, failures, issued>>

---------------------------------------------------------------------------
\* An answer lands.

Mine(p) == p.mount = mount

ChallengeLands(p) ==
    /\ Here /\ p.kind = "challenge" /\ p.reply # None
    /\ chal' = [status |-> p.reply, methods |-> IF p.reply = "ok" THEN asked ELSE {}]
    /\ LET first == IF asked = {} THEN "credentials" ELSE stepFor(asked) IN
       IF p.reply = "ok" /\ route = "login"
       THEN Fresh(first) /\ posts' = (posts \ {p}) \cup Opens(first)
       ELSE posts' = posts \ {p} /\ UNCHANGED <<mount, status, check, camera, captures>>
    /\ UNCHANGED <<route, step, owed, flow, leave, sent, lost, server>>

\* The fetch the step on the screen waits for, whichever mounting began it.
Awaited(p) == check.status = "pending" /\ p.attempt = check.attempt
Fetched(p) == [check EXCEPT !.status = p.reply, !.id = p.id]

\* Mutant of CheckLands: only a challenge ends the wait for one.
CheckLandsIfAny(p) ==
    /\ Here /\ p.kind = "check" /\ p.reply # None
    /\ posts' = posts \ {p}
    /\ check' = IF Awaited(p) /\ p.reply = "ok" THEN Fetched(p) ELSE check
    /\ UNCHANGED <<route, chal, step, owed, flow, mount, status, camera, leave, captures, sent, lost, server>>

CheckLands(p) ==
    /\ Here /\ p.kind = "check" /\ p.reply # None
    /\ posts' = posts \ {p}
    /\ check' = IF Awaited(p) THEN Fetched(p) ELSE check
    /\ UNCHANGED <<route, chal, step, owed, flow, mount, status, camera, leave, captures, sent, lost, server>>

\* advance(): the resume URL is followed even when LoginFlow is gone; a method
\* still owed is shown by the LoginFlow whose step asked.
Advance(p) ==
    \/ /\ p.reply = "complete"
       /\ leaving' = "resume" /\ posts' = posts \ {p}
       /\ status' = IF Mine(p) THEN "complete" ELSE status
       /\ UNCHANGED <<step, owed, mount, check, camera, captures>>
    \/ /\ p.reply = "required" /\ p.flow = flow
       /\ owed' = p.owes /\ step' = stepFor(p.owes) /\ Fresh(step')
       /\ posts' = (posts \ {p}) \cup Opens(step')
       /\ UNCHANGED leaving
    \/ /\ p.reply = "required" /\ p.flow # flow
       /\ posts' = posts \ {p}
       /\ UNCHANGED <<leaving, status, step, owed, mount, check, camera, captures>>

StepLands(p) ==
    /\ Here /\ p.kind \in {"login", "otp", "face"} /\ p.reply # None
    /\ \/ Advance(p)
       \/ /\ p.reply \notin {"complete", "required"}
          /\ posts' = posts \ {p}
          /\ status' = IF Mine(p) THEN p.reply ELSE status
          /\ UNCHANGED <<leaving, step, owed, mount, check, camera, captures>>
    /\ UNCHANGED <<route, chal, flow, gone, sent, lost, server>>

OtherLands(p) ==
    /\ Here /\ p.kind \in {"allow", "deny", "forgot", "reset"} /\ p.reply # None
    /\ posts' = posts \ {p}
    /\ status' = IF ~Mine(p) THEN status
                 ELSE IF p.reply \in {"allow", "deny"} THEN "answered" ELSE p.reply
    /\ leaving' = IF p.reply \in {"allow", "deny"} THEN p.reply ELSE leaving
    /\ UNCHANGED <<route, chal, step, owed, flow, mount, check, camera, gone, captures, sent, lost, server>>

Unload ==
    /\ Here /\ leaving # None
    /\ gone' = TRUE
    /\ UNCHANGED <<route, view, leaving, posts, captures, sent, lost, server>>

---------------------------------------------------------------------------
Pages == \/ \E s \in Methods : Choose(s)
         \/ SwitchMethod \/ Forgot \/ BackToSignIn
         \/ Credentials \/ Totp \/ RequestReset \/ SaveNewPassword \/ RefetchChallenge
         \/ \E approved \in BOOLEAN : Consent(approved)
         \/ CameraAnswers \/ RunCapture \/ Frames \/ Captured \/ Retry
         \/ \E id \in captures : CapturedAway(id)

Provider(p) == \/ ReadChallenge(p) \/ Login(p) \/ VerifyTotp(p) \/ IssueCheck(p)
               \/ VerifyFace(p) \/ DecideConsent(p) \/ SendLink(p)
               \/ SpendToken(p) \/ CommitPassword(p) \/ NetworkFails(p)

Lands(p) == ChallengeLands(p) \/ CheckLands(p) \/ StepLands(p) \/ OtherLands(p)

Next == \/ Pages
        \/ \E p \in posts : Provider(p) \/ Lands(p)
        \/ EndAllSessions \/ Elsewhere \/ Expire \/ Unload

Spec == Init /\ [][Next]_vars

\* Requests are answered, the answers land, and the browser follows a URL.
FairSpec == /\ Spec
            /\ WF_vars(EndAllSessions \/ \E p \in posts : Provider(p))
            /\ WF_vars(\E p \in posts : Lands(p))
            /\ WF_vars(Unload)

---------------------------------------------------------------------------
\* "Each attempt fetches a fresh challenge: one is good for one capture"
\* (login-face.tsx:10): no two captures are sent with the same challenge, though
\* steps are left and entered again while captures and fetches are under way.
EachCaptureItsChallenge ==
    [][\A p \in posts' \ posts : (p.kind = "face" /\ p.reply = None) => p.id \notin sent]_vars

\* The step on the screen asks for nothing this sign-in has already given,
\* unless the answer that says so is on its way or was lost: what the provider
\* says is owed and what the page shows stay together (_next_step, advance).
AskedForWhatIsOwed ==
    (Here /\ route = "login" /\ current \in Methods /\ current \in amr) =>
        lost \/ leaving # None \/ \E p \in posts : p.kind \in {"otp", "face"}

\* An answer to a step the person has left does not replace the step they are
\* at: it may take the page back to the application, nothing else.
OnlyTheirOwnAnswerMovesThem ==
    [][\A p \in posts \ posts' :
          (p.reply # None /\ p.kind # "challenge" /\ p.mount # mount) => UNCHANGED <<step, mount>>]_vars

\* "Password changed" and "expired or was already used" are both true when
\* shown, through lost answers and second tries (ResetRoute, confirm_reset).
RecoveryTellsTheTruth ==
    /\ route = "reset" /\ status = "answered" => password = "new"
    /\ status = "invalid_reset_token" => ~token

\* Every wait the pages show ends by itself: the spinner for the request, the
\* working button, "Preparing the camera".
Waiting == Here /\ \/ chal.status = "pending" /\ route \in {"login", "consent"}
                   \/ status = "pending"
                   \/ current = "face" /\ check.status = "pending"
WaitsEnd == Waiting ~> ~Waiting

\* "In that moment the step must not offer itself again - the face step would
\* restart the camera" (auth-step.ts:5), while the page is on the way back to
\* the application.
CameraStaysOff ==
    [][(leaving = "resume" /\ camera = "off") => camera' = "off"]_vars

\* "Every session and refresh token was signed out" (recovery.tsx:139), says the
\* page: no session that began with the old password is left.
EverySessionSignedOut ==
    (route = "reset" /\ status = "answered") => elsewhere # "signed in"
=============================================================================
