---------------------------- MODULE KioskVisit ----------------------------
(***************************************************************************)
(* One kiosk's enrolment screen (kiosk/client/src/screens/enrol.tsx): a    *)
(* visit from the idle screen through consent, the QR code, the name and   *)
(* the capture to a result, with the calls it leaves in flight when it is  *)
(* walked away from, and the tickets and challenges at IDEN behind them.   *)
(*                                                                         *)
(* Each person holds one ticket, so a ticket is named by its holder.  The  *)
(* page is the component's state (phase, agreed); an async function of the *)
(* page that is waiting is a record in "calls" or "runs", carrying the     *)
(* values its closure captured.                                            *)
(***************************************************************************)
EXTENDS Naturals, FiniteSets

CONSTANTS
          People,        \* the people who come to the kiosk, each with a ticket
          None,          \* null, undefined, or an empty field
          MaxAttempts,   \* tickets.MAX_ATTEMPTS
          MaxVisits,     \* bound: touches of the idle screen
          MaxMounts,     \* bound: times the screen is taken away and given back
          Wording,       \* consent.version() at IDEN; earlier ones may still be shown
          MaxOpen        \* bound: calls and captures left waiting at once

Wordings == 1..Wording
Chals == People \X (1..MaxAttempts)
\* A face on an account: whose it is, and how it came there.
Enrolment == [face : People, consent : Wordings, visit : Nat, asked : BOOLEAN]

\* explain(): the codes after which another capture can help.
Retryable == {"poor_capture", "not_live", "invalid_frames", "face_challenge_invalid"}
FinalCodes == {"consent_required", "enrolment_ticket_invalid", "unavailable"}
Codes == Retryable \cup FinalCodes

ASSUME VisitAssumption == /\ None \notin People \cup Nat \cup Chals \cup Enrolment
                                      \cup Codes \cup {"ok"}
                          /\ {MaxAttempts, MaxVisits, MaxMounts, MaxOpen} \subseteq Nat
                          /\ Wording \in Nat \ {0}

VARIABLES
    phase,     \* Enrolment's phase: what the screen shows
    agreed,    \* Enrolment's agreed: the consent version accepted, or None
    mount,     \* which mounting of Enrolment this is
    shown,     \* App renders Enrolment (no maintenance, online, in service)
    told,      \* state.consent as last polled, or None
    who,       \* the person in front of the kiosk
    visit,     \* touches of the idle screen so far
    calls,     \* requests awaited by the page, alive or not
    runs,      \* captures under way, in a mounted FaceCapture or not
    left,      \* attempts a ticket still allows
    live,      \* tickets IDEN still knows
    chals,     \* face challenges issued and not consumed
    enrolled,  \* person -> the face enrolled on the account, or None
    assent     \* history: who agreed to what, in which visit

page == <<phase, agreed, mount, shown, told>>
iden == <<left, live, chals, enrolled>>
vars == <<phase, agreed, mount, shown, told, who, visit, calls, runs,
          left, live, chals, enrolled, assent>>

Kinds == {"idle", "consent", "welcome", "starting", "confirm", "capture",
          "checking", "done", "problem"}

Blank == [kind |-> "idle", ticket |-> None, chal |-> None, left |-> 0,
          inst |-> None, asked |-> FALSE]

\* IDEN may have reworded the consent text since the kiosk's last poll.
Init == /\ phase = Blank /\ agreed = None /\ mount = 1 /\ shown = TRUE
        /\ told \in {None} \cup Wordings
        /\ who \in People /\ visit = 0
        /\ calls = {} /\ runs = {}
        /\ left = [p \in People |-> MaxAttempts] /\ live = People
        /\ chals = {} /\ enrolled = [p \in People |-> None]
        /\ assent = {}

---------------------------------------------------------------------------
\* Screens and buttons.

Show(p) == phase' = p
Reset == Show(Blank) /\ agreed' = None

\* Anyone may be standing there while the idle screen shows.
Approach(p) ==
    /\ phase.kind = "idle" /\ p # who
    /\ who' = p
    /\ UNCHANGED <<page, visit, calls, runs, iden, assent>>

Touch ==
    /\ shown /\ phase.kind = "idle" /\ visit < MaxVisits
    /\ Cardinality(calls) + Cardinality(runs) < MaxOpen
    /\ visit' = visit + 1
    /\ Show([Blank EXCEPT !.kind = "consent"])
    /\ UNCHANGED <<agreed, mount, shown, told, who, calls, runs, iden, assent>>

Agree ==
    /\ shown /\ phase.kind = "consent" /\ told # None
    /\ agreed' = told
    /\ assent' = assent \cup {<<visit, who, told>>}
    /\ Show([Blank EXCEPT !.kind = "welcome"])
    /\ UNCHANGED <<mount, shown, told, who, visit, calls, runs, iden>>

\* The button of every screen that leads out: No thanks, Not ready's Finish,
\* Back, Not me, Cancel, Finish.
WayOut ==
    /\ shown /\ phase.kind \notin {"idle", "checking"}
    /\ Reset
    /\ UNCHANGED <<mount, shown, told, who, visit, calls, runs, iden, assent>>

\* Mutant of IdleOut: the problem screen is left out of useIdle too.
IdleOutUnlessProblem ==
    /\ shown /\ phase.kind \notin {"idle", "checking", "problem"}
    /\ Reset
    /\ UNCHANGED <<mount, shown, told, who, visit, calls, runs, iden, assent>>

\* useIdle: nobody touched the screen for idleSeconds.
IdleOut ==
    /\ shown /\ phase.kind # "idle" /\ phase.kind # "checking"
    /\ Reset
    /\ UNCHANGED <<mount, shown, told, who, visit, calls, runs, iden, assent>>

\* The eight seconds the result stays up.
DoneOver ==
    /\ shown /\ phase.kind = "done"
    /\ Reset
    /\ UNCHANGED <<mount, shown, told, who, visit, calls, runs, iden, assent>>

StartCall(t, confirm) ==
    [kind |-> "start", ticket |-> t, confirm |-> confirm, mount |-> mount,
     visit |-> visit, chal |-> None, consent |-> None, face |-> None,
     left |-> 0, asked |-> FALSE, stage |-> "sent", reply |-> None]

\* begin(): the screen waits in "starting" while /enrol/start is awaited.
Begin(t, confirm) ==
    /\ Show([Blank EXCEPT !.kind = "starting"])
    /\ calls' = calls \cup {StartCall(t, confirm)}

\* useQrScanner is active on the welcome screen, and off while it is busy.
Scan ==
    /\ shown /\ phase.kind = "welcome"
    /\ Begin(who, TRUE)
    /\ UNCHANGED <<agreed, mount, shown, told, who, visit, runs, iden, assent>>

Retry ==
    /\ shown /\ phase.kind = "problem" /\ phase.left > 0
    /\ Begin(phase.ticket, FALSE)
    /\ UNCHANGED <<agreed, mount, shown, told, who, visit, runs, iden, assent>>

\* "Yes, start": the person reads the name and it is theirs.
ConfirmYes ==
    /\ shown /\ phase.kind = "confirm" /\ phase.ticket = who
    /\ Show([phase EXCEPT !.kind = "capture", !.inst = phase.chal])
    /\ UNCHANGED <<agreed, mount, shown, told, who, visit, calls, runs, iden, assent>>

---------------------------------------------------------------------------
\* FaceCapture.  A run is framing until its last frame is taken, then settles
\* (the pause that ends a movement) and hands the frames over.

\* The FaceCapture a run belongs to is still on the screen.
OnScreen(r) == shown /\ r.mount = mount /\ phase.kind = "capture" /\ phase.inst = r.inst

\* Mutant of Start: what is sent is the wording the kiosk knows, agreed to or not.
StartWithTold ==
    /\ shown /\ phase.kind = "capture"
    /\ ~\E r \in runs : OnScreen(r)
    /\ runs' = runs \cup
         {[ticket |-> phase.ticket, chal |-> phase.chal, left |-> phase.left,
           inst |-> phase.inst, asked |-> phase.asked, consent |-> told,
           mount |-> mount, visit |-> visit, face |-> who, stage |-> "framing"]}
    /\ UNCHANGED <<page, who, visit, calls, iden, assent>>

Start ==
    /\ shown /\ phase.kind = "capture"
    /\ ~\E r \in runs : OnScreen(r)
    /\ runs' = runs \cup
         {[ticket |-> phase.ticket, chal |-> phase.chal, left |-> phase.left,
           inst |-> phase.inst, asked |-> phase.asked, consent |-> agreed,
           mount |-> mount, visit |-> visit, face |-> who, stage |-> "framing"]}
    /\ UNCHANGED <<page, who, visit, calls, iden, assent>>

\* The last frame: taken only while the video element is there.
LastFrame(r) ==
    /\ r.stage = "framing" /\ OnScreen(r)
    /\ runs' = (runs \ {r}) \cup {[r EXCEPT !.stage = "settling"]}
    /\ UNCHANGED <<page, who, visit, calls, iden, assent>>

\* A StepTimeout, a camera that went away, or a take() after the video was
\* unmounted: the run ends and hands nothing over.
RunFails(r) ==
    /\ r.stage = "framing"
    /\ runs' = runs \ {r}
    /\ UNCHANGED <<page, who, visit, calls, iden, assent>>

EnrolCall(r) ==
    [kind |-> "enrol", ticket |-> r.ticket, confirm |-> FALSE, mount |-> r.mount,
     visit |-> r.visit, chal |-> r.chal, consent |-> r.consent, face |-> r.face,
     left |-> r.left, asked |-> r.asked, stage |-> "sent", reply |-> None]

\* onCaptured -> submit(): nothing asks whether the capture is still wanted.
Submit(r) ==
    /\ r.stage = "settling"
    /\ runs' = runs \ {r}
    /\ calls' = calls \cup {EnrolCall(r)}
    /\ IF shown /\ r.mount = mount
       THEN Show([Blank EXCEPT !.kind = "checking", !.ticket = r.ticket])
       ELSE UNCHANGED phase
    /\ UNCHANGED <<agreed, mount, shown, told, who, visit, iden, assent>>

---------------------------------------------------------------------------
\* IDEN, behind the kiosk server, which passes its answers through.

Answer(c, reply) == (calls \ {c}) \cup {[c EXCEPT !.stage = "answered", !.reply = reply]}

\* Refused before it had any effect: a limit, no network, no token.
Refuse(c) ==
    /\ c.stage = "sent"
    /\ calls' = Answer(c, "unavailable")
    /\ UNCHANGED <<page, who, visit, runs, iden, assent>>

\* Mutant of HandleStart: the attempts are counted, never compared.
HandleStartUnlimited(c) ==
    /\ c.kind = "start" /\ c.stage = "sent" /\ c.ticket \in live
    /\ LET t == c.ticket
           n == MaxAttempts - left[t] + 1 IN
       /\ left' = [left EXCEPT ![t] = @ - 1]
       /\ chals' = chals \cup {<<t, n>>}
       /\ calls' = (calls \ {c}) \cup
              {[c EXCEPT !.stage = "answered", !.reply = "ok", !.chal = <<t, n>>, !.left = left[t] - 1]}
    /\ UNCHANGED <<page, who, visit, runs, live, enrolled, assent>>

\* start_enrolment: one attempt of the ticket, one challenge.  The answer may
\* be lost on the way back.
HandleStart(c) ==
    /\ c.kind = "start" /\ c.stage = "sent"
    /\ LET t == c.ticket
           n == MaxAttempts - left[t] + 1 IN
       IF t \in live /\ left[t] > 0
       THEN /\ left' = [left EXCEPT ![t] = @ - 1]
            /\ chals' = chals \cup {<<t, n>>}
            /\ \E reply \in {"ok", "unavailable"} :
                 calls' = (calls \ {c}) \cup
                     {[c EXCEPT !.stage = "answered", !.reply = reply,
                                !.chal = <<t, n>>, !.left = left[t] - 1]}
            /\ UNCHANGED live
       ELSE /\ calls' = Answer(c, "enrolment_ticket_invalid")
            /\ live' = live \ {t}
            /\ UNCHANGED <<left, chals>>
    /\ UNCHANGED <<page, who, visit, runs, enrolled, assent>>

\* enrol, up to the challenge: ticket, consent, then the challenge is consumed.
AdmitEnrol(c) ==
    /\ c.kind = "enrol" /\ c.stage = "sent"
    /\ \/ /\ c.ticket \notin live
          /\ calls' = Answer(c, "enrolment_ticket_invalid") /\ UNCHANGED chals
       \/ /\ c.ticket \in live /\ c.consent # Wording
          /\ calls' = Answer(c, "consent_required") /\ UNCHANGED chals
       \/ /\ c.ticket \in live /\ c.consent = Wording /\ c.chal \notin chals
          /\ calls' = Answer(c, "face_challenge_invalid") /\ UNCHANGED chals
       \/ /\ c.ticket \in live /\ c.consent = Wording /\ c.chal \in chals
          /\ chals' = chals \ {c.chal}
          /\ calls' = (calls \ {c}) \cup {[c EXCEPT !.stage = "admitted"]}
    /\ UNCHANGED <<page, who, visit, runs, left, live, enrolled, assent>>

\* The engine's verdict, the rows, and the ticket spent.
FinishEnrol(c) ==
    /\ c.stage = "admitted"
    /\ \/ /\ \E reply \in {"poor_capture", "unavailable"} : calls' = Answer(c, reply)
          /\ UNCHANGED <<enrolled, live>>
       \/ /\ enrolled' = [enrolled EXCEPT ![c.ticket] =
                 [face |-> c.face, consent |-> c.consent, visit |-> c.visit,
                  asked |-> c.asked]]
          /\ live' = live \ {c.ticket}
          /\ \E reply \in {"ok", "unavailable"} : calls' = Answer(c, reply)
    /\ UNCHANGED <<page, who, visit, runs, left, chals, assent>>

\* A challenge's minutes are up before its capture is.  (A ticket's are longer
\* and end the same way a ticket out of attempts does.)
Expire ==
    /\ \E c \in calls : c.kind = "enrol" /\ chals' = chals \ {c.chal} /\ chals' # chals
    /\ UNCHANGED <<page, who, visit, calls, runs, left, live, enrolled, assent>>

---------------------------------------------------------------------------
\* The page resumes from an await.

\* A phase set by a component that is gone changes nothing.
Resume(c, p) == IF shown /\ c.mount = mount THEN Show(p) ELSE UNCHANGED phase

Problem(c) ==
    IF c.kind = "enrol" /\ c.reply \in Retryable
    THEN [Blank EXCEPT !.kind = "problem", !.ticket = c.ticket, !.left = c.left]
    ELSE [Blank EXCEPT !.kind = "problem"]

\* Mutant of Started: straight to the capture, with no "Is this you?".
StartedUnasked(c) ==
    [kind |-> "capture", ticket |-> c.ticket, chal |-> c.chal, left |-> c.left,
     inst |-> IF phase.kind = "capture" THEN phase.inst ELSE c.chal,
     asked |-> c.confirm]

Started(c) ==
    [kind |-> IF c.confirm THEN "confirm" ELSE "capture",
     ticket |-> c.ticket, chal |-> c.chal, left |-> c.left,
     \* React keeps a FaceCapture that is already on the screen.
     inst |-> IF c.confirm THEN None
              ELSE IF phase.kind = "capture" THEN phase.inst ELSE c.chal,
     asked |-> c.confirm]

\* Mutant of ResumeCall: an enrolment that did not throw is taken for one that
\* was made, refused or not.
ResumeCallGladly(c) ==
    /\ c.stage = "answered"
    /\ calls' = calls \ {c}
    /\ Resume(c, IF c.kind = "enrol" THEN [Blank EXCEPT !.kind = "done", !.ticket = c.ticket]
                 ELSE IF c.reply # "ok" THEN Problem(c) ELSE Started(c))
    /\ UNCHANGED <<agreed, mount, shown, told, who, visit, runs, iden, assent>>

ResumeCall(c) ==
    /\ c.stage = "answered"
    /\ calls' = calls \ {c}
    /\ Resume(c, IF c.reply # "ok" THEN Problem(c)
                 ELSE IF c.kind = "start" THEN Started(c)
                 ELSE [Blank EXCEPT !.kind = "done", !.ticket = c.ticket])
    /\ UNCHANGED <<agreed, mount, shown, told, who, visit, runs, iden, assent>>

\* useKioskState: the consent text the server's last heartbeat brought.
Poll ==
    /\ told # Wording
    /\ told' = Wording
    /\ UNCHANGED <<phase, agreed, mount, shown, who, visit, calls, runs, iden, assent>>

\* App renders something else (maintenance, offline, out of service): the
\* component's state is gone.  It comes back as a fresh one.
TakeScreen ==
    /\ shown /\ mount < MaxMounts
    /\ shown' = FALSE /\ Reset
    /\ UNCHANGED <<mount, told, who, visit, calls, runs, iden, assent>>

GiveScreen ==
    /\ ~shown
    /\ shown' = TRUE /\ mount' = mount + 1
    /\ UNCHANGED <<phase, agreed, told, who, visit, calls, runs, iden, assent>>

---------------------------------------------------------------------------
Next == \/ \E p \in People : Approach(p)
        \/ Touch \/ Agree \/ WayOut \/ IdleOut \/ DoneOver
        \/ Scan \/ Retry \/ ConfirmYes \/ Start
        \/ \E r \in runs : LastFrame(r) \/ RunFails(r) \/ Submit(r)
        \/ \E c \in calls : \/ Refuse(c) \/ HandleStart(c) \/ AdmitEnrol(c)
                            \/ FinishEnrol(c) \/ ResumeCall(c)
        \/ Expire \/ Poll \/ TakeScreen \/ GiveScreen

Spec == Init /\ [][Next]_vars

\* The timers run and every request is answered; nobody has to press anything.
Timers == WF_vars(IdleOut) /\ WF_vars(DoneOver)
Answers == /\ WF_vars(\E c \in calls : Refuse(c) \/ HandleStart(c) \/ AdmitEnrol(c) \/ FinishEnrol(c))
           /\ WF_vars(\E c \in calls : ResumeCall(c))
FairSpec == Spec /\ Timers /\ Answers

---------------------------------------------------------------------------
PageType ==
    [kind : Kinds, ticket : People \cup {None}, chal : Chals \cup {None},
     left : Nat, inst : Chals \cup {None}, asked : BOOLEAN]

CallType ==
    [kind : {"start", "enrol"}, ticket : People, confirm : BOOLEAN,
     mount : Nat, visit : Nat, chal : Chals \cup {None},
     consent : Wordings \cup {None}, face : People \cup {None},
     left : Nat, asked : BOOLEAN, stage : {"sent", "admitted", "answered"},
     reply : Codes \cup {"ok", None}]

RunType ==
    [ticket : People, chal : Chals, left : Nat, inst : Chals, asked : BOOLEAN,
     consent : Wordings \cup {None}, mount : Nat, visit : Nat, face : People,
     stage : {"framing", "settling"}]

\* The shapes of the page, the calls in flight and what IDEN holds.
TypeOK ==
    /\ phase \in PageType
    /\ agreed \in Wordings \cup {None} /\ told \in Wordings \cup {None}
    /\ mount \in Nat /\ shown \in BOOLEAN /\ who \in People /\ visit \in Nat
    /\ calls \subseteq CallType /\ runs \subseteq RunType
    /\ left \in [People -> 0..MaxAttempts]
    /\ live \subseteq People /\ chals \subseteq Chals
    /\ enrolled \in [People -> Enrolment \cup {None}]
    /\ assent \subseteq Nat \X People \X Wordings

\* No face is enrolled without a yes: the person whose face it is agreed, in
\* that visit, to the wording IDEN recorded (Consent, agreed, submit), however
\* late the answers of earlier visits arrive.
ConsentOfThisFace ==
    \A p \in People : enrolled[p] # None =>
        <<enrolled[p].visit, enrolled[p].face, enrolled[p].consent>> \in assent

\* "Is this you?" is enough to keep faces apart: a capture reached through the
\* confirm screen puts a face only on its own account, whatever calls of other
\* visits come back meanwhile.
AskedMeansOwnFace ==
    \A p \in People : (enrolled[p] # None /\ enrolled[p].asked) => enrolled[p].face = p

\* "One person's visit: ... show the QR code from the dashboard, confirm the name":
\* the face on an account is its person's own, though a capture that Try again
\* starts asks for no name.
EveryFaceIsOwn ==
    \A p \in People : enrolled[p] # None => enrolled[p].face = p

\* "You're enrolled" is only shown to someone IDEN has enrolled (submit's
\* answers, against a lost or late one).
DoneMeansEnrolled ==
    phase.kind = "done" => enrolled[phase.ticket] # None

\* A visit nobody finishes still ends: from every screen the kiosk gets back to
\* idle with no further touch (useIdle, the done timer, and an answer to every
\* call while useIdle is off).
VisitEnds == (phase.kind # "idle") ~> (phase.kind = "idle")

\* "Every way out ... returns to the idle screen, with ... nothing of the person
\* kept, their agreement included" (enrol.tsx:37): once the screen is back to
\* idle, no capture of the visit that was left is sent to IDEN.
WayOutSendsNothing ==
    [][\A c \in calls' \ calls : (c.kind = "enrol" /\ c.stage = "sent") =>
          phase.kind # "idle"]_vars
===========================================================================
