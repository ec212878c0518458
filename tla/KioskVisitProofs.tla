-------------------------- MODULE KioskVisitProofs --------------------------
(***************************************************************************)
(* What a kiosk's visits guarantee for any number of people, attempts,     *)
(* visits, mountings and consent wordings, and any number of calls and     *)
(* captures left in flight.                                                *)
(*                                                                         *)
(* The inductive invariant has four parts: types and shapes; the consent   *)
(* each capture and each call carries; whose face an asked capture holds;  *)
(* and what a good answer means.                                           *)
(***************************************************************************)
EXTENDS KioskVisit, TLAPS

USE VisitAssumption

-----------------------------------------------------------------------------
(* Types.                                                                  *)

\* What each screen and each call in flight has filled in.
Filled ==
    /\ phase.kind \in {"confirm", "capture"} =>
           phase.ticket \in People /\ phase.chal \in Chals
    /\ phase.kind = "capture" => phase.inst \in Chals
    /\ phase.kind = "done" => phase.ticket \in People
    /\ (phase.kind = "problem" /\ phase.left > 0) => phase.ticket \in People
    /\ \A c \in calls : /\ (c.kind = "start" /\ c.reply = "ok") => c.chal \in Chals
                        /\ c.stage = "admitted" => c.kind = "enrol" /\ c.consent = Wording
                        /\ c.kind = "enrol" => c.face \in People

Shapes == TypeOK /\ Filled

\* The screens that hold nothing but their kind.
LEMMA Bare ==
    ASSUME NEW k \in Kinds
    PROVE  /\ [Blank EXCEPT !.kind = k] \in PageType
           /\ [Blank EXCEPT !.kind = k].kind = k /\ [Blank EXCEPT !.kind = k].left = 0
  BY DEF Blank, PageType

\* The idle screen is a screen.
LEMMA BlankType == Blank \in PageType /\ Blank.kind = "idle"
  BY DEF Blank, PageType, Kinds

\* A screen that holds nothing, with the rest of the page's types kept.
LEMMA Cleared ==
    ASSUME Shapes, phase' \in PageType, phase'.kind \in {"idle", "consent", "welcome", "starting", "checking"},
           agreed' \in Wordings \cup {None}, told' = told, mount' = mount, shown' \in BOOLEAN,
           who' = who, visit' \in Nat, assent' \subseteq Nat \X People \X Wordings,
           runs' \subseteq RunType, calls' \subseteq CallType,
           \A c \in calls' \ calls : /\ c.reply = None /\ c.stage = "sent"
                                     /\ c.kind = "enrol" => c.face \in People,
           UNCHANGED iden
    PROVE  Shapes'
  <1>1. TypeOK'
    BY DEF Shapes, TypeOK, iden
  <1>2. ASSUME NEW c \in calls'
        PROVE  /\ (c.kind = "start" /\ c.reply = "ok") => c.chal \in Chals
               /\ c.stage = "admitted" => c.kind = "enrol" /\ c.consent = Wording
               /\ c.kind = "enrol" => c.face \in People
    <2>1. CASE c \in calls
      BY <2>1 DEF Shapes, Filled
    <2>2. CASE c \notin calls
      BY <1>2, <2>2
    <2> QED
      BY <2>1, <2>2
  <1>3. Filled'
    BY <1>2 DEF Filled
  <1> QED
    BY <1>1, <1>3 DEF Shapes

\* A person's next challenge, while an attempt is left.
LEMMA NextChallenge ==
    ASSUME NEW t \in People, NEW l \in [People -> 0..MaxAttempts], l[t] > 0
    PROVE  /\ <<t, MaxAttempts - l[t] + 1>> \in Chals
           /\ l[t] - 1 \in 0..MaxAttempts
  BY DEF Chals

\* The kiosk is switched on.
LEMMA InitShapes == Init => Shapes
  <1> SUFFICES ASSUME Init
               PROVE  Shapes
    OBVIOUS
  <1>1. TypeOK
    BY BlankType DEF Init, TypeOK
  <1>2. Filled
    BY BlankType DEF Init, Filled
  <1> QED
    BY <1>1, <1>2 DEF Shapes

\* Answering a call leaves the rest of it alone.
LEMMA Answered ==
    ASSUME NEW c \in CallType, NEW reply \in Codes \cup {"ok", None}
    PROVE  LET d == [c EXCEPT !.stage = "answered", !.reply = reply] IN
           /\ d \in CallType
           /\ d.stage = "answered" /\ d.reply = reply
           /\ d.kind = c.kind /\ d.ticket = c.ticket /\ d.confirm = c.confirm
           /\ d.visit = c.visit /\ d.chal = c.chal /\ d.consent = c.consent
           /\ d.face = c.face /\ d.left = c.left /\ d.asked = c.asked
  BY DEF CallType

\* A refusal, whatever the call, and what IDEN changed besides.
LEMMA Told ==
    ASSUME Shapes, NEW c \in calls, NEW reply \in Codes \cup {"ok"},
           c.kind = "start" => reply # "ok", calls' = Answer(c, reply),
           left' = left, live' \subseteq People, chals' \subseteq Chals,
           enrolled' \in [People -> Enrolment \cup {None}],
           UNCHANGED <<page, who, visit, runs, assent>>
    PROVE  Shapes'
  <1> DEFINE d == [c EXCEPT !.stage = "answered", !.reply = reply]
  <1>1. /\ d \in CallType /\ d.stage = "answered" /\ d.reply = reply
        /\ d.kind = c.kind /\ d.face = c.face
    <2>1. c \in CallType /\ reply \in Codes \cup {"ok", None}
      BY DEF Shapes, TypeOK
    <2> QED
      BY ZenonT(60), <2>1, Answered
  <1>2. calls' = (calls \ {c}) \cup {d}
    BY DEF Answer
  <1> HIDE DEF d
  <1>3. TypeOK'
    BY <1>1, <1>2 DEF Shapes, TypeOK, page
  <1>4. Filled'
    BY <1>1, <1>2 DEF Shapes, Filled, page
  <1> QED
    BY <1>3, <1>4 DEF Shapes

\* A phase set by a resumed await, where the page is still there to take it.
LEMMA Resumed ==
    ASSUME NEW c \in CallType, NEW p \in PageType, phase \in PageType, Resume(c, p)
    PROVE  phase' = p \/ phase' = phase
  BY DEF Resume, Show

\* Every step keeps the shapes.
LEMMA NextShapes == Shapes /\ [Next]_vars => Shapes'
  <1> SUFFICES ASSUME Shapes, [Next]_vars
               PROVE  Shapes'
    OBVIOUS
  <1> USE DEF Shapes, page, iden
  <1>1. ASSUME NEW p \in People, Approach(p)
        PROVE  Shapes'
    BY <1>1 DEF Approach, TypeOK, Filled
  <1>2. CASE Touch
    <2>1. phase' \in PageType /\ phase'.kind = "consent"
      BY <1>2, Bare DEF Touch, Show, Kinds
    <2> QED
      BY <1>2, <2>1, Cleared DEF Touch, TypeOK
  <1>3. CASE Agree
    <2>1. phase' \in PageType /\ phase'.kind = "welcome"
      BY <1>3, Bare DEF Agree, Show, Kinds
    <2>2. told \in Wordings
      BY <1>3 DEF Agree, TypeOK
    <2> QED
      BY <1>3, <2>1, <2>2, Cleared DEF Agree, TypeOK
  <1>4. CASE WayOut
    BY <1>4, BlankType, Cleared DEF WayOut, Reset, Show, TypeOK
  <1>5. CASE IdleOut
    BY <1>5, BlankType, Cleared DEF IdleOut, Reset, Show, TypeOK
  <1>6. CASE DoneOver
    BY <1>6, BlankType, Cleared DEF DoneOver, Reset, Show, TypeOK
  <1>7. ASSUME NEW t \in People, NEW confirm \in BOOLEAN, Begin(t, confirm)
        PROVE  /\ phase' \in PageType /\ phase'.kind = "starting"
               /\ calls' \subseteq CallType
               /\ \A c \in calls' \ calls : c.kind = "start" /\ c.reply = None /\ c.stage = "sent"
    <2>1. phase' \in PageType /\ phase'.kind = "starting"
      BY <1>7, Bare DEF Begin, Show, Kinds
    <2>2. /\ StartCall(t, confirm) \in CallType
          /\ StartCall(t, confirm).kind = "start" /\ StartCall(t, confirm).reply = None
          /\ StartCall(t, confirm).stage = "sent"
      BY DEF StartCall, CallType, TypeOK
    <2> QED
      BY <1>7, <2>1, <2>2 DEF Begin, TypeOK
  <1>8. CASE Scan
    <2>1. Begin(who, TRUE) /\ who \in People
      BY <1>8 DEF Scan, TypeOK
    <2> QED
      BY <1>7, <1>8, <2>1, Cleared DEF Scan, TypeOK
  <1>9. CASE Retry
    <2>1. Begin(phase.ticket, FALSE) /\ phase.ticket \in People
      BY <1>9 DEF Retry, Filled
    <2> QED
      BY <1>7, <1>9, <2>1, Cleared DEF Retry, TypeOK
  <1>10. CASE ConfirmYes
    <2>1. /\ phase' \in PageType /\ phase'.kind = "capture"
          /\ phase'.ticket \in People /\ phase'.chal \in Chals /\ phase'.inst \in Chals
      BY <1>10 DEF ConfirmYes, TypeOK, Filled, Show, Kinds, PageType
    <2> QED
      <3>1. TypeOK'
        BY <1>10, <2>1 DEF ConfirmYes, TypeOK
      <3>2. Filled'
        BY <1>10, <2>1 DEF ConfirmYes, Filled
      <3> QED
        BY <3>1, <3>2
  <1>11. CASE Start
    <2>1. phase.ticket \in People /\ phase.chal \in Chals /\ phase.inst \in Chals
      BY <1>11 DEF Start, Filled
    <2>2. phase.left \in Nat /\ phase.asked \in BOOLEAN
      BY DEF TypeOK, PageType
    <2>3. runs' \subseteq RunType
      BY <1>11, <2>1, <2>2 DEF Start, TypeOK, RunType
    <2> QED
      BY <1>11, <2>3 DEF Start, TypeOK, Filled
  <1>12. ASSUME NEW r \in runs, LastFrame(r)
         PROVE  Shapes'
    BY <1>12 DEF LastFrame, TypeOK, Filled, RunType
  <1>13. ASSUME NEW r \in runs, RunFails(r)
         PROVE  Shapes'
    BY <1>13 DEF RunFails, TypeOK, Filled
  <1>14. ASSUME NEW r \in runs, Submit(r)
         PROVE  Shapes'
    <2>1. EnrolCall(r) \in CallType
      BY DEF EnrolCall, CallType, RunType, TypeOK
    <2>2. phase' = phase \/ (phase' \in PageType /\ phase'.kind = "checking")
      <3>1. /\ [Blank EXCEPT !.kind = "checking", !.ticket = r.ticket] \in PageType
            /\ [Blank EXCEPT !.kind = "checking", !.ticket = r.ticket].kind = "checking"
        BY DEF Blank, PageType, Kinds, TypeOK, RunType
      <3> QED
        BY <1>14, <3>1 DEF Submit, Show
    <2>3. EnrolCall(r).kind = "enrol" /\ EnrolCall(r).stage = "sent"
          /\ EnrolCall(r).face \in People
      BY DEF EnrolCall, RunType, TypeOK
    <2> QED
      BY <1>14, <2>1, <2>2, <2>3 DEF Submit, TypeOK, Filled, PageType
  <1>15. ASSUME NEW c \in calls, Refuse(c)
         PROVE  Shapes'
    BY <1>15, Told DEF Refuse, TypeOK, Codes, FinalCodes
  <1>16. ASSUME NEW c \in calls, HandleStart(c)
         PROVE  Shapes'
    <2>1. CASE c.ticket \in live /\ left[c.ticket] > 0
      <3> DEFINE ch == <<c.ticket, MaxAttempts - left[c.ticket] + 1>>
      <3>1. ch \in Chals /\ left[c.ticket] - 1 \in 0..MaxAttempts
        BY <2>1, NextChallenge DEF TypeOK, CallType
      <3>2. PICK reply \in {"ok", "unavailable"} :
               calls' = (calls \ {c}) \cup
                   {[c EXCEPT !.stage = "answered", !.reply = reply,
                              !.chal = ch, !.left = left[c.ticket] - 1]}
        BY <1>16, <2>1 DEF HandleStart
      <3> DEFINE d == [c EXCEPT !.stage = "answered", !.reply = reply,
                                !.chal = ch, !.left = left[c.ticket] - 1]
      <3>3. d \in CallType /\ d.kind = "start" /\ d.stage = "answered" /\ d.chal = ch
        <4> DEFINE n == left[c.ticket] - 1
        <4>1. reply \in Codes \cup {"ok", None} /\ n \in Nat
          BY <3>1, <3>2 DEF Codes, FinalCodes
        <4>2. c \in CallType /\ c.kind = "start"
          BY <1>16 DEF HandleStart, TypeOK
        <4> HIDE DEF ch, n
        <4>3. d = [c EXCEPT !.stage = "answered", !.reply = reply, !.chal = ch, !.left = n]
          BY DEF n
        <4> HIDE DEF d
        <4> QED BY <3>1, <4>1, <4>2, <4>3 DEF CallType
      <3>4. calls' = (calls \ {c}) \cup {d}
        BY <3>2
      <3>5. left' \in [People -> 0..MaxAttempts] /\ chals' \subseteq Chals
        BY <1>16, <2>1, <3>1 DEF HandleStart, TypeOK, CallType
      <3> HIDE DEF d, ch
      <3> QED
        BY <1>16, <2>1, <3>1, <3>3, <3>4, <3>5 DEF HandleStart, TypeOK, Filled
    <2>2. CASE ~(c.ticket \in live /\ left[c.ticket] > 0)
      BY <1>16, <2>2, Told DEF HandleStart, TypeOK, Codes, FinalCodes
    <2> QED
      BY <2>1, <2>2
  <1>17. ASSUME NEW c \in calls, AdmitEnrol(c)
         PROVE  Shapes'
    <2>1. CASE \E reply \in Codes : calls' = Answer(c, reply) /\ UNCHANGED chals
      BY <1>17, <2>1, Told DEF AdmitEnrol, TypeOK, Codes, FinalCodes, Retryable
    <2>2. CASE c.consent = Wording /\ calls' = (calls \ {c}) \cup {[c EXCEPT !.stage = "admitted"]}
      BY <1>17, <2>2 DEF AdmitEnrol, TypeOK, Filled, CallType
    <2> QED
      BY <1>17, <2>1, <2>2 DEF AdmitEnrol, Codes, Retryable, FinalCodes
  <1>18. ASSUME NEW c \in calls, FinishEnrol(c)
         PROVE  Shapes'
    <2>1. PICK reply \in Codes \cup {"ok"} : calls' = Answer(c, reply)
      BY <1>18 DEF FinishEnrol, Codes, Retryable, FinalCodes
    <2>2. c.kind = "enrol"
      BY <1>18 DEF FinishEnrol, Filled
    <2>3. enrolled' \in [People -> Enrolment \cup {None}] /\ live' \subseteq People
      BY <1>18 DEF FinishEnrol, TypeOK, Filled, CallType, Enrolment
    <2> QED
      BY <1>18, <2>1, <2>2, <2>3, Told DEF FinishEnrol, TypeOK
  <1>19. ASSUME NEW c \in calls, ResumeCall(c)
         PROVE  Shapes'
    <2>1. /\ Problem(c) \in PageType /\ Problem(c).kind = "problem"
          /\ Problem(c).left > 0 => Problem(c).ticket \in People
      <3>1. c.ticket \in People /\ c.left \in Nat
        BY DEF TypeOK, CallType
      <3> QED
        <4>1. CASE c.kind = "enrol" /\ c.reply \in Retryable
          BY <3>1, <4>1 DEF Problem, PageType, Blank, Kinds
        <4>2. CASE ~(c.kind = "enrol" /\ c.reply \in Retryable)
          BY <3>1, <4>2, Bare DEF Problem, Kinds
        <4> QED
          BY <4>1, <4>2
    <2>2. c.kind = "start" /\ c.reply = "ok" =>
            /\ Started(c) \in PageType /\ Started(c).kind \in {"confirm", "capture"}
            /\ Started(c).ticket \in People /\ Started(c).chal \in Chals
            /\ Started(c).kind = "capture" => Started(c).inst \in Chals
      BY DEF Started, PageType, Kinds, TypeOK, CallType, Filled
    <2>3. /\ [Blank EXCEPT !.kind = "done", !.ticket = c.ticket] \in PageType
          /\ [Blank EXCEPT !.kind = "done", !.ticket = c.ticket].ticket \in People
          /\ [Blank EXCEPT !.kind = "done", !.ticket = c.ticket].kind = "done"
      BY DEF PageType, Blank, Kinds, TypeOK, CallType
    <2>4. /\ phase' \in PageType
          /\ phase'.kind \in {"confirm", "capture"} =>
                 phase'.ticket \in People /\ phase'.chal \in Chals
          /\ phase'.kind = "capture" => phase'.inst \in Chals
          /\ phase'.kind = "done" => phase'.ticket \in People
          /\ (phase'.kind = "problem" /\ phase'.left > 0) => phase'.ticket \in People
      <3>1. phase \in PageType /\ c.kind \in {"start", "enrol"}
        BY DEF TypeOK, PageType, CallType
      <3>2. CASE phase' = phase
        BY <3>1, <3>2 DEF Filled
      <3>3. CASE phase' # phase
        BY <1>19, <2>1, <2>2, <2>3, <3>1, <3>3 DEF ResumeCall, Resume, Show
      <3> QED
        BY <3>2, <3>3
    <2> QED
      BY <1>19, <2>4 DEF ResumeCall, TypeOK, Filled, PageType
  <1>20. CASE Expire
    BY <1>20 DEF Expire, TypeOK, Filled
  <1>21. CASE Poll
    BY <1>21 DEF Poll, TypeOK, Filled, Wordings
  <1>22. CASE TakeScreen
    BY <1>22, BlankType, Cleared DEF TakeScreen, Reset, Show, TypeOK
  <1>23. CASE GiveScreen
    BY <1>23 DEF GiveScreen, TypeOK, Filled
  <1>24. CASE UNCHANGED vars
    BY <1>24 DEF vars, TypeOK, Filled
  <1> QED
    BY <1>1, <1>2, <1>3, <1>4, <1>5, <1>6, <1>8, <1>9, <1>10, <1>11, <1>12, <1>13,
       <1>14, <1>15, <1>16, <1>17, <1>18, <1>19, <1>20, <1>21, <1>22, <1>23, <1>24
    DEF Next

\* The screen, the calls, the captures and what IDEN holds keep their types.
THEOREM TypeCorrect == Spec => []TypeOK
  <1>1. Spec => []Shapes
    BY InitShapes, NextShapes, PTL DEF Spec
  <1> QED
    BY <1>1, PTL DEF Shapes

-----------------------------------------------------------------------------
(* What a step may do to the captures, the calls, the accounts and the page. *)

\* A capture or a call keeps what it was made with.
Kept(d, c) == /\ d.ticket = c.ticket /\ d.visit = c.visit /\ d.consent = c.consent
              /\ d.face = c.face /\ d.asked = c.asked

\* A capture is one that was there, or is started now by who stands there.
LEMMA RunsTrace ==
    ASSUME Shapes, [Next]_vars, NEW q \in runs'
    PROVE  \/ \E r \in runs : Kept(q, r)
           \/ /\ Start /\ phase.kind = "capture"
              /\ q.visit = visit /\ q.face = who /\ q.consent = agreed
              /\ q.ticket = phase.ticket /\ q.asked = phase.asked
  <1>1. \/ runs' = runs
        \/ Start
        \/ \E r \in runs : LastFrame(r) \/ RunFails(r) \/ Submit(r)
    BY DEF Next, vars, Approach, Touch, Agree, WayOut, IdleOut, DoneOver, Scan, Retry,
           ConfirmYes, Refuse, HandleStart, AdmitEnrol, FinishEnrol, ResumeCall,
           Expire, Poll, TakeScreen, GiveScreen
  <1>2. CASE runs' = runs
    BY <1>2 DEF Kept
  <1>3. CASE Start
    BY <1>3 DEF Start, Kept
  <1>4. ASSUME NEW r \in runs, LastFrame(r) \/ RunFails(r) \/ Submit(r)
        PROVE  \E s \in runs : Kept(q, s)
    <2>1. Kept([r EXCEPT !.stage = "settling"], r)
      BY DEF Kept, Shapes, TypeOK, RunType
    <2>2. q \in runs \/ q = [r EXCEPT !.stage = "settling"]
      BY <1>4 DEF LastFrame, RunFails, Submit
    <2> QED
      BY <2>1, <2>2 DEF Kept
  <1> QED
    BY <1>1, <1>2, <1>3, <1>4

\* A call is one that was there, a start, or the captures' frames.
LEMMA CallsTrace ==
    ASSUME Shapes, [Next]_vars, NEW d \in calls'
    PROVE  \/ \E c \in calls : Kept(d, c) /\ d.kind = c.kind
           \/ d.kind = "start"
           \/ \E r \in runs : Kept(d, r) /\ d.reply = None
  <1>1. \/ calls' \subseteq calls
        \/ Scan \/ Retry
        \/ \E r \in runs : Submit(r)
        \/ \E c \in calls : Refuse(c) \/ HandleStart(c) \/ AdmitEnrol(c) \/ FinishEnrol(c)
    BY DEF Next, vars, Approach, Touch, Agree, WayOut, IdleOut, DoneOver, ConfirmYes,
           Start, LastFrame, RunFails, ResumeCall, Expire, Poll, TakeScreen, GiveScreen
  <1>2. CASE calls' \subseteq calls
    BY <1>2 DEF Kept
  <1>3. CASE Scan \/ Retry
    BY <1>3 DEF Scan, Retry, Begin, StartCall, Kept
  <1>4. ASSUME NEW r \in runs, Submit(r)
        PROVE  \/ \E c \in calls : Kept(d, c) /\ d.kind = c.kind
               \/ \E s \in runs : Kept(d, s) /\ d.reply = None
    BY <1>4 DEF Submit, EnrolCall, Kept
  <1>5. ASSUME NEW c \in calls, Refuse(c) \/ HandleStart(c) \/ AdmitEnrol(c) \/ FinishEnrol(c)
        PROVE  (\E b \in calls : Kept(d, b) /\ d.kind = b.kind) \/ d.kind = "start"
    <2>1. ASSUME NEW reply, calls' = Answer(c, reply)
          PROVE  \E b \in calls : Kept(d, b) /\ d.kind = b.kind
      <3>1. Kept([c EXCEPT !.stage = "answered", !.reply = reply], c)
            /\ [c EXCEPT !.stage = "answered", !.reply = reply].kind = c.kind
        BY DEF Kept, Shapes, TypeOK, CallType
      <3> QED
        BY <2>1, <3>1 DEF Answer, Kept
    <2>2. CASE HandleStart(c) /\ c.ticket \in live /\ left[c.ticket] > 0
      <3> DEFINE ch == <<c.ticket, MaxAttempts - left[c.ticket] + 1>>
                 l == left[c.ticket] - 1
      <3>1. PICK reply \in {"ok", "unavailable"} :
               calls' = (calls \ {c}) \cup
                   {[c EXCEPT !.stage = "answered", !.reply = reply, !.chal = ch, !.left = l]}
        BY <2>2 DEF HandleStart
      <3> HIDE DEF ch, l
      <3>2. c \in CallType /\ c.kind = "start"
        BY <2>2 DEF HandleStart, Shapes, TypeOK
      <3>3. CASE d \in calls
        BY <3>3 DEF Kept
      <3>4. CASE d = [c EXCEPT !.stage = "answered", !.reply = reply, !.chal = ch, !.left = l]
        BY <3>2, <3>4 DEF CallType
      <3> QED
        BY <3>1, <3>3, <3>4
    <2>3. CASE AdmitEnrol(c) /\ calls' = (calls \ {c}) \cup {[c EXCEPT !.stage = "admitted"]}
      <3>1. Kept([c EXCEPT !.stage = "admitted"], c) /\ [c EXCEPT !.stage = "admitted"].kind = c.kind
        BY DEF Kept, Shapes, TypeOK, CallType
      <3> QED
        BY <2>3, <3>1 DEF Kept
    <2> QED
      BY <1>5, <2>1, <2>2, <2>3 DEF Refuse, HandleStart, AdmitEnrol, FinishEnrol
  <1> QED
    BY <1>1, <1>2, <1>3, <1>4, <1>5

\* An account changes only by an admitted capture of its own ticket.
LEMMA AccountsTrace ==
    ASSUME Shapes, [Next]_vars, NEW p \in People
    PROVE  \/ enrolled'[p] = enrolled[p]
           \/ \E c \in calls : /\ c.kind = "enrol" /\ c.ticket = p /\ c.consent # None
                              /\ enrolled'[p] = [face |-> c.face, consent |-> c.consent,
                                                 visit |-> c.visit, asked |-> c.asked]
                              /\ enrolled'[p] # None
  <1>1. enrolled' = enrolled \/ \E c \in calls : FinishEnrol(c)
    BY DEF Next, vars, iden, Approach, Touch, Agree, WayOut, IdleOut, DoneOver, Scan, Retry,
           ConfirmYes, Start, LastFrame, RunFails, Submit, Refuse, HandleStart, AdmitEnrol,
           ResumeCall, Expire, Poll, TakeScreen, GiveScreen
  <1>2. ASSUME NEW c \in calls, FinishEnrol(c), enrolled' # enrolled, c.ticket = p
        PROVE  /\ c.kind = "enrol" /\ c.ticket = p /\ c.consent # None
               /\ enrolled'[p] = [face |-> c.face, consent |-> c.consent,
                                  visit |-> c.visit, asked |-> c.asked]
               /\ enrolled'[p] # None
    <2>1. c.kind = "enrol" /\ c.consent = Wording /\ c.face \in People
      BY <1>2 DEF FinishEnrol, Shapes, Filled
    <2>2. enrolled'[p] = [face |-> c.face, consent |-> c.consent, visit |-> c.visit, asked |-> c.asked]
      BY <1>2 DEF FinishEnrol, Shapes, TypeOK
    <2>3. [face |-> c.face, consent |-> c.consent, visit |-> c.visit, asked |-> c.asked] \in Enrolment
      BY <2>1 DEF Enrolment, Shapes, TypeOK, CallType, Wordings
    <2> QED
      BY <1>2, <2>1, <2>2, <2>3
  <1>3. ASSUME NEW c \in calls, FinishEnrol(c), c.ticket # p
        PROVE  enrolled'[p] = enrolled[p]
    BY <1>3 DEF FinishEnrol, Shapes, TypeOK
  <1> QED
    BY <1>1, <1>2, <1>3

\* "ok" to a capture is said as the account gets its face.
LEMMA GoodAnswers ==
    ASSUME Shapes, [Next]_vars, NEW d \in calls', d.kind = "enrol", d.reply = "ok"
    PROVE  \/ \E c \in calls : c.kind = "enrol" /\ c.reply = "ok" /\ c.ticket = d.ticket
           \/ d.ticket \in People /\ enrolled'[d.ticket] # None
  <1>1. \/ calls' \subseteq calls
        \/ Scan \/ Retry
        \/ \E r \in runs : Submit(r)
        \/ \E c \in calls : Refuse(c) \/ HandleStart(c) \/ AdmitEnrol(c) \/ FinishEnrol(c)
    BY DEF Next, vars, Approach, Touch, Agree, WayOut, IdleOut, DoneOver, ConfirmYes,
           Start, LastFrame, RunFails, ResumeCall, Expire, Poll, TakeScreen, GiveScreen
  <1>2. CASE calls' \subseteq calls
    BY <1>2
  <1>3. CASE Scan \/ Retry
    BY <1>3 DEF Scan, Retry, Begin, StartCall
  <1>4. ASSUME NEW r \in runs, Submit(r)
        PROVE  d \in calls
    BY <1>4 DEF Submit, EnrolCall
  <1>5. ASSUME NEW c \in calls, Refuse(c) \/ HandleStart(c) \/ AdmitEnrol(c) \/ FinishEnrol(c)
        PROVE  \/ d \in calls
               \/ c.kind = "enrol" /\ c.reply = "ok" /\ c.ticket = d.ticket
               \/ d.ticket \in People /\ enrolled'[d.ticket] # None
    <2>0. c \in CallType /\ c.ticket \in People
      BY DEF Shapes, TypeOK, CallType
    <2>1. ASSUME NEW reply \in Codes \cup {"ok"}, calls' = Answer(c, reply)
          PROVE  d \in calls \/ (d.kind = c.kind /\ d.ticket = c.ticket /\ d.reply = reply)
      <3> DEFINE e == [c EXCEPT !.stage = "answered", !.reply = reply]
      <3>1. e.kind = c.kind /\ e.ticket = c.ticket /\ e.reply = reply
        BY <2>0 DEF CallType
      <3>2. calls' = (calls \ {c}) \cup {e}
        BY <2>1 DEF Answer
      <3> HIDE DEF e
      <3> QED
        BY <3>1, <3>2
    <2>2. CASE HandleStart(c) /\ c.ticket \in live /\ left[c.ticket] > 0
      <3> DEFINE ch == <<c.ticket, MaxAttempts - left[c.ticket] + 1>>
                 l == left[c.ticket] - 1
      <3>1. PICK reply \in {"ok", "unavailable"} :
               calls' = (calls \ {c}) \cup
                   {[c EXCEPT !.stage = "answered", !.reply = reply, !.chal = ch, !.left = l]}
        BY <2>2 DEF HandleStart
      <3> HIDE DEF ch, l
      <3>2. [c EXCEPT !.stage = "answered", !.reply = reply, !.chal = ch, !.left = l].kind = "start"
        BY <2>0, <2>2 DEF HandleStart, CallType
      <3> QED
        BY <3>1, <3>2
    <2>3. CASE AdmitEnrol(c) /\ calls' = (calls \ {c}) \cup {[c EXCEPT !.stage = "admitted"]}
      <3>1. /\ [c EXCEPT !.stage = "admitted"].kind = c.kind
            /\ [c EXCEPT !.stage = "admitted"].reply = c.reply
            /\ [c EXCEPT !.stage = "admitted"].ticket = c.ticket
        BY <2>0 DEF CallType
      <3> QED
        BY <2>3, <3>1 DEF AdmitEnrol
    <2>4. CASE \E reply \in Codes : calls' = Answer(c, reply)
      BY <2>1, <2>4 DEF Codes, Retryable, FinalCodes
    <2>5. CASE FinishEnrol(c) /\ enrolled' # enrolled
      <3>1. /\ enrolled'[c.ticket] = [face |-> c.face, consent |-> c.consent,
                                      visit |-> c.visit, asked |-> c.asked]
            /\ c.face \in People /\ c.consent = Wording
        BY <2>0, <2>5 DEF FinishEnrol, Shapes, TypeOK, Filled
      <3>2. enrolled'[c.ticket] # None
        BY <2>0, <3>1 DEF Enrolment, CallType, Wordings
      <3>3. PICK reply \in Codes \cup {"ok"} : calls' = Answer(c, reply)
        BY <2>5 DEF FinishEnrol, Codes, FinalCodes
      <3> QED
        BY <2>0, <2>1, <3>2, <3>3
    <2>6. CASE FinishEnrol(c) /\ enrolled' = enrolled
      <3>1. CASE \E reply \in {"poor_capture", "unavailable"} : calls' = Answer(c, reply)
        BY <2>4, <3>1 DEF Codes, Retryable, FinalCodes
      <3>2. CASE enrolled' = [enrolled EXCEPT ![c.ticket] =
                                [face |-> c.face, consent |-> c.consent, visit |-> c.visit,
                                 asked |-> c.asked]]
        <4>1. /\ enrolled'[c.ticket] = [face |-> c.face, consent |-> c.consent,
                                        visit |-> c.visit, asked |-> c.asked]
              /\ c.face \in People /\ c.consent = Wording
          BY <2>0, <2>6, <3>2 DEF FinishEnrol, Shapes, TypeOK, Filled
        <4>2. enrolled'[c.ticket] # None
          BY <2>0, <4>1 DEF Enrolment, CallType, Wordings
        <4>3. PICK reply \in Codes \cup {"ok"} : calls' = Answer(c, reply)
          BY <2>6 DEF FinishEnrol, Codes, Retryable, FinalCodes
        <4> QED
          BY <2>0, <2>1, <4>2, <4>3
      <3> QED
        BY <2>6, <3>1, <3>2 DEF FinishEnrol
    <2> QED
      BY <1>5, <2>2, <2>3, <2>4, <2>5, <2>6
      DEF Refuse, HandleStart, AdmitEnrol, Codes, Retryable, FinalCodes
  <1> QED
    BY <1>1, <1>2, <1>3, <1>4, <1>5

\* Whoever stands there changes only at the idle screen, and the agreement is
\* theirs, of this visit.
LEMMA PageTrace ==
    ASSUME Shapes, [Next]_vars, phase.kind \in {"idle", "consent"} => agreed = None
    PROVE  /\ assent \subseteq assent'
           /\ \/ agreed' = None
              \/ /\ agreed' = agreed /\ who' = who /\ visit' = visit
                 /\ phase'.kind \notin {"idle", "consent"}
              \/ <<visit', who', agreed'>> \in assent' /\ phase'.kind = "welcome"
           /\ (phase'.kind = "capture" /\ phase'.asked) =>
                 who' = who /\ (phase' = phase \/ phase'.ticket = who)
           /\ phase'.kind = "done" =>
                 \/ phase' = phase
                 \/ \E c \in calls : c.kind = "enrol" /\ c.reply = "ok" /\ c.ticket = phase'.ticket
  <1> DEFINE Goal == /\ assent \subseteq assent'
                     /\ \/ agreed' = None
                        \/ /\ agreed' = agreed /\ who' = who /\ visit' = visit
                           /\ phase'.kind \notin {"idle", "consent"}
                        \/ <<visit', who', agreed'>> \in assent' /\ phase'.kind = "welcome"
                     /\ (phase'.kind = "capture" /\ phase'.asked) =>
                           who' = who /\ (phase' = phase \/ phase'.ticket = who)
                     /\ phase'.kind = "done" =>
                           \/ phase' = phase
                           \/ \E c \in calls : /\ c.kind = "enrol" /\ c.reply = "ok"
                                              /\ c.ticket = phase'.ticket
  <1>1. CASE UNCHANGED <<phase, agreed, who, visit, assent>>
    BY <1>1
  <1>2. CASE Agree
    BY <1>2, Bare DEF Agree, Show, Kinds
  <1>3. CASE WayOut \/ IdleOut \/ DoneOver \/ TakeScreen
    BY <1>3, BlankType DEF WayOut, IdleOut, DoneOver, TakeScreen, Reset, Show
  <1>4. CASE Touch
    BY <1>4, Bare DEF Touch, Show, Kinds
  <1>5. CASE Scan \/ Retry
    <2>1. phase' = [Blank EXCEPT !.kind = "starting"] /\ UNCHANGED <<agreed, who, visit, assent>>
      BY <1>5 DEF Scan, Retry, Begin, Show
    <2> QED
      BY <2>1, Bare DEF Kinds
  <1>6. CASE ConfirmYes
    <2>1. phase'.kind = "capture" /\ phase'.ticket = who
      BY <1>6 DEF ConfirmYes, Show, Shapes, TypeOK, PageType
    <2> QED
      BY <1>6, <2>1 DEF ConfirmYes
  <1>7. ASSUME NEW r \in runs, Submit(r)
        PROVE  Goal
    <2>1. [Blank EXCEPT !.kind = "checking", !.ticket = r.ticket].kind = "checking"
      BY DEF Blank
    <2> QED
      BY <1>7, <2>1 DEF Submit, Show
  <1>8. ASSUME NEW c \in calls, ResumeCall(c)
        PROVE  Goal
    <2>1. UNCHANGED <<agreed, who, visit, assent>>
      BY <1>8 DEF ResumeCall
    <2>2. CASE phase' = phase
      BY <2>1, <2>2
    <2>3. CASE phase' = Problem(c)
      <3>1. Problem(c).kind = "problem"
        BY DEF Problem, Blank
      <3> QED
        BY <2>1, <2>3, <3>1
    <2>4. CASE phase' = Started(c) /\ c.kind = "start"
      <3>1. /\ Started(c).kind \in {"confirm", "capture"}
            /\ Started(c).kind = "capture" => Started(c).asked = FALSE
        BY DEF Started, Shapes, TypeOK, CallType
      <3> QED
        BY <2>1, <2>4, <3>1
    <2>5. CASE /\ phase' = [Blank EXCEPT !.kind = "done", !.ticket = c.ticket]
               /\ c.kind = "enrol" /\ c.reply = "ok"
      <3>1. /\ [Blank EXCEPT !.kind = "done", !.ticket = c.ticket].kind = "done"
            /\ [Blank EXCEPT !.kind = "done", !.ticket = c.ticket].ticket = c.ticket
        BY DEF Blank
      <3> QED
        BY <2>1, <2>5, <3>1
    <2>6. c.kind \in {"start", "enrol"}
      BY DEF Shapes, TypeOK, CallType
    <2> QED
      BY <1>8, <2>2, <2>3, <2>4, <2>5, <2>6 DEF ResumeCall, Resume, Show
  <1>9. ASSUME NEW p \in People, Approach(p)
        PROVE  Goal
    BY <1>9 DEF Approach, page
  <1> QED
    BY <1>1, <1>2, <1>3, <1>4, <1>5, <1>6, <1>7, <1>8, <1>9
    DEF Next, vars, page, iden, Start, LastFrame, RunFails, Refuse, HandleStart,
        AdmitEnrol, FinishEnrol, Expire, Poll, GiveScreen

-----------------------------------------------------------------------------
(* The invariants the runs check, strengthened until they are inductive.   *)

\* Every consent on its way to IDEN was given, by the face it goes with, in
\* the visit it is of.  Calls and captures outlive the screen that made them,
\* so the agreement has to be carried with them, not read off the screen.
Agreement ==
    /\ phase.kind \in {"idle", "consent"} => agreed = None
    /\ agreed # None => <<visit, who, agreed>> \in assent
    /\ \A r \in runs : r.consent # None => <<r.visit, r.face, r.consent>> \in assent
    /\ \A c \in calls : (c.kind = "enrol" /\ c.consent # None) =>
                            <<c.visit, c.face, c.consent>> \in assent
    /\ ConsentOfThisFace

\* At first nothing has been agreed to or sent.
LEMMA InitAgreement == Init => Agreement
  BY DEF Init, Agreement, ConsentOfThisFace

\* Every step keeps the agreements with their captures and calls.
LEMMA NextAgreement == Shapes /\ Agreement /\ [Next]_vars => Agreement'
  <1> SUFFICES ASSUME Shapes, Agreement, [Next]_vars
               PROVE  Agreement'
    OBVIOUS
  <1>1. phase.kind \in {"idle", "consent"} => agreed = None
    BY DEF Agreement
  <1>2. assent \subseteq assent'
    BY <1>1, PageTrace
  <1>3. phase'.kind \in {"idle", "consent"} => agreed' = None
    BY <1>1, PageTrace
  <1>4. agreed' # None => <<visit', who', agreed'>> \in assent'
    BY <1>1, <1>2, PageTrace DEF Agreement
  <1>5. ASSUME NEW q \in runs', q.consent # None
        PROVE  <<q.visit, q.face, q.consent>> \in assent'
    BY <1>2, <1>5, RunsTrace DEF Agreement, Kept
  <1>6. ASSUME NEW d \in calls', d.kind = "enrol", d.consent # None
        PROVE  <<d.visit, d.face, d.consent>> \in assent'
    BY <1>2, <1>6, CallsTrace DEF Agreement, Kept
  <1>7. ASSUME NEW p \in People, enrolled'[p] # None
        PROVE  <<enrolled'[p].visit, enrolled'[p].face, enrolled'[p].consent>> \in assent'
    <2>1. CASE enrolled'[p] = enrolled[p]
      BY <1>2, <1>7, <2>1 DEF Agreement, ConsentOfThisFace
    <2>2. ASSUME NEW c \in calls, c.kind = "enrol", c.consent # None,
                 enrolled'[p] = [face |-> c.face, consent |-> c.consent,
                                 visit |-> c.visit, asked |-> c.asked]
          PROVE  <<enrolled'[p].visit, enrolled'[p].face, enrolled'[p].consent>> \in assent'
      BY <1>2, <2>2 DEF Agreement
    <2> QED
      BY <2>1, <2>2, AccountsTrace
  <1> QED
    BY <1>3, <1>4, <1>5, <1>6, <1>7 DEF Agreement, ConsentOfThisFace

\* A capture the visitor was asked about is of the ticket's own holder, on the
\* screen, under way, on its way and on the account.
Faces ==
    /\ (phase.kind = "capture" /\ phase.asked) => phase.ticket = who
    /\ \A r \in runs : r.asked => r.face = r.ticket
    /\ \A c \in calls : (c.kind = "enrol" /\ c.asked) => c.face = c.ticket
    /\ AskedMeansOwnFace

\* At first nobody has been asked for their name.
LEMMA InitFaces == Init => Faces
  BY BlankType DEF Init, Faces, AskedMeansOwnFace

\* Every step keeps a confirmed person's face theirs.
LEMMA NextFaces == Shapes /\ Agreement /\ Faces /\ [Next]_vars => Faces'
  <1> SUFFICES ASSUME Shapes, Agreement, Faces, [Next]_vars
               PROVE  Faces'
    OBVIOUS
  <1>1. (phase'.kind = "capture" /\ phase'.asked) => phase'.ticket = who'
    BY PageTrace DEF Agreement, Faces
  <1>2. ASSUME NEW q \in runs', q.asked
        PROVE  q.face = q.ticket
    BY <1>2, RunsTrace DEF Faces, Kept
  <1>3. ASSUME NEW d \in calls', d.kind = "enrol", d.asked
        PROVE  d.face = d.ticket
    BY <1>3, CallsTrace DEF Faces, Kept
  <1>4. ASSUME NEW p \in People, enrolled'[p] # None, enrolled'[p].asked
        PROVE  enrolled'[p].face = p
    <2>1. CASE enrolled'[p] = enrolled[p]
      BY <1>4, <2>1 DEF Faces, AskedMeansOwnFace
    <2>2. ASSUME NEW c \in calls, c.kind = "enrol", c.ticket = p,
                 enrolled'[p] = [face |-> c.face, consent |-> c.consent,
                                 visit |-> c.visit, asked |-> c.asked]
          PROVE  enrolled'[p].face = p
      BY <1>4, <2>2 DEF Faces
    <2> QED
      BY <2>1, <2>2, AccountsTrace
  <1> QED
    BY <1>1, <1>2, <1>3, <1>4 DEF Faces, AskedMeansOwnFace

\* A good answer on its way back is of a person who is enrolled by then.
Results ==
    /\ \A c \in calls : (c.kind = "enrol" /\ c.reply = "ok") =>
                            c.ticket \in People /\ enrolled[c.ticket] # None
    /\ phase.kind = "done" => phase.ticket \in People
    /\ DoneMeansEnrolled

\* At first no answer is on its way.
LEMMA InitResults == Init => Results
  BY BlankType DEF Init, Results, DoneMeansEnrolled

\* Every step keeps the good answers true.
LEMMA NextResults == Shapes /\ Agreement /\ Results /\ [Next]_vars => Results'
  <1> SUFFICES ASSUME Shapes, Agreement, Results, [Next]_vars
               PROVE  Results'
    OBVIOUS
  <1>1. ASSUME NEW p \in People, enrolled[p] # None
        PROVE  enrolled'[p] # None
    BY <1>1, AccountsTrace
  <1>2. ASSUME NEW d \in calls', d.kind = "enrol", d.reply = "ok"
        PROVE  d.ticket \in People /\ enrolled'[d.ticket] # None
    BY <1>1, <1>2, GoodAnswers DEF Results
  <1>3. phase'.kind = "done" => phase'.ticket \in People /\ enrolled'[phase'.ticket] # None
    BY <1>1, PageTrace DEF Agreement, Results, DoneMeansEnrolled
  <1> QED
    BY <1>2, <1>3 DEF Results, DoneMeansEnrolled

-----------------------------------------------------------------------------
(* Theorems.                                                               *)

\* However many visits, screens and late answers there are, a face on an
\* account was agreed to by the person whose face it is, in that visit.
THEOREM EveryFaceConsented == Spec => []ConsentOfThisFace
  <1>1. Init => Shapes /\ Agreement
    BY InitShapes, InitAgreement
  <1>2. Shapes /\ Agreement /\ [Next]_vars => Shapes' /\ Agreement'
    BY NextShapes, NextAgreement
  <1>3. Agreement => ConsentOfThisFace
    BY DEF Agreement
  <1> QED
    BY <1>1, <1>2, <1>3, PTL DEF Spec

\* A capture that came through "Is this you?" is enrolled for its own person.
THEOREM AskedFacesAreOwn == Spec => []AskedMeansOwnFace
  <1>1. Init => Shapes /\ Agreement /\ Faces
    BY InitShapes, InitAgreement, InitFaces
  <1>2. Shapes /\ Agreement /\ Faces /\ [Next]_vars => Shapes' /\ Agreement' /\ Faces'
    BY NextShapes, NextAgreement, NextFaces
  <1>3. Faces => AskedMeansOwnFace
    BY DEF Faces
  <1> QED
    BY <1>1, <1>2, <1>3, PTL DEF Spec

\* The kiosk congratulates only people IDEN has enrolled.
THEOREM DoneIsTrue == Spec => []DoneMeansEnrolled
  <1>1. Init => Shapes /\ Agreement /\ Results
    BY InitShapes, InitAgreement, InitResults
  <1>2. Shapes /\ Agreement /\ Results /\ [Next]_vars => Shapes' /\ Agreement' /\ Results'
    BY NextShapes, NextAgreement, NextResults
  <1>3. Results => DoneMeansEnrolled
    BY DEF Results
  <1> QED
    BY <1>1, <1>2, <1>3, PTL DEF Spec
=============================================================================
