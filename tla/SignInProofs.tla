---------------------------- MODULE SignInProofs ----------------------------
(***************************************************************************)
(* What the sign-in pages guarantee for any number of steps mounted, face  *)
(* challenges issued and faces tried, and any number of requests and       *)
(* captures left behind by steps the person has gone from.                 *)
(*                                                                         *)
(* Everything rests on what a mounting is: at most one of its own          *)
(* submissions is under way, its step shows it as pending, and nothing     *)
(* else is answered in its place (Page).  From there each property has an  *)
(* invariant of its own: where the number of a face challenge can still be *)
(* found (Numbers), how a factor that was given shows (Factors), and what  *)
(* the answers to a new password say of the provider (Recovery).           *)
(***************************************************************************)
EXTENDS SignIn, FiniteSetTheorems, TLAPS

USE SignInAssumption

PostType == [kind : Kinds, id : Nat, mount : Nat, flow : Nat, attempt : Nat,
             reply : Replies \cup {None}, owes : SUBSET Methods]

CheckType == [status : Replies \cup {"none", "pending"}, id : Nat, attempt : Nat]

Submits == {"login", "otp", "face", "allow", "deny", "forgot", "reset"}

Types ==
    /\ route \in {"login", "consent", "forgot", "reset"}
    /\ chal \in [status : {"pending", "ok", "expired", "network"}, methods : SUBSET Methods]
    /\ step \in Methods \cup {None, "choose"}
    /\ owed \in (SUBSET Methods) \cup {None}
    /\ flow \in Nat /\ mount \in Nat
    /\ status \in Replies \cup {"idle", "pending"}
    /\ check \in CheckType
    /\ camera \in {"off", "ready", "denied", "capturing", "last"}
    /\ posts \subseteq PostType
    /\ captures \subseteq Nat /\ sent \subseteq Nat
    /\ enrolled \subseteq Methods /\ asked \subseteq Methods
    /\ amr \subseteq Methods \cup {"pwd"}
    /\ failures \in Nat
    /\ issued \in [all : SUBSET Nat, live : SUBSET Nat]

\* Which answers a kind of request gets.
Answers ==
    \A p \in posts :
        /\ p.mount <= mount /\ p.flow <= flow
        /\ p.kind = "challenge" => p.reply \in {None, "ok", "expired", "network"}
        /\ p.reply = "required" => p.kind = "login" /\ p.owes # {}
        /\ p.reply = "answered" => p.kind \in {"forgot", "reset"}
        /\ p.reply \in {"allow", "deny"} => p.kind \in {"allow", "deny"}

\* The mounting on the screen has at most one submission under way, and shows
\* it; a key has at most one fetch under way, and the step with that key waits.
Mounting ==
    /\ \A p \in posts : p.kind = "challenge" => chal.status = "pending"
    /\ \A p, q \in posts : p.kind = "challenge" /\ q.kind = "challenge" => p = q
    /\ \A p \in posts : Mine(p) =>
           /\ p.kind \in Submits => status = "pending"
           /\ p.kind \in {"login", "otp", "face"} => route = "login"
           /\ p.kind \in {"allow", "deny"} => route = "consent"
           /\ p.kind = "forgot" => route = "forgot"
    /\ \A p, q \in posts :
           Mine(p) /\ Mine(q) /\ p.kind \in Submits /\ q.kind \in Submits => p = q
    /\ \A p \in posts :
           p.kind = "check" /\ p.attempt = check.attempt => check.status \in {"none", "pending"}
    /\ \A p, q \in posts :
           p.kind = "check" /\ q.kind = "check" /\ p.attempt = q.attempt => p = q

\* The face step, and nothing else, has a challenge, asked for while nothing is
\* submitted, and a camera that is on before it submits.
FacePage ==
    /\ check.status # "none" <=> route = "login" /\ current = "face"
    /\ check.status \notin {"none", "ok"} => status = "idle"
    /\ camera # "off" => check.status = "ok" /\ status = "idle"
    /\ status = "answered" => route # "login"
    /\ route \in {"consent", "reset"} => captures = {}
    /\ captures # {} => mount > 0

\* Only a login is under way while its LoginFlow still asks for the password.
Flows ==
    /\ step = None => owed = None
    /\ chal.status # "ok" => step = None
    /\ \A p \in posts : p.kind = "login" /\ p.flow = flow =>
           /\ Mine(p) /\ route = "login" /\ step = None
           /\ chal.status = "ok" /\ chal.methods = {}
    /\ route = "forgot" => step = None /\ chal.status = "ok" /\ chal.methods = {}

\* A new password is asked for on a page of its own.
ResetPage ==
    /\ route = "reset" => chal.status = "pending" /\ \A p \in posts : p.kind = "reset"
    /\ \A p \in posts : p.kind = "reset" => route = "reset"

Page == Types /\ Answers /\ Mounting /\ FacePage /\ Flows /\ ResetPage

\* A challenge's number is found in one place: with the answer that brings it, at
\* the step that shows it, with a capture left behind, or among those sent.
Numbers ==
    /\ IsFiniteSet(issued.all) /\ issued.all = 1..Cardinality(issued.all)
    /\ sent \cup captures \subseteq issued.all
    /\ captures \cap sent = {}
    /\ check.status = "ok" => check.id \in issued.all \ captures
    /\ check.status = "ok" /\ status = "idle" => check.id \notin sent
    /\ \A p \in posts : p.kind = "check" =>
           /\ p.reply = None => p.id = 0
           /\ p.reply = "ok" => p.id # 0
           /\ p.id # 0 => /\ p.id \in issued.all \ (sent \cup captures)
                          /\ check.status = "ok" => p.id # check.id
    /\ \A p, q \in posts :
           p.kind = "check" /\ q.kind = "check" /\ p.id = q.id /\ p.id # 0 => p = q

\* The client takes a face and nothing else.
NeedsFace == need = "face" /\ "face" \in enrolled

\* The answer that a factor was all it took has landed, is on its way or was lost.
Shown(m) ==
    leaving # None \/ lost \/ \E p \in posts : p.kind = m /\ p.reply = "complete"

\* Nothing in the page asks for a code.
FaceOnly ==
    /\ asked \subseteq {"face"} /\ chal.methods \subseteq {"face"} /\ step # "otp"
    /\ owed # None => owed \subseteq {"face"}
    /\ \A p \in posts : p.owes \subseteq {"face"} /\ p.kind # "otp"

\* The page has not come past the password: what the session has already was
\* given before the page was opened.
Before ==
    /\ asked = {} /\ chal.methods = {} /\ step = None /\ owed = None /\ captures = {}
    /\ \A p \in posts : p.kind \notin {"otp", "face"} /\ p.reply # "required"

Factors ==
    /\ "face" \in amr => Shown("face") \/ Before
    /\ "otp" \in amr /\ ~NeedsFace => Shown("otp") \/ Before
    /\ NeedsFace => FaceOnly

Recovery ==
    /\ RecoveryTellsTheTruth
    /\ \A p \in posts :
           /\ p.kind = "reset" /\ p.reply = "answered" => password = "new"
           /\ p.reply = "invalid_reset_token" => ~token

-----------------------------------------------------------------------------
(* A request, and what changes with it.                                    *)

\* What a request is made of.
LEMMA PostFields ==
    ASSUME NEW p \in PostType
    PROVE  /\ p.kind \in Kinds /\ p.id \in Nat /\ p.mount \in Nat /\ p.flow \in Nat /\ p.attempt \in Nat
           /\ p.reply \in Replies \cup {None} /\ p.owes \in SUBSET Methods
  BY DEF PostType

\* A request without an answer has none of these.
LEMMA Unanswered ==
    /\ None \notin {"ok", "required", "complete", "answered", "allow", "deny",
                   "invalid_reset_token", "network"} \cup Retryable
    /\ None \notin {"choose", "otp", "face"} /\ None \notin {"resume", "allow", "deny"}
  BY DEF Replies, Kinds, Retryable

\* A fetch that is begun, or nothing when there is one to join.
LEMMA FetchesOne ==
    ASSUME NEW n \in Nat
    PROVE  \E o \in PostType :
              /\ o.kind = "check" /\ o.id = 0 /\ o.mount = 0 /\ o.flow = 0 /\ o.attempt = n
              /\ o.reply = None /\ o.owes = {}
              /\ Fetches(n) \subseteq {o}
              /\ Fetches(n) # {} => \A p \in posts : p.kind = "check" => p.attempt # n
  <1> DEFINE o == [Post("check", 0, 0, 0) EXCEPT !.attempt = n]
  <1>1. "check" \in Kinds /\ 0 \in Nat
    BY DEF Kinds
  <1>2. /\ o \in PostType /\ o.kind = "check" /\ o.id = 0 /\ o.mount = 0 /\ o.flow = 0
        /\ o.attempt = n /\ o.reply = None /\ o.owes = {}
    BY <1>1 DEF Post, PostType
  <1>3. /\ Fetches(n) \subseteq {o}
        /\ Fetches(n) # {} => \A p \in posts : p.kind = "check" => p.attempt # n
    BY DEF Fetches
  <1> QED
    BY <1>2, <1>3

\* The provider's answer is put in the place of the request.
LEMMA Replied ==
    ASSUME Page, NEW p \in posts, NEW q \in PostType,
           q.kind = p.kind, q.mount = p.mount, q.flow = p.flow, q.attempt = p.attempt, q.reply # None,
           q.kind = "challenge" => q.reply \in {"ok", "expired", "network"},
           q.reply = "required" => q.kind = "login" /\ q.owes # {},
           q.reply = "answered" => q.kind \in {"forgot", "reset"},
           q.reply \in {"allow", "deny"} => q.kind \in {"allow", "deny"},
           posts' = (posts \ {p}) \cup {q}, enrolled' = enrolled, asked' = asked,
           UNCHANGED <<route, view, leave, captures, sent>>,
           amr' \subseteq Methods \cup {"pwd"}, failures' \in Nat,
           issued' \in [all : SUBSET Nat, live : SUBSET Nat]
    PROVE  Page'
  <1> USE DEF Page, view
  <1>1. Types'
    BY DEF Types
  <1>2. Answers'
    BY DEF Answers
  <1>3. Mounting'
    BY DEF Mounting, Mine
  <1>4. FacePage'
    BY DEF FacePage, current, methods
  <1>5. Flows'
    BY DEF Flows, Mine
  <1>6. ResetPage'
    BY DEF ResetPage
  <1> QED
    BY <1>1, <1>2, <1>3, <1>4, <1>5, <1>6

\* A step is mounted: nothing under way is its own but the challenge it asks for.
LEMMA Mounted ==
    ASSUME Page, NEW s, NEW R \in SUBSET posts, Fresh(s), posts' = R \cup Opens(s),
           route \in {"login", "forgot"}, route' \in {"login", "forgot"}, flow' \in {flow, flow + 1},
           chal' \in [status : {"pending", "ok", "expired", "network"}, methods : SUBSET Methods],
           step' \in Methods \cup {None, "choose"}, owed' \in (SUBSET Methods) \cup {None},
           UNCHANGED <<sent, server>>,
           s = "face" => flow' = flow,
           s = "face" <=> route' = "login" /\ current' = "face",
           step' = None => owed' = None,
           route' = "forgot" => step' = None /\ chal'.methods = {},
           chal'.status = "ok", \A p \in R : p.kind # "challenge",
           \A p \in R : p.kind = "login" => p.flow # flow'
    PROVE  Page'
  <1> USE DEF Page
  <1>1. /\ mount \in Nat /\ mount' = mount + 1 /\ status' = "idle" /\ camera' = "off"
        /\ flow \in Nat /\ flow' \in Nat /\ flow <= flow'
        /\ captures' = captures \/ captures' = captures \cup {check.id}
        /\ check' = IF s = "face" THEN [NoCheck EXCEPT !.status = "pending"] ELSE NoCheck
    BY DEF Fresh, Orphaned, Types
  <1>2. /\ check' \in CheckType
        /\ check'.status = IF s = "face" THEN "pending" ELSE "none"
    BY <1>1 DEF NoCheck, CheckType
  <1>3. PICK o \in PostType :
              /\ o.kind = "check" /\ o.id = 0 /\ o.mount = 0 /\ o.flow = 0 /\ o.attempt = 0
              /\ o.reply = None /\ o.owes = {}
              /\ Fetches(0) \subseteq {o}
              /\ Fetches(0) # {} => \A p \in posts : p.kind = "check" => p.attempt # 0
    BY FetchesOne
  <1>4. PICK F \in SUBSET {o} :
              /\ posts' = R \cup F
              /\ F # {} => \A p \in posts : p.kind = "check" => p.attempt # 0
    BY <1>3 DEF Opens
  <1>5. \A p \in R : p \in PostType /\ p \in posts /\ p.mount \in Nat /\ p.mount <= mount /\ p.flow <= flow /\ p.flow \in Nat
    BY PostFields DEF Types, Answers
  <1>6. \A p \in R : p.mount # mount'
    BY <1>1, <1>5
  <1>7. Types'
    <2>1. captures' \subseteq Nat
      BY <1>1 DEF Types, CheckType
    <2>2. posts' \subseteq PostType
      BY <1>3, <1>4, <1>5
    <2> QED
      BY <1>1, <1>2, <2>1, <2>2 DEF Types, server
  <1>8. Answers'
    <2>1. \A p \in R : p.mount <= mount' /\ p.flow <= flow'
      BY <1>1, <1>5
    <2>2. o.mount <= mount' /\ o.flow <= flow'
      BY <1>1, <1>3
    <2> QED
      BY <1>3, <1>4, <1>5, <2>1, <2>2, Unanswered DEF Answers
  <1>9. Mounting'
    <2>1. \A p, q \in posts' : p.kind = "check" /\ q.kind = "check" /\ p.attempt = q.attempt => p = q
      BY <1>3, <1>4, <1>5 DEF Mounting
    <2> QED
      BY <1>1, <1>2, <1>3, <1>4, <1>5, <1>6, <2>1 DEF Mounting, Mine, Submits
  <1>10. FacePage'
    BY <1>1, <1>2 DEF FacePage
  <1>11. Flows'
    BY <1>3, <1>4 DEF Flows
  <1>12. ResetPage'
    BY <1>3, <1>4, <1>5 DEF ResetPage
  <1> QED
    BY <1>7, <1>8, <1>9, <1>10, <1>11, <1>12

\* A step sends its only submission.
LEMMA Submitted ==
    ASSUME Page, NEW kind \in Submits, NEW id \in Nat, Sends(kind, id),
           status # "pending", check.status \in {"none", "ok"}, camera' = "off",
           sent' \subseteq Nat,
           UNCHANGED <<route, chal, step, owed, flow, mount, check, leave, captures, lost, server>>,
           kind \in {"login", "otp", "face"} => route = "login",
           kind \in {"allow", "deny"} => route = "consent",
           kind = "forgot" => route = "forgot",
           kind = "reset" <=> route = "reset",
           kind = "login" => step = None /\ chal.status = "ok" /\ chal.methods = {}
    PROVE  Page'
  <1> USE DEF Page
  <1> DEFINE o == Post(kind, id, mount, flow)
  <1>1. /\ o \in PostType /\ o.kind = kind /\ o.mount = mount /\ o.flow = flow
        /\ o.reply = None /\ o.owes = {}
    <2>1. kind \in Kinds /\ mount \in Nat /\ flow \in Nat
      BY DEF Types, Kinds, Submits
    <2> QED
      BY <2>1 DEF Post, PostType
  <1>2. posts' = posts \cup {o} /\ status' = "pending"
    BY DEF Sends
  <1> HIDE DEF o
  <1>3. Types'
    BY <1>1, <1>2 DEF Types, server
  <1>4. Answers'
    <2>1. mount <= mount /\ flow <= flow
      BY DEF Types
    <2> QED
      BY <1>1, <1>2, <2>1, Unanswered DEF Answers
  <1>5. Mounting'
    BY <1>1, <1>2 DEF Mounting, Mine, Submits
  <1>6. FacePage'
    BY <1>2 DEF FacePage, current, methods
  <1>7. Flows'
    BY <1>1, <1>2 DEF Flows, Mine
  <1>8. ResetPage'
    BY <1>1, <1>2 DEF ResetPage
  <1> QED
    BY <1>3, <1>4, <1>5, <1>6, <1>7, <1>8

\* The answer to a submission lands, at its step if that is still there.
LEMMA Landed ==
    ASSUME Page, NEW p \in posts, p.kind \in Submits, posts' = posts \ {p},
           \/ status' = status
           \/ Mine(p) /\ status' \in Replies /\ (status' = "answered" => route # "login"),
           UNCHANGED <<route, chal, step, owed, flow, mount, check, camera, captures, sent, server>>
    PROVE  Page'
  <1> USE DEF Page
  <1>1. Mine(p) => status = "pending"
    BY DEF Mounting
  <1>2. Types'
    BY DEF Types, server
  <1>3. Answers'
    BY DEF Answers
  <1>4. Mounting'
    BY DEF Mounting, Mine
  <1>5. FacePage'
    BY <1>1 DEF FacePage, current, methods
  <1>6. Flows'
    BY DEF Flows, Mine
  <1>7. ResetPage'
    BY DEF ResetPage
  <1> QED
    BY <1>2, <1>3, <1>4, <1>5, <1>6, <1>7

-----------------------------------------------------------------------------
(* Every step keeps the page.                                              *)

\* The step to show for the methods owed.
LEMMA StepFor ==
    ASSUME NEW ms \in SUBSET Methods
    PROVE  /\ stepFor(ms) \in Methods \cup {"choose"}
           /\ ms \subseteq {"face"} /\ ms # {} => stepFor(ms) = "face"
  <1>1. Cardinality({"face"}) = 1
    BY FS_Singleton
  <1>2. ms \subseteq {"face"} /\ ms # {} => ms = {"face"}
    OBVIOUS
  <1> QED
    BY <1>1, <1>2 DEF stepFor, Methods

\* The page as it is opened.
LEMMA InitPage == Init => Page
  <1> SUFFICES ASSUME Init
               PROVE  Page
    OBVIOUS
  <1> DEFINE o == Post("challenge", 0, 0, 1)
  <1>1. /\ o \in PostType /\ o.kind = "challenge" /\ o.mount = 0 /\ o.flow = 1
        /\ o.reply = None /\ o.owes = {}
    <2>1. "challenge" \in Kinds /\ 0 \in Nat /\ 1 \in Nat
      BY DEF Kinds
    <2> QED
      BY <2>1 DEF Post, PostType
  <1>2. posts = IF route = "reset" THEN {} ELSE {o}
    BY DEF Init
  <1> HIDE DEF o
  <1>3. asked \subseteq Methods /\ enrolled \subseteq Methods
    BY DEF Init, Outstanding, OwesAny, Methods
  <1>4. check \in CheckType /\ check.status = "none"
    BY DEF Init, NoCheck, CheckType
  <1>5. Types
    <2>1. issued \in [all : SUBSET Nat, live : SUBSET Nat]
      BY DEF Init
    <2>2. chal \in [status : {"pending", "ok", "expired", "network"}, methods : SUBSET Methods]
      BY DEF Init
    <2>3. posts \subseteq PostType
      BY <1>1, <1>2
    <2>4. /\ route \in {"login", "consent", "forgot", "reset"} /\ step = None /\ owed = None
          /\ flow \in Nat /\ mount \in Nat /\ status = "idle" /\ camera = "off"
          /\ captures = {} /\ sent = {} /\ amr \subseteq Methods \cup {"pwd"} /\ failures \in Nat
      BY DEF Init
    <2> QED
      BY <1>3, <1>4, <2>1, <2>2, <2>3, <2>4 DEF Types
  <1>6. Answers /\ Mounting
    BY <1>1, <1>2, Unanswered DEF Init, Answers, Mounting, Submits
  <1>7. FacePage
    BY <1>4 DEF Init, FacePage, current
  <1>8. Flows /\ ResetPage
    BY <1>1, <1>2 DEF Init, Flows, ResetPage
  <1> QED
    BY <1>5, <1>6, <1>7, <1>8 DEF Page

\* The password is asked for by a LoginFlow that has nothing else to ask.
LEMMA AsksForThePassword ==
    ASSUME Page, current = "credentials"
    PROVE  chal.status = "ok" /\ step = None /\ chal.methods = {}
  <1>1. /\ chal.status \in {"pending", "ok", "expired", "network"} /\ chal.methods \in SUBSET Methods
        /\ step \in Methods \cup {None, "choose"} /\ owed \in (SUBSET Methods) \cup {None}
    BY DEF Page, Types
  <1>2. methods \in SUBSET Methods
    <2>1. CASE owed = None
      BY <1>1, <2>1 DEF methods
    <2>2. CASE owed \in SUBSET Methods
      BY <1>1, <2>2 DEF methods
    <2> QED
      BY <1>1, <2>1, <2>2
  <1>3. stepFor(methods) # "credentials"
    BY <1>2, StepFor DEF Methods
  <1> QED
    BY <1>1, <1>3, Unanswered DEF current, Methods

\* Leaving a step for another.
LEMMA MovesPage ==
    ASSUME Page, (\E s \in Methods : Choose(s)) \/ SwitchMethod \/ Forgot \/ BackToSignIn
    PROVE  Page'
  <1>1. posts \subseteq posts /\ chal' = chal /\ UNCHANGED <<sent, server>>
    BY DEF Choose, SwitchMethod, Forgot, BackToSignIn
  <1>2. /\ chal \in [status : {"pending", "ok", "expired", "network"}, methods : SUBSET Methods]
        /\ step \in Methods \cup {None, "choose"} /\ owed \in (SUBSET Methods) \cup {None}
        /\ flow \in Nat
    BY DEF Page, Types
  <1>3. current \in {"choose", "otp", "face", "credentials"} => chal.status = "ok"
    BY <1>2 DEF current
  <1>4. current = "choose" \/ current \in Methods => step # None \/ chal.methods # {}
    BY <1>2 DEF current, Methods
  <1>5. current = "credentials" => step = None /\ chal.methods = {}
    BY AsksForThePassword
  <1>6. \A p \in posts : /\ p.kind = "challenge" => chal.status # "ok"
                         /\ p.kind = "login" /\ p.flow = flow =>
                                route = "login" /\ step = None /\ chal.methods = {}
                         /\ p.flow \in Nat /\ p.flow <= flow
    BY PostFields DEF Page, Mounting, Flows, Answers, Types
  <1>7. ASSUME NEW s \in Methods, Choose(s)
        PROVE  Page'
    <2>1. /\ route = "login" /\ step' = s /\ Fresh(s) /\ posts' = posts \cup Opens(s)
          /\ UNCHANGED <<route, owed, flow>> /\ current = "choose"
      BY <1>7 DEF Choose
    <2>2. current' = s /\ s # None /\ s # "choose"
      BY <1>1, <1>3, <2>1, Unanswered DEF current, Methods
    <2> QED
      BY <1>1, <1>2, <1>3, <1>4, <1>6, <2>1, <2>2, Mounted
  <1>8. CASE SwitchMethod
    <2>1. /\ route = "login" /\ step' = "choose" /\ Fresh("choose") /\ posts' = posts
          /\ UNCHANGED <<route, owed, flow>> /\ current \in Methods
      BY <1>8 DEF SwitchMethod
    <2>2. current' = "choose" /\ posts' = posts \cup Opens("choose") /\ "choose" # None
      BY <1>1, <1>3, <2>1, Unanswered DEF current, Methods, Opens
    <2>3. PICK s : s = "choose"
      OBVIOUS
    <2>4. /\ Fresh(s) /\ posts' = posts \cup Opens(s) /\ current' = s /\ s # "face"
          /\ step' \in Methods \cup {None, "choose"} /\ step' # None /\ route' = "login"
          /\ chal.status = "ok"
      BY <1>3, <2>1, <2>2, <2>3 DEF Methods
    <2> QED
      BY <1>1, <1>2, <1>3, <1>4, <1>6, <2>1, <2>4, Mounted
  <1>9. CASE Forgot
    <2>1. /\ route = "login" /\ route' = "forgot" /\ step' = None /\ owed' = None
          /\ flow' = flow + 1 /\ Fresh("forgot") /\ posts' = posts /\ current = "credentials"
      BY <1>9 DEF Forgot
    <2>2. posts' = posts \cup Opens("forgot") /\ \A p \in posts : p.flow # flow'
      BY <1>2, <1>6, <2>1 DEF Opens
    <2>3. PICK s : s = "forgot"
      OBVIOUS
    <2>4. Fresh(s) /\ posts' = posts \cup Opens(s) /\ s # "face"
      BY <2>1, <2>2, <2>3
    <2> QED
      BY <1>1, <1>2, <1>3, <1>5, <1>6, <2>1, <2>2, <2>4, Mounted
  <1>10. CASE BackToSignIn
    <2>1. /\ route = "forgot" /\ route' = "login" /\ Fresh("credentials") /\ posts' = posts
          /\ UNCHANGED <<step, owed, flow>>
      BY <1>10 DEF BackToSignIn
    <2>2. step = None /\ owed = None /\ chal.status = "ok" /\ chal.methods = {}
      BY <2>1 DEF Page, Flows
    <2>3. current' = "credentials" /\ posts' = posts \cup Opens("credentials")
      BY <1>1, <2>1, <2>2 DEF current, Opens
    <2>4. PICK s : s = "credentials"
      OBVIOUS
    <2>5. Fresh(s) /\ posts' = posts \cup Opens(s) /\ s # "face" /\ current' # "face"
      BY <2>1, <2>3, <2>4
    <2> QED
      BY <1>1, <1>2, <1>6, <2>1, <2>2, <2>5, Mounted
  <1> QED
    BY <1>7, <1>8, <1>9, <1>10

\* Forms, buttons and the face step's own submission.
LEMMA SendsPage ==
    ASSUME Page, Credentials \/ Totp \/ RequestReset \/ SaveNewPassword \/ Captured
                 \/ \E approved \in BOOLEAN : Consent(approved)
    PROVE  Page'
  <1>1. /\ sent \subseteq Nat /\ check.id \in Nat
        /\ check.status # "none" <=> route = "login" /\ current = "face"
        /\ camera # "off" => check.status = "ok" /\ status = "idle"
    BY DEF Page, Types, CheckType, FacePage
  <1>2. 0 \in Nat
    OBVIOUS
  <1>3. CASE Credentials
    <2>1. chal.status = "ok" /\ step = None /\ chal.methods = {}
      BY <1>3, AsksForThePassword DEF Credentials
    <2> QED
      BY <1>1, <1>2, <1>3, <2>1, Submitted DEF Credentials, Submits, working
  <1>4. CASE Totp
    BY <1>1, <1>2, <1>4, Submitted DEF Totp, Submits, working
  <1>5. CASE RequestReset
    BY <1>1, <1>2, <1>5, Submitted DEF RequestReset, Submits
  <1>6. CASE SaveNewPassword
    BY <1>1, <1>2, <1>6, Submitted DEF SaveNewPassword, Submits
  <1>7. CASE Captured
    BY <1>1, <1>7, Submitted DEF Captured, OnCamera, Submits, working
  <1>8. ASSUME NEW approved \in BOOLEAN, Consent(approved)
        PROVE  Page'
    <2> DEFINE kind == IF approved THEN "allow" ELSE "deny"
    <2>1. kind \in {"allow", "deny"} /\ Sends(kind, 0)
      BY <1>8 DEF Consent
    <2> HIDE DEF kind
    <2> QED
      BY <1>1, <1>2, <1>8, <2>1, Submitted DEF Consent, Submits
  <1> QED
    BY <1>3, <1>4, <1>5, <1>6, <1>7, <1>8

\* What the person and the camera do without leaving the step, and a capture whose
\* step is gone.
LEMMA ForwardPage ==
    ASSUME Page, RefetchChallenge \/ CameraAnswers \/ RunCapture \/ Frames \/ Retry
                 \/ \E id \in captures : CapturedAway(id)
    PROVE  Page'
  <1>1. /\ mount \in Nat /\ flow \in Nat /\ 0 \in Nat /\ mount <= mount /\ flow <= flow
        /\ "challenge" \in Kinds /\ "check" \in Kinds /\ "face" \in Kinds
        /\ chal.status \in {"pending", "ok", "expired", "network"}
    BY DEF Page, Types, Kinds
  <1>2. CASE CameraAnswers \/ RunCapture \/ Frames
    <2>1. check.status = "ok" /\ status = "idle"
      <3>1. check.status = "ok" /\ Problem = None /\ ~working /\ route = "login"
        BY <1>2 DEF CameraAnswers, RunCapture, Frames, OnCamera
      <3> QED
        BY <3>1 DEF Page, FacePage, Types, Problem, working
    <2>2. UNCHANGED <<route, chal, step, owed, flow, mount, status, check, leave, posts, captures, sent, lost, server>>
          /\ camera' \in {"ready", "denied", "capturing", "last"}
      BY <1>2 DEF CameraAnswers, RunCapture, Frames
    <2> QED
      BY <2>1, <2>2 DEF Page, Types, Answers, Mounting, Mine, FacePage, current, methods, Flows, ResetPage, server
  <1>3. CASE Retry
    <2> DEFINE n == check.attempt + 1
    <2>1. n \in Nat /\ n # check.attempt
      BY DEF Page, Types, CheckType
    <2>2. /\ posts' = posts \cup Fetches(n) /\ status' = "idle" /\ camera' = "off"
          /\ check' = [NoCheck EXCEPT !.status = "pending", !.attempt = n]
          /\ route = "login" /\ current = "face" /\ Problem \in Retryable
          /\ UNCHANGED <<route, chal, step, owed, flow, mount, leave, captures, sent, lost, server>>
      BY <1>3 DEF Retry, NextAttempt
    <2> HIDE DEF n
    <2>3. check'.status = "pending" /\ check' \in CheckType /\ check'.attempt = n
      BY <2>1, <2>2 DEF NoCheck, CheckType
    <2>10. PICK o \in PostType :
              /\ o.kind = "check" /\ o.id = 0 /\ o.mount = 0 /\ o.flow = 0 /\ o.attempt = n
              /\ o.reply = None /\ o.owes = {}
              /\ Fetches(n) \subseteq {o}
              /\ Fetches(n) # {} => \A p \in posts : p.kind = "check" => p.attempt # n
      BY <2>1, FetchesOne
    <2>11. 0 <= mount /\ 0 <= flow
      BY <1>1
    <2>4. check.status # "pending" /\ status # "pending"
      <3>1. check.status \notin {"none", "ok"} => status = "idle"
        BY DEF Page, FacePage
      <3> QED
        BY <2>2, <3>1, Unanswered DEF Problem
    <2>5. Types'
      BY <2>2, <2>3, <2>10 DEF Page, Types, server
    <2>6. Answers'
      BY <2>2, <2>10, <2>11, Unanswered DEF Page, Answers
    <2>7. Mounting'
      <3>1. \A p, q \in posts' : p.kind = "check" /\ q.kind = "check" /\ p.attempt = q.attempt => p = q
        BY <2>2, <2>10 DEF Page, Mounting
      <3> QED
        BY <2>2, <2>3, <2>4, <2>10, <3>1 DEF Page, Mounting, Mine, Submits
    <2>8. FacePage'
      BY <2>2, <2>3 DEF Page, FacePage, current, methods
    <2>9. Flows' /\ ResetPage'
      BY <2>2, <2>10 DEF Page, Flows, ResetPage, Mine
    <2> QED
      BY <2>5, <2>6, <2>7, <2>8, <2>9 DEF Page
  <1>4. CASE RefetchChallenge
    <2> DEFINE o == Post("challenge", 0, mount, flow)
    <2>1. /\ o \in PostType /\ o.kind = "challenge" /\ o.mount = mount /\ o.flow = flow
          /\ o.reply = None /\ o.owes = {}
      <3>1. "challenge" \in Kinds /\ 0 \in Nat /\ mount \in Nat /\ flow \in Nat
        BY <1>1
      <3> QED
        BY <3>1 DEF Post, PostType
    <2>2. /\ posts' = posts \cup {o} /\ chal.status = "network"
          /\ chal' = [chal EXCEPT !.status = "pending"]
          /\ UNCHANGED <<route, step, owed, flow, mount, status, check, camera, leave, captures, sent, lost, server>>
      BY <1>4 DEF RefetchChallenge
    <2> HIDE DEF o
    <2>3. chal'.status = "pending" /\ chal' \in [status : {"pending", "ok", "expired", "network"}, methods : SUBSET Methods]
      BY <2>2 DEF Page, Types
    <2>4. Types'
      BY <2>1, <2>2, <2>3 DEF Page, Types, server
    <2>5. Answers'
      BY <1>1, <2>1, <2>2, Unanswered DEF Page, Answers
    <2>6. Mounting'
      BY <2>1, <2>2, <2>3 DEF Page, Mounting, Mine, Submits
    <2>7. FacePage'
      BY <2>2, <2>3 DEF Page, FacePage, current
    <2>8. Flows' /\ ResetPage'
      BY <2>1, <2>2, <2>3 DEF Page, Flows, ResetPage, Mine
    <2> QED
      BY <2>4, <2>5, <2>6, <2>7, <2>8 DEF Page
  <1>5. ASSUME NEW id \in captures, CapturedAway(id)
        PROVE  Page'
    <2> DEFINE o == Post("face", id, 0, flow)
    <2>1. /\ o \in PostType /\ o.kind = "face" /\ o.mount = 0 /\ o.flow = flow
          /\ o.reply = None /\ o.owes = {}
      <3>1. "face" \in Kinds /\ id \in Nat /\ 0 \in Nat /\ flow \in Nat
        BY <1>1 DEF Page, Types
      <3> QED
        BY <3>1 DEF Post, PostType
    <2>2. /\ posts' = posts \cup {o} /\ captures' = captures \ {id} /\ sent' = sent \cup {id}
          /\ UNCHANGED <<route, view, leave, lost, server>>
      BY <1>5 DEF CapturedAway
    <2> HIDE DEF o
    <2>3. mount > 0 /\ 0 <= mount /\ route # "reset"
      BY <1>1 DEF Page, FacePage
    <2>4. Types'
      <3>1. posts' \subseteq PostType /\ captures' \subseteq Nat /\ sent' \subseteq Nat
        BY <2>1, <2>2 DEF Page, Types
      <3> QED
        BY <2>2, <3>1 DEF Page, Types, view, server
    <2>5. Answers'
      BY <1>1, <2>1, <2>2, <2>3, Unanswered DEF Page, Answers, view
    <2>6. Mounting'
      BY <1>1, <2>1, <2>2, <2>3 DEF Page, Mounting, Mine, Submits, view
    <2>7. FacePage'
      BY <2>2 DEF Page, FacePage, current, methods, view
    <2>8. Flows' /\ ResetPage'
      BY <2>1, <2>2, <2>3 DEF Page, Flows, ResetPage, Mine, view
    <2> QED
      BY <2>4, <2>5, <2>6, <2>7, <2>8 DEF Page
  <1> QED
    BY <1>2, <1>3, <1>4, <1>5

\* The provider does something the pages have not heard of.
LEMMA Unheard ==
    ASSUME Page, UNCHANGED <<route, view, posts, captures, sent, enrolled, asked, failures, issued>>,
           amr' \subseteq Methods \cup {"pwd"}
    PROVE  Page'
  BY DEF Page, Types, Answers, Mounting, Mine, FacePage, current, methods, Flows, ResetPage, view

\* What NextStep answers: a factor is owed, or none is and the sign-in is complete.
LEMMA NextStepReply ==
    ASSUME NEW p \in PostType, NEW used, enrolled \subseteq Methods, NextStep(p, used)
    PROVE  \E q \in PostType :
              /\ posts' = (posts \ {p}) \cup {q}
              /\ q.kind = p.kind /\ q.mount = p.mount /\ q.flow = p.flow /\ q.attempt = p.attempt /\ q.id = p.id
              /\ q.owes = Outstanding(used)
              /\ q.reply = IF Outstanding(used) = {} THEN "complete" ELSE "required"
  <1> DEFINE out == Outstanding(used)
             q   == [p EXCEPT !.reply = IF out = {} THEN "complete" ELSE "required", !.owes = out]
  <1>1. out \subseteq Methods
    BY DEF Outstanding, Methods
  <1>2. posts' = (posts \ {p}) \cup {q}
    BY DEF NextStep
  <1> HIDE DEF out
  <1>3. /\ q \in PostType
        /\ q.kind = p.kind /\ q.mount = p.mount /\ q.flow = p.flow /\ q.attempt = p.attempt /\ q.id = p.id
        /\ q.owes = out /\ q.reply = IF out = {} THEN "complete" ELSE "required"
    BY <1>1 DEF PostType, Replies
  <1> QED
    BY <1>2, <1>3 DEF out

\* What any other answer is: the request with its reply.
LEMMA AnswerReply ==
    ASSUME NEW p \in PostType, NEW reply \in Replies, Answer(p, reply)
    PROVE  \E q \in PostType :
              /\ posts' = (posts \ {p}) \cup {q}
              /\ q.kind = p.kind /\ q.mount = p.mount /\ q.flow = p.flow /\ q.attempt = p.attempt /\ q.id = p.id
              /\ q.owes = p.owes /\ q.reply = reply
  <1> DEFINE q == [p EXCEPT !.reply = reply]
  <1>1. posts' = (posts \ {p}) \cup {q}
    BY DEF Answer
  <1>2. /\ q \in PostType
        /\ q.kind = p.kind /\ q.mount = p.mount /\ q.flow = p.flow /\ q.attempt = p.attempt /\ q.id = p.id
        /\ q.owes = p.owes /\ q.reply = reply
    BY DEF PostType
  <1> QED
    BY <1>1, <1>2

\* An answer of the provider's that says nothing of a method owed.
LEMMA Told ==
    ASSUME Page, NEW p \in posts, NEW reply \in Replies, Answer(p, reply),
           UNCHANGED <<route, view, leave, captures, sent>>, reply # "required",
           p.kind = "challenge" => reply \in {"ok", "expired", "network"},
           reply = "answered" => p.kind \in {"forgot", "reset"},
           reply \in {"allow", "deny"} => p.kind \in {"allow", "deny"},
           enrolled' = enrolled, asked' = asked,
           amr' \subseteq Methods \cup {"pwd"}, failures' \in Nat,
           issued' \in [all : SUBSET Nat, live : SUBSET Nat]
    PROVE  Page'
  <1>1. p \in PostType
    BY DEF Page, Types
  <1>2. PICK q \in PostType :
              /\ posts' = (posts \ {p}) \cup {q}
              /\ q.kind = p.kind /\ q.mount = p.mount /\ q.flow = p.flow /\ q.attempt = p.attempt /\ q.reply = reply
    BY <1>1, AnswerReply
  <1>3. q.reply # None
    BY <1>2
  <1> QED
    BY <1>2, <1>3, Replied

\* A sign-in without a face to give completes with any second factor, and every
\* sign-in with a face.
LEMMA NothingOwed ==
    ASSUME NEW used
    PROVE  /\ "face" \in used => Outstanding(used) = {}
           /\ "otp" \in used /\ ~NeedsFace => Outstanding(used) = {}
           /\ NeedsFace => Outstanding(used) \subseteq {"face"}
  BY DEF Outstanding, OwesAny, Methods, NeedsFace

\* The codes are given to somebody the client does not ask a face of.
LEMMA OwesFace ==
    ASSUME Page, Factors, NEW p \in posts, p.kind = "otp"
    PROVE  ~NeedsFace
  BY DEF Factors, FaceOnly

\* The next number is issued, and is on its way.
IssuesNumber(p) ==
    LET id == Cardinality(issued.all) + 1 IN
    /\ issued' = [all |-> issued.all \cup {id}, live |-> issued.live \cup {id}]
    /\ posts' = (posts \ {p}) \cup {[p EXCEPT !.reply = "ok", !.id = id]}

\* A face challenge is refused or issued.
LEMMA IssueCheckCases ==
    ASSUME NEW p, IssueCheck(p)
    PROVE  \/ \E reply \in {"no_session", "expired", "paused"} : Answer(p, reply) /\ UNCHANGED issued
           \/ IssuesNumber(p)
  BY DEF IssueCheck, IssuesNumber

\* What comes back with a number that was issued.
LEMMA NumberReply ==
    ASSUME NEW p \in PostType, Cardinality(issued.all) + 1 \in Nat, IssuesNumber(p)
    PROVE  \E q \in PostType :
              /\ posts' = (posts \ {p}) \cup {q}
              /\ q.kind = p.kind /\ q.mount = p.mount /\ q.flow = p.flow /\ q.attempt = p.attempt /\ q.owes = p.owes
              /\ q.reply = "ok" /\ q.id = Cardinality(issued.all) + 1
  <1> DEFINE id == Cardinality(issued.all) + 1
             q  == [p EXCEPT !.reply = "ok", !.id = id]
  <1>1. posts' = (posts \ {p}) \cup {q}
    BY DEF IssuesNumber
  <1> HIDE DEF id
  <1>2. /\ q \in PostType
        /\ q.kind = p.kind /\ q.mount = p.mount /\ q.flow = p.flow /\ q.attempt = p.attempt /\ q.owes = p.owes
        /\ q.reply = "ok" /\ q.id = id
    BY DEF PostType, Replies, id
  <1> QED
    BY <1>1, <1>2 DEF id

\* What the provider does.
LEMMA ProviderPage ==
    ASSUME Page, Factors, Numbers, NEW p \in posts, Provider(p)
    PROVE  Page'
  <1>1. p \in PostType /\ enrolled \subseteq Methods
    BY DEF Page, Types
  <1>2. /\ amr \subseteq Methods \cup {"pwd"} /\ failures \in Nat
        /\ issued \in [all : SUBSET Nat, live : SUBSET Nat]
    BY DEF Page, Types
  <1>3. UNCHANGED <<route, view, leave, captures, sent>> /\ enrolled' = enrolled /\ asked' = asked
    BY DEF Provider, ReadChallenge, Login, VerifyTotp, IssueCheck, VerifyFace, DecideConsent,
           SendLink, SpendToken, CommitPassword, NetworkFails, Quiet, server, factors
  <1>4. ASSUME NEW reply \in Replies, Answer(p, reply), reply # "required",
               p.kind = "challenge" => reply \in {"ok", "expired", "network"},
               reply = "answered" => p.kind \in {"forgot", "reset"},
               reply \in {"allow", "deny"} => p.kind \in {"allow", "deny"},
               amr' \subseteq Methods \cup {"pwd"}, failures' \in Nat,
               issued' \in [all : SUBSET Nat, live : SUBSET Nat]
        PROVE  Page'
    BY <1>3, <1>4, Told
  <1>5. ASSUME NEW used, NextStep(p, used), p.kind \in {"login", "otp", "face"},
               Outstanding(used) # {} => p.kind = "login",
               amr' \subseteq Methods \cup {"pwd"}, failures' \in Nat, issued' = issued \/ issued' \in [all : SUBSET Nat, live : SUBSET Nat]
        PROVE  Page'
    <2>1. PICK q \in PostType :
              /\ posts' = (posts \ {p}) \cup {q}
              /\ q.kind = p.kind /\ q.mount = p.mount /\ q.flow = p.flow /\ q.attempt = p.attempt
              /\ q.owes = Outstanding(used)
              /\ q.reply = IF Outstanding(used) = {} THEN "complete" ELSE "required"
      BY <1>1, <1>5, NextStepReply
    <2> QED
      BY <1>2, <1>3, <1>5, <2>1, Unanswered, Replied
  <1>6. CASE ReadChallenge(p)
    BY <1>2, <1>4, <1>6 DEF ReadChallenge, Replies, server
  <1>7. CASE SendLink(p)
    BY <1>2, <1>4, <1>7 DEF SendLink, Replies, server
  <1>8. CASE NetworkFails(p)
    BY <1>2, <1>4, <1>8 DEF NetworkFails, Replies, server
  <1>9. CASE Login(p)
    <2>1. amr' \subseteq Methods \cup {"pwd"} /\ UNCHANGED <<failures, issued>>
      BY <1>2, <1>9 DEF Login
    <2> QED
      BY <1>2, <1>4, <1>5, <1>9, <2>1 DEF Login, Replies
  <1>10. CASE VerifyTotp(p)
    <2>1. amr' \subseteq Methods \cup {"pwd"} /\ UNCHANGED <<failures, issued>>
      BY <1>2, <1>10 DEF VerifyTotp, Methods
    <2>2. ~NeedsFace
      BY <1>10, OwesFace DEF VerifyTotp
    <2>3. "otp" \in amr' => Outstanding(amr') = {}
      BY <2>2, NothingOwed
    <2> QED
      BY <1>2, <1>4, <1>5, <1>10, <2>1, <2>3 DEF VerifyTotp, Replies
  <1>11. CASE IssueCheck(p)
    <2>1. UNCHANGED <<amr, failures>> /\ p.kind = "check"
      BY <1>11 DEF IssueCheck
    <2>2. CASE \E reply \in {"no_session", "expired", "paused"} : Answer(p, reply) /\ UNCHANGED issued
      BY <1>2, <1>4, <2>1, <2>2 DEF Replies
    <2>3. CASE IssuesNumber(p)
      <3>1. issued.all \subseteq Nat /\ issued.live \subseteq Nat /\ Cardinality(issued.all) + 1 \in Nat
        BY <1>2, FS_CardinalityType DEF Numbers
      <3>2. issued' \in [all : SUBSET Nat, live : SUBSET Nat]
        BY <2>3, <3>1 DEF IssuesNumber
      <3>3. PICK q \in PostType :
                /\ posts' = (posts \ {p}) \cup {q}
                /\ q.kind = p.kind /\ q.mount = p.mount /\ q.flow = p.flow /\ q.attempt = p.attempt /\ q.reply = "ok"
        BY <1>1, <2>3, <3>1, NumberReply
      <3> QED
        BY <1>2, <1>3, <2>1, <3>2, <3>3, Unanswered, Replied
    <2> QED
      BY <1>11, <2>2, <2>3, IssueCheckCases
  <1>12. CASE VerifyFace(p)
    <2>1. /\ amr' \subseteq Methods \cup {"pwd"} /\ failures' \in Nat
          /\ issued' \in [all : SUBSET Nat, live : SUBSET Nat]
      BY <1>2, <1>12 DEF VerifyFace, Methods
    <2>3. "face" \in amr' => Outstanding(amr') = {}
      BY NothingOwed
    <2> QED
      BY <1>2, <1>4, <1>5, <1>12, <2>1, <2>3 DEF VerifyFace, Replies
  <1>13. CASE DecideConsent(p)
    BY <1>2, <1>4, <1>13 DEF DecideConsent, Replies, factors
  <1>14. CASE SpendToken(p)
    <2>1. CASE posts' = posts
      BY <1>2, <1>3, <1>14, <2>1, Unheard DEF SpendToken
    <2>2. CASE posts' # posts
      BY <1>2, <1>4, <1>14, <2>2 DEF SpendToken, Replies
    <2> QED
      BY <2>1, <2>2
  <1>15. CASE CommitPassword(p)
    BY <1>2, <1>4, <1>15 DEF CommitPassword, Replies
  <1> QED
    BY <1>6, <1>7, <1>8, <1>9, <1>10, <1>11, <1>12, <1>13, <1>14, <1>15 DEF Provider

\* What an answer that lands does.
LEMMA LandsPage ==
    ASSUME Page, Factors, NEW p \in posts, Lands(p)
    PROVE  Page'
  <1>1. /\ p \in PostType /\ p.reply \in Replies /\ p.owes \in SUBSET Methods /\ p.id \in Nat
        /\ posts \ {p} \in SUBSET posts
    <2>1. p \in PostType /\ p.reply # None
      BY DEF Page, Types, Lands, ChallengeLands, CheckLands, StepLands, OtherLands
    <2> QED
      BY <2>1, PostFields
  <1>2. /\ asked \in SUBSET Methods /\ step \in Methods \cup {None, "choose"}
        /\ owed \in (SUBSET Methods) \cup {None} /\ flow \in Nat
        /\ chal \in [status : {"pending", "ok", "expired", "network"}, methods : SUBSET Methods]
    BY DEF Page, Types
  <1>3. CASE ChallengeLands(p)
    <2>1. /\ p.kind = "challenge" /\ p.reply \in {"ok", "expired", "network"}
          /\ chal.status = "pending" /\ \A q \in posts \ {p} : q.kind # "challenge"
          /\ chal' = [status |-> p.reply, methods |-> IF p.reply = "ok" THEN asked ELSE {}]
          /\ UNCHANGED <<route, step, owed, flow, leave, sent, lost, server>>
      BY <1>1, <1>3 DEF ChallengeLands, Page, Answers, Mounting
    <2>2. chal' \in [status : {"pending", "ok", "expired", "network"}, methods : SUBSET Methods]
      BY <1>2, <2>1
    <2>3. /\ \A q \in posts : q.kind = "login" => q.flow # flow
          /\ route # "forgot" /\ (step = None => owed = None)
      BY <2>1 DEF Page, Flows
    <2>4. CASE p.reply = "ok" /\ route = "login"
      <3> DEFINE first == IF asked = {} THEN "credentials" ELSE stepFor(asked)
      <3>1. Fresh(first) /\ posts' = (posts \ {p}) \cup Opens(first)
        BY <1>3, <2>4 DEF ChallengeLands
      <3>2. first = "face" <=> route' = "login" /\ current' = "face"
        <4>1. step' = None /\ owed' = None /\ chal'.status = "ok" /\ chal'.methods = asked
          BY <2>1, <2>4 DEF Page, Flows
        <4> QED
          BY <2>1, <2>4, <4>1 DEF current, methods
      <3> HIDE DEF first
      <3> QED
        BY <1>1, <1>2, <2>1, <2>2, <2>3, <2>4, <3>1, <3>2, Mounted
    <2>5. CASE ~(p.reply = "ok" /\ route = "login")
      <3>1. posts' = posts \ {p} /\ UNCHANGED <<mount, status, check, camera, captures>>
        BY <1>3, <2>5 DEF ChallengeLands
      <3>2. Types'
        BY <1>2, <2>1, <2>2, <3>1 DEF Page, Types, server
      <3>3. Answers' /\ Mounting'
        BY <2>1, <3>1 DEF Page, Answers, Mounting, Mine
      <3>4. FacePage'
        BY <2>1, <2>5, <3>1 DEF Page, FacePage, current
      <3>5. Flows'
        BY <2>1, <2>3, <3>1 DEF Page, Flows
      <3>6. ResetPage'
        BY <2>1, <3>1 DEF Page, ResetPage
      <3> QED
        BY <3>2, <3>3, <3>4, <3>5, <3>6 DEF Page
    <2> QED
      BY <2>4, <2>5
  <1>4. CASE CheckLands(p)
    <2>1. /\ p.kind = "check" /\ posts' = posts \ {p}
          /\ check' = IF Awaited(p) THEN Fetched(p) ELSE check
          /\ UNCHANGED <<route, chal, step, owed, flow, mount, status, camera, leave, captures, sent, lost, server>>
      BY <1>4 DEF CheckLands
    <2>2. Awaited(p) => check.status = "pending" /\ p.attempt = check.attempt /\ status = "idle" /\ camera = "off"
      BY DEF Page, FacePage, Awaited
    <2>3. /\ check' \in CheckType /\ check'.attempt = check.attempt
          /\ Awaited(p) => check'.status # "none" /\ check'.status # "pending"
      BY <1>1, <2>1 DEF Page, Types, Replies, CheckType, Fetched
    <2>4. Types'
      BY <2>1, <2>3 DEF Page, Types, server
    <2>5. Answers' /\ Mounting'
      BY <2>1, <2>2, <2>3 DEF Page, Answers, Mounting, Mine
    <2>6. FacePage'
      BY <2>1, <2>2, <2>3 DEF Page, FacePage, current, methods
    <2>7. Flows' /\ ResetPage'
      BY <2>1 DEF Page, Flows, ResetPage, Mine
    <2> QED
      BY <2>4, <2>5, <2>6, <2>7 DEF Page
  <1>5. CASE OtherLands(p)
    <2>1. p.kind \in Submits /\ (Mine(p) => route # "login")
      BY <1>5 DEF OtherLands, Submits, Page, Mounting, ResetPage
    <2>2. posts' = posts \ {p}
          /\ UNCHANGED <<route, chal, step, owed, flow, mount, check, camera, captures, sent, server>>
      BY <1>5 DEF OtherLands
    <2>3. /\ ~Mine(p) => status' = status
          /\ Mine(p) => status' = "answered" \/ status' = p.reply
      BY <1>5 DEF OtherLands
    <2>4. "answered" \in Replies
      BY DEF Replies
    <2> QED
      BY <1>1, <2>1, <2>2, <2>3, <2>4, Landed
  <1>6. CASE StepLands(p)
    <2>1. p.kind \in Submits /\ p.reply # "answered" /\ UNCHANGED <<route, chal, flow, sent, server>>
      BY <1>6 DEF StepLands, Submits, Page, Answers
    <2>2. CASE p.reply = "required" /\ p.flow = flow
      <3>1. /\ p.kind = "login" /\ p.owes # {} /\ owed' = p.owes /\ step' = stepFor(p.owes)
            /\ Fresh(step') /\ posts' = (posts \ {p}) \cup Opens(step')
        BY <1>6, <2>2 DEF StepLands, Advance, Page, Answers
      <3>2. Mine(p) /\ route = "login" /\ chal.status = "ok"
        BY <2>2, <3>1 DEF Page, Flows
      <3>3. step' \in Methods \cup {"choose"} /\ step' # None
        BY <1>1, <3>1, StepFor, Unanswered DEF Methods
      <3>4. current' = step' /\ route' = "login"
        BY <2>1, <3>2, <3>3 DEF current
      <3>5. /\ \A q \in posts \ {p} : q.kind # "challenge"
            /\ \A q \in posts \ {p} : q.kind = "login" => q.flow # flow
        BY <3>1, <3>2 DEF Page, Mounting, Flows, Submits
      <3>6. PICK s : s = step'
        OBVIOUS
      <3>7. Fresh(s) /\ posts' = (posts \ {p}) \cup Opens(s) /\ (s = "face" <=> current' = "face")
        BY <3>1, <3>4, <3>6
      <3> QED
        BY <1>1, <1>2, <2>1, <3>1, <3>2, <3>3, <3>4, <3>5, <3>7, Mounted
    <2>3. CASE ~(p.reply = "required" /\ p.flow = flow)
      <3>1. /\ posts' = posts \ {p} /\ UNCHANGED <<step, owed, mount, check, camera, captures>>
            /\ \/ status' = status
               \/ Mine(p) /\ status' = p.reply
        <4>1. CASE p.reply = "complete"
          BY <1>6, <4>1 DEF StepLands, Advance
        <4>2. CASE p.reply = "required" /\ p.flow # flow
          BY <1>6, <4>2 DEF StepLands, Advance
        <4>3. CASE p.reply \notin {"complete", "required"}
          BY <1>6, <4>3 DEF StepLands, Advance
        <4> QED
          BY <2>3, <4>1, <4>2, <4>3
      <3> QED
        BY <1>1, <2>1, <3>1, Landed
    <2> QED
      BY <2>2, <2>3
  <1> QED
    BY <1>3, <1>4, <1>5, <1>6 DEF Lands

\* Any step of the system.
LEMMA NextPage ==
    ASSUME Page, Factors, Numbers, [Next]_vars
    PROVE  Page'
  <1>1. amr \subseteq Methods \cup {"pwd"}
    BY DEF Page, Types
  <1>2. CASE Pages
    BY <1>2, MovesPage, SendsPage, ForwardPage DEF Pages
  <1>3. ASSUME NEW p \in posts, Provider(p) \/ Lands(p)
        PROVE  Page'
    BY <1>3, ProviderPage, LandsPage
  <1>4. CASE EndAllSessions \/ Elsewhere \/ Expire
    <2>1. UNCHANGED <<route, view, posts, captures, sent, enrolled, asked, failures, issued>>
      BY <1>4 DEF EndAllSessions, Elsewhere, Expire, Quiet, factors
    <2>2. amr' \subseteq Methods \cup {"pwd"}
      BY <1>1, <1>4 DEF EndAllSessions, Elsewhere, Expire
    <2> QED
      BY <2>1, <2>2, Unheard
  <1>5. CASE Unload \/ UNCHANGED vars
    <2>1. UNCHANGED <<route, view, posts, captures, sent, enrolled, asked, failures, issued, amr>>
      BY <1>5 DEF Unload, vars, server
    <2> QED
      BY <1>1, <2>1, Unheard
  <1> QED
    BY <1>2, <1>3, <1>4, <1>5 DEF Next

-----------------------------------------------------------------------------
(* Where the number of a face challenge is.                                *)

\* A step that is mounted asks for a challenge, or for nothing.
LEMMA OpensCheck ==
    ASSUME NEW s, NEW q \in Opens(s)
    PROVE  q.kind = "check" /\ q.id = 0 /\ q.reply = None /\ q.owes = {}
  <1>1. 0 \in Nat /\ q \in Fetches(0)
    BY DEF Opens
  <1> QED
    BY <1>1, FetchesOne

\* So does a second attempt.
LEMMA RetryChecks ==
    ASSUME Page, Retry, NEW q \in posts', q \notin posts
    PROVE  q.kind = "check" /\ q.id = 0 /\ q.reply = None /\ q.owes = {}
  <1> DEFINE n == check.attempt + 1
  <1>1. n \in Nat
    BY DEF Page, Types, CheckType
  <1>2. q \in Fetches(n)
    BY DEF Retry, NextAttempt
  <1> HIDE DEF n
  <1> QED
    BY <1>1, <1>2, FetchesOne

\* The ways between the steps all mount one.
LEMMA Remounts ==
    ASSUME (\E s \in Methods : Choose(s)) \/ SwitchMethod \/ Forgot \/ BackToSignIn
    PROVE  /\ \E s : Fresh(s) /\ posts' = posts \cup Opens(s)
           /\ UNCHANGED <<chal, leave, sent, lost, server>>
           /\ route' # "reset"
  <1>1. UNCHANGED <<chal, leave, sent, lost, server>> /\ route' # "reset"
    BY DEF Choose, SwitchMethod, Forgot, BackToSignIn
  <1>2. CASE \E s \in Methods : Choose(s)
    BY <1>1, <1>2 DEF Choose
  <1>3. CASE SwitchMethod \/ Forgot \/ BackToSignIn
    <2>1. PICK s \in {"choose", "forgot", "credentials"} : Fresh(s) /\ posts' = posts
      BY <1>3 DEF SwitchMethod, Forgot, BackToSignIn
    <2>2. Opens(s) = {}
      BY DEF Opens
    <2> QED
      BY <1>1, <2>1, <2>2
  <1> QED
    BY <1>2, <1>3

\* No number is issued when the page is opened.
LEMMA InitNumbers == Init => Numbers
  <1> SUFFICES ASSUME Init
               PROVE  Numbers
    OBVIOUS
  <1>1. Cardinality({}) = 0 /\ IsFiniteSet({}) /\ 1..0 = {}
    BY FS_EmptySet
  <1>2. issued.all = {} /\ sent = {} /\ captures = {} /\ check.status = "none"
    BY DEF Init, NoCheck
  <1>3. \A p \in posts : p.kind # "check"
    <2>1. "challenge" \in Kinds /\ 0 \in Nat /\ 1 \in Nat
      BY DEF Kinds
    <2>2. Post("challenge", 0, 0, 1).kind = "challenge"
      BY <2>1 DEF Post, PostType
    <2>3. posts \subseteq {Post("challenge", 0, 0, 1)}
      BY DEF Init
    <2> QED
      BY <2>2, <2>3
  <1> QED
    BY <1>1, <1>2, <1>3 DEF Numbers

\* A step is mounted: a capture that has its last frame keeps its challenge.
LEMMA MountedNumbers ==
    ASSUME Page, Numbers, NEW s, NEW R \in SUBSET posts, Fresh(s), posts' = R \cup Opens(s),
           UNCHANGED <<sent, issued>>
    PROVE  Numbers'
  <1>1. captures' = captures \/ (camera = "last" /\ captures' = captures \cup {check.id})
    BY DEF Fresh, Orphaned
  <1>2. camera = "last" => check.status = "ok" /\ status = "idle"
    BY DEF Page, FacePage
  <1>3. check'.status # "ok"
    BY DEF Fresh, NoCheck
  <1>4. \A q \in posts' : q \in posts \/ (q.kind = "check" /\ q.id = 0 /\ q.reply = None)
    BY OpensCheck
  <1> QED
    BY <1>1, <1>2, <1>3, <1>4, Unanswered DEF Numbers

\* Requests are sent or land, and the challenge at the face step is as it was.
LEMMA SameNumbers ==
    ASSUME Numbers, UNCHANGED <<check, captures, sent>>, issued'.all = issued.all,
           check.status = "ok" /\ status' = "idle" => status = "idle",
           \A q \in posts' : q \in posts \/ q.kind # "check"
    PROVE  Numbers'
  BY DEF Numbers

\* The provider's answer is put in the place of the request.
LEMMA RepliedNumbers ==
    ASSUME Page, Numbers, NEW p \in posts, NEW q, posts' = (posts \ {p}) \cup {q},
           q.kind = p.kind, q.id = p.id, q.reply # None, p.kind = "check" => q.reply # "ok",
           UNCHANGED <<view, captures, sent>>, issued'.all = issued.all
    PROVE  Numbers'
  BY DEF Numbers, view

\* What the person does: a capture spends the number it was made with.
LEMMA PagesNumbers ==
    ASSUME Page, Numbers, Pages
    PROVE  Numbers'
  <1>1. /\ mount \in Nat /\ flow \in Nat /\ 0 \in Nat /\ check.id \in Nat /\ captures \subseteq Nat
        /\ "check" \in Kinds /\ "face" \in Kinds /\ "challenge" \in Kinds
        /\ \A kind \in Submits : kind \in Kinds
    BY DEF Page, Types, CheckType, Kinds, Submits
  <1>2. CASE (\E s \in Methods : Choose(s)) \/ SwitchMethod \/ Forgot \/ BackToSignIn
    <2>1. PICK s : Fresh(s) /\ posts' = posts \cup Opens(s)
      BY <1>2, Remounts
    <2>2. UNCHANGED <<sent, issued>>
      BY <1>2, Remounts DEF server
    <2> QED
      BY <2>1, <2>2, MountedNumbers
  <1>3. ASSUME NEW kind \in Submits \ {"face"}, Sends(kind, 0), UNCHANGED <<check, captures, sent, server>>
        PROVE  Numbers'
    <2> DEFINE o == Post(kind, 0, mount, flow)
    <2>1. o.kind = kind
      <3>1. kind \in Kinds /\ 0 \in Nat /\ mount \in Nat /\ flow \in Nat
        BY <1>1
      <3> QED
        BY <3>1 DEF Post, PostType
    <2>2. posts' = posts \cup {o} /\ status' = "pending" /\ kind # "check" /\ UNCHANGED issued
      BY <1>3 DEF Sends, Submits, server
    <2> HIDE DEF o
    <2> QED
      BY <1>3, <2>1, <2>2, SameNumbers
  <1>4. CASE Credentials \/ Totp \/ RequestReset \/ SaveNewPassword
    <2>1. (\E kind \in Submits \ {"face"} : Sends(kind, 0)) /\ UNCHANGED <<check, captures, sent, server>>
      BY <1>4 DEF Credentials, Totp, RequestReset, SaveNewPassword, Submits
    <2> QED
      BY <1>3, <2>1
  <1>5. ASSUME NEW approved \in BOOLEAN, Consent(approved)
        PROVE  Numbers'
    <2>1. (\E kind \in Submits \ {"face"} : Sends(kind, 0)) /\ UNCHANGED <<check, captures, sent, server>>
      BY <1>5 DEF Consent, Submits
    <2> QED
      BY <1>3, <2>1
  <1>6. CASE CameraAnswers \/ RunCapture \/ Frames
    BY <1>6, SameNumbers DEF CameraAnswers, RunCapture, Frames, server
  <1>7. CASE RefetchChallenge
    <2> DEFINE o == Post("challenge", 0, mount, flow)
    <2>1. o.kind = "challenge"
      BY <1>1 DEF Post, PostType
    <2>2. posts' = posts \cup {o} /\ UNCHANGED <<check, status, captures, sent, server>>
      BY <1>7 DEF RefetchChallenge
    <2> HIDE DEF o
    <2> QED
      BY <2>1, <2>2, SameNumbers DEF server
  <1>8. CASE Retry
    <2>1. check'.status = "pending" /\ UNCHANGED <<captures, sent, issued>>
      BY <1>8 DEF Retry, NextAttempt, NoCheck, server
    <2>2. \A q \in posts' : q \in posts \/ (q.kind = "check" /\ q.id = 0 /\ q.reply = None)
      BY <1>8, RetryChecks
    <2> QED
      BY <2>1, <2>2, Unanswered DEF Numbers
  <1>9. CASE Captured
    <2> DEFINE o == Post("face", check.id, mount, flow)
    <2>1. o.kind = "face"
      <3>1. "face" \in Kinds /\ check.id \in Nat /\ mount \in Nat /\ flow \in Nat
        BY <1>1
      <3> QED
        BY <3>1 DEF Post, PostType
    <2>2. /\ posts' = posts \cup {o} /\ status' = "pending" /\ sent' = sent \cup {check.id}
          /\ UNCHANGED <<check, captures, issued>> /\ check.status = "ok"
      BY <1>9 DEF Captured, OnCamera, Sends, server
    <2> HIDE DEF o
    <2> QED
      BY <2>1, <2>2 DEF Numbers
  <1>10. ASSUME NEW id \in captures, CapturedAway(id)
         PROVE  Numbers'
    <2> DEFINE o == Post("face", id, 0, flow)
    <2>1. o.kind = "face"
      <3>1. "face" \in Kinds /\ id \in Nat /\ 0 \in Nat /\ flow \in Nat
        BY <1>1
      <3> QED
        BY <3>1 DEF Post, PostType
    <2>2. /\ posts' = posts \cup {o} /\ captures' = captures \ {id} /\ sent' = sent \cup {id}
          /\ UNCHANGED <<check, status, issued>>
      BY <1>10 DEF CapturedAway, view, server
    <2> HIDE DEF o
    <2> QED
      BY <2>1, <2>2 DEF Numbers
  <1> QED
    BY <1>2, <1>4, <1>5, <1>6, <1>7, <1>8, <1>9, <1>10 DEF Pages

\* What the provider does: the number it issues is on its way to the step.
LEMMA ProviderNumbers ==
    ASSUME Page, Numbers, NEW p \in posts, Provider(p)
    PROVE  Numbers'
  <1>1. p \in PostType /\ enrolled \subseteq Methods
    BY DEF Page, Types
  <1>2. UNCHANGED <<view, captures, sent>> /\ UNCHANGED <<check, status>>
    BY DEF Provider, ReadChallenge, Login, VerifyTotp, IssueCheck, VerifyFace, DecideConsent,
           SendLink, SpendToken, CommitPassword, NetworkFails, Quiet, view
  <1>3. ASSUME NEW reply \in Replies, Answer(p, reply), issued'.all = issued.all,
               p.kind = "check" => reply # "ok"
        PROVE  Numbers'
    <2>1. PICK q \in PostType :
              /\ posts' = (posts \ {p}) \cup {q}
              /\ q.kind = p.kind /\ q.id = p.id /\ q.reply = reply
      BY <1>1, <1>3, AnswerReply
    <2>2. q.reply # None
      BY <2>1
    <2> QED
      BY <1>2, <1>3, <2>1, <2>2, RepliedNumbers
  <1>4. ASSUME NEW used, NextStep(p, used), issued'.all = issued.all, p.kind # "check"
        PROVE  Numbers'
    <2>1. PICK q \in PostType :
              /\ posts' = (posts \ {p}) \cup {q}
              /\ q.kind = p.kind /\ q.id = p.id
              /\ q.reply = IF Outstanding(used) = {} THEN "complete" ELSE "required"
      BY <1>1, <1>4, NextStepReply
    <2> QED
      BY <1>2, <1>4, <2>1, Unanswered, RepliedNumbers
  <1>5. CASE ReadChallenge(p) \/ Login(p) \/ VerifyTotp(p) \/ DecideConsent(p) \/ SendLink(p)
             \/ CommitPassword(p) \/ NetworkFails(p)
    <2>1. issued'.all = issued.all
      BY <1>5 DEF ReadChallenge, Login, VerifyTotp, DecideConsent, SendLink, CommitPassword,
                  NetworkFails, server, factors
    <2>2. \/ \E reply \in Replies : Answer(p, reply) /\ (p.kind = "check" => reply # "ok")
          \/ p.kind # "check" /\ \E used : NextStep(p, used)
      BY <1>5 DEF ReadChallenge, Login, VerifyTotp, DecideConsent, SendLink, CommitPassword,
                  NetworkFails, Replies
    <2> QED
      BY <1>3, <1>4, <2>1, <2>2
  <1>6. CASE SpendToken(p)
    <2>1. /\ issued' = issued /\ p.kind = "reset"
          /\ posts' = posts \/ Answer(p, "invalid_reset_token")
      BY <1>6 DEF SpendToken
    <2>2. CASE posts' = posts
      BY <1>2, <2>1, <2>2, SameNumbers
    <2>3. CASE Answer(p, "invalid_reset_token")
      BY <1>3, <2>1, <2>3 DEF Replies
    <2> QED
      BY <2>1, <2>2, <2>3
  <1>7. CASE VerifyFace(p)
    <2>1. issued'.all = issued.all /\ p.kind = "face"
      BY <1>7 DEF VerifyFace, Page, Types
    <2>2. (\E reply \in Replies : Answer(p, reply)) \/ \E used : NextStep(p, used)
      BY <1>7 DEF VerifyFace, Replies
    <2> QED
      BY <1>3, <1>4, <2>1, <2>2
  <1>8. CASE IssueCheck(p)
    <2>1. p.kind = "check" /\ p.reply = None
      BY <1>8 DEF IssueCheck
    <2>2. CASE \E reply \in {"no_session", "expired", "paused"} : Answer(p, reply) /\ UNCHANGED issued
      BY <1>3, <2>1, <2>2 DEF Replies
    <2>3. CASE IssuesNumber(p)
      <3> DEFINE n == Cardinality(issued.all)
      <3>1. /\ n \in Nat /\ issued.all = 1..n /\ IsFiniteSet(issued.all)
            /\ n + 1 \notin issued.all
        BY FS_CardinalityType DEF Numbers
      <3>2. /\ IsFiniteSet(issued.all \cup {n + 1})
            /\ Cardinality(issued.all \cup {n + 1}) = n + 1
        BY <3>1, FS_AddElement
      <3>3. 1..(n + 1) = 1..n \cup {n + 1}
        BY <3>1
      <3>4. issued'.all = issued.all \cup {n + 1}
        BY <2>3 DEF IssuesNumber
      <3>5. PICK q \in PostType :
                /\ posts' = (posts \ {p}) \cup {q}
                /\ q.kind = p.kind /\ q.reply = "ok" /\ q.id = n + 1
        BY <1>1, <2>3, <3>1, NumberReply
      <3>6. n + 1 # 0
        BY <3>1
      <3> HIDE DEF n
      <3>7. IsFiniteSet(issued'.all) /\ issued'.all = 1..Cardinality(issued'.all)
        BY <3>1, <3>2, <3>3, <3>4
      <3>8. n + 1 \notin sent \cup captures /\ (check.status = "ok" => check.id # n + 1)
            /\ \A r \in posts : r.kind = "check" => r.id # n + 1
        BY <3>1 DEF Numbers
      <3>9. /\ sent' \cup captures' \subseteq issued'.all /\ captures' \cap sent' = {}
            /\ check'.status = "ok" => check'.id \in issued'.all \ captures'
            /\ check'.status = "ok" /\ status' = "idle" => check'.id \notin sent'
        BY <1>2, <3>4 DEF Numbers
      <3>10. \A r \in posts' : r.kind = "check" =>
                /\ r.reply = None => r.id = 0
                /\ r.reply = "ok" => r.id # 0
                /\ r.id # 0 => /\ r.id \in issued'.all \ (sent' \cup captures')
                               /\ check'.status = "ok" => r.id # check'.id
        <4>1. q.reply # None
          BY <3>5, Unanswered
        <4> QED
          BY <1>2, <3>4, <3>5, <3>6, <3>8, <4>1 DEF Numbers
      <3>11. \A r, o \in posts' :
                r.kind = "check" /\ o.kind = "check" /\ r.id = o.id /\ r.id # 0 => r = o
        BY <3>5, <3>8 DEF Numbers
      <3> QED
        BY <3>7, <3>9, <3>10, <3>11 DEF Numbers
    <2> QED
      BY <1>8, <2>2, <2>3, IssueCheckCases
  <1> QED
    BY <1>5, <1>6, <1>7, <1>8 DEF Provider

\* What lands: the number comes to the step that asked for it, or is gone.
LEMMA LandsNumbers ==
    ASSUME Page, Numbers, NEW p \in posts, Lands(p)
    PROVE  Numbers'
  <1>1. posts \ {p} \in SUBSET posts
    OBVIOUS
  <1>2. UNCHANGED <<sent, issued>>
    BY DEF Lands, ChallengeLands, CheckLands, StepLands, OtherLands, server
  <1>3. CASE \E s : Fresh(s) /\ posts' = (posts \ {p}) \cup Opens(s)
    BY <1>1, <1>2, <1>3, MountedNumbers
  <1>4. CASE CheckLands(p)
    <2>1. /\ p.kind = "check" /\ posts' = posts \ {p} /\ p.reply # None
          /\ check' = IF Awaited(p) THEN Fetched(p) ELSE check
          /\ UNCHANGED <<status, captures>>
      BY <1>4 DEF CheckLands
    <2>2. CASE ~Awaited(p)
      BY <1>2, <2>1, <2>2, SameNumbers
    <2>3. CASE Awaited(p)
      <3>1. check'.status = p.reply /\ check'.id = p.id
        BY <2>1, <2>3 DEF Fetched, Page, Types, CheckType
      <3> QED
        BY <1>2, <2>1, <3>1 DEF Numbers
    <2> QED
      BY <2>2, <2>3
  <1>5. CASE UNCHANGED <<check, captures>> /\ posts' = posts \ {p} /\ (status' = "idle" => status = "idle")
    BY <1>2, <1>5, SameNumbers
  <1>6. CASE ChallengeLands(p)
    BY <1>3, <1>5, <1>6 DEF ChallengeLands
  <1>7. CASE StepLands(p)
    <2>1. p.reply # "idle"
      BY <1>7, PostFields DEF StepLands, Page, Types, Replies
    <2> QED
      BY <1>3, <1>5, <1>7, <2>1 DEF StepLands, Advance
  <1>8. CASE OtherLands(p)
    <2>1. p.reply # "idle"
      BY <1>8, PostFields DEF OtherLands, Page, Types, Replies
    <2> QED
      BY <1>5, <1>8, <2>1 DEF OtherLands
  <1> QED
    BY <1>4, <1>6, <1>7, <1>8 DEF Lands

\* Any step of the system.
LEMMA NextNumbers ==
    ASSUME Page, Numbers, [Next]_vars
    PROVE  Numbers'
  <1>1. CASE EndAllSessions \/ Elsewhere \/ Expire \/ Unload \/ UNCHANGED vars
    <2>1. UNCHANGED <<check, status, captures, sent, issued, posts>>
      BY <1>1 DEF EndAllSessions, Elsewhere, Expire, Unload, Quiet, vars, view, server
    <2> QED
      BY <2>1, SameNumbers
  <1> QED
    BY <1>1, PagesNumbers, ProviderNumbers, LandsNumbers DEF Next

-----------------------------------------------------------------------------
(* A factor that was given, and the step on the screen.                    *)

\* The provider and the page take away the request they handle, and no other.
LEMMA OnlyItself ==
    ASSUME NEW p \in posts, Provider(p) \/ Lands(p)
    PROVE  posts \ {p} \subseteq posts'
  <1>1. CASE Provider(p)
    BY <1>1 DEF Provider, ReadChallenge, Login, VerifyTotp, IssueCheck, VerifyFace, DecideConsent,
                SendLink, SpendToken, CommitPassword, NetworkFails, Answer, NextStep
  <1>2. CASE Lands(p)
    BY <1>2 DEF Lands, ChallengeLands, CheckLands, StepLands, OtherLands, Advance
  <1> QED
    BY <1>1, <1>2

\* Whatever else happens takes none away.
LEMMA OthersStay ==
    ASSUME \/ Pages \/ EndAllSessions \/ Elsewhere \/ Expire \/ Unload \/ UNCHANGED vars
    PROVE  posts \subseteq posts'
  <1>1. CASE Pages
    BY <1>1, Remounts DEF Pages, Credentials, Totp, RequestReset, SaveNewPassword, RefetchChallenge,
       Consent, Sends, CameraAnswers, RunCapture, Frames, Captured, Retry, NextAttempt, CapturedAway
  <1>2. CASE EndAllSessions \/ Elsewhere \/ Expire \/ Unload \/ UNCHANGED vars
    BY <1>2 DEF EndAllSessions, Elsewhere, Expire, Unload, vars
  <1> QED
    BY <1>1, <1>2

\* A request goes by being handled.
LEMMA Removes ==
    ASSUME [Next]_vars, NEW p \in posts, p \notin posts'
    PROVE  Provider(p) \/ Lands(p)
  BY OnlyItself, OthersStay DEF Next

\* The page that is leaving is not called back, and a lost answer stays lost.
LEMMA LeavingStays ==
    ASSUME [Next]_vars
    PROVE  (leaving # None => leaving' # None) /\ (lost => lost')
  <1>1. CASE Pages
    BY <1>1, Remounts DEF Pages, Credentials, Totp, RequestReset, SaveNewPassword, RefetchChallenge,
       Consent, CameraAnswers, RunCapture, Frames, Captured, Retry, CapturedAway, leave
  <1>2. ASSUME NEW p \in posts, Provider(p)
        PROVE  (leaving # None => leaving' # None) /\ (lost => lost')
    <2>1. leaving' = leaving /\ (lost' = lost \/ NetworkFails(p))
      BY <1>2 DEF Provider, ReadChallenge, Login, VerifyTotp, IssueCheck, VerifyFace, DecideConsent,
                  SendLink, SpendToken, CommitPassword, NetworkFails, Quiet, leave
    <2>2. NetworkFails(p) => (lost => lost')
      <3>1. NetworkFails(p) => lost' = (lost \/ p.reply # None)
        BY DEF NetworkFails
      <3> QED
        BY <3>1, Zenon
    <2>3. lost' = lost => (lost => lost')
      BY Zenon
    <2> QED
      BY <2>1, <2>2, <2>3, SMT
  <1>3. ASSUME NEW p \in posts, Lands(p)
        PROVE  (leaving # None => leaving' # None) /\ (lost => lost')
    BY <1>3, Unanswered DEF Lands, ChallengeLands, CheckLands, StepLands, OtherLands, Advance, leave
  <1>4. CASE EndAllSessions \/ Elsewhere \/ Expire \/ Unload \/ UNCHANGED vars
    <2>1. leaving' = leaving /\ lost' = lost
      BY <1>4 DEF EndAllSessions, Elsewhere, Expire, Unload, Quiet, vars, leave
    <2> QED
      BY <2>1, Zenon
  <1> QED
    BY <1>1, <1>2, <1>3, <1>4 DEF Next

\* A completed sign-in takes the page away, or its answer is lost.
LEMMA ShownStays ==
    ASSUME Page, [Next]_vars, NEW m \in {"otp", "face"}, Shown(m)
    PROVE  Shown(m)'
  <1>1. CASE leaving # None \/ lost
    BY <1>1, LeavingStays DEF Shown
  <1>2. ASSUME NEW p \in posts, p.kind = m, p.reply = "complete", p \notin posts'
        PROVE  leaving' # None \/ lost'
    <2>1. p.reply # None /\ "complete" # "network"
      BY <1>2, Unanswered
    <2>2. CASE Provider(p)
      BY <1>2, <2>1, <2>2 DEF Provider, ReadChallenge, Login, VerifyTotp, IssueCheck, VerifyFace,
         DecideConsent, SendLink, SpendToken, CommitPassword, NetworkFails
    <2>3. CASE Lands(p)
      BY <1>2, <2>1, <2>3, Unanswered DEF Lands, ChallengeLands, CheckLands, StepLands, OtherLands, Advance
    <2> QED
      BY <1>2, <2>2, <2>3, Removes
  <1> QED
    BY <1>1, <1>2 DEF Shown

\* A second factor the session has when the page is opened was given before.
LEMMA InitFactors == Init => Factors
  <1> SUFFICES ASSUME Init
               PROVE  Factors
    OBVIOUS
  <1>1. chal.methods = {} /\ step = None /\ owed = None /\ captures = {}
    BY DEF Init
  <1>2. NeedsFace => asked \subseteq {"face"}
    BY NothingOwed DEF Init
  <1>3. \A p \in posts : p.kind = "challenge" /\ p.owes = {}
    <2> DEFINE o == Post("challenge", 0, 0, 1)
    <2>1. o.kind = "challenge" /\ o.owes = {}
      <3>1. "challenge" \in Kinds /\ 0 \in Nat /\ 1 \in Nat
        BY DEF Kinds
      <3> QED
        BY <3>1 DEF Post, PostType
    <2>2. posts \subseteq {o}
      BY DEF Init
    <2> HIDE DEF o
    <2> QED
      BY <2>1, <2>2
  <1>4. \A p \in posts : p.reply # "required"
    <2>1. Post("challenge", 0, 0, 1).reply = None
      BY DEF Post
    <2> QED
      BY <2>1, Unanswered DEF Init
  <1>5. asked = {} => Before
    BY <1>1, <1>3, <1>4 DEF Before
  <1>6. asked # {} => /\ "face" \notin amr
                      /\ "otp" \in amr => NeedsFace
    BY NothingOwed DEF Init
  <1> QED
    BY <1>1, <1>2, <1>3, <1>5, <1>6, Unanswered DEF Factors, FaceOnly

\* Until a password is given nothing is asked for but that.
LEMMA AsksForNoFactor ==
    ASSUME Page, Before
    PROVE  current \notin Methods \cup {"choose"} /\ check.status = "none" /\ camera = "off"
  <1>1. chal.status \in {"pending", "ok", "expired", "network"}
    BY DEF Page, Types
  <1>2. current \notin Methods \cup {"choose"}
    BY <1>1 DEF Before, current, Methods
  <1> QED
    BY <1>2 DEF Page, FacePage, Methods

\* It stays so until one is.
LEMMA BeforeStays ==
    ASSUME Page, Before, [Next]_vars
    PROVE  Before' \/ amr' \subseteq {"pwd"}
  <1>1. current \notin Methods \cup {"choose"} /\ camera = "off" /\ Orphaned = {}
    BY AsksForNoFactor DEF Before, Orphaned
  <1>2. ASSUME asked' = asked, chal'.methods = {}, step' = None, owed' = None, captures' = {},
               \A q \in posts' : q \in posts \/ (q.kind \notin {"otp", "face"} /\ q.reply # "required")
        PROVE  Before'
    BY <1>2 DEF Before
  <1>3. ASSUME NEW kind \in Kinds \ {"otp", "face"},
               posts' = posts \cup {Post(kind, 0, mount, flow)},
               chal'.methods = {}, UNCHANGED <<asked, step, owed, captures>>
        PROVE  Before'
    <2> DEFINE o == Post(kind, 0, mount, flow)
    <2>1. o.kind = kind /\ o.reply = None
      BY DEF Post
    <2>2. posts' = posts \cup {o}
      BY <1>3
    <2> HIDE DEF o
    <2> QED
      BY <1>2, <1>3, <2>1, <2>2, Unanswered DEF Before
  <1>4. CASE (\E s \in Methods : Choose(s)) \/ SwitchMethod \/ Forgot \/ BackToSignIn
    <2>1. PICK s : Fresh(s) /\ posts' = posts \cup Opens(s)
      BY <1>4, Remounts
    <2>2. \A q \in posts' : q \in posts \/ (q.kind = "check" /\ q.reply = None)
      BY <2>1, OpensCheck
    <2>3. captures' = {} /\ chal' = chal /\ asked' = asked
      BY <1>1, <1>4, <2>1, Remounts DEF Fresh, server
    <2>4. step' = None /\ owed' = None
      BY <1>1, <1>4 DEF Choose, SwitchMethod, Forgot, BackToSignIn, Before
    <2> QED
      BY <1>2, <2>2, <2>3, <2>4, Unanswered DEF Before
  <1>5. CASE Credentials \/ RequestReset \/ SaveNewPassword \/ RefetchChallenge
             \/ \E approved \in BOOLEAN : Consent(approved)
    <2>1. PICK kind \in Kinds \ {"otp", "face"} : posts' = posts \cup {Post(kind, 0, mount, flow)}
      BY <1>5 DEF Credentials, RequestReset, SaveNewPassword, RefetchChallenge, Consent, Sends, Kinds
    <2>2. UNCHANGED <<asked, step, owed, captures>>
      BY <1>5 DEF Credentials, RequestReset, SaveNewPassword, RefetchChallenge, Consent, server
    <2>3. chal'.methods = chal.methods
      BY <1>5 DEF Credentials, RequestReset, SaveNewPassword, RefetchChallenge, Consent, Page, Types
    <2> QED
      BY <1>3, <2>1, <2>2, <2>3 DEF Before
  <1>6. ~(Totp \/ CameraAnswers \/ RunCapture \/ Frames \/ Captured \/ Retry)
    BY <1>1 DEF Totp, CameraAnswers, RunCapture, Frames, Captured, Retry, OnCamera, Methods
  <1>7. ~(\E id \in captures : CapturedAway(id))
    BY DEF Before
  <1>8. ASSUME NEW p \in posts, Provider(p)
        PROVE  Before' \/ amr' \subseteq {"pwd"}
    <2>1. p \in PostType /\ enrolled \subseteq Methods /\ p.kind \notin {"otp", "face"}
      BY DEF Page, Types, Before
    <2>2. UNCHANGED <<view, captures, asked>> /\ UNCHANGED <<chal, step, owed>>
      BY <1>8 DEF Provider, ReadChallenge, Login, VerifyTotp, IssueCheck, VerifyFace, DecideConsent,
             SendLink, SpendToken, CommitPassword, NetworkFails, Quiet, view, server, factors
    <2>3. ASSUME NEW q, posts' = (posts \ {p}) \cup {q}, q.kind = p.kind, q.reply # "required"
          PROVE  Before'
      BY <1>2, <2>1, <2>2, <2>3 DEF Before
    <2>4. ASSUME NEW reply \in Replies \ {"required"}, Answer(p, reply)
          PROVE  Before'
      <3>1. PICK q \in PostType :
                posts' = (posts \ {p}) \cup {q} /\ q.kind = p.kind /\ q.reply = reply
        BY <2>1, <2>4, AnswerReply
      <3> QED
        BY <2>3, <3>1
    <2>5. CASE IssueCheck(p)
      <3>1. CASE \E reply \in {"no_session", "expired", "paused"} : Answer(p, reply) /\ UNCHANGED issued
        BY <2>4, <3>1 DEF Replies
      <3>2. CASE IssuesNumber(p)
        <4> DEFINE q == [p EXCEPT !.reply = "ok", !.id = Cardinality(issued.all) + 1]
        <4>1. posts' = (posts \ {p}) \cup {q} /\ q.kind = p.kind /\ q.reply = "ok"
          BY <2>1, <3>2 DEF IssuesNumber, PostType
        <4> HIDE DEF q
        <4> QED
          BY <2>3, <4>1
      <3> QED
        BY <2>5, <3>1, <3>2, IssueCheckCases
    <2>6. CASE Login(p)
      <3>1. amr' = {"pwd"} \/ \E reply \in Replies \ {"required"} : Answer(p, reply)
        BY <2>6 DEF Login, Replies
      <3> QED
        BY <2>4, <3>1
    <2>7. CASE ReadChallenge(p) \/ DecideConsent(p) \/ SendLink(p) \/ CommitPassword(p)
               \/ NetworkFails(p) \/ SpendToken(p)
      <3>1. posts' = posts \/ \E reply \in Replies \ {"required"} : Answer(p, reply)
        BY <2>7 DEF ReadChallenge, DecideConsent, SendLink, CommitPassword, NetworkFails, SpendToken, Replies
      <3>2. posts' = posts => Before'
        BY <2>2 DEF Before
      <3> QED
        BY <2>4, <3>1, <3>2
    <2>8. ~VerifyTotp(p) /\ ~VerifyFace(p)
      BY <2>1 DEF VerifyTotp, VerifyFace
    <2> QED
      BY <1>8, <2>5, <2>6, <2>7, <2>8 DEF Provider
  <1>9. ASSUME NEW p \in posts, Lands(p)
        PROVE  Before'
    <2>1. p.reply # "required" /\ asked' = asked /\ p.kind \notin {"otp", "face"}
      BY <1>9 DEF Before, Lands, ChallengeLands, CheckLands, StepLands, OtherLands, server
    <2>2. \A q \in posts' : q \in posts \/ (q.kind = "check" /\ q.reply = None)
      <3>1. posts' \subseteq posts \/ \E s : posts' = (posts \ {p}) \cup Opens(s)
        BY <1>9 DEF Lands, ChallengeLands, CheckLands, StepLands, OtherLands, Advance
      <3> QED
        BY <3>1, OpensCheck
    <2>3. UNCHANGED <<step, owed>> /\ (chal' = chal \/ chal'.methods = {}) /\ captures' \in {captures, Orphaned}
      BY <1>9, <2>1 DEF Before, Lands, ChallengeLands, CheckLands, StepLands, OtherLands, Advance, Fresh
    <2> QED
      BY <1>1, <1>2, <2>1, <2>2, <2>3, Unanswered DEF Before
  <1>10. CASE EndAllSessions \/ Elsewhere \/ Expire \/ Unload \/ UNCHANGED vars
    <2>1. UNCHANGED <<asked, chal, step, owed, captures, posts>>
      BY <1>10 DEF EndAllSessions, Elsewhere, Expire, Unload, Quiet, vars, view, server, factors
    <2> QED
      BY <2>1 DEF Before
  <1> QED
    BY <1>4, <1>5, <1>6, <1>7, <1>8, <1>9, <1>10 DEF Next, Pages

\* A session gets a factor from an answer that completes the sign-in.
LEMMA FactorsGiven ==
    ASSUME Page, Factors, [Next]_vars
    PROVE  /\ "face" \in amr' => Shown("face")' \/ Before'
           /\ "otp" \in amr' /\ ~NeedsFace => Shown("otp")' \/ Before'
  <1>1. CASE amr' \subseteq amr \cup {"pwd"}
    <2>1. "face" \in amr' => Shown("face") \/ Before
      BY <1>1 DEF Factors
    <2>2. "otp" \in amr' /\ ~NeedsFace => Shown("otp") \/ Before
      BY <1>1 DEF Factors
    <2> QED
      BY <2>1, <2>2, ShownStays, BeforeStays
  <1>2. ASSUME NEW p \in posts, NEW m \in {"otp", "face"}, p.kind = m, amr' = amr \cup {m}, NextStep(p, amr')
        PROVE  Outstanding(amr') = {} => Shown(m)'
    <2>1. p \in PostType /\ enrolled \subseteq Methods
      BY DEF Page, Types
    <2>2. PICK q \in PostType : /\ posts' = (posts \ {p}) \cup {q}
                               /\ q.kind = p.kind
                               /\ q.reply = IF Outstanding(amr') = {} THEN "complete" ELSE "required"
      BY <1>2, <2>1, NextStepReply
    <2> QED
      BY <1>2, <2>2 DEF Shown
  <1>3. ASSUME NEW p \in posts, VerifyTotp(p)
        PROVE  \/ amr' \subseteq amr \cup {"pwd"}
               \/ p.kind = "otp" /\ amr' = amr \cup {"otp"} /\ NextStep(p, amr')
    BY <1>3 DEF VerifyTotp
  <1>4. ASSUME NEW p \in posts, VerifyFace(p)
        PROVE  \/ amr' \subseteq amr \cup {"pwd"}
               \/ p.kind = "face" /\ amr' = amr \cup {"face"} /\ NextStep(p, amr')
    BY <1>4 DEF VerifyFace
  <1>5. CASE \E p \in posts : VerifyTotp(p)
    <2>1. PICK p \in posts : VerifyTotp(p)
      BY <1>5
    <2>2. CASE p.kind = "otp" /\ amr' = amr \cup {"otp"} /\ NextStep(p, amr')
      <3>1. ~NeedsFace
        BY <2>2, OwesFace
      <3>2. Outstanding(amr') = {}
        BY <2>2, <3>1, NothingOwed
      <3>3. Shown("otp")'
        BY <1>2, <2>2, <3>2
      <3>4. "face" \in amr' => "face" \in amr
        BY <2>2
      <3>5. ~Before
        BY <2>2 DEF Before
      <3> QED
        BY <3>3, <3>4, <3>5, ShownStays DEF Factors
    <2> QED
      BY <1>1, <1>3, <2>1, <2>2
  <1>6. CASE \E p \in posts : VerifyFace(p)
    <2>1. PICK p \in posts : VerifyFace(p)
      BY <1>6
    <2>2. CASE p.kind = "face" /\ amr' = amr \cup {"face"} /\ NextStep(p, amr')
      <3>1. Outstanding(amr') = {}
        BY <2>2, NothingOwed
      <3>2. Shown("face")'
        BY <1>2, <2>2, <3>1
      <3>3. "otp" \in amr' => "otp" \in amr
        BY <2>2
      <3>4. ~Before
        BY <2>2 DEF Before
      <3> QED
        BY <3>2, <3>3, <3>4, ShownStays DEF Factors
    <2> QED
      BY <1>1, <1>4, <2>1, <2>2
  <1>7. CASE ~(\E p \in posts : VerifyTotp(p) \/ VerifyFace(p))
    <2>1. amr' \subseteq amr \cup {"pwd"}
      <3>1. CASE Pages
        BY <3>1, Remounts DEF Pages, Credentials, Totp, RequestReset, SaveNewPassword, RefetchChallenge,
           Consent, CameraAnswers, RunCapture, Frames, Captured, Retry, CapturedAway, server
      <3>2. ASSUME NEW p \in posts, Provider(p)
            PROVE  amr' \subseteq amr \cup {"pwd"}
        BY <1>7, <3>2 DEF Provider, ReadChallenge, Login, IssueCheck, DecideConsent,
           SendLink, SpendToken, CommitPassword, NetworkFails, server
      <3>3. ASSUME NEW p \in posts, Lands(p)
            PROVE  amr' \subseteq amr \cup {"pwd"}
        BY <3>3 DEF Lands, ChallengeLands, CheckLands, StepLands, OtherLands, server
      <3>4. CASE EndAllSessions \/ Elsewhere \/ Expire \/ Unload \/ UNCHANGED vars
        BY <3>4 DEF EndAllSessions, Elsewhere, Expire, Unload, vars, server
      <3> QED
        BY <3>1, <3>2, <3>3, <3>4 DEF Next
    <2> QED
      BY <1>1, <2>1
  <1> QED
    BY <1>5, <1>6, <1>7

\* Where only a face will do, the step that asks for a factor is the face step.
LEMMA AsksForTheFace ==
    ASSUME Page, FaceOnly
    PROVE  methods \subseteq {"face"} /\ (current \in Methods => current = "face")
  <1>1. /\ chal.status \in {"pending", "ok", "expired", "network"} /\ chal.methods \in SUBSET Methods
        /\ step \in Methods \cup {None, "choose"} /\ (step = None => owed = None)
    BY DEF Page, Types, Flows
  <1>2. methods \subseteq {"face"}
    BY DEF methods, FaceOnly
  <1>3. ASSUME current \in Methods, step = None
        PROVE  current = "face"
    <2>1. methods = chal.methods
      BY <1>1, <1>3 DEF methods
    <2>2. current = stepFor(methods) /\ methods # {}
      BY <1>1, <1>3, <2>1 DEF current, Methods
    <2> QED
      BY <1>1, <1>2, <2>1, <2>2, StepFor
  <1>4. ASSUME current \in Methods, step # None
        PROVE  current = "face"
    BY <1>1, <1>4 DEF current, Methods, FaceOnly
  <1> QED
    BY <1>2, <1>3, <1>4

\* What is asked for and owed stays, and what is sent asks for no code.
LEMMA StaysFaceOnly ==
    ASSUME FaceOnly, asked' = asked, chal'.methods \in {chal.methods, asked, {}},
           step' # "otp", owed' \in {owed, None},
           \A q \in posts' : q \in posts \/ (q.owes = {} /\ q.kind # "otp")
    PROVE  FaceOnly'
  BY DEF FaceOnly

\* What the person does, where only a face will do.
LEMMA PagesFaceOnly ==
    ASSUME Page, FaceOnly, Pages
    PROVE  FaceOnly'
  <1>1. /\ mount \in Nat /\ flow \in Nat /\ 0 \in Nat /\ check.id \in Nat /\ captures \subseteq Nat
        /\ "check" \in Kinds /\ "face" \in Kinds /\ "challenge" \in Kinds
        /\ \A kind \in Submits : kind \in Kinds
    BY DEF Page, Types, CheckType, Kinds, Submits
  <1>2. step # "otp" /\ UNCHANGED asked
    BY Remounts DEF FaceOnly, Pages, Credentials, Totp, RequestReset, SaveNewPassword, RefetchChallenge,
       Consent, CameraAnswers, RunCapture, Frames, Captured, Retry, CapturedAway, server
  <1>3. CASE (\E s \in Methods : Choose(s)) \/ SwitchMethod \/ Forgot \/ BackToSignIn
    <2>1. PICK s : Fresh(s) /\ posts' = posts \cup Opens(s)
      BY <1>3, Remounts
    <2>2. chal' = chal
      BY <1>3, Remounts
    <2>3. \A q \in posts' : q \in posts \/ (q.owes = {} /\ q.kind # "otp")
      BY <2>1, OpensCheck
    <2>4. \A m \in Methods : m \in methods => m = "face"
      BY AsksForTheFace
    <2>5. step' # "otp" /\ owed' \in {owed, None}
      BY <1>2, <1>3, <2>4, Unanswered DEF Choose, SwitchMethod, Forgot, BackToSignIn
    <2> QED
      BY <1>2, <2>2, <2>3, <2>5, StaysFaceOnly
  <1>4. ASSUME NEW kind \in Kinds \ {"otp"}, NEW id \in Nat, NEW m \in Nat,
               posts' = posts \cup {Post(kind, id, m, flow)},
               chal'.methods = chal.methods, UNCHANGED <<step, owed>>
        PROVE  FaceOnly'
    <2> DEFINE o == Post(kind, id, m, flow)
    <2>1. o.kind = kind /\ o.owes = {}
      <3>1. kind \in Kinds /\ flow \in Nat
        BY <1>1
      <3> QED
        BY <3>1 DEF Post, PostType
    <2>2. posts' = posts \cup {o}
      BY <1>4
    <2> HIDE DEF o
    <2> QED
      BY <1>2, <1>4, <2>1, <2>2, StaysFaceOnly
  <1>5. CASE Totp
    <2>1. current = "otp"
      BY <1>5 DEF Totp
    <2> QED
      BY <2>1, AsksForTheFace DEF Methods
  <1>6. CASE Credentials \/ RequestReset \/ SaveNewPassword \/ Captured
    <2>1. /\ UNCHANGED <<chal, step, owed>>
          /\ \E kind \in Submits \ {"otp"}, id \in {0, check.id} : Sends(kind, id)
      BY <1>6 DEF Credentials, RequestReset, SaveNewPassword, Captured, Submits
    <2>2. PICK kind \in Submits \ {"otp"}, id \in {0, check.id} : Sends(kind, id)
      BY <2>1
    <2> QED
      BY <1>1, <1>4, <2>1, <2>2 DEF Sends
  <1>7. ASSUME NEW approved \in BOOLEAN, Consent(approved)
        PROVE  FaceOnly'
    <2>1. UNCHANGED <<chal, step, owed>> /\ \E kind \in Submits \ {"otp"} : Sends(kind, 0)
      BY <1>7 DEF Consent, Submits
    <2>2. PICK kind \in Submits \ {"otp"} : Sends(kind, 0)
      BY <2>1
    <2> QED
      BY <1>1, <1>4, <2>1, <2>2 DEF Sends
  <1>8. CASE CameraAnswers \/ RunCapture \/ Frames
    <2>1. UNCHANGED <<chal, step, owed, posts>>
      BY <1>8 DEF CameraAnswers, RunCapture, Frames
    <2> QED
      BY <1>2, <2>1, StaysFaceOnly
  <1>9. CASE RefetchChallenge
    <2>1. /\ posts' = posts \cup {Post("challenge", 0, mount, flow)} /\ UNCHANGED <<step, owed>>
          /\ chal'.methods = chal.methods
      BY <1>9 DEF RefetchChallenge, Page, Types
    <2> QED
      BY <1>1, <1>4, <2>1
  <1>10. CASE Retry
    <2>1. UNCHANGED <<chal, step, owed>>
      BY <1>10 DEF Retry
    <2>2. \A q \in posts' : q \in posts \/ (q.owes = {} /\ q.kind # "otp")
      BY <1>10, RetryChecks
    <2> QED
      BY <1>2, <2>1, <2>2, StaysFaceOnly
  <1>11. ASSUME NEW id \in captures, CapturedAway(id)
         PROVE  FaceOnly'
    <2>1. posts' = posts \cup {Post("face", id, 0, flow)} /\ UNCHANGED <<chal, step, owed>>
      BY <1>11 DEF CapturedAway, view
    <2> QED
      BY <1>1, <1>4, <2>1
  <1> QED
    BY <1>3, <1>5, <1>6, <1>7, <1>8, <1>9, <1>10, <1>11 DEF Pages

\* What the provider does, where only a face will do.
LEMMA ProviderFaceOnly ==
    ASSUME Page, NeedsFace, FaceOnly, NEW p \in posts, Provider(p)
    PROVE  FaceOnly'
  <1>1. p \in PostType /\ enrolled \subseteq Methods
    BY DEF Page, Types
  <1>2. asked' = asked /\ UNCHANGED <<chal, step, owed>>
    BY DEF Provider, ReadChallenge, Login, VerifyTotp, IssueCheck, VerifyFace, DecideConsent,
           SendLink, SpendToken, CommitPassword, NetworkFails, Quiet, view, server, factors
  <1>3. ASSUME NEW q, posts' = (posts \ {p}) \cup {q}, q.kind = p.kind, q.owes \subseteq {"face"}
        PROVE  FaceOnly'
    BY <1>2, <1>3 DEF FaceOnly
  <1>4. ASSUME NEW reply \in Replies, Answer(p, reply)
        PROVE  FaceOnly'
    <2>1. PICK q \in PostType : /\ posts' = (posts \ {p}) \cup {q}
                               /\ q.kind = p.kind /\ q.owes = p.owes
      BY <1>1, <1>4, AnswerReply
    <2> QED
      BY <1>3, <2>1 DEF FaceOnly
  <1>5. ASSUME NEW used, NextStep(p, used)
        PROVE  FaceOnly'
    <2>1. PICK q \in PostType : /\ posts' = (posts \ {p}) \cup {q}
                               /\ q.kind = p.kind /\ q.owes = Outstanding(used)
      BY <1>1, <1>5, NextStepReply
    <2> QED
      BY <1>3, <2>1, NothingOwed
  <1>6. CASE IssueCheck(p)
    <2>1. CASE \E reply \in {"no_session", "expired", "paused"} : Answer(p, reply) /\ UNCHANGED issued
      BY <1>4, <2>1 DEF Replies
    <2>2. CASE IssuesNumber(p)
      <3> DEFINE q == [p EXCEPT !.reply = "ok", !.id = Cardinality(issued.all) + 1]
      <3>1. posts' = (posts \ {p}) \cup {q} /\ q.kind = p.kind /\ q.owes = p.owes
        BY <1>1, <2>2 DEF IssuesNumber, PostType
      <3> HIDE DEF q
      <3> QED
        BY <1>3, <3>1 DEF FaceOnly
    <2> QED
      BY <1>6, <2>1, <2>2, IssueCheckCases
  <1>7. CASE ~IssueCheck(p)
    <2>1. \/ posts' = posts
          \/ \E reply \in Replies : Answer(p, reply)
          \/ \E used : NextStep(p, used)
      BY <1>7 DEF Provider, ReadChallenge, Login, VerifyTotp, VerifyFace, DecideConsent,
           SendLink, SpendToken, CommitPassword, NetworkFails, Replies
    <2> QED
      BY <1>2, <1>4, <1>5, <2>1 DEF FaceOnly
  <1> QED
    BY <1>6, <1>7

\* What an answer that lands does, where only a face will do.
LEMMA LandsFaceOnly ==
    ASSUME Page, FaceOnly, NEW p \in posts, Lands(p)
    PROVE  FaceOnly'
  <1>1. /\ asked' = asked /\ step # "otp" /\ p.owes \subseteq {"face"} /\ p \in PostType
        /\ chal' = chal \/ chal'.methods \in {asked, {}}
    BY DEF Lands, ChallengeLands, CheckLands, StepLands, OtherLands, server, FaceOnly, Page, Types
  <1>2. ASSUME NEW q \in posts'
        PROVE  q \in posts \/ (q.owes = {} /\ q.kind # "otp")
    <2>1. posts' \subseteq posts \/ \E s : posts' = (posts \ {p}) \cup Opens(s)
      BY DEF Lands, ChallengeLands, CheckLands, StepLands, OtherLands, Advance
    <2> QED
      BY <1>2, <2>1, OpensCheck
  <1>3. CASE UNCHANGED <<step, owed>>
    BY <1>1, <1>2, <1>3, StaysFaceOnly
  <1>4. CASE StepLands(p) /\ owed' = p.owes /\ step' = stepFor(p.owes) /\ p.reply = "required"
    <2>1. p.owes # {} /\ p.owes \in SUBSET Methods
      BY <1>1, <1>4, PostFields DEF Page, Answers
    <2>2. step' = "face" /\ owed' \subseteq {"face"}
      BY <1>1, <1>4, <2>1, StepFor
    <2> QED
      BY <1>1, <1>2, <2>2 DEF FaceOnly
  <1> QED
    BY <1>3, <1>4 DEF Lands, ChallengeLands, CheckLands, StepLands, OtherLands, Advance

\* Any step of the system.
LEMMA NextFactors ==
    ASSUME Page, Factors, [Next]_vars
    PROVE  Factors'
  <1>1. UNCHANGED <<need, enrolled>>
    <2>1. CASE Pages
      BY <2>1, Remounts DEF Pages, Credentials, Totp, RequestReset, SaveNewPassword, RefetchChallenge,
         Consent, CameraAnswers, RunCapture, Frames, Captured, Retry, CapturedAway, server
    <2>2. ASSUME NEW p \in posts, Provider(p)
          PROVE  UNCHANGED <<need, enrolled>>
      BY <2>2 DEF Provider, ReadChallenge, Login, VerifyTotp, IssueCheck, VerifyFace, DecideConsent,
         SendLink, SpendToken, CommitPassword, NetworkFails, server, factors
    <2>3. ASSUME NEW p \in posts, Lands(p)
          PROVE  UNCHANGED <<need, enrolled>>
      BY <2>3 DEF Lands, ChallengeLands, CheckLands, StepLands, OtherLands, server
    <2>4. CASE EndAllSessions \/ Elsewhere \/ Expire \/ Unload \/ UNCHANGED vars
      BY <2>4 DEF EndAllSessions, Elsewhere, Expire, Unload, vars, server, factors
    <2> QED
      BY <2>1, <2>2, <2>3, <2>4 DEF Next
  <1>2. NeedsFace' = NeedsFace
    BY <1>1 DEF NeedsFace
  <1>3. ASSUME NeedsFace
        PROVE  FaceOnly'
    <2>1. FaceOnly
      BY <1>3 DEF Factors
    <2>2. CASE EndAllSessions \/ Elsewhere \/ Expire \/ Unload \/ UNCHANGED vars
      <3>1. UNCHANGED <<asked, chal, step, owed, posts>>
        BY <2>2 DEF EndAllSessions, Elsewhere, Expire, Unload, Quiet, vars, view, server, factors
      <3> QED
        BY <2>1, <3>1 DEF FaceOnly
    <2> QED
      BY <1>3, <2>1, <2>2, PagesFaceOnly, ProviderFaceOnly, LandsFaceOnly DEF Next
  <1> QED
    BY <1>2, <1>3, FactorsGiven DEF Factors

-----------------------------------------------------------------------------
(* What the recovery page says.                                            *)

\* Nothing sent, shown or known of the reset changes for the worse.
LEMMA StaysTrue ==
    ASSUME Recovery, route' = "reset" => route = "reset",
           status' \in {status, "idle", "pending", "complete"},
           password = "new" => password' = "new", ~token => ~token',
           \A q \in posts' : q \in posts \/ (q.reply \notin {"answered", "invalid_reset_token"})
    PROVE  Recovery'
  BY DEF Recovery, RecoveryTellsTheTruth

\* What the person does tells nothing new of the reset.
LEMMA PagesRecovery ==
    ASSUME Page, Recovery, Pages
    PROVE  Recovery'
  <1>1. UNCHANGED server /\ (route' = "reset" => route = "reset")
    BY Remounts DEF Pages, Credentials, Totp, RequestReset, SaveNewPassword, RefetchChallenge,
       Consent, CameraAnswers, RunCapture, Frames, Captured, Retry, CapturedAway, view
  <1>2. /\ mount \in Nat /\ flow \in Nat /\ 0 \in Nat /\ check.id \in Nat /\ captures \subseteq Nat
        /\ "check" \in Kinds /\ "face" \in Kinds /\ "challenge" \in Kinds
        /\ \A kind \in Submits : kind \in Kinds
    BY DEF Page, Types, CheckType, Kinds, Submits
  <1>3. ASSUME NEW kind \in Kinds, NEW id \in Nat, NEW m \in Nat,
               posts' = posts \cup {Post(kind, id, m, flow)},
               status' \in {status, "idle", "pending"}
        PROVE  Recovery'
    <2> DEFINE o == Post(kind, id, m, flow)
    <2>1. o.reply = None
      <3>1. flow \in Nat
        BY <1>2
      <3> QED
        BY <3>1 DEF Post, PostType
    <2>2. posts' = posts \cup {o}
      BY <1>3
    <2> HIDE DEF o
    <2> QED
      BY <1>1, <1>3, <2>1, <2>2, Unanswered, StaysTrue DEF server
  <1>4. CASE (\E s \in Methods : Choose(s)) \/ SwitchMethod \/ Forgot \/ BackToSignIn
    <2>1. PICK s : Fresh(s) /\ posts' = posts \cup Opens(s)
      BY <1>4, Remounts
    <2>2. status' = "idle" /\ \A q \in posts' : q \in posts \/ q.reply = None
      BY <2>1, OpensCheck DEF Fresh
    <2> QED
      BY <1>1, <2>2, Unanswered, StaysTrue DEF server
  <1>5. CASE Credentials \/ Totp \/ RequestReset \/ SaveNewPassword \/ Captured
    <2>1. PICK kind \in Submits, id \in {0, check.id} : Sends(kind, id)
      BY <1>5 DEF Credentials, Totp, RequestReset, SaveNewPassword, Captured, Submits
    <2> QED
      BY <1>2, <1>3, <2>1 DEF Sends
  <1>6. ASSUME NEW approved \in BOOLEAN, Consent(approved)
        PROVE  Recovery'
    <2>1. PICK kind \in Submits : Sends(kind, 0)
      BY <1>6 DEF Consent, Submits
    <2> QED
      BY <1>2, <1>3, <2>1 DEF Sends
  <1>7. CASE CameraAnswers \/ RunCapture \/ Frames
    <2>1. UNCHANGED <<status, posts>>
      BY <1>7 DEF CameraAnswers, RunCapture, Frames
    <2> QED
      BY <1>1, <2>1, StaysTrue DEF server
  <1>8. CASE RefetchChallenge
    BY <1>2, <1>3, <1>8 DEF RefetchChallenge
  <1>9. CASE Retry
    <2>1. status' = "idle" /\ \A q \in posts' : q \in posts \/ q.reply = None
      BY <1>9, RetryChecks DEF Retry
    <2> QED
      BY <1>1, <2>1, Unanswered, StaysTrue DEF server
  <1>10. ASSUME NEW id \in captures, CapturedAway(id)
         PROVE  Recovery'
    BY <1>2, <1>3, <1>10 DEF CapturedAway, view
  <1> QED
    BY <1>4, <1>5, <1>6, <1>7, <1>8, <1>9, <1>10 DEF Pages

\* What the provider answers of the reset is so when it answers.
LEMMA ProviderRecovery ==
    ASSUME Page, Recovery, NEW p \in posts, Provider(p)
    PROVE  Recovery'
  <1>1. p \in PostType /\ enrolled \subseteq Methods
    BY DEF Page, Types
  <1>2. UNCHANGED <<route, status>>
    BY DEF Provider, ReadChallenge, Login, VerifyTotp, IssueCheck, VerifyFace, DecideConsent,
           SendLink, SpendToken, CommitPassword, NetworkFails, Quiet, view
  <1>3. ASSUME NEW q, posts' = (posts \ {p}) \cup {q}, q.kind = p.kind,
               password' = password \/ password' = "new", ~token => ~token',
               q.reply = "answered" /\ q.kind = "reset" => password' = "new",
               q.reply = "invalid_reset_token" => ~token'
        PROVE  Recovery'
    BY <1>2, <1>3 DEF Recovery, RecoveryTellsTheTruth
  <1>4. ASSUME NEW reply \in Replies, Answer(p, reply),
               password' = password \/ password' = "new", ~token => ~token',
               reply = "answered" => p.kind # "reset" \/ password' = "new",
               reply = "invalid_reset_token" => ~token'
        PROVE  Recovery'
    <2>1. PICK q \in PostType : /\ posts' = (posts \ {p}) \cup {q}
                               /\ q.kind = p.kind /\ q.reply = reply
      BY <1>1, <1>4, AnswerReply
    <2> QED
      BY <1>3, <1>4, <2>1
  <1>5. ASSUME NEW used, NextStep(p, used), UNCHANGED <<password, token>>
        PROVE  Recovery'
    <2>1. PICK q \in PostType : /\ posts' = (posts \ {p}) \cup {q} /\ q.kind = p.kind
                               /\ q.reply = IF Outstanding(used) = {} THEN "complete" ELSE "required"
      BY <1>1, <1>5, NextStepReply
    <2> QED
      BY <1>3, <1>5, <2>1
  <1>6. CASE IssueCheck(p)
    <2>1. UNCHANGED <<password, token>>
      BY <1>6 DEF IssueCheck, factors
    <2>2. CASE \E reply \in {"no_session", "expired", "paused"} : Answer(p, reply) /\ UNCHANGED issued
      BY <1>4, <2>1, <2>2 DEF Replies
    <2>3. CASE IssuesNumber(p)
      <3> DEFINE q == [p EXCEPT !.reply = "ok", !.id = Cardinality(issued.all) + 1]
      <3>1. posts' = (posts \ {p}) \cup {q} /\ q.kind = p.kind /\ q.reply = "ok"
        BY <1>1, <2>3 DEF IssuesNumber, PostType
      <3> HIDE DEF q
      <3> QED
        BY <1>3, <2>1, <3>1
    <2> QED
      BY <1>6, <2>2, <2>3, IssueCheckCases
  <1>7. CASE ReadChallenge(p) \/ Login(p) \/ VerifyTotp(p) \/ VerifyFace(p) \/ DecideConsent(p)
             \/ SendLink(p) \/ NetworkFails(p)
    <2>1. UNCHANGED <<password, token>>
      BY <1>7 DEF ReadChallenge, Login, VerifyTotp, VerifyFace, DecideConsent, SendLink,
                  NetworkFails, server, factors
    <2>2. \/ \E used : NextStep(p, used)
          \/ \E reply \in Replies \ {"invalid_reset_token"} :
                Answer(p, reply) /\ (reply = "answered" => p.kind # "reset")
      BY <1>7 DEF ReadChallenge, Login, VerifyTotp, VerifyFace, DecideConsent, SendLink,
                  NetworkFails, Replies
    <2> QED
      BY <1>4, <1>5, <2>1, <2>2
  <1>8. CASE SpendToken(p)
    <2>1. \/ ~token /\ Answer(p, "invalid_reset_token") /\ UNCHANGED <<token, password>>
          \/ token' = FALSE /\ posts' = posts /\ password' = password
      BY <1>8 DEF SpendToken
    <2>2. CASE token' = FALSE /\ posts' = posts /\ password' = password
      BY <1>2, <2>2, StaysTrue
    <2>3. CASE ~token /\ Answer(p, "invalid_reset_token") /\ UNCHANGED <<token, password>>
      BY <1>4, <2>3 DEF Replies
    <2> QED
      BY <2>1, <2>2, <2>3
  <1>9. CASE CommitPassword(p)
    <2>1. password' = "new" /\ Answer(p, "answered") /\ token' = token
      BY <1>9 DEF CommitPassword
    <2> QED
      BY <1>4, <2>1 DEF Replies
  <1> QED
    BY <1>6, <1>7, <1>8, <1>9 DEF Provider

\* What the page shows of the reset is what was answered.
LEMMA LandsRecovery ==
    ASSUME Page, Recovery, NEW p \in posts, Lands(p)
    PROVE  Recovery'
  <1>1. UNCHANGED <<route, password, token>>
    BY DEF Lands, ChallengeLands, CheckLands, StepLands, OtherLands, server
  <1>2. \A q \in posts' : q \in posts \/ q.reply = None
    <2>1. posts' \subseteq posts \/ \E s : posts' = (posts \ {p}) \cup Opens(s)
      BY DEF Lands, ChallengeLands, CheckLands, StepLands, OtherLands, Advance
    <2> QED
      BY <2>1, OpensCheck
  <1>3. \A q \in posts' : q \in posts \/ (q.reply \notin {"answered", "invalid_reset_token"})
    BY <1>2, Unanswered
  <1>4. CASE status' \in {status, "idle", "complete"}
    BY <1>1, <1>3, <1>4, StaysTrue
  <1>5. CASE status' = p.reply
    <2>1. p.reply = "answered" /\ route = "reset" => p.kind = "reset"
      BY DEF Page, ResetPage
    <2> QED
      BY <1>1, <1>3, <1>5, <2>1 DEF Recovery, RecoveryTellsTheTruth
  <1>6. CASE OtherLands(p) /\ Mine(p) /\ p.reply \in {"allow", "deny"}
    <2>1. route = "consent" /\ status' = "answered"
      BY <1>6 DEF OtherLands, Page, Answers, Mounting
    <2> QED
      BY <1>1, <1>3, <2>1 DEF Recovery, RecoveryTellsTheTruth
  <1> QED
    BY <1>4, <1>5, <1>6 DEF Lands, ChallengeLands, CheckLands, StepLands, OtherLands, Advance, Fresh

\* Any step of the system.
LEMMA NextRecovery ==
    ASSUME Page, Recovery, [Next]_vars
    PROVE  Recovery'
  <1>1. CASE EndAllSessions \/ Elsewhere \/ Expire \/ Unload \/ UNCHANGED vars
    <2>1. UNCHANGED <<route, status, posts, password, token>>
      BY <1>1 DEF EndAllSessions, Elsewhere, Expire, Unload, Quiet, vars, view, server, factors
    <2> QED
      BY <2>1, StaysTrue
  <1> QED
    BY <1>1, PagesRecovery, ProviderRecovery, LandsRecovery DEF Next

-----------------------------------------------------------------------------
(* The theorems.                                                           *)

IInv == Page /\ Numbers /\ Factors /\ Recovery

\* Every state the pages and the provider reach.
LEMMA SpecIInv == Spec => []IInv
  <1>1. Init => IInv
    <2>1. Init => Recovery
      <3> SUFFICES ASSUME Init
                   PROVE  Recovery
        OBVIOUS
      <3> DEFINE o == Post("challenge", 0, 0, 1)
      <3>1. o.kind = "challenge" /\ o.reply = None /\ o.owes = {}
        <4>1. "challenge" \in Kinds /\ 0 \in Nat /\ 1 \in Nat
          BY DEF Kinds
        <4> QED
          BY <4>1 DEF Post, PostType
      <3>2. posts \subseteq {o} /\ status = "idle"
        BY DEF Init
      <3> HIDE DEF o
      <3> QED
        BY <3>1, <3>2, Unanswered DEF Recovery, RecoveryTellsTheTruth
    <2> QED
      BY <2>1, InitPage, InitNumbers, InitFactors DEF IInv
  <1>2. IInv /\ [Next]_vars => IInv'
    BY NextPage, NextNumbers, NextFactors, NextRecovery DEF IInv
  <1> QED
    BY <1>1, <1>2, PTL DEF Spec

\* The step on the screen asks for nothing this sign-in has given already, however
\* many steps were left with requests of theirs under way (_next_step, advance).
THEOREM AskedTheorem == Spec => []AskedForWhatIsOwed
  <1>1. IInv => AskedForWhatIsOwed
    <2> SUFFICES ASSUME IInv, current \in Methods, current \in amr
                 PROVE  lost \/ leaving # None \/ \E p \in posts : p.kind \in {"otp", "face"}
      BY DEF AskedForWhatIsOwed
    <2>1. ASSUME NEW m \in {"otp", "face"}, Shown(m)
          PROVE  lost \/ leaving # None \/ \E p \in posts : p.kind \in {"otp", "face"}
      BY <2>1 DEF Shown
    <2>4. ~Before
      BY AsksForNoFactor DEF IInv, Methods
    <2>2. CASE current = "face"
      BY <2>1, <2>2, <2>4 DEF IInv, Factors
    <2>3. CASE current = "otp"
      <3>1. ~NeedsFace
        BY <2>3, AsksForTheFace DEF IInv, Factors, Methods
      <3> QED
        BY <2>1, <2>3, <2>4, <3>1 DEF IInv, Factors
    <2> QED
      BY <2>2, <2>3 DEF Methods
  <1> QED
    BY <1>1, SpecIInv, PTL

\* "Password changed" and "expired or was already used" are true when shown, for
\* any number of tries and lost answers (ResetRoute, confirm_reset).
THEOREM RecoveryTheorem == Spec => []RecoveryTellsTheTruth
  <1>1. IInv => RecoveryTellsTheTruth
    BY DEF IInv, Recovery
  <1> QED
    BY <1>1, SpecIInv, PTL

\* No request for a face is sent with a number that was sent before.
LEMMA SentOnce ==
    ASSUME Page, Numbers, [Next]_vars, NEW p \in posts', p \notin posts, p.kind = "face", p.reply = None
    PROVE  p.id \notin sent
  <1>1. /\ mount \in Nat /\ flow \in Nat /\ 0 \in Nat /\ check.id \in Nat /\ captures \subseteq Nat
        /\ "check" \in Kinds /\ "face" \in Kinds /\ "challenge" \in Kinds
        /\ \A kind \in Submits : kind \in Kinds
    BY DEF Page, Types, CheckType, Kinds, Submits
  <1>2. ASSUME NEW kind \in Kinds, NEW id \in Nat, NEW m \in Nat, p = Post(kind, id, m, flow)
        PROVE  kind = "face" /\ p.id = id
    <2> DEFINE o == Post(kind, id, m, flow)
    <2>1. o.kind = kind /\ o.id = id
      <3>1. kind \in Kinds /\ id \in Nat /\ m \in Nat /\ flow \in Nat
        BY <1>1
      <3> QED
        BY <3>1 DEF Post, PostType
    <2>2. p = o
      BY <1>2
    <2> HIDE DEF o
    <2> QED
      BY <2>1, <2>2
  <1>3. CASE Pages
    <2>1. CASE (\E s \in Methods : Choose(s)) \/ SwitchMethod \/ Forgot \/ BackToSignIn
      <3>1. PICK s : posts' = posts \cup Opens(s)
        BY <2>1, Remounts
      <3> QED
        BY <3>1, OpensCheck
    <2>2. CASE Credentials \/ Totp \/ RequestReset \/ SaveNewPassword
      <3>1. PICK kind \in Submits \ {"face"} : posts' = posts \cup {Post(kind, 0, mount, flow)}
        BY <2>2 DEF Credentials, Totp, RequestReset, SaveNewPassword, Submits, Sends
      <3> QED
        BY <1>1, <1>2, <3>1
    <2>3. ASSUME NEW approved \in BOOLEAN, Consent(approved)
          PROVE  FALSE
      <3>1. PICK kind \in Submits \ {"face"} : posts' = posts \cup {Post(kind, 0, mount, flow)}
        BY <2>3 DEF Consent, Submits, Sends
      <3> QED
        BY <1>1, <1>2, <3>1
    <2>4. CASE CameraAnswers \/ RunCapture \/ Frames
      BY <2>4 DEF CameraAnswers, RunCapture, Frames
    <2>5. CASE RefetchChallenge
      BY <1>1, <1>2, <2>5 DEF RefetchChallenge
    <2>6. CASE Retry
      BY <2>6, RetryChecks
    <2>7. CASE Captured
      <3>1. posts' = posts \cup {Post("face", check.id, mount, flow)} /\ camera = "last"
        BY <2>7 DEF Captured, Sends
      <3>2. check.id \notin sent
        BY <3>1 DEF Page, FacePage, Numbers
      <3> QED
        BY <1>1, <1>2, <3>1, <3>2
    <2>8. ASSUME NEW id \in captures, CapturedAway(id)
          PROVE  p.id \notin sent
      <3>1. posts' = posts \cup {Post("face", id, 0, flow)} /\ id \notin sent
        BY <2>8 DEF CapturedAway, Numbers
      <3> QED
        BY <1>1, <1>2, <3>1
    <2> QED
      BY <1>3, <2>1, <2>2, <2>3, <2>4, <2>5, <2>6, <2>7, <2>8 DEF Pages
  <1>4. ASSUME NEW r \in posts, Provider(r)
        PROVE  FALSE
    <2>1. r \in PostType /\ enrolled \subseteq Methods
      BY DEF Page, Types
    <2>2. ASSUME NEW reply \in Replies, Answer(r, reply)
          PROVE  FALSE
      <3>1. PICK q \in PostType : posts' = (posts \ {r}) \cup {q} /\ q.reply = reply
        BY <2>1, <2>2, AnswerReply
      <3> QED
        BY <3>1
    <2>3. ASSUME NEW used, NextStep(r, used)
          PROVE  FALSE
      <3>1. PICK q \in PostType :
               posts' = (posts \ {r}) \cup {q} /\ q.reply \in {"complete", "required"}
        BY <2>1, <2>3, NextStepReply
      <3> QED
        BY <3>1, Unanswered
    <2>4. CASE IssueCheck(r)
      <3>1. CASE \E reply \in {"no_session", "expired", "paused"} : Answer(r, reply)
        BY <2>2, <3>1 DEF Replies
      <3>2. CASE IssuesNumber(r)
        <4> DEFINE q == [r EXCEPT !.reply = "ok", !.id = Cardinality(issued.all) + 1]
        <4>1. posts' = (posts \ {r}) \cup {q} /\ q.reply = "ok"
          BY <2>1, <3>2 DEF IssuesNumber, PostType
        <4> HIDE DEF q
        <4> QED
          BY <4>1, Unanswered
      <3> QED
        BY <2>4, <3>1, <3>2, IssueCheckCases
    <2>5. CASE ~IssueCheck(r)
      <3>1. \/ posts' = posts
            \/ \E reply \in Replies : Answer(r, reply)
            \/ \E used : NextStep(r, used)
        BY <1>4, <2>5 DEF Provider, ReadChallenge, Login, VerifyTotp, VerifyFace, DecideConsent,
             SendLink, SpendToken, CommitPassword, NetworkFails, Replies
      <3> QED
        BY <2>2, <2>3, <3>1
    <2> QED
      BY <2>4, <2>5
  <1>5. ASSUME NEW r \in posts, Lands(r)
        PROVE  FALSE
    <2>1. posts' \subseteq posts \/ \E s : posts' = (posts \ {r}) \cup Opens(s)
      BY <1>5 DEF Lands, ChallengeLands, CheckLands, StepLands, OtherLands, Advance
    <2> QED
      BY <2>1, OpensCheck
  <1>6. CASE EndAllSessions \/ Elsewhere \/ Expire \/ Unload \/ UNCHANGED vars
    BY <1>6 DEF EndAllSessions, Elsewhere, Expire, Unload, vars
  <1> QED
    BY <1>3, <1>4, <1>5, <1>6 DEF Next

\* "Each attempt fetches a fresh challenge: one is good for one capture": no two
\* captures are sent with the same number, whichever steps they were made in.
THEOREM CaptureTheorem == Spec => EachCaptureItsChallenge
  <1> DEFINE Once == \A p \in posts' \ posts : (p.kind = "face" /\ p.reply = None) => p.id \notin sent
  <1>1. IInv /\ [Next]_vars => [Once]_vars
    BY SentOnce DEF IInv
  <1> QED
    BY <1>1, SpecIInv, PTL DEF Spec, EachCaptureItsChallenge

\* An answer to a step the person has left leaves the step on the screen alone.
LEMMA LeavesTheStep ==
    ASSUME Page, [Next]_vars, NEW p \in posts, p \notin posts',
           p.reply # None, p.kind # "challenge", p.mount # mount
    PROVE  UNCHANGED <<step, mount>>
  <1>1. CASE Provider(p)
    BY <1>1 DEF Provider, ReadChallenge, Login, VerifyTotp, IssueCheck, VerifyFace, DecideConsent,
                SendLink, SpendToken, CommitPassword, NetworkFails, Quiet, view
  <1>2. CASE Lands(p)
    <2>1. ~(p.reply = "required" /\ p.flow = flow)
      BY DEF Page, Answers, Flows, Mine
    <2> QED
      BY <1>2, <2>1 DEF Lands, ChallengeLands, CheckLands, StepLands, OtherLands, Advance
  <1> QED
    BY <1>1, <1>2, Removes

\* An answer to a step the person has left may take the page back to the
\* application; it does not replace the step they are at (advance).
THEOREM MovesTheorem == Spec => OnlyTheirOwnAnswerMovesThem
  <1> DEFINE Keeps == \A p \in posts \ posts' :
          (p.reply # None /\ p.kind # "challenge" /\ p.mount # mount) => UNCHANGED <<step, mount>>
  <1>1. IInv /\ [Next]_vars => [Keeps]_vars
    BY LeavesTheStep DEF IInv
  <1> QED
    BY <1>1, SpecIInv, PTL DEF Spec, OnlyTheirOwnAnswerMovesThem
==============================================================================
