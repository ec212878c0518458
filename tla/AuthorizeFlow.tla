--------------------------- MODULE AuthorizeFlow ---------------------------
(***************************************************************************)
(* An authorization request, from the client's redirect to the code.       *)
(*                                                                         *)
(* One request takes many: authorize hands it to the Auth UI through a     *)
(* challenge in Redis, a sign-in, a second factor and a consent each are a *)
(* request of their own, and the browser comes back to authorize in        *)
(* between.  The tabs of a browser share its cookie and do all this at the *)
(* same time, and a resume URL can be opened in any of them.  A tab runs   *)
(* one handler at a time; handlers interleave at every Redis command and   *)
(* at every commit, and a worker may die in the middle of one.             *)
(*                                                                         *)
(* The session store is LoginSession's, kept to what a request asks of it: *)
(* who signed in, when, and with what.  All requests are one client's, all *)
(* accounts are active, and a code's story ends where it is issued.        *)
(***************************************************************************)
EXTENDS Naturals, FiniteSets

CONSTANTS
    Tab,        \* the tabs of the browser
    User,
    Factor,     \* what can be set up beside the password
    Session,    \* session ids; also the bound on how many are created
    Challenge,  \* challenge ids; likewise
    MaxCodes,   \* the bound on the codes issued through one challenge
    Scope,      \* what can be asked for, other than openid
    Asks,       \* the requests the client makes, see Params
    Horizon,    \* the bound on the clock
    Events,     \* which of AllEvents an instance lets happen
    None        \* an absent key, row, cookie or parameter

\* A challenge's TTL runs out, a factor is set up or removed, somebody signs out,
\* withdraws their consent, opens a resume URL elsewhere; a worker dies.
AllEvents == {"expire", "enrol", "logout", "withdraw", "share", "die"}

Method == {"pwd"} \cup Factor

\* What the parameters of a request ask for: a sign-in of its own (prompt=login,
\* select_account, max_age=0), a consent of its own, no interaction at all, the
\* person of the id_token_hint, the least acr_values; and client.skip_consent.
Params == [fresh : BOOLEAN, consent : BOOLEAN, silent : BOOLEAN, hint : User \cup {None},
           level : 0..3, scope : SUBSET Scope, trusted : BOOLEAN]

ASSUME AsksAssumption == Asks \subseteq Params
ASSUME BoundsAssumption == Horizon \in Nat /\ MaxCodes \in Nat
ASSUME EventsAssumption == Events \subseteq AllEvents
ASSUME FactorAssumption == Factor \subseteq {"otp", "face"}

Time == 0..Horizon

\* A session and its id, a pending request, a consent's row.
Login   == [id : Session, user : User, amr : {a \in SUBSET Method : "pwd" \in a}, at : Time]
Pending == [params : Asks, created : Time, by : User \cup {None}]
Row     == [born : Time, scope : SUBSET Scope]

ASSUME NamesAssumption ==
    /\ None \notin Session \cup User \cup Challenge \cup Asks
    /\ None \notin Login \cup Pending \cup Row

VARIABLES
    clock,      \* bumped by each sign-in, new challenge, enrolment and withdrawal
    \* Redis, Postgres and the browser's cookie.
    session,    \* [Session -> Login \cup {None}]
    challenge,  \* [Challenge -> Pending \cup {None}]
    codes,      \* authorization_codes, counted by the challenge they came through
    consents,   \* [User -> Row \cup {None}]: consent_grants
    enrolled,   \* [User -> SUBSET Factor]
    cookie,     \* the session the browser carries, or None
    \* The tabs, and the handler each is waiting for.
    page,       \* where the tab is
    params,     \* the request it is making, or None
    resume,     \* the challenge it carries, or None
    pc,         \* the handler's next step
    login,      \* the session it read
    pending,    \* the challenge it read or made
    had,        \* the consent it read
    who,        \* the person signing in
    \* History.  The first two keep ids from being used again; only properties
    \* read the others.  A tab's goes with its page.
    known,      \* the sessions ever created
    made,       \* the challenges ever made
    opened,     \* [Tab -> Time]: when its request began
    begun,      \* [Challenge -> Time]: when its request began
    signed,     \* [Tab -> Time]: the sign-in made on its challenge's page, or 0
    approved,   \* <<user, challenge>>: who approved its consent screen
    agreed,     \* [User -> SUBSET Scope]: consented to since the last withdrawal
    met,        \* challenges one handler wrote while another held them
    left        \* challenges whose handler died with the code committed

store   == <<session, challenge, codes, consents, enrolled, cookie>>
tab     == <<page, params, resume>>
locals  == <<login, pending, had, who>>
history == <<known, made, opened, begun, signed, approved, agreed, met, left>>
vars    == <<clock, store, tab, pc, locals, history>>

TypeOK ==
    /\ clock \in Time
    /\ session \in [Session -> Login \cup {None}]
    /\ challenge \in [Challenge -> Pending \cup {None}]
    /\ codes \in [Challenge -> 0..MaxCodes]
    /\ consents \in [User -> Row \cup {None}]
    /\ enrolled \in [User -> SUBSET Factor]
    /\ cookie \in Session \cup {None}
    /\ page \in [Tab -> {"none", "authorize", "login", "stepup", "consent"}]
    /\ params \in [Tab -> Asks \cup {None}]
    /\ resume \in [Tab -> Challenge \cup {None}]
    /\ pc \in [Tab -> {"idle", "touch", "read", "decide", "save", "issue", "spend", "password",
                       "drop", "create", "remember", "next", "factor", "consent",
                       "record", "agree", "refuse"}]
    /\ login \in [Tab -> Login \cup {None}]
    /\ pending \in [Tab -> Pending \cup {None}]
    /\ had \in [Tab -> Row \cup {None}]
    /\ who \in [Tab -> User \cup {None}]
    /\ known \subseteq Session
    /\ made \subseteq Challenge /\ met \subseteq Challenge /\ left \subseteq Challenge
    /\ opened \in [Tab -> Time]
    /\ begun \in [Challenge -> Time]
    /\ signed \in [Tab -> Time]
    /\ approved \subseteq User \X Challenge
    /\ agreed \in [User -> SUBSET Scope]

\* The browser is new, or somebody has signed in with it before; people have
\* consented before, or not.
Init ==
    /\ clock = 0
    /\ \/ /\ cookie = None /\ known = {}
          /\ session = [s \in Session |-> None]
       \/ \E s \in Session, u \in User :
            /\ cookie = s /\ known = {s}
            /\ session = [r \in Session |-> IF r = s
                  THEN [id |-> s, user |-> u, amr |-> {"pwd"}, at |-> 0] ELSE None]
    /\ challenge = [h \in Challenge |-> None]
    /\ codes = [h \in Challenge |-> 0]
    /\ consents \in [User -> {None} \cup [born : {0}, scope : SUBSET Scope]]
    /\ enrolled \in [User -> SUBSET Factor]
    /\ page = [t \in Tab |-> "none"]
    /\ params = [t \in Tab |-> None]
    /\ resume = [t \in Tab |-> None]
    /\ pc = [t \in Tab |-> "idle"]
    /\ login = [t \in Tab |-> None]
    /\ pending = [t \in Tab |-> None]
    /\ had = [t \in Tab |-> None]
    /\ who = [t \in Tab |-> None]
    /\ made = {} /\ met = {} /\ left = {} /\ approved = {}
    /\ opened = [t \in Tab |-> 0]
    /\ begun = [h \in Challenge |-> 0]
    /\ signed = [t \in Tab |-> 0]
    /\ agreed = [u \in User |-> IF consents[u] = None THEN {} ELSE consents[u].scope]

-----------------------------------------------------------------------------
(* auth_methods: assurance levels, 1 to 3, and what is still owed.           *)

DeriveAcr(amr) ==
    IF Cardinality(amr) < 2 THEN 1 ELSE IF "face" \in amr THEN 3 ELSE 2

Meets(acr, level) == acr >= level

Enrolled(u) == {"pwd"} \cup enrolled[u]

\* Only what the client asked for.
OwesTheClient(amr, can, level) ==
    LET unused   == can \ amr
        reaching == {m \in unused : Meets(DeriveAcr(amr \cup {m}), level)}
        short    == ~Meets(DeriveAcr(amr), level) /\ Meets(DeriveAcr(can), level)
    IN  IF ~short THEN {} ELSE IF reaching # {} THEN reaching ELSE unused

\* The client asks for a level, or the person has set up an authenticator.
Outstanding(amr, can, level) ==
    IF OwesTheClient(amr, can, level) # {} THEN OwesTheClient(amr, can, level)
    ELSE IF "otp" \in can /\ Cardinality(amr) < 2 THEN (can \ amr) \cap Factor
    ELSE {}

-----------------------------------------------------------------------------
(* Small steps shared by the handlers.                                       *)

asked == <<opened, begun, signed>>
given == <<approved, agreed>>
spent == <<met, left>>

Goto(t, label) == pc' = [pc EXCEPT ![t] = label]
Show(t, where) == page' = [page EXCEPT ![t] = where]

\* The tab is done with its request.
Leave(t) ==
    /\ Show(t, "none")
    /\ params' = [params EXCEPT ![t] = None]
    /\ resume' = [resume EXCEPT ![t] = None]
    /\ opened' = [opened EXCEPT ![t] = 0]
    /\ signed' = [signed EXCEPT ![t] = 0]

\* The challenge t's handler holds a copy of.
Held(t) == IF pc[t] \in {"idle", "touch", "read"} \/ pending[t] = None THEN None
           ELSE resume[t]

\* The handler writes or deletes h while another holds it.
Written(t, h) == met' = IF \E q \in Tab \ {t} : Held(q) = h THEN met \cup {h} ELSE met

\* The handler answers; its locals are gone.
Answer(t) ==
    /\ Goto(t, "idle")
    /\ login' = [login EXCEPT ![t] = None]
    /\ pending' = [pending EXCEPT ![t] = None]
    /\ had' = [had EXCEPT ![t] = None]
    /\ who' = [who EXCEPT ![t] = None]

\* session_store._save: an unconditional SET, whatever became of the session.
SaveLogin(t, l) ==
    /\ session' = [session EXCEPT ![l.id] = l]
    /\ login' = [login EXCEPT ![t] = l]

CookieLogin == IF cookie = None THEN None ELSE session[cookie]

-----------------------------------------------------------------------------
(* The browser.                                                              *)

\* A client sends a tab to authorize.
Open(t, p) ==
    /\ page[t] = "none" /\ pc[t] = "idle"
    /\ Show(t, "authorize")
    /\ params' = [params EXCEPT ![t] = p]
    /\ opened' = [opened EXCEPT ![t] = clock]
    /\ UNCHANGED <<clock, store, resume, pc, locals, known, made, begun, signed, given, spent>>

\* A resume URL is opened, as it was in another tab or with other parameters.
Reopen(t, p, h) ==
    /\ "share" \in Events
    /\ page[t] = "none" /\ pc[t] = "idle"
    /\ challenge[h] # None
    /\ Show(t, "authorize")
    /\ params' = [params EXCEPT ![t] = p]
    /\ resume' = [resume EXCEPT ![t] = h]
    /\ opened' = [opened EXCEPT ![t] = IF challenge[h].params = p THEN begun[h] ELSE clock]
    /\ UNCHANGED <<clock, store, pc, locals, known, made, begun, signed, given, spent>>

Close(t) ==
    /\ page[t] # "none" /\ pc[t] = "idle"
    /\ Leave(t)
    /\ UNCHANGED <<clock, store, pc, locals, known, made, begun, given, spent>>

\* The tab asks for its page, or posts its form; get_login_session reads the
\* cookie's session first.
Send(t) ==
    /\ pc[t] = "idle" /\ page[t] # "none"
    /\ \/ /\ CookieLogin # None
          /\ login' = [login EXCEPT ![t] = CookieLogin]
          /\ Goto(t, "touch")
          /\ UNCHANGED <<tab, opened, signed>>
       \/ /\ CookieLogin = None /\ page[t] \in {"authorize", "login"}
          /\ Goto(t, "read")
          /\ UNCHANGED <<tab, login, opened, signed>>
       \/ /\ CookieLogin = None /\ page[t] \in {"stepup", "consent"}
          /\ Leave(t)
          /\ UNCHANGED <<pc, login>>
    /\ UNCHANGED <<clock, store, pending, had, who, known, made, begun, given, spent>>

\* A use of the session restarts its clock, and writes it back as it was read if
\* SEEN_RESOLUTION has passed since the last time.
Touch(t) ==
    /\ pc[t] = "touch"
    /\ SaveLogin(t, login[t]) \/ UNCHANGED <<session, login>>
    /\ Goto(t, "read")
    /\ UNCHANGED <<clock, challenge, codes, consents, enrolled, cookie, tab, pending, had,
                   who, history>>

\* Any pending request will do.
AnyRequest(t, c) == TRUE

\* The same parameters: what was done for one request counts for no other.
SameRequest(t, c) == c.params = params[t]

\* challenge_store.get, in authorize through _resumed.
ReadChallenge(t) ==
    LET c == IF resume[t] = None THEN None ELSE challenge[resume[t]] IN
    /\ pc[t] = "read"
    /\ \/ /\ page[t] = "authorize"
          /\ pending' = [pending EXCEPT ![t] =
                IF c = None THEN None ELSE IF SameRequest(t, c) THEN c ELSE None]
          /\ Goto(t, "decide")
          /\ UNCHANGED <<tab, login, had, who, opened, signed>>
       \/ /\ page[t] # "authorize" /\ c # None
          /\ pending' = [pending EXCEPT ![t] = c]
          /\ Goto(t, CASE page[t] = "login"   -> "password"
                       [] page[t] = "stepup"  -> "factor"
                       [] page[t] = "consent" -> "consent")
          /\ UNCHANGED <<tab, login, had, who, opened, signed>>
       \/ /\ page[t] # "authorize" /\ c = None
          /\ Answer(t)
          /\ Leave(t)
    /\ UNCHANGED <<clock, store, known, made, begun, given, spent>>

-----------------------------------------------------------------------------
(* GET /oauth2/authorize, once it knows the session and the challenge.       *)

\* _signed_in_for
SignedInFor(t) == IF pending[t] = None THEN FALSE ELSE login[t].at >= pending[t].created

\* _hint_mismatch
Mismatch(t) == params[t].hint # None /\ login[t].user # params[t].hint

AskSignIn(t) ==
    IF login[t] = None THEN TRUE
    ELSE ~SignedInFor(t) /\ (Mismatch(t) \/ params[t].fresh)

\* login_required after all, or unmet_authentication_requirements.
Fails(t) ==
    IF login[t] = None THEN FALSE
    ELSE \/ Mismatch(t) /\ SignedInFor(t)
         \/ /\ ~AskSignIn(t)
            /\ ~Meets(DeriveAcr(login[t].amr), params[t].level)
            /\ ~Meets(DeriveAcr(Enrolled(login[t].user)), params[t].level)

Goes(t) == ~AskSignIn(t) /\ ~Fails(t)

AskFactor(t) ==
    Goes(t) /\ Outstanding(login[t].amr, Enrolled(login[t].user), params[t].level) # {}

\* consent_required
Uncovered(t) ==
    IF params[t].trusted THEN FALSE
    ELSE IF consents[login[t].user] = None THEN TRUE
    ELSE ~(params[t].scope \subseteq consents[login[t].user].scope)

\* Whoever it was.
SomebodyConsented(t) ==
    IF pending[t] = None THEN FALSE ELSE pending[t].by # None

ConsentedForThis(t) ==
    IF pending[t] = None THEN FALSE ELSE pending[t].by = login[t].user

AskConsent(t) ==
    /\ Goes(t) /\ ~AskFactor(t)
    /\ (params[t].consent /\ ~ConsentedForThis(t)) \/ Uncovered(t)

\* A challenge of its own for every interaction.
AlwaysNew(t, h) == h \notin made

\* "A returning request keeps its challenge."
Keeps(t, h) == IF pending[t] # None THEN h = resume[t] ELSE AlwaysNew(t, h)

\* interact: the challenge the Auth UI gets, made or kept; or an error at once.
Interact(t, where) ==
    \/ /\ params[t].silent
       /\ Answer(t)
       /\ Leave(t)
       /\ UNCHANGED <<clock, made, begun>>
    \/ /\ ~params[t].silent
       /\ \E h \in Challenge :
            /\ Keeps(t, h)
            /\ resume' = [resume EXCEPT ![t] = h]
            /\ IF h = resume[t]
                 THEN UNCHANGED <<clock, pending, made, begun, signed>>
                 ELSE /\ clock < Horizon
                      /\ clock' = clock + 1
                      /\ pending' = [pending EXCEPT ![t] =
                            [params |-> params[t], created |-> clock + 1, by |-> None]]
                      /\ made' = made \cup {h}
                      /\ begun' = [begun EXCEPT ![h] = opened[t]]
                      /\ signed' = [signed EXCEPT ![t] =
                            IF pending[t] = None THEN 0 ELSE @]
       /\ Goto(t, "save")
       /\ Show(t, where)
       /\ UNCHANGED <<params, opened, login, had, who>>

Decide(t) ==
    /\ pc[t] = "decide"
    /\ \/ AskSignIn(t) /\ ~Fails(t) /\ Interact(t, "login")
       \/ AskFactor(t) /\ Interact(t, "stepup")
       \/ AskConsent(t) /\ Interact(t, "consent")
       \/ /\ Fails(t)
          /\ Answer(t)
          /\ Leave(t)
          /\ UNCHANGED <<clock, made, begun>>
       \/ /\ Goes(t) /\ ~AskFactor(t) /\ ~AskConsent(t)
          /\ Goto(t, "issue")
          /\ UNCHANGED <<clock, tab, locals, made, asked>>
    /\ UNCHANGED <<store, known, given, spent>>

\* challenge_store.save, and the browser goes on.
SaveChallenge(t) ==
    LET h == resume[t] IN
    /\ pc[t] \in {"save", "remember", "agree"}
    /\ challenge' = [challenge EXCEPT ![h] = pending[t]]
    /\ Written(t, h)
    /\ \/ /\ pc[t] = "save"
          /\ Answer(t)
          /\ UNCHANGED <<page, approved>>
       \/ /\ pc[t] = "remember"
          /\ Goto(t, "next")
          /\ UNCHANGED <<page, locals, approved>>
       \/ /\ pc[t] = "agree"
          /\ approved' = approved \cup {<<login[t].user, h>>}
          /\ Answer(t)
          /\ Show(t, "authorize")
    /\ UNCHANGED <<clock, session, codes, consents, enrolled, cookie, params, resume,
                   known, made, asked, agreed, left>>

\* issue_code and the commit.
Issue(t) ==
    /\ pc[t] = "issue"
    /\ \/ /\ pending[t] = None
          /\ Answer(t)
          /\ Leave(t)
          /\ UNCHANGED <<codes, met>>
       \/ /\ pending[t] # None
          /\ codes[resume[t]] < MaxCodes
          /\ codes' = [codes EXCEPT ![resume[t]] = @ + 1]
          /\ Written(t, resume[t])
          /\ Goto(t, "spend")
          /\ UNCHANGED <<tab, locals, opened, signed>>
    /\ UNCHANGED <<clock, session, challenge, consents, enrolled, cookie, known, made,
                   begun, given, left>>

\* The challenge is left to its TTL.
NotDeleted(t) ==
    /\ pc[t] \in {"spend", "refuse"}
    /\ Answer(t)
    /\ Leave(t)
    /\ UNCHANGED <<clock, store, known, made, begun, given, spent>>

\* challenge_store.delete: the code is out, or consent was refused.
Delete(t) ==
    LET h == resume[t] IN
    /\ pc[t] \in {"spend", "refuse"}
    /\ challenge' = [challenge EXCEPT ![h] = None]
    /\ Written(t, h)
    /\ Answer(t)
    /\ Leave(t)
    /\ UNCHANGED <<clock, session, codes, consents, enrolled, cookie, known, made, begun,
                   given, left>>

-----------------------------------------------------------------------------
(* POST /login                                                               *)

\* The password of u is right.  The session's own person signs in again; anyone
\* else gets a new session, after the previous person's has been ended.
SignIn(t, u) ==
    /\ pc[t] = "password"
    /\ \/ /\ login[t] # None /\ login[t].user = u
          /\ clock < Horizon
          /\ clock' = clock + 1
          /\ SaveLogin(t, [login[t] EXCEPT !.amr = {"pwd"}, !.at = clock + 1])
          /\ signed' = [signed EXCEPT ![t] = clock + 1]
          /\ Goto(t, "remember")
          /\ UNCHANGED who
       \/ /\ IF login[t] = None THEN TRUE ELSE login[t].user # u
          /\ who' = [who EXCEPT ![t] = u]
          /\ Goto(t, IF login[t] = None THEN "create" ELSE "drop")
          /\ UNCHANGED <<clock, session, login, signed>>
    /\ UNCHANGED <<challenge, codes, consents, enrolled, cookie, tab, pending, had, known,
                   made, opened, begun, given, spent>>

\* The password, the code or the face is not accepted.
Rejected(t) ==
    /\ pc[t] \in {"password", "factor"}
    /\ Answer(t)
    /\ UNCHANGED <<clock, store, tab, history>>

\* session_store.create
Create(t, s) ==
    /\ pc[t] = "create"
    /\ clock < Horizon /\ s \notin known
    /\ clock' = clock + 1
    /\ known' = known \cup {s}
    /\ SaveLogin(t, [id |-> s, user |-> who[t], amr |-> {"pwd"}, at |-> clock + 1])
    /\ signed' = [signed EXCEPT ![t] = clock + 1]
    /\ Goto(t, "remember")
    /\ UNCHANGED <<challenge, codes, consents, enrolled, cookie, tab, pending, had, who,
                   made, opened, begun, given, spent>>

\* _next_step, with the cookie if the password was given.
NextStep(t) ==
    LET l == login[t] IN
    /\ pc[t] = "next"
    /\ cookie' = IF page[t] = "login" THEN l.id ELSE cookie
    /\ Show(t, IF Outstanding(l.amr, Enrolled(l.user), pending[t].params.level) = {}
                 THEN "authorize" ELSE "stepup")
    /\ Answer(t)
    /\ UNCHANGED <<clock, session, challenge, codes, consents, enrolled, params, resume,
                   history>>

-----------------------------------------------------------------------------
(* POST /login/totp and /login/biometric, POST /consent                      *)

\* Only the last method counts.
ReplaceMethod(t, m) ==
    /\ pc[t] = "factor"
    /\ m \in enrolled[login[t].user]
    /\ SaveLogin(t, [login[t] EXCEPT !.amr = {m}])
    /\ Goto(t, "next")
    /\ UNCHANGED <<clock, challenge, codes, consents, enrolled, cookie, tab, pending, had,
                   who, history>>

AddMethod(t, m) ==
    /\ pc[t] = "factor"
    /\ m \in enrolled[login[t].user]
    /\ IF m \in login[t].amr THEN UNCHANGED <<session, login>>
       ELSE SaveLogin(t, [login[t] EXCEPT !.amr = @ \cup {m}])
    /\ Goto(t, "next")
    /\ UNCHANGED <<clock, challenge, codes, consents, enrolled, cookie, tab, pending, had,
                   who, history>>

\* Refused; or approved, and the existing grant is read.
Consent(t) ==
    /\ pc[t] = "consent"
    /\ \/ Goto(t, "refuse") /\ UNCHANGED had
       \/ /\ had' = [had EXCEPT ![t] = consents[login[t].user]]
          /\ Goto(t, "record")
    /\ UNCHANGED <<clock, store, tab, login, pending, who, history>>

\* An upsert by user and client.
AnyRow(t) == TRUE

\* The row that was read is still there, or still is not.
RowStands(t) ==
    LET row == consents[login[t].user] IN
    IF had[t] = None \/ row = None THEN had[t] = row ELSE had[t].born = row.born

\* record_consent's write and the commit.  A grant that gains nothing is not
\* written; one inserted or deleted since the read is an error.
Record(t) ==
    LET u      == login[t].user
        scope  == pending[t].params.scope
        before == IF had[t] = None THEN {} ELSE had[t].scope
        gains  == had[t] = None \/ ~(scope \subseteq before)
        Agreed == /\ Goto(t, "agree")
                  /\ pending' = [pending EXCEPT ![t].by = u]
                  /\ agreed' = [agreed EXCEPT ![u] = @ \cup scope]
                  /\ UNCHANGED <<tab, login, had, who, opened, signed>>
    IN
    /\ pc[t] = "record"
    /\ \/ ~gains /\ Agreed /\ UNCHANGED consents
       \/ /\ gains /\ RowStands(t)
          /\ Agreed
          /\ consents' = [consents EXCEPT ![u] =
                [born  |-> IF had[t] = None THEN clock ELSE had[t].born,
                 scope |-> before \cup scope]]
       \/ /\ gains /\ ~RowStands(t)
          /\ Answer(t)
          /\ Leave(t)
          /\ UNCHANGED <<consents, agreed>>
    /\ UNCHANGED <<clock, session, challenge, codes, enrolled, cookie, known, made, begun,
                   approved, spent>>

-----------------------------------------------------------------------------
(* What else happens.                                                        *)

\* /oauth2/logout in some tab.
Logout(t) ==
    /\ "logout" \in Events
    /\ pc[t] = "idle"
    /\ CookieLogin # None
    /\ login' = [login EXCEPT ![t] = CookieLogin]
    /\ Goto(t, "drop")
    /\ Leave(t)
    /\ UNCHANGED <<clock, store, pending, had, who, known, made, begun, given, spent>>

\* end_session: the session is deleted, for a sign-out or for somebody else.
Drop(t) ==
    /\ pc[t] = "drop"
    /\ session' = [session EXCEPT ![login[t].id] = None]
    /\ \/ who[t] = None /\ Answer(t) /\ cookie' = None
       \/ who[t] # None /\ Goto(t, "create") /\ UNCHANGED <<cookie, locals>>
    /\ UNCHANGED <<clock, challenge, codes, consents, enrolled, tab, history>>

\* iden_challenge_ttl has passed since h was saved.
Expire(h) ==
    /\ "expire" \in Events
    /\ challenge[h] # None
    /\ challenge' = [challenge EXCEPT ![h] = None]
    /\ UNCHANGED <<clock, session, codes, consents, enrolled, cookie, tab, pc, locals,
                   history>>

\* An authenticator or a face is set up, or removed.
Enrol(u, m) ==
    /\ "enrol" \in Events
    /\ clock < Horizon
    /\ clock' = clock + 1
    /\ enrolled' = [enrolled EXCEPT ![u] = IF m \in @ THEN @ \ {m} ELSE @ \cup {m}]
    /\ UNCHANGED <<session, challenge, codes, consents, cookie, tab, pc, locals, history>>

\* revoke_connection
Withdraw(u) ==
    /\ "withdraw" \in Events
    /\ consents[u] # None /\ clock < Horizon
    /\ clock' = clock + 1
    /\ consents' = [consents EXCEPT ![u] = None]
    /\ agreed' = [agreed EXCEPT ![u] = {}]
    /\ UNCHANGED <<session, challenge, codes, enrolled, cookie, tab, pc, locals, known,
                   made, asked, approved, spent>>

\* The worker that runs t's handler dies; the browser is left with nothing.
Die(t) ==
    /\ "die" \in Events
    /\ pc[t] # "idle"
    /\ Answer(t)
    /\ Leave(t)
    /\ left' = IF pc[t] = "spend" THEN left \cup {resume[t]} ELSE left
    /\ UNCHANGED <<clock, store, known, made, begun, given, met>>

Next ==
    \/ \E t \in Tab :
         \/ \E p \in Asks : Open(t, p) \/ \E h \in Challenge : Reopen(t, p, h)
         \/ Close(t) \/ Send(t) \/ Touch(t) \/ ReadChallenge(t)
         \/ Decide(t) \/ SaveChallenge(t) \/ Issue(t) \/ Delete(t)
         \/ Rejected(t) \/ NextStep(t)
         \/ \E u \in User : SignIn(t, u)
         \/ \E s \in Session : Create(t, s)
         \/ \E m \in Factor : AddMethod(t, m)
         \/ Consent(t) \/ Record(t)
         \/ Logout(t) \/ Drop(t) \/ Die(t)
    \/ \E h \in Challenge : Expire(h)
    \/ \E u \in User : Withdraw(u) \/ \E m \in Factor : Enrol(u, m)

Spec == Init /\ [][Next]_vars

-----------------------------------------------------------------------------
(* What authorize promises.                                                  *)

\* A code is issued for the request that asks for it: to the person it hints
\* at, at the level it wants, and, if it wants a sign-in of its own, after one
\* made since it came.  (authorize, with resumed, _signed_in_for, outstanding)
CodesAnswerTheirRequest ==
    [][\A t \in Tab :
         pc[t] = "decide" /\ pc'[t] = "issue" =>
            LET p == params[t]  l == login[t] IN
            /\ p.hint # None => l.user = p.hint
            /\ p.fresh => l.at > opened[t]
            /\ Meets(DeriveAcr(l.amr), p.level)]_vars

\* authorize decides for a code only if the person has agreed to what it will carry
\* and not withdrawn it by then; and if the client wants to hear it again, if this
\* very person approved it on the way here.  (consent_required, consented_by)
CodesAreConsentedTo ==
    [][\A t \in Tab :
         pc[t] = "decide" /\ pc'[t] = "issue" =>
            LET p == params[t]  u == login[t].user IN
            /\ p.consent => <<u, resume[t]>> \in approved
            /\ ~p.trusted => p.scope \subseteq agreed[u]]_vars

\* No consent is on record that was not given, or that was withdrawn, whatever
\* the handlers that were about to record one had read.  (record_consent,
\* revoke_connection)
WithdrawnStaysWithdrawn ==
    \A u \in User : consents[u] # None => consents[u].scope \subseteq agreed[u]

\* One challenge, one code: unless another handler held a copy when it was
\* spent, or the worker died before it spent it.  (challenge_store.delete:
\* "A challenge left behind would let its resume URL be replayed")
SpentOnce == \A h \in Challenge : codes[h] > 1 => h \in met \cup left

\* A person who has signed in for a request is not asked again for the same
\* request, and one who has approved it is not shown the consent screen again
\* for nothing: unless somebody else has approved it, too, for a challenge holds
\* one approval.  ("A returning request keeps its challenge"; consented_by)
NobodyIsAskedTwice ==
    \A t \in Tab :
        pc[t] = "decide" /\ pending[t] # None /\ login[t] # None =>
            /\ signed[t] # 0 /\ login[t].at >= signed[t] => ~AskSignIn(t)
            /\ AskConsent(t) /\ <<login[t].user, resume[t]>> \in approved =>
                  \/ Uncovered(t) \/ resume[t] \in met
                  \/ \E v \in User \ {login[t].user} : <<v, resume[t]>> \in approved

\* What a person consented to and has not withdrawn is on record: "Merge into
\* any existing grant, so consenting to a new scope does not silently withdraw
\* an older one."  (record_consent)
ConsentIsKept ==
    \A u \in User : consents[u] # None => agreed[u] \subseteq consents[u].scope
=============================================================================
