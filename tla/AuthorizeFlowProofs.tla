------------------------ MODULE AuthorizeFlowProofs ------------------------
(***************************************************************************)
(* What authorize promises, for any people, tabs, sessions, challenges and *)
(* scopes, any requests and any horizon, and any number of workers that    *)
(* die.                                                                    *)
(*                                                                         *)
(* A handler works on a copy of a challenge, so the invariant first says   *)
(* what a copy can be: of a challenge that was made (Made), with its       *)
(* request and its moment (CopiesAgree), made after the request came and   *)
(* before its sign-in (InOrder), and with no approval but one that was     *)
(* given (Approved).  The rest is what each property needs: that an        *)
(* approval is found again (Remembered), which handlers still have a spent *)
(* challenge (Spending), and that a consent's row is not one that was      *)
(* withdrawn (Rows).                                                       *)
(***************************************************************************)
EXTENDS AuthorizeFlow, FiniteSetTheorems, TLAPS

\* Where a handler is, and what it has in hand there.
Places ==
    \A t \in Tab :
        /\ page[t] = "none" <=> params[t] = None
        /\ page[t] = "none" => resume[t] = None /\ signed[t] = 0 /\ pc[t] \in {"idle", "drop"}
        /\ page[t] \in {"login", "stepup", "consent"} => resume[t] # None
        /\ pc[t] \in {"decide", "issue", "spend"} => page[t] = "authorize"
        /\ pc[t] = "idle" => login[t] = None
        /\ pc[t] \in {"idle", "touch", "read"} => pending[t] = None /\ who[t] = None
        /\ pending[t] # None => resume[t] # None
        /\ pc[t] \in {"save", "spend", "password", "remember", "next", "factor", "consent",
                     "record", "agree", "refuse", "create"} => pending[t] # None
        /\ pc[t] \in {"touch", "remember", "next", "factor", "consent", "record", "agree",
                     "refuse", "drop", "issue"} => login[t] # None
        /\ pc[t] = "read" /\ page[t] \in {"stepup", "consent"} => login[t] # None
        /\ pc[t] = "create" => who[t] # None
        /\ pc[t] = "drop" /\ who[t] # None => pending[t] # None
        /\ pc[t] = "drop" /\ who[t] = None => page[t] = "none"

\* What is known of a challenge, it has been made.
Made ==
    /\ \A h \in Challenge : challenge[h] # None \/ codes[h] # 0 => h \in made
    /\ \A t \in Tab : resume[t] # None => resume[t] \in made
    /\ \A u \in User, h \in Challenge : <<u, h>> \in approved => h \in made

\* The request and the moment of a challenge are the same in every copy of it,
\* and the request began before.
CopiesAgree ==
    /\ \A h \in Challenge : challenge[h] # None =>
          begun[h] < challenge[h].created /\ challenge[h].created <= clock
    /\ \A t \in Tab : pending[t] # None =>
          LET c == pending[t]  h == resume[t] IN
          /\ begun[h] < c.created /\ c.created <= clock
          /\ challenge[h] # None => challenge[h].params = c.params /\ challenge[h].created = c.created
          /\ \A q \in Tab : resume[q] = h /\ pending[q] # None =>
                pending[q].params = c.params /\ pending[q].created = c.created

\* A tab's request began before the challenge it comes back with was made for it,
\* and a sign-in on the challenge's page came after.
Fits(t, c) ==
    /\ c.params = params[t] => opened[t] < c.created
    /\ signed[t] # 0 => c.created <= signed[t]

\* Of a request, its challenge and its sign-in, each came after the one before.
InOrder ==
    \A t \in Tab :
        /\ opened[t] <= clock
        /\ pc[t] \in {"decide", "issue"} /\ pending[t] # None => pending[t].params = params[t]
        /\ resume[t] # None /\ challenge[resume[t]] # None => Fits(t, challenge[resume[t]])
        /\ \A q \in Tab : pending[q] # None /\ resume[q] = resume[t] => Fits(t, pending[q])

\* A consent's row carries what was agreed to since its last withdrawal, and so
\* does the row a handler has read, while it is the same one.
Rows ==
    /\ WithdrawnStaysWithdrawn
    /\ \A u \in User : consents[u] # None => consents[u].born <= clock
    /\ \A t \in Tab : pc[t] = "record" /\ had[t] # None =>
          LET u == login[t].user IN
          /\ had[t].born <= clock
          /\ consents[u] = None => had[t].born < clock
          /\ consents[u] # None /\ had[t].born = consents[u].born => had[t].scope \subseteq agreed[u]

\* A code that came through a challenge is the only one while no handlers have
\* overlapped on it and none has died, and nobody else holds a copy.
Spending ==
    \A h \in Challenge : codes[h] # 0 /\ h \notin met \cup left =>
        /\ codes[h] = 1
        /\ \/ \E t \in Tab : pc[t] = "spend" /\ resume[t] = h
           \/ challenge[h] = None /\ \A t \in Tab : resume[t] = h => pending[t] = None

\* The approval in a challenge, and in a copy of it, was given.
Approved ==
    /\ \A h \in Challenge :
          challenge[h] # None => challenge[h].by = None \/ <<challenge[h].by, h>> \in approved
    /\ \A t \in Tab : pending[t] # None =>
          IF pc[t] = "agree" THEN pending[t].by = login[t].user
          ELSE pending[t].by = None \/ <<pending[t].by, resume[t]>> \in approved

\* The only approval of a challenge whose handlers did not overlap is in every copy.
Remembered ==
    \A h \in Challenge, u \in User :
        <<u, h>> \in approved /\ h \notin met /\ (\A v \in User \ {u} : <<v, h>> \notin approved) =>
            /\ challenge[h] # None => challenge[h].by = u
            /\ \A t \in Tab : resume[t] = h /\ pending[t] # None /\ pc[t] # "agree" =>
                  pending[t].by = u

-----------------------------------------------------------------------------
(* Types.                                                                  *)

USE BoundsAssumption, FactorAssumption, NamesAssumption, AsksAssumption

Labels == {"idle", "touch", "read", "decide", "save", "issue", "spend", "password", "drop",
           "create", "remember", "next", "factor", "consent", "record", "agree", "refuse"}

StoreType ==
    /\ clock \in Time /\ session \in [Session -> Login \cup {None}]
    /\ challenge \in [Challenge -> Pending \cup {None}] /\ codes \in [Challenge -> 0..MaxCodes]
    /\ consents \in [User -> Row \cup {None}] /\ enrolled \in [User -> SUBSET Factor]
    /\ cookie \in Session \cup {None}

TabType ==
    /\ page \in [Tab -> {"none", "authorize", "login", "stepup", "consent"}]
    /\ params \in [Tab -> Asks \cup {None}] /\ resume \in [Tab -> Challenge \cup {None}]
    /\ pc \in [Tab -> Labels]

LocalType ==
    /\ login \in [Tab -> Login \cup {None}] /\ pending \in [Tab -> Pending \cup {None}]
    /\ had \in [Tab -> Row \cup {None}] /\ who \in [Tab -> User \cup {None}]

HistoryType ==
    /\ known \subseteq Session
    /\ made \subseteq Challenge /\ met \subseteq Challenge /\ left \subseteq Challenge
    /\ opened \in [Tab -> Time] /\ begun \in [Challenge -> Time] /\ signed \in [Tab -> Time]
    /\ approved \subseteq User \X Challenge /\ agreed \in [User -> SUBSET Scope]

\* TypeOK in four parts: the stores, the tabs, the handlers' locals, the history.
LEMMA TypeParts ==
    /\ TypeOK <=> StoreType /\ TabType /\ LocalType /\ HistoryType
    /\ TypeOK' <=> StoreType' /\ TabType' /\ LocalType' /\ HistoryType'
  BY DEF TypeOK, StoreType, TabType, LocalType, HistoryType, Labels

\* What a handler has in hand, where it has something.
LEMMA InHand ==
    ASSUME TypeOK, Places, NEW t \in Tab
    PROVE  /\ page[t] # "none" => params[t] \in Asks
           /\ resume[t] # None => resume[t] \in Challenge
           /\ pending[t] # None =>
                 /\ pending[t] \in Pending /\ pending[t].params \in Asks
                 /\ pending[t].created \in Time /\ pending[t].by \in User \cup {None}
                 /\ resume[t] \in Challenge
           /\ login[t] # None =>
                 /\ login[t] \in Login /\ login[t].id \in Session /\ login[t].user \in User
                 /\ login[t].amr \subseteq Method /\ "pwd" \in login[t].amr /\ login[t].at \in Time
           /\ had[t] # None => had[t] \in Row /\ had[t].born \in Time /\ had[t].scope \subseteq Scope
           /\ who[t] # None => who[t] \in User
  BY DEF TypeOK, Places, Pending, Login, Row

\* A session is saved with what is known of it.
LEMMA SavesLogin ==
    ASSUME StoreType, LocalType, NEW t \in Tab, NEW l \in Login, SaveLogin(t, l)
    PROVE  /\ session' \in [Session -> Login \cup {None}]
           /\ login' \in [Tab -> Login \cup {None}]
  BY DEF StoreType, LocalType, SaveLogin, Login

\* A handler that answers forgets.
LEMMA Answers ==
    ASSUME TabType, LocalType, NEW t \in Tab, Answer(t)
    PROVE  LocalType' /\ pc' \in [Tab -> Labels]
  BY DEF TabType, LocalType, Answer, Goto, Labels

\* A tab that is done with its request.
LEMMA Leaves ==
    ASSUME TabType, HistoryType, NEW t \in Tab, Leave(t)
    PROVE  /\ page' \in [Tab -> {"none", "authorize", "login", "stepup", "consent"}]
           /\ params' \in [Tab -> Asks \cup {None}] /\ resume' \in [Tab -> Challenge \cup {None}]
           /\ opened' \in [Tab -> Time] /\ signed' \in [Tab -> Time]
  BY DEF TabType, HistoryType, Leave, Show, Time

\* The browser's own steps.
LEMMA BrowserTypes ==
    ASSUME TypeOK, Places, NEW t \in Tab,
           \/ \E p \in Asks : Open(t, p) \/ \E h \in Challenge : Reopen(t, p, h)
           \/ Close(t) \/ Send(t) \/ Touch(t) \/ ReadChallenge(t)
    PROVE  TypeOK'
  <1> USE DEF store, tab, locals, history, asked, given, spent
  <1>1. StoreType /\ TabType /\ LocalType /\ HistoryType
    BY TypeParts
  <1>2. ASSUME NEW p \in Asks, Open(t, p) \/ \E h \in Challenge : Reopen(t, p, h)
        PROVE  TypeOK'
    BY <1>2 DEF Open, Reopen, Show, TypeOK
  <1>3. CASE Close(t)
    BY <1>3 DEF Close, Leave, Show, TypeOK, Time
  <1>4. CASE Send(t)
    <2>1. LocalType' /\ pc' \in [Tab -> Labels] /\ UNCHANGED <<clock, store, known, made, begun, given, spent>>
      BY <1>1, <1>4 DEF Send, Goto, CookieLogin, LocalType, TabType, StoreType, Labels
    <2>2. UNCHANGED <<tab, opened, signed>> \/ Leave(t)
      BY <1>4 DEF Send
    <2>3. TabType' /\ HistoryType' /\ StoreType'
      BY <1>1, <2>1, <2>2, Leaves DEF TabType, HistoryType, StoreType
    <2> QED
      BY <2>1, <2>3, TypeParts
  <1>5. CASE Touch(t)
    BY <1>1, <1>5 DEF Touch, Goto, SaveLogin, TypeOK, Places, Login
  <1>6. CASE ReadChallenge(t)
    <2>0. resume[t] = None \/ challenge[resume[t]] \in Pending \cup {None}
      BY <1>1 DEF StoreType, TabType
    <2>1. LocalType' /\ pc' \in [Tab -> Labels] /\ UNCHANGED <<clock, store, known, made, begun, given, spent>>
      <3>1. CASE Answer(t)
        BY <1>1, <1>6, <3>1, Answers DEF ReadChallenge
      <3>2. CASE ~Answer(t)
        <4>1. page[t] \in {"authorize", "login", "stepup", "consent"}
          BY <1>1, <1>6 DEF ReadChallenge, TabType, Places
        <4>2. PICK d \in Pending \cup {None}, l \in Labels :
                 Goto(t, l) /\ pending' = [pending EXCEPT ![t] = d] /\ UNCHANGED <<login, had, who>>
          BY <1>6, <2>0, <3>2, <4>1 DEF ReadChallenge, Labels
        <4>3. pc' \in [Tab -> Labels]
          BY <1>1, <4>2 DEF Goto, TabType
        <4>4. LocalType'
          BY <1>1, <4>2 DEF LocalType
        <4>5. UNCHANGED <<clock, store, known, made, begun, given, spent>>
          BY <1>6 DEF ReadChallenge
        <4> QED
          BY <4>3, <4>4, <4>5
      <3> QED
        BY <3>1, <3>2
    <2>2. UNCHANGED <<tab, opened, signed>> \/ Leave(t)
      BY <1>6 DEF ReadChallenge
    <2>3. TabType' /\ HistoryType' /\ StoreType'
      BY <1>1, <2>1, <2>2, Leaves DEF TabType, HistoryType, StoreType
    <2> QED
      BY <2>1, <2>3, TypeParts
  <1> QED
    BY <1>2, <1>3, <1>4, <1>5, <1>6

\* authorize's steps.
LEMMA AuthorizeTypes ==
    ASSUME TypeOK, Places, NEW t \in Tab, Decide(t) \/ SaveChallenge(t) \/ Issue(t) \/ Delete(t)
    PROVE  TypeOK'
  <1> USE DEF store, tab, locals, history, asked, given, spent
  <1>1. StoreType /\ TabType /\ LocalType /\ HistoryType
    BY TypeParts
  <1>2. /\ page[t] # "none" => params[t] \in Asks
        /\ pending[t] # None => pending[t] \in Pending /\ resume[t] \in Challenge
        /\ login[t] # None => login[t].user \in User
    BY InHand
  <1>3. CASE Decide(t)
    <2>0. UNCHANGED <<store, known, given, spent>> /\ params[t] \in Asks
      BY <1>2, <1>3 DEF Decide, Places
    <2>1. CASE Answer(t) /\ Leave(t) /\ UNCHANGED <<clock, made, begun>>
      BY <1>1, <2>0, <2>1, Answers, Leaves, TypeParts DEF StoreType, TabType, HistoryType
    <2>2. CASE Goto(t, "issue") /\ UNCHANGED <<clock, tab, locals, made, asked>>
      BY <2>0, <2>2 DEF Goto, TypeOK
    <2>3. ASSUME NEW where \in {"login", "stepup", "consent"}, NEW h \in Challenge,
                 resume' = [resume EXCEPT ![t] = h],
                 IF h = resume[t] THEN UNCHANGED <<clock, pending, made, begun, signed>>
                 ELSE /\ clock < Horizon
                      /\ clock' = clock + 1
                      /\ pending' = [pending EXCEPT ![t] =
                            [params |-> params[t], created |-> clock + 1, by |-> None]]
                      /\ made' = made \cup {h}
                      /\ begun' = [begun EXCEPT ![h] = opened[t]]
                      /\ signed' = [signed EXCEPT ![t] = IF pending[t] = None THEN 0 ELSE @],
                 Goto(t, "save"), Show(t, where), UNCHANGED <<params, opened, login, had, who>>
          PROVE  TypeOK'
      <3>1. clock' \in Time /\ pending' \in [Tab -> Pending \cup {None}]
        BY <1>1, <2>0, <2>3 DEF StoreType, LocalType, Pending, Time
      <3>2. made' \subseteq Challenge /\ begun' \in [Challenge -> Time] /\ signed' \in [Tab -> Time]
        BY <1>1, <2>3 DEF HistoryType, Time
      <3>3. TabType'
        BY <1>1, <2>3 DEF TabType, Goto, Show, Labels
      <3> QED
        BY <1>1, <2>0, <2>3, <3>1, <3>2, <3>3, TypeParts DEF StoreType, LocalType, HistoryType
    <2> QED
      BY <1>3, <2>1, <2>2, <2>3 DEF Decide, Interact
  <1>4. CASE SaveChallenge(t)
    <2>1. pending[t] \in Pending /\ resume[t] \in Challenge /\ (pc[t] = "agree" => login[t].user \in User)
      BY <1>2, <1>4 DEF SaveChallenge, Places
    <2>2. StoreType' /\ UNCHANGED <<params, resume, known, made, asked, agreed, left>>
      BY <1>1, <1>4, <2>1 DEF SaveChallenge, StoreType
    <2>3. HistoryType'
      BY <1>1, <1>4, <2>1, <2>2 DEF SaveChallenge, Written, HistoryType
    <2>4. LocalType' /\ TabType'
      BY <1>1, <1>4, <2>2, Answers DEF SaveChallenge, Goto, Show, LocalType, TabType, Labels
    <2> QED
      BY <2>2, <2>3, <2>4, TypeParts
  <1>5. CASE Issue(t)
    <2>1. CASE Answer(t) /\ Leave(t) /\ UNCHANGED <<codes, met>>
      BY <1>1, <1>5, <2>1, Answers, Leaves, TypeParts DEF Issue, StoreType, TabType, HistoryType
    <2>2. CASE pending[t] # None
      BY <1>2, <1>5, <2>2 DEF Issue, Written, Goto, TypeOK
    <2> QED
      BY <1>5, <2>1, <2>2 DEF Issue
  <1>6. CASE Delete(t)
    <2>1. StoreType' /\ met' \subseteq Challenge /\ Answer(t) /\ Leave(t)
      BY <1>1, <1>2, <1>6 DEF Delete, Written, Places, StoreType, HistoryType
    <2> QED
      BY <1>1, <1>6, <2>1, Answers, Leaves, TypeParts DEF Delete, TabType, HistoryType
  <1> QED
    BY <1>3, <1>4, <1>5, <1>6

\* The Auth UI's handlers, and whatever else happens.
LEMMA OtherTypes ==
    ASSUME TypeOK, Places, NEW t \in Tab,
           \/ Rejected(t) \/ NextStep(t) \/ Consent(t) \/ Record(t) \/ Logout(t) \/ Drop(t) \/ Die(t)
           \/ (\E u \in User : SignIn(t, u)) \/ (\E s \in Session : Create(t, s))
           \/ (\E m \in Factor : AddMethod(t, m))
    PROVE  TypeOK'
  <1> USE DEF store, tab, locals, history, asked, given, spent
  <1>1. StoreType /\ TabType /\ LocalType /\ HistoryType
    BY TypeParts
  <1>2. /\ pending[t] # None => pending[t] \in Pending /\ resume[t] \in Challenge /\ pending[t].params \in Asks
        /\ login[t] # None => /\ login[t] \in Login /\ login[t].user \in User /\ login[t].id \in Session
                              /\ login[t].amr \subseteq Method /\ "pwd" \in login[t].amr
        /\ had[t] # None => had[t] \in Row /\ had[t].born \in Time /\ had[t].scope \subseteq Scope
        /\ who[t] # None => who[t] \in User
    BY InHand
  <1>3. CASE Rejected(t) \/ Drop(t)
    BY SMTT(60), <1>3 DEF Rejected, Drop, Goto, Answer, TypeOK
  <1>4. CASE NextStep(t)
    <2>1. cookie' \in Session \cup {None}
      BY <1>1, <1>2, <1>4 DEF NextStep, Places, StoreType
    <2> QED
      BY <1>1, <1>4, <2>1, Answers, TypeParts DEF NextStep, Show, StoreType, TabType, HistoryType
  <1>5. CASE Logout(t) \/ Die(t)
    <2>1. left' \subseteq Challenge /\ Leave(t) /\ UNCHANGED <<clock, store, known, made, begun, given, met>>
      BY <1>1, <1>2, <1>5 DEF Logout, Die, HistoryType, Places
    <2>2. LocalType' /\ pc' \in [Tab -> Labels]
      <3>1. CASE Logout(t)
        BY <1>1, <3>1 DEF Logout, Goto, CookieLogin, LocalType, TabType, StoreType, Labels
      <3>2. CASE Die(t)
        BY <1>1, <3>2, Answers DEF Die
      <3> QED
        BY <1>5, <3>1, <3>2
    <2> QED
      BY <1>1, <2>1, <2>2, Leaves, TypeParts DEF StoreType, TabType, HistoryType
  <1>6. ASSUME NEW l \in Login, SaveLogin(t, l), clock' \in Time, pc' \in [Tab -> Labels],
               known' \subseteq Session, signed' \in [Tab -> Time],
               UNCHANGED <<challenge, codes, consents, enrolled, cookie, tab, pending, had, who,
                           made, opened, begun, given, spent>>
        PROVE  TypeOK'
    BY <1>1, <1>6, SavesLogin, TypeParts DEF StoreType, TabType, LocalType, HistoryType
  <1>7. ASSUME NEW u \in User, SignIn(t, u)
        PROVE  TypeOK'
    <2>1. CASE login[t] # None /\ login[t].user = u
      <3>1. clock + 1 \in Time /\ pc' \in [Tab -> Labels] /\ signed' \in [Tab -> Time]
        BY <1>1, <1>7, <2>1 DEF SignIn, Goto, StoreType, TabType, HistoryType, Time, Labels
      <3>2. [login[t] EXCEPT !.amr = {"pwd"}, !.at = clock + 1] \in Login
        BY <1>2, <2>1, <3>1 DEF Login, Method
      <3> QED
        BY <1>1, <1>6, <1>7, <2>1, <3>1, <3>2 DEF SignIn, HistoryType
    <2>2. CASE ~(login[t] # None /\ login[t].user = u)
      BY <1>7, <2>2 DEF SignIn, Goto, TypeOK
    <2> QED
      BY <2>1, <2>2
  <1>8. ASSUME NEW s \in Session, Create(t, s)
        PROVE  TypeOK'
    <2>1. clock + 1 \in Time /\ pc' \in [Tab -> Labels] /\ signed' \in [Tab -> Time] /\ who[t] \in User
      BY <1>1, <1>2, <1>8 DEF Create, Goto, StoreType, TabType, HistoryType, Time, Labels, Places
    <2>2. [id |-> s, user |-> who[t], amr |-> {"pwd"}, at |-> clock + 1] \in Login
      BY <2>1 DEF Login, Method
    <2> QED
      BY <1>1, <1>6, <1>8, <2>1, <2>2 DEF Create, HistoryType
  <1>9. ASSUME NEW m \in Factor, AddMethod(t, m)
        PROVE  TypeOK'
    <2>1. pc' \in [Tab -> Labels] /\ login[t] \in Login
      BY <1>1, <1>2, <1>9 DEF AddMethod, Goto, TabType, Labels, Places
    <2>2. [login[t] EXCEPT !.amr = @ \cup {m}] \in Login
      BY <1>2, <2>1 DEF Login, Method
    <2>3. CASE m \in login[t].amr
      BY <1>9, <2>3 DEF AddMethod, Goto, TypeOK
    <2> QED
      BY <1>1, <1>6, <1>9, <2>1, <2>2, <2>3 DEF AddMethod, StoreType, HistoryType
  <1>10. CASE Consent(t)
    <2>1. LocalType' /\ pc' \in [Tab -> Labels]
      BY <1>1, <1>2, <1>10 DEF Consent, Goto, StoreType, LocalType, TabType, Labels, Places
    <2> QED
      BY <1>1, <1>10, <2>1, TypeParts DEF Consent, StoreType, TabType, HistoryType
  <1>11. CASE Record(t)
    <2>1. /\ login[t].user \in User /\ pending[t] \in Pending /\ pending[t].params.scope \subseteq Scope
          /\ UNCHANGED <<clock, session, challenge, codes, enrolled, cookie, known, made, begun, approved, spent>>
      BY <1>2, <1>11 DEF Record, Places, Params
    <2>2. CASE Answer(t) /\ Leave(t) /\ UNCHANGED <<consents, agreed>>
      BY <1>1, <2>1, <2>2, Answers, Leaves, TypeParts DEF StoreType, TabType, HistoryType
    <2>3. CASE ~(Answer(t) /\ Leave(t) /\ UNCHANGED <<consents, agreed>>)
      <3>1. /\ Goto(t, "agree") /\ pending' = [pending EXCEPT ![t].by = login[t].user]
            /\ agreed' = [agreed EXCEPT ![login[t].user] = @ \cup pending[t].params.scope]
            /\ UNCHANGED <<tab, login, had, who, opened, signed>>
        BY <1>11, <2>3 DEF Record
      <3>2. consents' \in [User -> Row \cup {None}]
        <4> DEFINE before == IF had[t] = None THEN {} ELSE had[t].scope
                   row == [born  |-> IF had[t] = None THEN clock ELSE had[t].born,
                           scope |-> before \cup pending[t].params.scope]
        <4>1. row \in Row
          BY <1>1, <1>2, <2>1 DEF StoreType, Row
        <4>2. consents' = consents \/ consents' = [consents EXCEPT ![login[t].user] = row]
          BY <1>11, <2>3 DEF Record
        <4> HIDE DEF row
        <4> QED
          BY <1>1, <4>1, <4>2 DEF StoreType
      <3>3. pending' \in [Tab -> Pending \cup {None}]
        BY <1>1, <2>1, <3>1 DEF LocalType, Pending
      <3>4. agreed' \in [User -> SUBSET Scope]
        BY <1>1, <2>1, <3>1 DEF HistoryType
      <3>5. pc' \in [Tab -> Labels]
        BY <1>1, <3>1 DEF TabType, Goto, Labels
      <3> QED
        BY <1>1, <2>1, <3>1, <3>2, <3>3, <3>4, <3>5, TypeParts DEF StoreType, TabType, LocalType, HistoryType
    <2> QED
      BY <2>2, <2>3
  <1> QED
    BY <1>3, <1>4, <1>5, <1>7, <1>8, <1>9, <1>10, <1>11

\* Every step keeps the types.
LEMMA TypesKept ==
    ASSUME TypeOK, Places, [Next]_vars
    PROVE  TypeOK'
  <1>1. ASSUME NEW h \in Challenge, Expire(h)
        PROVE  TypeOK'
    BY <1>1 DEF Expire, TypeOK, tab, locals, history
  <1>2. ASSUME NEW u \in User, Withdraw(u) \/ \E m \in Factor : Enrol(u, m)
        PROVE  TypeOK'
    BY SMTT(60), <1>2 DEF Withdraw, Enrol, TypeOK, Time, tab, locals, history, asked, spent
  <1>3. CASE UNCHANGED vars
    BY <1>3 DEF vars, TypeOK, store, tab, locals, history
  <1> QED
    BY <1>1, <1>2, <1>3, BrowserTypes, AuthorizeTypes, OtherTypes DEF Next

-----------------------------------------------------------------------------
(* The steps that do one of several things.                                *)

\* What authorize decides: an error, a code, or an interaction with the challenge
\* that came back or a new one.
LEMMA Decides ==
    ASSUME TypeOK, Places, Made, NEW t \in Tab, Decide(t)
    PROVE  /\ pc[t] = "decide" /\ page[t] = "authorize" /\ params[t] \in Asks
           /\ UNCHANGED <<store, known, given, spent>>
           /\ \/ Answer(t) /\ Leave(t) /\ UNCHANGED <<clock, made, begun>>
              \/ Goto(t, "issue") /\ login[t] # None /\ UNCHANGED <<clock, tab, locals, made, asked>>
              \/ /\ Goto(t, "save") /\ pending[t] # None
                 /\ \E where \in {"login", "stepup", "consent"} : Show(t, where)
                 /\ UNCHANGED <<clock, params, resume, made, asked, locals>>
              \/ \E h \in Challenge, p \in Pending :
                 /\ Goto(t, "save") /\ pending[t] = None /\ h \notin made
                 /\ \E where \in {"login", "stepup", "consent"} : Show(t, where)
                 /\ p.params = params[t] /\ p.created = clock + 1 /\ p.by = None
                 /\ resume' = [resume EXCEPT ![t] = h] /\ pending' = [pending EXCEPT ![t] = p]
                 /\ clock' = clock + 1 /\ made' = made \cup {h}
                 /\ begun' = [begun EXCEPT ![h] = opened[t]] /\ signed' = [signed EXCEPT ![t] = 0]
                 /\ UNCHANGED <<params, opened, login, had, who>>
  <1>1. /\ pc[t] = "decide" /\ page[t] = "authorize" /\ params[t] \in Asks
        /\ UNCHANGED <<store, known, given, spent>>
    BY InHand DEF Decide, Places
  <1>2. CASE Answer(t) /\ Leave(t) /\ UNCHANGED <<clock, made, begun>>
    BY <1>1, <1>2
  <1>3. CASE Goes(t) /\ Goto(t, "issue") /\ UNCHANGED <<clock, tab, locals, made, asked>>
    BY <1>1, <1>3 DEF Goes, AskSignIn
  <1>4. ASSUME NEW where \in {"login", "stepup", "consent"}, NEW h \in Challenge, Keeps(t, h),
               resume' = [resume EXCEPT ![t] = h],
               IF h = resume[t] THEN UNCHANGED <<clock, pending, made, begun, signed>>
               ELSE /\ clock < Horizon
                    /\ clock' = clock + 1
                    /\ pending' = [pending EXCEPT ![t] =
                          [params |-> params[t], created |-> clock + 1, by |-> None]]
                    /\ made' = made \cup {h}
                    /\ begun' = [begun EXCEPT ![h] = opened[t]]
                    /\ signed' = [signed EXCEPT ![t] = IF pending[t] = None THEN 0 ELSE @],
               Goto(t, "save"), Show(t, where), UNCHANGED <<params, opened, login, had, who>>
        PROVE  \/ /\ Goto(t, "save") /\ pending[t] # None
                  /\ Show(t, where)
                  /\ UNCHANGED <<clock, params, resume, made, asked, locals>>
               \/ \E p \in Pending :
                  /\ Goto(t, "save") /\ pending[t] = None /\ h \notin made
                  /\ Show(t, where)
                  /\ p.params = params[t] /\ p.created = clock + 1 /\ p.by = None
                  /\ resume' = [resume EXCEPT ![t] = h] /\ pending' = [pending EXCEPT ![t] = p]
                  /\ clock' = clock + 1 /\ made' = made \cup {h}
                  /\ begun' = [begun EXCEPT ![h] = opened[t]] /\ signed' = [signed EXCEPT ![t] = 0]
                  /\ UNCHANGED <<params, opened, login, had, who>>
    <2>1. CASE pending[t] # None
      BY <1>4, <2>1 DEF Keeps, TypeOK, asked, locals
    <2>2. CASE pending[t] = None
      <3> DEFINE p == [params |-> params[t], created |-> clock + 1, by |-> None]
      <3>1. h \notin made /\ h # resume[t]
        BY <1>4, <2>2 DEF Keeps, AlwaysNew, Made
      <3>2. p \in Pending /\ p.params = params[t] /\ p.created = clock + 1 /\ p.by = None
        BY <1>1, <1>4, <3>1 DEF Pending, Time, TypeOK
      <3> HIDE DEF p
      <3> QED
        BY <1>4, <2>2, <3>1, <3>2 DEF p
    <2> QED
      BY <2>1, <2>2
  <1>5. \/ Answer(t) /\ Leave(t) /\ UNCHANGED <<clock, made, begun>>
        \/ Goes(t) /\ Goto(t, "issue") /\ UNCHANGED <<clock, tab, locals, made, asked>>
        \/ \E where \in {"login", "stepup", "consent"} :
               Interact(t, where) /\ ~params[t].silent
    BY DEF Decide, Interact
  <1> QED
    BY <1>1, <1>2, <1>3, <1>4, <1>5 DEF Interact

\* What a resume's challenge is, where there is one.
LEMMA Reads ==
    ASSUME TypeOK, Places, NEW t \in Tab, ReadChallenge(t)
    PROVE  /\ pc[t] = "read" /\ page[t] # "none" /\ UNCHANGED <<clock, store, known, made, begun, given, spent>>
           /\ \/ Answer(t) /\ Leave(t)
              \/ /\ page[t] = "authorize" /\ Goto(t, "decide")
                 /\ UNCHANGED pending
                 /\ UNCHANGED <<tab, login, had, who, opened, signed>>
              \/ /\ resume[t] \in Challenge /\ challenge[resume[t]] # None
                 /\ pending' = [pending EXCEPT ![t] = challenge[resume[t]]]
                 /\ \/ page[t] = "authorize" /\ Goto(t, "decide") /\ challenge[resume[t]].params = params[t]
                    \/ page[t] = "login" /\ Goto(t, "password")
                    \/ page[t] = "stepup" /\ Goto(t, "factor")
                    \/ page[t] = "consent" /\ Goto(t, "consent")
                 /\ UNCHANGED <<tab, login, had, who, opened, signed>>
  <1>1. /\ pc[t] = "read" /\ UNCHANGED <<clock, store, known, made, begun, given, spent>>
        /\ page[t] \in {"authorize", "login", "stepup", "consent"} /\ pending[t] = None
        /\ resume[t] \in Challenge \cup {None} /\ pending = [pending EXCEPT ![t] = None]
    BY DEF ReadChallenge, Places, TypeOK
  <1>2. CASE resume[t] = None \/ challenge[resume[t]] = None
    BY <1>1, <1>2 DEF ReadChallenge
  <1>3. CASE resume[t] # None /\ challenge[resume[t]] # None
    BY <1>1, <1>3 DEF ReadChallenge, SameRequest
  <1> QED
    BY <1>2, <1>3

\* The session a handler signs in with, or adds a method to.
LEMMA SignsIn ==
    ASSUME TypeOK, Places, NEW t \in Tab
    PROVE  /\ \A u \in User : SignIn(t, u) =>
                 \/ /\ login[t] # None /\ clock' = clock + 1 /\ Goto(t, "remember")
                    /\ signed' = [signed EXCEPT ![t] = clock'] /\ UNCHANGED who
                    /\ \E l \in Login : SaveLogin(t, l)
                 \/ /\ who' = [who EXCEPT ![t] = u]
                    /\ Goto(t, IF login[t] = None THEN "create" ELSE "drop")
                    /\ UNCHANGED <<clock, session, login, signed>>
           /\ \A s \in Session : Create(t, s) => \E l \in Login : SaveLogin(t, l)
           /\ \A m \in Factor : AddMethod(t, m) =>
                 UNCHANGED <<session, login>> \/ \E l \in Login : SaveLogin(t, l)
  <1>1. /\ login[t] # None => /\ login[t] \in Login /\ login[t].user \in User /\ login[t].id \in Session
                              /\ login[t].amr \subseteq Method /\ "pwd" \in login[t].amr
        /\ who[t] # None => who[t] \in User
        /\ clock \in Time /\ (clock < Horizon => clock + 1 \in Time)
    BY InHand DEF TypeOK, Time
  <1>2. ASSUME NEW u \in User, SignIn(t, u), login[t] # None, login[t].user = u
        PROVE  [login[t] EXCEPT !.amr = {"pwd"}, !.at = clock + 1] \in Login
    BY <1>1, <1>2 DEF SignIn, Login, Method
  <1>3. ASSUME NEW s \in Session, Create(t, s)
        PROVE  [id |-> s, user |-> who[t], amr |-> {"pwd"}, at |-> clock + 1] \in Login
    BY <1>1, <1>3 DEF Create, Login, Method, Places
  <1>4. ASSUME NEW m \in Factor, AddMethod(t, m)
        PROVE  [login[t] EXCEPT !.amr = @ \cup {m}] \in Login
    BY <1>1, <1>4 DEF AddMethod, Login, Method, Places
  <1>5. \A u \in User : SignIn(t, u) =>
                 \/ /\ login[t] # None /\ clock' = clock + 1 /\ Goto(t, "remember")
                    /\ signed' = [signed EXCEPT ![t] = clock'] /\ UNCHANGED who
                    /\ \E l \in Login : SaveLogin(t, l)
                 \/ /\ who' = [who EXCEPT ![t] = u]
                    /\ Goto(t, IF login[t] = None THEN "create" ELSE "drop")
                    /\ UNCHANGED <<clock, session, login, signed>>
    BY <1>2 DEF SignIn
  <1> QED
    BY <1>3, <1>4, <1>5 DEF Create, AddMethod

\* A consent is recorded and its approval is about to be; or neither.
LEMMA Records ==
    ASSUME TypeOK, Places, NEW t \in Tab, Record(t)
    PROVE  /\ pc[t] = "record" /\ login[t] \in Login /\ login[t].user \in User
           /\ pending[t] \in Pending /\ resume[t] \in Challenge
           /\ UNCHANGED <<clock, session, challenge, codes, enrolled, cookie, known, made, begun, approved, spent>>
           /\ \/ Answer(t) /\ Leave(t) /\ UNCHANGED <<consents, agreed>>
              \/ \E p \in Pending :
                 /\ Goto(t, "agree") /\ pending' = [pending EXCEPT ![t] = p]
                 /\ p.params = pending[t].params /\ p.created = pending[t].created
                 /\ p.by = login[t].user
                 /\ UNCHANGED <<tab, login, had, who, opened, signed>>
  <1>1. /\ pc[t] = "record" /\ login[t] \in Login /\ login[t].user \in User
        /\ pending[t] \in Pending /\ resume[t] \in Challenge
        /\ UNCHANGED <<clock, session, challenge, codes, enrolled, cookie, known, made, begun, approved, spent>>
    BY InHand DEF Record, Places
  <1> DEFINE p == [pending[t] EXCEPT !.by = login[t].user]
  <1>2. /\ p \in Pending /\ p.params = pending[t].params /\ p.created = pending[t].created
        /\ p.by = login[t].user
    BY <1>1 DEF Pending
  <1>3. [pending EXCEPT ![t].by = login[t].user] = [pending EXCEPT ![t] = p]
    BY DEF TypeOK
  <1> HIDE DEF p
  <1>4. CASE Answer(t) /\ Leave(t) /\ UNCHANGED <<consents, agreed>>
    BY <1>1, <1>4
  <1>5. CASE /\ Goto(t, "agree") /\ pending' = [pending EXCEPT ![t].by = login[t].user]
             /\ UNCHANGED <<tab, login, had, who, opened, signed>>
    BY <1>1, <1>2, <1>3, <1>5
  <1> QED
    BY <1>4, <1>5 DEF Record


\* Where a handler is, and what it has in hand.
LEMMA PlacesKept ==
    ASSUME TypeOK, Places, Made, [Next]_vars
    PROVE  Places'
  <1> USE DEF TypeOK, Places, Goto, Answer, Leave, Show, store, tab, locals, history, asked,
              given, spent
  <1>1. ASSUME NEW t \in Tab, NEW p \in Asks, Open(t, p)
        PROVE  Places'
    BY <1>1 DEF Open
  <1>2. ASSUME NEW t \in Tab, NEW p \in Asks, NEW h \in Challenge, Reopen(t, p, h)
        PROVE  Places'
    BY <1>2 DEF Reopen
  <1>3. ASSUME NEW t \in Tab, Close(t)
        PROVE  Places'
    BY <1>3 DEF Close
  <1>4. ASSUME NEW t \in Tab, Send(t)
        PROVE  Places'
    BY <1>4 DEF Send, CookieLogin
  <1>5. ASSUME NEW t \in Tab, Touch(t)
        PROVE  Places'
    BY <1>5 DEF Touch, SaveLogin
  <1>6. ASSUME NEW t \in Tab, ReadChallenge(t)
        PROVE  Places'
    BY <1>6 DEF ReadChallenge, SameRequest
  <1>7. ASSUME NEW t \in Tab, Decide(t)
        PROVE  Places'
    BY <1>7, Decides
  <1>8. ASSUME NEW t \in Tab, SaveChallenge(t)
        PROVE  Places'
    BY <1>8 DEF SaveChallenge, Written
  <1>9. ASSUME NEW t \in Tab, Issue(t)
        PROVE  Places'
    BY <1>9 DEF Issue, Written
  <1>10. ASSUME NEW t \in Tab, Delete(t)
        PROVE  Places'
    BY <1>10 DEF Delete, Written
  <1>11. ASSUME NEW t \in Tab, Rejected(t)
        PROVE  Places'
    BY <1>11 DEF Rejected
  <1>12. ASSUME NEW t \in Tab, NextStep(t)
        PROVE  Places'
    BY <1>12 DEF NextStep
  <1>13. ASSUME NEW t \in Tab, NEW u \in User, SignIn(t, u)
        PROVE  Places'
    <2>1. /\ pc[t] = "password" /\ pending[t] # None /\ page[t] # "none" /\ resume[t] # None
          /\ UNCHANGED <<tab, pending>> /\ None \notin Login
      BY <1>13 DEF SignIn
    <2>2. CASE \E l \in Login : SaveLogin(t, l) /\ Goto(t, "remember") /\ UNCHANGED who
      <3>0. PICK l \in Login : login' = [login EXCEPT ![t] = l] /\ Goto(t, "remember") /\ UNCHANGED who
        BY <2>2 DEF SaveLogin
      <3>1. l # None /\ \A q \in Tab : signed'[q] # 0 => signed[q] # 0 \/ q = t
        BY <1>13, <2>1 DEF SignIn
      <3> QED
        BY <2>1, <3>0, <3>1
    <2>3. CASE who' = [who EXCEPT ![t] = u] /\ Goto(t, IF login[t] = None THEN "create" ELSE "drop") /\ UNCHANGED <<login, signed>>
      BY <2>1, <2>3
    <2> QED
      BY <1>13, <2>2, <2>3, SignsIn
  <1>14. ASSUME NEW t \in Tab, NEW s \in Session, Create(t, s)
        PROVE  Places'
    <2>1. /\ pc[t] = "create" /\ pending[t] # None /\ page[t] # "none" /\ resume[t] # None
          /\ UNCHANGED <<tab, pending, who>> /\ None \notin Login /\ Goto(t, "remember")
          /\ \A q \in Tab : signed'[q] # 0 => signed[q] # 0 \/ q = t
      BY <1>14 DEF Create
    <2>2. PICK l \in Login : login' = [login EXCEPT ![t] = l]
      BY <1>14, SignsIn DEF SaveLogin
    <2> QED
      BY <2>1, <2>2
  <1>15. ASSUME NEW t \in Tab, NEW m \in Factor, AddMethod(t, m)
        PROVE  Places'
    <2>1. /\ pc[t] = "factor" /\ pending[t] # None /\ login[t] # None
          /\ UNCHANGED <<tab, pending, who, signed>> /\ None \notin Login /\ Goto(t, "next")
      BY <1>15 DEF AddMethod
    <2>2. \E l \in Login \cup {login[t]} : login' = [login EXCEPT ![t] = l]
      BY <1>15, SignsIn DEF SaveLogin
    <2> QED
      BY <2>1, <2>2
  <1>16. ASSUME NEW t \in Tab, Consent(t)
        PROVE  Places'
    BY <1>16 DEF Consent
  <1>17. ASSUME NEW t \in Tab, Record(t)
        PROVE  Places'
    BY <1>17, Records
  <1>18. ASSUME NEW t \in Tab, Logout(t)
        PROVE  Places'
    BY <1>18 DEF Logout, CookieLogin
  <1>19. ASSUME NEW t \in Tab, Drop(t)
        PROVE  Places'
    BY <1>19 DEF Drop
  <1>20. ASSUME NEW t \in Tab, Die(t)
        PROVE  Places'
    BY <1>20 DEF Die
  <1>21. ASSUME NEW h \in Challenge, Expire(h)
        PROVE  Places'
    BY <1>21 DEF Expire
  <1>22. ASSUME NEW u \in User, Withdraw(u)
        PROVE  Places'
    BY <1>22 DEF Withdraw
  <1>23. ASSUME NEW u \in User, NEW m \in Factor, Enrol(u, m)
        PROVE  Places'
    BY <1>23 DEF Enrol
  <1>24. CASE UNCHANGED vars
    BY <1>24 DEF vars
  <1> QED
    BY <1>1, <1>2, <1>3, <1>4, <1>5, <1>6, <1>7, <1>8, <1>9, <1>10, <1>11, <1>12, <1>13,
       <1>14, <1>15, <1>16, <1>17, <1>18, <1>19, <1>20, <1>21, <1>22, <1>23, <1>24 DEF Next

\* Challenges are made before they are known.
LEMMA MadeKept ==
    ASSUME TypeOK, Places, Made, [Next]_vars
    PROVE  Made'
  <1> USE DEF TypeOK, Places, Made, Goto, Answer, Leave, Show, store, tab, locals, history,
              asked, given, spent
  <1>1. ASSUME NEW t \in Tab, NEW p \in Asks, Open(t, p)
        PROVE  Made'
    BY <1>1 DEF Open
  <1>2. ASSUME NEW t \in Tab, NEW p \in Asks, NEW h \in Challenge, Reopen(t, p, h)
        PROVE  Made'
    BY <1>2 DEF Reopen
  <1>3. ASSUME NEW t \in Tab, Close(t)
        PROVE  Made'
    BY <1>3 DEF Close
  <1>4. ASSUME NEW t \in Tab, Send(t)
        PROVE  Made'
    BY <1>4 DEF Send, CookieLogin
  <1>5. ASSUME NEW t \in Tab, Touch(t)
        PROVE  Made'
    BY <1>5 DEF Touch, SaveLogin
  <1>6. ASSUME NEW t \in Tab, ReadChallenge(t)
        PROVE  Made'
    BY <1>6 DEF ReadChallenge, SameRequest
  <1>7. ASSUME NEW t \in Tab, Decide(t)
        PROVE  Made'
    BY <1>7 DEF Decide, Interact, Keeps, AlwaysNew
  <1>8. ASSUME NEW t \in Tab, SaveChallenge(t)
        PROVE  Made'
    BY <1>8 DEF SaveChallenge, Written
  <1>9. ASSUME NEW t \in Tab, Issue(t)
        PROVE  Made'
    BY <1>9 DEF Issue, Written
  <1>10. ASSUME NEW t \in Tab, Delete(t)
        PROVE  Made'
    BY <1>10 DEF Delete, Written
  <1>11. ASSUME NEW t \in Tab, Rejected(t)
        PROVE  Made'
    BY <1>11 DEF Rejected
  <1>12. ASSUME NEW t \in Tab, NextStep(t)
        PROVE  Made'
    BY <1>12 DEF NextStep
  <1>13. ASSUME NEW t \in Tab, NEW u \in User, SignIn(t, u)
        PROVE  Made'
    BY <1>13 DEF SignIn, SaveLogin
  <1>14. ASSUME NEW t \in Tab, NEW s \in Session, Create(t, s)
        PROVE  Made'
    BY <1>14 DEF Create, SaveLogin
  <1>15. ASSUME NEW t \in Tab, NEW m \in Factor, AddMethod(t, m)
        PROVE  Made'
    BY <1>15 DEF AddMethod, SaveLogin
  <1>16. ASSUME NEW t \in Tab, Consent(t)
        PROVE  Made'
    BY <1>16 DEF Consent
  <1>17. ASSUME NEW t \in Tab, Record(t)
        PROVE  Made'
    BY SMTT(60), <1>17 DEF Record, RowStands
  <1>18. ASSUME NEW t \in Tab, Logout(t)
        PROVE  Made'
    BY <1>18 DEF Logout, CookieLogin
  <1>19. ASSUME NEW t \in Tab, Drop(t)
        PROVE  Made'
    BY <1>19 DEF Drop
  <1>20. ASSUME NEW t \in Tab, Die(t)
        PROVE  Made'
    BY <1>20 DEF Die
  <1>21. ASSUME NEW h \in Challenge, Expire(h)
        PROVE  Made'
    BY <1>21 DEF Expire
  <1>22. ASSUME NEW u \in User, Withdraw(u)
        PROVE  Made'
    BY <1>22 DEF Withdraw
  <1>23. ASSUME NEW u \in User, NEW m \in Factor, Enrol(u, m)
        PROVE  Made'
    BY <1>23 DEF Enrol
  <1>24. CASE UNCHANGED vars
    BY <1>24 DEF vars
  <1> QED
    BY <1>1, <1>2, <1>3, <1>4, <1>5, <1>6, <1>7, <1>8, <1>9, <1>10, <1>11, <1>12, <1>13,
       <1>14, <1>15, <1>16, <1>17, <1>18, <1>19, <1>20, <1>21, <1>22, <1>23, <1>24 DEF Next

\* A copy is made of a copy, or of a challenge that is new.
LEMMA CopiesKept ==
    ASSUME TypeOK, Places, Made, CopiesAgree, InOrder, [Next]_vars
    PROVE  CopiesAgree'
  <1> USE DEF TypeOK, Places, Made, CopiesAgree, InOrder, Time, Pending, Goto, Answer,
              Leave, Show, store, tab, locals, history, asked, given, spent
  <1>1. ASSUME NEW t \in Tab, NEW p \in Asks, Open(t, p)
        PROVE  CopiesAgree'
    BY <1>1 DEF Open
  <1>2. ASSUME NEW t \in Tab, NEW p \in Asks, NEW h \in Challenge, Reopen(t, p, h)
        PROVE  CopiesAgree'
    BY <1>2 DEF Reopen
  <1>3. ASSUME NEW t \in Tab, Close(t)
        PROVE  CopiesAgree'
    BY <1>3 DEF Close
  <1>4. ASSUME NEW t \in Tab, Send(t)
        PROVE  CopiesAgree'
    <2>1. UNCHANGED <<clock, challenge, begun, pending>> /\ pending[t] = None
          /\ (resume' = resume \/ resume' = [resume EXCEPT ![t] = None])
      BY <1>4 DEF Send
    <2> QED
      BY SMTT(60), <2>1
  <1>5. ASSUME NEW t \in Tab, Touch(t)
        PROVE  CopiesAgree'
    BY <1>5 DEF Touch, SaveLogin
  <1>6. ASSUME NEW t \in Tab, ReadChallenge(t)
        PROVE  CopiesAgree'
    BY SMTT(60), <1>6 DEF ReadChallenge, SameRequest
  <1>7. ASSUME NEW t \in Tab, Decide(t)
        PROVE  CopiesAgree'
    <2>1. pc[t] = "decide" /\ UNCHANGED challenge
      BY <1>7, Decides
    <2>2. CASE Answer(t) /\ Leave(t) /\ UNCHANGED <<clock, begun>>
      BY <2>1, <2>2
    <2>3. CASE UNCHANGED <<clock, begun, resume, pending>>
      BY <2>1, <2>3
    <2>4. ASSUME NEW h \in Challenge, NEW p \in Pending, pending[t] = None, h \notin made,
                 p.created = clock + 1, clock' = clock + 1, resume' = [resume EXCEPT ![t] = h],
                 pending' = [pending EXCEPT ![t] = p], begun' = [begun EXCEPT ![h] = opened[t]]
          PROVE  CopiesAgree'
      <3>1. /\ challenge[h] = None /\ \A q \in Tab : resume[q] # h
            /\ opened[t] <= clock /\ clock \in Nat /\ opened[t] \in Nat
        BY <2>4
      <3>2. \A g \in Challenge : challenge'[g] # None =>
               begun'[g] < challenge'[g].created /\ challenge'[g].created <= clock'
        BY <2>1, <2>4, <3>1
      <3>3. \A q \in Tab : pending'[q] # None =>
               begun'[resume'[q]] < pending'[q].created /\ pending'[q].created <= clock'
        BY <2>4, <3>1
      <3>4. \A q \in Tab : pending'[q] # None =>
               /\ challenge'[resume'[q]] # None =>
                     /\ challenge'[resume'[q]].params = pending'[q].params
                     /\ challenge'[resume'[q]].created = pending'[q].created
               /\ \A r \in Tab : resume'[r] = resume'[q] /\ pending'[r] # None =>
                     pending'[r].params = pending'[q].params /\ pending'[r].created = pending'[q].created
        BY <2>1, <2>4, <3>1
      <3> QED
        BY <3>2, <3>3, <3>4
    <2> QED
      BY <1>7, <2>2, <2>3, <2>4, Decides
  <1>8. ASSUME NEW t \in Tab, SaveChallenge(t)
        PROVE  CopiesAgree'
    <2>1. /\ pending[t] # None /\ resume[t] \in Challenge
          /\ challenge' = [challenge EXCEPT ![resume[t]] = pending[t]]
          /\ UNCHANGED <<clock, resume, begun>>
          /\ (UNCHANGED pending \/ pending' = [pending EXCEPT ![t] = None])
      BY <1>8 DEF SaveChallenge
    <2> QED
      BY <2>1
  <1>9. ASSUME NEW t \in Tab, Issue(t)
        PROVE  CopiesAgree'
    <2>1. CASE pending[t] = None
      <3>1. /\ UNCHANGED <<clock, challenge, begun>> /\ pending' = [pending EXCEPT ![t] = None]
            /\ resume' = [resume EXCEPT ![t] = None]
        BY <1>9, <2>1 DEF Issue
      <3> QED
        BY <3>1
    <2>2. CASE pending[t] # None
      <3>1. UNCHANGED <<clock, challenge, begun, resume, pending>>
        BY <1>9, <2>2 DEF Issue
      <3> QED
        BY <3>1
    <2> QED
      BY <2>1, <2>2
  <1>10. ASSUME NEW t \in Tab, Delete(t)
        PROVE  CopiesAgree'
    BY <1>10 DEF Delete, Written
  <1>11. ASSUME NEW t \in Tab, Rejected(t)
        PROVE  CopiesAgree'
    BY <1>11 DEF Rejected
  <1>12. ASSUME NEW t \in Tab, NextStep(t)
        PROVE  CopiesAgree'
    BY <1>12 DEF NextStep
  <1>13. ASSUME NEW t \in Tab, NEW u \in User, SignIn(t, u)
        PROVE  CopiesAgree'
    BY <1>13 DEF SignIn, SaveLogin
  <1>14. ASSUME NEW t \in Tab, NEW s \in Session, Create(t, s)
        PROVE  CopiesAgree'
    BY <1>14 DEF Create, SaveLogin
  <1>15. ASSUME NEW t \in Tab, NEW m \in Factor, AddMethod(t, m)
        PROVE  CopiesAgree'
    BY <1>15 DEF AddMethod, SaveLogin
  <1>16. ASSUME NEW t \in Tab, Consent(t)
        PROVE  CopiesAgree'
    BY <1>16 DEF Consent
  <1>17. ASSUME NEW t \in Tab, Record(t)
        PROVE  CopiesAgree'
    <2> DEFINE approves == [pending EXCEPT ![t].by = login[t].user]
    <2>1. /\ UNCHANGED <<clock, challenge, begun>> /\ pending[t] # None
          /\ \/ pending' = approves /\ UNCHANGED resume
             \/ /\ pending' = [pending EXCEPT ![t] = None]
                /\ resume' = [resume EXCEPT ![t] = None]
      BY <1>17 DEF Record
    <2>2. CASE pending' = approves /\ UNCHANGED resume
      <3>1. \A q \in Tab : /\ pending'[q] # None => pending[q] # None
                           /\ pending'[q].params = pending[q].params
                           /\ pending'[q].created = pending[q].created
        <4>1. pending[t] \in Pending
          BY <2>1
        <4>2. /\ approves[t].params = pending[t].params /\ approves[t].created = pending[t].created
              /\ \A q \in Tab \ {t} : approves[q] = pending[q]
          BY <4>1
        <4> QED
          BY <2>1, <2>2, <4>2
      <3> HIDE DEF approves
      <3> QED
        BY <2>1, <2>2, <3>1
    <2>3. CASE pending' = [pending EXCEPT ![t] = None] /\ resume' = [resume EXCEPT ![t] = None]
      BY <2>1, <2>3
    <2> QED
      BY <2>1, <2>2, <2>3
  <1>18. ASSUME NEW t \in Tab, Logout(t)
        PROVE  CopiesAgree'
    BY <1>18 DEF Logout, CookieLogin
  <1>19. ASSUME NEW t \in Tab, Drop(t)
        PROVE  CopiesAgree'
    BY <1>19 DEF Drop
  <1>20. ASSUME NEW t \in Tab, Die(t)
        PROVE  CopiesAgree'
    BY <1>20 DEF Die
  <1>21. ASSUME NEW h \in Challenge, Expire(h)
        PROVE  CopiesAgree'
    BY <1>21 DEF Expire
  <1>22. ASSUME NEW u \in User, Withdraw(u)
        PROVE  CopiesAgree'
    BY <1>22 DEF Withdraw
  <1>23. ASSUME NEW u \in User, NEW m \in Factor, Enrol(u, m)
        PROVE  CopiesAgree'
    BY <1>23 DEF Enrol
  <1>24. CASE UNCHANGED vars
    BY <1>24 DEF vars
  <1> QED
    BY <1>1, <1>2, <1>3, <1>4, <1>5, <1>6, <1>7, <1>8, <1>9, <1>10, <1>11, <1>12, <1>13,
       <1>14, <1>15, <1>16, <1>17, <1>18, <1>19, <1>20, <1>21, <1>22, <1>23, <1>24 DEF Next

\* The clock ticks between a request and its challenge, and again for a sign-in.
LEMMA OrderKept ==
    ASSUME TypeOK, Places, Made, CopiesAgree, InOrder, [Next]_vars
    PROVE  InOrder'
  <1> USE DEF TypeOK, Places, Made, CopiesAgree, InOrder, Fits, Time, Pending, Goto, Answer,
              Leave, Show, store, tab, locals, history, asked, given, spent
  <1>1. ASSUME NEW t \in Tab, NEW p \in Asks, Open(t, p)
        PROVE  InOrder'
    BY <1>1 DEF Open
  <1>2. ASSUME NEW t \in Tab, NEW p \in Asks, NEW h \in Challenge, Reopen(t, p, h)
        PROVE  InOrder'
    BY <1>2 DEF Reopen
  <1>3. ASSUME NEW t \in Tab, Close(t)
        PROVE  InOrder'
    BY <1>3 DEF Close
  <1>4. ASSUME NEW t \in Tab, Send(t)
        PROVE  InOrder'
    BY <1>4 DEF Send, CookieLogin
  <1>5. ASSUME NEW t \in Tab, Touch(t)
        PROVE  InOrder'
    BY <1>5 DEF Touch, SaveLogin
  <1>6. ASSUME NEW t \in Tab, ReadChallenge(t)
        PROVE  InOrder'
    <2>1. pc[t] = "read" /\ UNCHANGED <<clock, challenge>>
      BY <1>6, Reads
    <2>2. CASE Answer(t) /\ Leave(t)
      BY <2>1, <2>2
    <2>3. CASE UNCHANGED <<pending, resume, params, opened, signed>> /\ Goto(t, "decide")
      BY <2>1, <2>3
    <2>4. ASSUME NEW label \in {"decide", "password", "factor", "consent"}, Goto(t, label),
                 resume[t] \in Challenge, challenge[resume[t]] # None,
                 pending' = [pending EXCEPT ![t] = challenge[resume[t]]],
                 label = "decide" => challenge[resume[t]].params = params[t],
                 UNCHANGED <<resume, params, opened, signed>>
          PROVE  InOrder'
      <3>1. pending'[t] = challenge[resume[t]] /\ \A q \in Tab \ {t} : pending'[q] = pending[q]
        BY <2>4
      <3>2. (\A r, q \in Tab : pending[q] # None /\ resume[q] = resume[r] => Fits(r, pending[q]))'
        BY <2>4, <3>1
      <3>3. (\A r \in Tab : /\ opened[r] <= clock
                            /\ pc[r] \in {"decide", "issue"} /\ pending[r] # None => pending[r].params = params[r]
                            /\ resume[r] # None /\ challenge[resume[r]] # None => Fits(r, challenge[resume[r]]))'
        BY <2>1, <2>4, <3>1
      <3> QED
        BY <3>2, <3>3
    <2> QED
      BY <1>6, <2>2, <2>3, <2>4, Reads
  <1>7. ASSUME NEW t \in Tab, Decide(t)
        PROVE  InOrder'
    <2>1. pc[t] = "decide" /\ UNCHANGED challenge
      BY <1>7, Decides
    <2>2. CASE Answer(t) /\ Leave(t) /\ UNCHANGED clock
      BY <2>1, <2>2
    <2>3. CASE UNCHANGED <<clock, params, resume, opened, signed, pending>> /\ (Goto(t, "issue") \/ Goto(t, "save"))
      BY <2>1, <2>3
    <2>4. ASSUME NEW h \in Challenge, NEW p \in Pending, pending[t] = None, h \notin made, Goto(t, "save"),
                 p.created = clock + 1, clock' = clock + 1, resume' = [resume EXCEPT ![t] = h],
                 pending' = [pending EXCEPT ![t] = p], signed' = [signed EXCEPT ![t] = 0],
                 UNCHANGED <<params, opened>>
          PROVE  InOrder'
      <3>1. /\ challenge[h] = None /\ \A q \in Tab : resume[q] # h
            /\ \A q \in Tab : opened[q] \in Nat /\ opened[q] <= clock
            /\ clock \in Nat
        BY <2>4
      <3>2. /\ resume'[t] = h /\ pending'[t] = p /\ signed'[t] = 0
            /\ \A q \in Tab \ {t} : /\ resume'[q] = resume[q] /\ resume'[q] # h
                                    /\ pending'[q] = pending[q] /\ signed'[q] = signed[q]
        BY <2>4, <3>1
      <3>3. Fits(t, p)'
        BY <2>4, <3>1, <3>2
      <3>4. (\A r, q \in Tab : pending[q] # None /\ resume[q] = resume[r] => Fits(r, pending[q]))'
        BY <2>4, <3>2, <3>3
      <3>5. (\A r \in Tab : /\ opened[r] <= clock
                            /\ pc[r] \in {"decide", "issue"} /\ pending[r] # None => pending[r].params = params[r]
                            /\ resume[r] # None /\ challenge[resume[r]] # None => Fits(r, challenge[resume[r]]))'
        BY <2>1, <2>4, <3>1, <3>2
      <3> QED
        BY <3>4, <3>5
    <2> QED
      BY <1>7, <2>2, <2>3, <2>4, Decides
  <1>8. ASSUME NEW t \in Tab, SaveChallenge(t)
        PROVE  InOrder'
    <2>1. /\ pending[t] # None /\ resume[t] \in Challenge
          /\ challenge' = [challenge EXCEPT ![resume[t]] = pending[t]]
          /\ UNCHANGED <<clock, params, resume, opened, signed>>
          /\ pc'[t] \notin {"decide", "issue"} /\ \A q \in Tab \ {t} : pc'[q] = pc[q]
          /\ (UNCHANGED pending \/ pending' = [pending EXCEPT ![t] = None])
      BY <1>8 DEF SaveChallenge
    <2> QED
      BY SMTT(60), <2>1
  <1>9. ASSUME NEW t \in Tab, Issue(t)
        PROVE  InOrder'
    BY <1>9 DEF Issue, Written
  <1>10. ASSUME NEW t \in Tab, Delete(t)
        PROVE  InOrder'
    BY <1>10 DEF Delete, Written
  <1>11. ASSUME NEW t \in Tab, Rejected(t)
        PROVE  InOrder'
    BY <1>11 DEF Rejected
  <1>12. ASSUME NEW t \in Tab, NextStep(t)
        PROVE  InOrder'
    BY <1>12 DEF NextStep
  <1>13. ASSUME NEW t \in Tab, NEW u \in User, SignIn(t, u)
        PROVE  InOrder'
    BY <1>13 DEF SignIn, SaveLogin
  <1>14. ASSUME NEW t \in Tab, NEW s \in Session, Create(t, s)
        PROVE  InOrder'
    BY <1>14 DEF Create, SaveLogin
  <1>15. ASSUME NEW t \in Tab, NEW m \in Factor, AddMethod(t, m)
        PROVE  InOrder'
    BY <1>15 DEF AddMethod, SaveLogin
  <1>16. ASSUME NEW t \in Tab, Consent(t)
        PROVE  InOrder'
    BY <1>16 DEF Consent
  <1>17. ASSUME NEW t \in Tab, Record(t)
        PROVE  InOrder'
    <2>1. UNCHANGED <<clock, challenge>> /\ pending[t] \in Pending
      BY <1>17, Records
    <2>2. CASE Answer(t) /\ Leave(t)
      BY <2>1, <2>2
    <2>3. ASSUME NEW p \in Pending, pending' = [pending EXCEPT ![t] = p], p.params = pending[t].params,
                 p.created = pending[t].created, Goto(t, "agree"), UNCHANGED <<params, resume, opened, signed>>
          PROVE  InOrder'
      <3>1. p # None /\ pending[t] # None /\ pending'[t] = p /\ \A q \in Tab \ {t} : pending'[q] = pending[q]
        BY <2>1, <2>3
      <3>2. (\A r, q \in Tab : pending[q] # None /\ resume[q] = resume[r] => Fits(r, pending[q]))'
        BY <2>3, <3>1
      <3>3. (\A r \in Tab : /\ opened[r] <= clock
                            /\ pc[r] \in {"decide", "issue"} /\ pending[r] # None => pending[r].params = params[r]
                            /\ resume[r] # None /\ challenge[resume[r]] # None => Fits(r, challenge[resume[r]]))'
        BY <2>1, <2>3, <3>1
      <3> QED
        BY <3>2, <3>3
    <2> QED
      BY <1>17, <2>2, <2>3, Records
  <1>18. ASSUME NEW t \in Tab, Logout(t)
        PROVE  InOrder'
    BY <1>18 DEF Logout, CookieLogin
  <1>19. ASSUME NEW t \in Tab, Drop(t)
        PROVE  InOrder'
    BY <1>19 DEF Drop
  <1>20. ASSUME NEW t \in Tab, Die(t)
        PROVE  InOrder'
    BY <1>20 DEF Die
  <1>21. ASSUME NEW h \in Challenge, Expire(h)
        PROVE  InOrder'
    BY <1>21 DEF Expire
  <1>22. ASSUME NEW u \in User, Withdraw(u)
        PROVE  InOrder'
    BY <1>22 DEF Withdraw
  <1>23. ASSUME NEW u \in User, NEW m \in Factor, Enrol(u, m)
        PROVE  InOrder'
    BY <1>23 DEF Enrol
  <1>24. CASE UNCHANGED vars
    BY <1>24 DEF vars
  <1> QED
    BY <1>1, <1>2, <1>3, <1>4, <1>5, <1>6, <1>7, <1>8, <1>9, <1>10, <1>11, <1>12, <1>13,
       <1>14, <1>15, <1>16, <1>17, <1>18, <1>19, <1>20, <1>21, <1>22, <1>23, <1>24 DEF Next

\* A row that was read and is gone does not come back.
LEMMA RowsKept ==
    ASSUME TypeOK, Places, Rows, [Next]_vars
    PROVE  Rows'
  <1> USE DEF TypeOK, Places, Rows, WithdrawnStaysWithdrawn, Row, Time, Goto, Answer, Leave,
              Show, store, tab, locals, history, asked, given, spent
  <1>1. ASSUME NEW t \in Tab, NEW p \in Asks, Open(t, p)
        PROVE  Rows'
    BY <1>1 DEF Open
  <1>2. ASSUME NEW t \in Tab, NEW p \in Asks, NEW h \in Challenge, Reopen(t, p, h)
        PROVE  Rows'
    BY <1>2 DEF Reopen
  <1>3. ASSUME NEW t \in Tab, Close(t)
        PROVE  Rows'
    BY <1>3 DEF Close
  <1>4. ASSUME NEW t \in Tab, Send(t)
        PROVE  Rows'
    <2>1. /\ UNCHANGED <<clock, consents, had, agreed>> /\ pc[t] = "idle"
          /\ pc'[t] # "record" /\ \A q \in Tab \ {t} : pc'[q] = pc[q] /\ login'[q] = login[q]
      BY <1>4 DEF Send
    <2> QED
      BY <2>1
  <1>5. ASSUME NEW t \in Tab, Touch(t)
        PROVE  Rows'
    BY <1>5 DEF Touch, SaveLogin
  <1>6. ASSUME NEW t \in Tab, ReadChallenge(t)
        PROVE  Rows'
    BY <1>6 DEF ReadChallenge, SameRequest
  <1>7. ASSUME NEW t \in Tab, Decide(t)
        PROVE  Rows'
    <2>1. UNCHANGED <<consents, agreed>> /\ clock' \in {clock, clock + 1}
      BY <1>7 DEF Decide, Interact
    <2>2. /\ pc'[t] # "record"
          /\ \A q \in Tab \ {t} : pc'[q] = pc[q] /\ login'[q] = login[q] /\ had'[q] = had[q]
      BY <1>7 DEF Decide, Interact
    <2> QED
      BY <2>1, <2>2
  <1>8. ASSUME NEW t \in Tab, SaveChallenge(t)
        PROVE  Rows'
    BY SMTT(60), <1>8 DEF SaveChallenge, Written
  <1>9. ASSUME NEW t \in Tab, Issue(t)
        PROVE  Rows'
    BY SMTT(60), <1>9 DEF Issue, Written
  <1>10. ASSUME NEW t \in Tab, Delete(t)
        PROVE  Rows'
    BY <1>10 DEF Delete, Written
  <1>11. ASSUME NEW t \in Tab, Rejected(t)
        PROVE  Rows'
    BY <1>11 DEF Rejected
  <1>12. ASSUME NEW t \in Tab, NextStep(t)
        PROVE  Rows'
    BY SMTT(60), <1>12 DEF NextStep
  <1>13. ASSUME NEW t \in Tab, NEW u \in User, SignIn(t, u)
        PROVE  Rows'
    BY SMTT(60), <1>13 DEF SignIn, SaveLogin
  <1>14. ASSUME NEW t \in Tab, NEW s \in Session, Create(t, s)
        PROVE  Rows'
    BY <1>14 DEF Create, SaveLogin
  <1>15. ASSUME NEW t \in Tab, NEW m \in Factor, AddMethod(t, m)
        PROVE  Rows'
    BY <1>15 DEF AddMethod, SaveLogin
  <1>16. ASSUME NEW t \in Tab, Consent(t)
        PROVE  Rows'
    <2>1. /\ UNCHANGED <<clock, consents, login, agreed>> /\ login[t].user \in User
          /\ pc'[t] = "record" => had'[t] = consents[login[t].user]
          /\ \A q \in Tab \ {t} : pc'[q] = pc[q] /\ had'[q] = had[q]
      BY <1>16, InHand DEF Consent
    <2> QED
      BY <2>1
  <1>17. ASSUME NEW t \in Tab, Record(t)
        PROVE  Rows'
    <2>1. /\ pc[t] = "record" /\ login[t].user \in User /\ UNCHANGED clock
          /\ pc'[t] # "record" /\ \A q \in Tab \ {t} : pc'[q] = pc[q]
      BY <1>17, Records
    <2>0. pending[t].params.scope \subseteq Scope
      BY <1>17, Records, InHand DEF Params
    <2>2. CASE Answer(t) /\ Leave(t) /\ UNCHANGED <<consents, agreed>>
      BY <2>1, <2>2
    <2>3. ASSUME agreed' = [agreed EXCEPT ![login[t].user] = @ \cup pending[t].params.scope],
                 UNCHANGED <<login, had>>
          PROVE  \A u \in User : agreed[u] \subseteq agreed'[u]
      BY <2>1, <2>3
    <2>4. CASE /\ agreed' = [agreed EXCEPT ![login[t].user] = @ \cup pending[t].params.scope]
               /\ UNCHANGED <<login, had, consents>>
      BY <2>1, <2>3, <2>4
    <2>5. ASSUME agreed' = [agreed EXCEPT ![login[t].user] = @ \cup pending[t].params.scope],
                 RowStands(t), UNCHANGED <<login, had>>,
                 consents' = [consents EXCEPT ![login[t].user] =
                    [born  |-> IF had[t] = None THEN clock ELSE had[t].born,
                     scope |-> (IF had[t] = None THEN {} ELSE had[t].scope) \cup pending[t].params.scope]]
          PROVE  Rows'
      <3> DEFINE u == login[t].user
                 b == IF had[t] = None THEN clock ELSE had[t].born
                 sc == (IF had[t] = None THEN {} ELSE had[t].scope) \cup pending[t].params.scope
                 new == [born |-> b, scope |-> sc]
      <3>1. /\ b \in Nat /\ b <= clock /\ sc \subseteq Scope /\ new # None
            /\ new.born = b /\ new.scope = sc
        BY <2>0, <2>1
      <3>2. sc \subseteq agreed'[u]
        BY <2>1, <2>5 DEF RowStands
      <3>3. /\ \A v \in User \ {u} : consents'[v] = consents[v] /\ agreed'[v] = agreed[v]
            /\ consents'[u] = new
        BY <2>1, <2>5
      <3>4. \A q \in Tab : pc[q] = "record" /\ had[q] # None /\ q # t /\ login[q].user = u /\ had[q].born = b
                 => had[q].scope \subseteq agreed'[u]
        <4>1. CASE had[t] = None
          BY <2>1, <2>3, <2>5, <4>1 DEF RowStands
        <4>2. CASE had[t] # None
          BY <2>1, <2>3, <2>5, <4>2 DEF RowStands
        <4> QED
          BY <4>1, <4>2
      <3> HIDE DEF b, sc, new
      <3> QED
        BY <2>1, <2>3, <2>5, <3>1, <3>2, <3>3, <3>4
    <2> QED
      BY <1>17, <2>2, <2>4, <2>5 DEF Record
  <1>18. ASSUME NEW t \in Tab, Logout(t)
        PROVE  Rows'
    BY <1>18 DEF Logout, CookieLogin
  <1>19. ASSUME NEW t \in Tab, Drop(t)
        PROVE  Rows'
    BY <1>19 DEF Drop
  <1>20. ASSUME NEW t \in Tab, Die(t)
        PROVE  Rows'
    BY <1>20 DEF Die
  <1>21. ASSUME NEW h \in Challenge, Expire(h)
        PROVE  Rows'
    BY <1>21 DEF Expire
  <1>22. ASSUME NEW u \in User, Withdraw(u)
        PROVE  Rows'
    BY <1>22 DEF Withdraw
  <1>23. ASSUME NEW u \in User, NEW m \in Factor, Enrol(u, m)
        PROVE  Rows'
    BY <1>23 DEF Enrol
  <1>24. CASE UNCHANGED vars
    BY <1>24 DEF vars
  <1> QED
    BY <1>1, <1>2, <1>3, <1>4, <1>5, <1>6, <1>7, <1>8, <1>9, <1>10, <1>11, <1>12, <1>13,
       <1>14, <1>15, <1>16, <1>17, <1>18, <1>19, <1>20, <1>21, <1>22, <1>23, <1>24 DEF Next

\* Who issues a code holds the only copy, or somebody held another.
LEMMA SpendingKept ==
    ASSUME TypeOK, Places, Made, Spending, [Next]_vars
    PROVE  Spending'
  <1> USE DEF TypeOK, Places, Made, Spending, Held, Goto, Answer, Leave, Show, store, tab,
              locals, history, asked, given, spent
  <1>1. ASSUME NEW t \in Tab, NEW p \in Asks, Open(t, p)
        PROVE  Spending'
    BY <1>1 DEF Open
  <1>2. ASSUME NEW t \in Tab, NEW p \in Asks, NEW h \in Challenge, Reopen(t, p, h)
        PROVE  Spending'
    BY <1>2 DEF Reopen
  <1>3. ASSUME NEW t \in Tab, Close(t)
        PROVE  Spending'
    BY <1>3 DEF Close
  <1>4. ASSUME NEW t \in Tab, Send(t)
        PROVE  Spending'
    BY <1>4 DEF Send, CookieLogin
  <1>5. ASSUME NEW t \in Tab, Touch(t)
        PROVE  Spending'
    BY <1>5 DEF Touch, SaveLogin
  <1>6. ASSUME NEW t \in Tab, ReadChallenge(t)
        PROVE  Spending'
    BY SMTT(60), <1>6 DEF ReadChallenge, SameRequest
  <1>7. ASSUME NEW t \in Tab, Decide(t)
        PROVE  Spending'
    BY SMTT(60), <1>7 DEF Decide, Interact, Keeps, AlwaysNew
  <1>8. ASSUME NEW t \in Tab, SaveChallenge(t)
        PROVE  Spending'
    BY <1>8 DEF SaveChallenge, Written
  <1>9. ASSUME NEW t \in Tab, Issue(t)
        PROVE  Spending'
    BY <1>9 DEF Issue, Written
  <1>10. ASSUME NEW t \in Tab, Delete(t)
        PROVE  Spending'
    BY <1>10 DEF Delete, Written
  <1>11. ASSUME NEW t \in Tab, Rejected(t)
        PROVE  Spending'
    BY <1>11 DEF Rejected
  <1>12. ASSUME NEW t \in Tab, NextStep(t)
        PROVE  Spending'
    BY <1>12 DEF NextStep
  <1>13. ASSUME NEW t \in Tab, NEW u \in User, SignIn(t, u)
        PROVE  Spending'
    BY <1>13 DEF SignIn, SaveLogin
  <1>14. ASSUME NEW t \in Tab, NEW s \in Session, Create(t, s)
        PROVE  Spending'
    BY <1>14 DEF Create, SaveLogin
  <1>15. ASSUME NEW t \in Tab, NEW m \in Factor, AddMethod(t, m)
        PROVE  Spending'
    BY <1>15 DEF AddMethod, SaveLogin
  <1>16. ASSUME NEW t \in Tab, Consent(t)
        PROVE  Spending'
    BY <1>16 DEF Consent
  <1>17. ASSUME NEW t \in Tab, Record(t)
        PROVE  Spending'
    BY SMTT(60), <1>17 DEF Record, RowStands
  <1>18. ASSUME NEW t \in Tab, Logout(t)
        PROVE  Spending'
    BY <1>18 DEF Logout, CookieLogin
  <1>19. ASSUME NEW t \in Tab, Drop(t)
        PROVE  Spending'
    BY <1>19 DEF Drop
  <1>20. ASSUME NEW t \in Tab, Die(t)
        PROVE  Spending'
    BY <1>20 DEF Die
  <1>21. ASSUME NEW h \in Challenge, Expire(h)
        PROVE  Spending'
    BY <1>21 DEF Expire
  <1>22. ASSUME NEW u \in User, Withdraw(u)
        PROVE  Spending'
    BY <1>22 DEF Withdraw
  <1>23. ASSUME NEW u \in User, NEW m \in Factor, Enrol(u, m)
        PROVE  Spending'
    BY <1>23 DEF Enrol
  <1>24. CASE UNCHANGED vars
    BY <1>24 DEF vars
  <1> QED
    BY <1>1, <1>2, <1>3, <1>4, <1>5, <1>6, <1>7, <1>8, <1>9, <1>10, <1>11, <1>12, <1>13,
       <1>14, <1>15, <1>16, <1>17, <1>18, <1>19, <1>20, <1>21, <1>22, <1>23, <1>24 DEF Next

\* An approval is recorded with the challenge it is given to.
LEMMA ApprovedKept ==
    ASSUME TypeOK, Places, Made, Approved, [Next]_vars
    PROVE  Approved'
  <1> USE DEF TypeOK, Places, Made, Approved, Goto, Answer, Leave, Show, store, tab, locals,
              history, asked, given, spent
  <1>1. ASSUME NEW t \in Tab, NEW p \in Asks, Open(t, p)
        PROVE  Approved'
    BY <1>1 DEF Open
  <1>2. ASSUME NEW t \in Tab, NEW p \in Asks, NEW h \in Challenge, Reopen(t, p, h)
        PROVE  Approved'
    BY <1>2 DEF Reopen
  <1>3. ASSUME NEW t \in Tab, Close(t)
        PROVE  Approved'
    BY <1>3 DEF Close
  <1>4. ASSUME NEW t \in Tab, Send(t)
        PROVE  Approved'
    BY <1>4 DEF Send, CookieLogin
  <1>5. ASSUME NEW t \in Tab, Touch(t)
        PROVE  Approved'
    BY <1>5 DEF Touch, SaveLogin
  <1>6. ASSUME NEW t \in Tab, ReadChallenge(t)
        PROVE  Approved'
    BY <1>6 DEF ReadChallenge, SameRequest
  <1>7. ASSUME NEW t \in Tab, Decide(t)
        PROVE  Approved'
    BY <1>7 DEF Decide, Interact, Keeps, AlwaysNew
  <1>8. ASSUME NEW t \in Tab, SaveChallenge(t)
        PROVE  Approved'
    BY SMTT(60), <1>8 DEF SaveChallenge, Written
  <1>9. ASSUME NEW t \in Tab, Issue(t)
        PROVE  Approved'
    BY <1>9 DEF Issue, Written
  <1>10. ASSUME NEW t \in Tab, Delete(t)
        PROVE  Approved'
    BY <1>10 DEF Delete, Written
  <1>11. ASSUME NEW t \in Tab, Rejected(t)
        PROVE  Approved'
    BY <1>11 DEF Rejected
  <1>12. ASSUME NEW t \in Tab, NextStep(t)
        PROVE  Approved'
    BY <1>12 DEF NextStep
  <1>13. ASSUME NEW t \in Tab, NEW u \in User, SignIn(t, u)
        PROVE  Approved'
    BY <1>13 DEF SignIn, SaveLogin
  <1>14. ASSUME NEW t \in Tab, NEW s \in Session, Create(t, s)
        PROVE  Approved'
    BY <1>14 DEF Create, SaveLogin
  <1>15. ASSUME NEW t \in Tab, NEW m \in Factor, AddMethod(t, m)
        PROVE  Approved'
    BY <1>15 DEF AddMethod, SaveLogin
  <1>16. ASSUME NEW t \in Tab, Consent(t)
        PROVE  Approved'
    BY <1>16 DEF Consent
  <1>17. ASSUME NEW t \in Tab, Record(t)
        PROVE  Approved'
    <2>1. UNCHANGED <<challenge, approved, met>> /\ pc[t] = "record"
      BY <1>17, Records
    <2>2. CASE Answer(t) /\ Leave(t)
      BY <2>1, <2>2
    <2>3. ASSUME NEW p \in Pending, pending' = [pending EXCEPT ![t] = p], p.by = login[t].user,
                 Goto(t, "agree"), UNCHANGED <<resume, login>>
          PROVE  Approved'
      BY <2>1, <2>3
    <2> QED
      BY <1>17, <2>2, <2>3, Records
  <1>18. ASSUME NEW t \in Tab, Logout(t)
        PROVE  Approved'
    BY <1>18 DEF Logout, CookieLogin
  <1>19. ASSUME NEW t \in Tab, Drop(t)
        PROVE  Approved'
    BY <1>19 DEF Drop
  <1>20. ASSUME NEW t \in Tab, Die(t)
        PROVE  Approved'
    BY <1>20 DEF Die
  <1>21. ASSUME NEW h \in Challenge, Expire(h)
        PROVE  Approved'
    BY <1>21 DEF Expire
  <1>22. ASSUME NEW u \in User, Withdraw(u)
        PROVE  Approved'
    BY <1>22 DEF Withdraw
  <1>23. ASSUME NEW u \in User, NEW m \in Factor, Enrol(u, m)
        PROVE  Approved'
    BY <1>23 DEF Enrol
  <1>24. CASE UNCHANGED vars
    BY <1>24 DEF vars
  <1> QED
    BY <1>1, <1>2, <1>3, <1>4, <1>5, <1>6, <1>7, <1>8, <1>9, <1>10, <1>11, <1>12, <1>13,
       <1>14, <1>15, <1>16, <1>17, <1>18, <1>19, <1>20, <1>21, <1>22, <1>23, <1>24 DEF Next

\* It stays with the challenge until somebody else writes.
LEMMA RememberedKept ==
    ASSUME TypeOK, Places, Made, Approved, Remembered, [Next]_vars
    PROVE  Remembered'
  <1> USE DEF TypeOK, Places, Made, Approved, Remembered, Held, Goto, Answer, Leave, Show,
              store, tab, locals, history, asked, given, spent
  <1>1. ASSUME NEW t \in Tab, NEW p \in Asks, Open(t, p)
        PROVE  Remembered'
    BY <1>1 DEF Open
  <1>2. ASSUME NEW t \in Tab, NEW p \in Asks, NEW h \in Challenge, Reopen(t, p, h)
        PROVE  Remembered'
    BY <1>2 DEF Reopen
  <1>3. ASSUME NEW t \in Tab, Close(t)
        PROVE  Remembered'
    BY <1>3 DEF Close
  <1>4. ASSUME NEW t \in Tab, Send(t)
        PROVE  Remembered'
    BY <1>4 DEF Send, CookieLogin
  <1>5. ASSUME NEW t \in Tab, Touch(t)
        PROVE  Remembered'
    BY <1>5 DEF Touch, SaveLogin
  <1>6. ASSUME NEW t \in Tab, ReadChallenge(t)
        PROVE  Remembered'
    BY <1>6 DEF ReadChallenge, SameRequest
  <1>7. ASSUME NEW t \in Tab, Decide(t)
        PROVE  Remembered'
    BY SMTT(60), <1>7 DEF Decide, Interact, Keeps, AlwaysNew
  <1>8. ASSUME NEW t \in Tab, SaveChallenge(t)
        PROVE  Remembered'
    <2>1. /\ pending[t] # None /\ resume[t] \in Challenge /\ UNCHANGED resume
          /\ challenge' = [challenge EXCEPT ![resume[t]] = pending[t]]
          /\ (UNCHANGED pending \/ pending' = [pending EXCEPT ![t] = None])
          /\ (\A q \in Tab \ {t} : pc'[q] = pc[q]) /\ pc'[t] # "agree"
          /\ met' = IF \E q \in Tab \ {t} : Held(q) = resume[t] THEN met \cup {resume[t]} ELSE met
      BY <1>8 DEF SaveChallenge, Written
    <2>2. CASE pc[t] # "agree"
      <3>1. UNCHANGED approved
        BY <1>8, <2>2 DEF SaveChallenge
      <3> QED
        BY <2>1, <2>2, <3>1
    <2>3. CASE pc[t] = "agree"
      <3>1. approved' = approved \cup {<<login[t].user, resume[t]>>} /\ pending' = [pending EXCEPT ![t] = None]
            /\ pending[t].by = login[t].user /\ login[t].user \in User
        BY <1>8, <2>3, InHand DEF SaveChallenge
      <3>2. resume[t] \notin met' => \A q \in Tab \ {t} : resume[q] = resume[t] => pending[q] = None
        BY <2>1
      <3>3. met \subseteq met' /\ (\A g \in Challenge \ {resume[t]} : challenge'[g] = challenge[g])
            /\ challenge'[resume[t]] = pending[t] /\ pending'[t] = None
            /\ (\A q \in Tab \ {t} : pending'[q] = pending[q])
        BY <2>1, <3>1
      <3>4. ASSUME NEW h \in Challenge, NEW u \in User, <<u, h>> \in approved', h \notin met',
                   \A v \in User \ {u} : <<v, h>> \notin approved'
            PROVE  /\ challenge'[h] # None => challenge'[h].by = u
                   /\ \A q \in Tab : resume'[q] = h /\ pending'[q] # None /\ pc'[q] # "agree" =>
                         pending'[q].by = u
        <4>1. CASE h = resume[t]
          <5>1. u = login[t].user
            BY <3>1, <3>4, <4>1
          <5> QED
            BY <2>1, <3>1, <3>2, <3>3, <3>4, <4>1, <5>1
        <4>2. CASE h # resume[t]
          <5>1. <<u, h>> \in approved /\ h \notin met /\ \A v \in User \ {u} : <<v, h>> \notin approved
            BY <3>1, <3>3, <3>4, <4>2
          <5> QED
            BY <2>1, <3>3, <4>2, <5>1
        <4> QED
          BY <4>1, <4>2
      <3> QED
        BY <3>4
    <2> QED
      BY <2>2, <2>3
  <1>9. ASSUME NEW t \in Tab, Issue(t)
        PROVE  Remembered'
    BY <1>9 DEF Issue, Written
  <1>10. ASSUME NEW t \in Tab, Delete(t)
        PROVE  Remembered'
    BY <1>10 DEF Delete, Written
  <1>11. ASSUME NEW t \in Tab, Rejected(t)
        PROVE  Remembered'
    BY <1>11 DEF Rejected
  <1>12. ASSUME NEW t \in Tab, NextStep(t)
        PROVE  Remembered'
    BY <1>12 DEF NextStep
  <1>13. ASSUME NEW t \in Tab, NEW u \in User, SignIn(t, u)
        PROVE  Remembered'
    BY <1>13 DEF SignIn, SaveLogin
  <1>14. ASSUME NEW t \in Tab, NEW s \in Session, Create(t, s)
        PROVE  Remembered'
    BY <1>14 DEF Create, SaveLogin
  <1>15. ASSUME NEW t \in Tab, NEW m \in Factor, AddMethod(t, m)
        PROVE  Remembered'
    BY <1>15 DEF AddMethod, SaveLogin
  <1>16. ASSUME NEW t \in Tab, Consent(t)
        PROVE  Remembered'
    BY <1>16 DEF Consent
  <1>17. ASSUME NEW t \in Tab, Record(t)
        PROVE  Remembered'
    <2>1. UNCHANGED <<challenge, approved, met>> /\ pc[t] = "record"
      BY <1>17, Records
    <2>2. CASE Answer(t) /\ Leave(t)
      BY <2>1, <2>2
    <2>3. ASSUME NEW p \in Pending, pending' = [pending EXCEPT ![t] = p], p.by = login[t].user,
                 Goto(t, "agree"), UNCHANGED <<resume, login>>
          PROVE  Remembered'
      BY <2>1, <2>3
    <2> QED
      BY <1>17, <2>2, <2>3, Records
  <1>18. ASSUME NEW t \in Tab, Logout(t)
        PROVE  Remembered'
    BY <1>18 DEF Logout, CookieLogin
  <1>19. ASSUME NEW t \in Tab, Drop(t)
        PROVE  Remembered'
    BY <1>19 DEF Drop
  <1>20. ASSUME NEW t \in Tab, Die(t)
        PROVE  Remembered'
    BY <1>20 DEF Die
  <1>21. ASSUME NEW h \in Challenge, Expire(h)
        PROVE  Remembered'
    BY <1>21 DEF Expire
  <1>22. ASSUME NEW u \in User, Withdraw(u)
        PROVE  Remembered'
    BY <1>22 DEF Withdraw
  <1>23. ASSUME NEW u \in User, NEW m \in Factor, Enrol(u, m)
        PROVE  Remembered'
    BY <1>23 DEF Enrol
  <1>24. CASE UNCHANGED vars
    BY <1>24 DEF vars
  <1> QED
    BY <1>1, <1>2, <1>3, <1>4, <1>5, <1>6, <1>7, <1>8, <1>9, <1>10, <1>11, <1>12, <1>13,
       <1>14, <1>15, <1>16, <1>17, <1>18, <1>19, <1>20, <1>21, <1>22, <1>23, <1>24 DEF Next

-----------------------------------------------------------------------------
(* The inductive invariant.                                                *)

\* What is true of every state of the requests.
IInv ==
    /\ TypeOK /\ Places /\ Made /\ CopiesAgree /\ InOrder /\ Rows /\ Spending
    /\ Approved /\ Remembered

\* A new browser, or one somebody has signed in with before.
LEMMA InitIInv == Init => IInv
  <1> SUFFICES ASSUME Init
               PROVE  IInv
    OBVIOUS
  <1> USE DEF Init
  <1>0. /\ 0 \in Time /\ 0 \in 0..MaxCodes /\ None \notin Login \cup Pending \cup Row
        /\ \A S \in SUBSET Scope : [born |-> 0, scope |-> S] \in Row
        /\ \A s \in Session, u \in User : [id |-> s, user |-> u, amr |-> {"pwd"}, at |-> 0] \in Login
    BY DEF Time, Row, Login, Method
  <1>1. StoreType
    <2>1. session \in [Session -> Login \cup {None}] /\ cookie \in Session \cup {None}
      BY <1>0
    <2>2. consents \in [User -> Row \cup {None}]
      <3>1. \A row \in [born : {0}, scope : SUBSET Scope] : row \in Row
        BY <1>0 DEF Row
      <3> QED
        BY <3>1
    <2> QED
      BY <1>0, <2>1, <2>2 DEF StoreType
  <1>2. TabType /\ LocalType
    BY DEF TabType, LocalType, Labels
  <1>3. HistoryType
    <2>1. agreed \in [User -> SUBSET Scope]
      BY <1>1 DEF StoreType, Row
    <2> QED
      BY <1>0, <2>1 DEF HistoryType
  <1>4. TypeOK
    BY <1>1, <1>2, <1>3, TypeParts
  <1>5. Places /\ Made /\ CopiesAgree /\ Approved /\ Remembered /\ Spending
    BY DEF Places, Made, CopiesAgree, Approved, Remembered, Spending
  <1>6. InOrder
    BY <1>0 DEF InOrder, Fits, Time
  <1>7. Rows
    BY <1>0 DEF Rows, WithdrawnStaysWithdrawn, Row
  <1> QED
    BY <1>4, <1>5, <1>6, <1>7 DEF IInv

\* Every step keeps all of it.
LEMMA NextIInv == IInv /\ [Next]_vars => IInv'
  BY TypesKept, PlacesKept, MadeKept, CopiesKept, OrderKept, RowsKept, SpendingKept,
     ApprovedKept, RememberedKept DEF IInv

\* So it holds in every reachable state.
LEMMA SpecIInv == Spec => []IInv
  BY InitIInv, NextIInv, PTL DEF Spec

-----------------------------------------------------------------------------
(* Assurance levels.                                                       *)

\* There are three methods at most.
LEMMA FewMethods == IsFiniteSet(Method)
  <1>1. IsFiniteSet({"pwd", "otp", "face"})
    <2>1. IsFiniteSet({} \cup {"pwd"})
      BY FS_EmptySet, FS_AddElement
    <2>2. IsFiniteSet(({} \cup {"pwd"}) \cup {"otp"})
      BY <2>1, FS_AddElement
    <2>3. IsFiniteSet((({} \cup {"pwd"}) \cup {"otp"}) \cup {"face"})
      BY <2>2, FS_AddElement
    <2>4. {"pwd", "otp", "face"} = (({} \cup {"pwd"}) \cup {"otp"}) \cup {"face"}
      OBVIOUS
    <2> QED
      BY <2>3, <2>4
  <1>2. Method \in SUBSET {"pwd", "otp", "face"}
    BY DEF Method
  <1> QED
    BY <1>1, <1>2, FS_Subset

\* More methods never make a lower level.
LEMMA AcrGrows ==
    ASSUME NEW a \in SUBSET Method, NEW b \in SUBSET a
    PROVE  /\ DeriveAcr(a) \in 1..3 /\ DeriveAcr(b) \in 1..3
           /\ DeriveAcr(b) <= DeriveAcr(a)
  <1>1. IsFiniteSet(a)
    BY FewMethods, FS_Subset
  <1>2. IsFiniteSet(b) /\ Cardinality(b) <= Cardinality(a)
    BY <1>1, FS_Subset
  <1>3. Cardinality(a) \in Nat /\ Cardinality(b) \in Nat
    BY <1>1, <1>2, FS_CardinalityType
  <1> QED
    BY <1>2, <1>3 DEF DeriveAcr

\* Where nothing is outstanding the client's level is met, unless it could not be
\* met with all the person has.
LEMMA NothingOwed ==
    ASSUME NEW amr \in SUBSET Method, NEW can \in SUBSET Method, NEW level \in 0..3,
           Outstanding(amr, can, level) = {}, Meets(DeriveAcr(can), level)
    PROVE  Meets(DeriveAcr(amr), level)
  <1>1. SUFFICES ASSUME ~Meets(DeriveAcr(amr), level)
                 PROVE  FALSE
    OBVIOUS
  <1>2. OwesTheClient(amr, can, level) = {}
    BY DEF Outstanding
  <1>3. can \ amr = {}
    BY <1>1, <1>2 DEF OwesTheClient
  <1>4. DeriveAcr(can) <= DeriveAcr(amr) /\ DeriveAcr(can) \in 1..3 /\ DeriveAcr(amr) \in 1..3
    BY <1>3, AcrGrows
  <1> QED
    BY <1>1, <1>4 DEF Meets

-----------------------------------------------------------------------------
(* What authorize promises.                                                *)

\* One challenge, one code, unless another handler held a copy or the worker died
\* before it spent it.  (challenge_store.delete)
THEOREM SpentTheorem == Spec => []SpentOnce
  <1>1. IInv => SpentOnce
    BY DEF IInv, TypeOK, Spending, SpentOnce
  <1> QED
    BY <1>1, SpecIInv, PTL

\* No consent is on record that was not given, or that was withdrawn.
\* (record_consent, revoke_connection)
THEOREM WithdrawnTheorem == Spec => []WithdrawnStaysWithdrawn
  <1>1. IInv => WithdrawnStaysWithdrawn
    BY DEF IInv, Rows
  <1> QED
    BY <1>1, SpecIInv, PTL

\* Nobody signs in, or approves, twice for the same request.  (_signed_in_for,
\* consented_by)
THEOREM AskedOnceTheorem == Spec => []NobodyIsAskedTwice
  <1>1. IInv => NobodyIsAskedTwice
    <2> SUFFICES ASSUME IInv, NEW t \in Tab, pc[t] = "decide", pending[t] # None, login[t] # None
                 PROVE  /\ signed[t] # 0 /\ login[t].at >= signed[t] => ~AskSignIn(t)
                        /\ AskConsent(t) /\ <<login[t].user, resume[t]>> \in approved =>
                              \/ Uncovered(t) \/ resume[t] \in met
                              \/ \E v \in User \ {login[t].user} : <<v, resume[t]>> \in approved
      BY DEF NobodyIsAskedTwice
    <2>1. /\ pending[t].created \in Time /\ login[t].at \in Time /\ signed[t] \in Time
          /\ resume[t] \in Challenge /\ login[t].user \in User
      BY InHand DEF IInv, TypeOK
    <2>2. signed[t] # 0 => pending[t].created <= signed[t]
      BY DEF IInv, InOrder, Fits
    <2>3. ASSUME signed[t] # 0, login[t].at >= signed[t]
          PROVE  ~AskSignIn(t)
      BY <2>1, <2>2, <2>3 DEF AskSignIn, SignedInFor, Time
    <2>4. ASSUME AskConsent(t), <<login[t].user, resume[t]>> \in approved, ~Uncovered(t),
                 resume[t] \notin met, \A v \in User \ {login[t].user} : <<v, resume[t]>> \notin approved
          PROVE  FALSE
      <3>1. ~ConsentedForThis(t)
        BY <2>4 DEF AskConsent
      <3>2. pending[t].by = login[t].user
        BY <2>1, <2>4 DEF IInv, Remembered
      <3> QED
        BY <3>1, <3>2 DEF ConsentedForThis
    <2> QED
      BY <2>3, <2>4
  <1> QED
    BY <1>1, SpecIInv, PTL

\* What stands between "decide" and "issue".
LEMMA IssueNeeds ==
    ASSUME IInv, [Next]_vars, NEW t \in Tab, pc[t] = "decide", pc'[t] = "issue"
    PROVE  Goes(t) /\ ~AskFactor(t) /\ ~AskConsent(t) /\ login[t] # None /\ params[t] \in Asks
  <1>0. pc[t] = "decide" /\ pc'[t] = "issue"
    OBVIOUS
  <1>1. Decide(t)
    <2> USE DEF IInv, TypeOK, Goto, Answer, locals, tab
    <2>1. ASSUME NEW q \in Tab,
                 \/ (\E p \in Asks : Open(q, p) \/ \E h \in Challenge : Reopen(q, p, h))
                 \/ Close(q) \/ Send(q) \/ Touch(q) \/ Rejected(q) \/ NextStep(q) \/ Consent(q)
                 \/ Logout(q) \/ Drop(q) \/ Die(q)
          PROVE  FALSE
      BY <1>0, <2>1 DEF Open, Reopen, Close, Send, Touch, Rejected, NextStep, Consent, Logout,
                        Drop, Die
    <2>2. ASSUME NEW q \in Tab, ReadChallenge(q) \/ SaveChallenge(q) \/ Issue(q) \/ Delete(q) \/ Record(q)
          PROVE  FALSE
      BY <1>0, <2>2, Reads, Records DEF SaveChallenge, Issue, Delete
    <2>3. ASSUME NEW q \in Tab,
                 \/ (\E u \in User : SignIn(q, u)) \/ (\E s \in Session : Create(q, s))
                 \/ (\E m \in Factor : AddMethod(q, m))
          PROVE  FALSE
      BY ZenonT(60), <1>0, <2>3 DEF SignIn, Create, AddMethod
    <2>4. ASSUME \/ (\E h \in Challenge : Expire(h))
                 \/ (\E u \in User : Withdraw(u) \/ \E m \in Factor : Enrol(u, m))
                 \/ UNCHANGED vars
          PROVE  FALSE
      BY <1>0, <2>4 DEF Expire, Withdraw, Enrol, vars
    <2>5. PICK q \in Tab : Decide(q)
      BY <1>0, <2>1, <2>2, <2>3, <2>4 DEF Next
    <2>6. q = t
      BY <1>0, <2>5, Decides
    <2> QED
      BY <2>5, <2>6
  <1>2. Goes(t) /\ ~AskFactor(t) /\ ~AskConsent(t)
    BY <1>1 DEF IInv, TypeOK, Decide, Interact, Goto, Answer
  <1> QED
    BY <1>1, <1>2, Decides DEF IInv, Goes, AskSignIn

\* A code answers the request it is issued for: its person, its level, and a
\* sign-in of its own if it wants one.  (authorize, with _resumed,
\* _signed_in_for and outstanding)
THEOREM CodesAnswerTheorem == Spec => CodesAnswerTheirRequest
  <1> DEFINE ItsRequest == \A t \in Tab :
         pc[t] = "decide" /\ pc'[t] = "issue" =>
            LET p == params[t]  l == login[t] IN
            /\ p.hint # None => l.user = p.hint
            /\ p.fresh => l.at > opened[t]
            /\ Meets(DeriveAcr(l.amr), p.level)
  <1>1. ASSUME IInv, [Next]_vars, NEW t \in Tab, pc[t] = "decide", pc'[t] = "issue"
        PROVE  /\ params[t].hint # None => login[t].user = params[t].hint
               /\ params[t].fresh => login[t].at > opened[t]
               /\ Meets(DeriveAcr(login[t].amr), params[t].level)
    <2>1. Goes(t) /\ ~AskFactor(t) /\ login[t] # None /\ params[t] \in Asks
      BY <1>1, IssueNeeds
    <2>2. /\ login[t].user \in User /\ login[t].amr \subseteq Method /\ login[t].at \in Time
          /\ pending[t] # None => pending[t].created \in Time
          /\ opened[t] \in Time /\ params[t].level \in 0..3
      BY <1>1, <2>1, InHand DEF IInv, TypeOK, Params
    <2>3. ~Mismatch(t) /\ (params[t].fresh => SignedInFor(t))
      BY <2>1 DEF Goes, Fails, AskSignIn
    <2>4. params[t].fresh => login[t].at > opened[t]
      <3>1. pending[t] # None => opened[t] < pending[t].created
        BY <1>1 DEF IInv, InOrder, Fits
      <3> QED
        BY <2>2, <2>3, <3>1 DEF SignedInFor, Time
    <2>5. Meets(DeriveAcr(login[t].amr), params[t].level)
      <3>1. Outstanding(login[t].amr, Enrolled(login[t].user), params[t].level) = {}
        BY <2>1 DEF AskFactor
      <3>2. \/ Meets(DeriveAcr(login[t].amr), params[t].level)
            \/ Meets(DeriveAcr(Enrolled(login[t].user)), params[t].level)
        BY <2>1 DEF Goes, Fails
      <3>3. Enrolled(login[t].user) \subseteq Method
        BY <1>1, <2>2 DEF IInv, TypeOK, Enrolled, Method
      <3> QED
        BY <2>2, <3>1, <3>2, <3>3, NothingOwed
    <2> QED
      BY <2>3, <2>4, <2>5 DEF Mismatch
  <1>2. IInv /\ [Next]_vars => [ItsRequest]_vars
    BY <1>1
  <1> QED
    BY <1>2, SpecIInv, PTL DEF Spec, CodesAnswerTheirRequest

\* A code carries what its person has agreed to and not withdrawn, and what they
\* have just approved if the client wants to hear it again.  (consent_required,
\* consented_by)
THEOREM CodesConsentedTheorem == Spec => CodesAreConsentedTo
  <1> DEFINE ItsConsent == \A t \in Tab :
         pc[t] = "decide" /\ pc'[t] = "issue" =>
            LET p == params[t]  u == login[t].user IN
            /\ p.consent => <<u, resume[t]>> \in approved
            /\ ~p.trusted => p.scope \subseteq agreed[u]
  <1>1. ASSUME IInv, [Next]_vars, NEW t \in Tab, pc[t] = "decide", pc'[t] = "issue"
        PROVE  /\ params[t].consent => <<login[t].user, resume[t]>> \in approved
               /\ ~params[t].trusted => params[t].scope \subseteq agreed[login[t].user]
    <2>1. /\ login[t] # None
          /\ params[t].consent => ConsentedForThis(t)
          /\ ~Uncovered(t) /\ login[t].user \in User
      BY <1>1, IssueNeeds, InHand DEF IInv, AskConsent
    <2>2. ConsentedForThis(t) => <<login[t].user, resume[t]>> \in approved
      BY <1>1, <2>1 DEF IInv, ConsentedForThis, Approved
    <2>3. ~params[t].trusted => params[t].scope \subseteq agreed[login[t].user]
      BY <1>1, <2>1 DEF IInv, Uncovered, Rows, WithdrawnStaysWithdrawn
    <2> QED
      BY <2>1, <2>2, <2>3
  <1>2. IInv /\ [Next]_vars => [ItsConsent]_vars
    BY <1>1
  <1> QED
    BY <1>2, SpecIInv, PTL DEF Spec, CodesAreConsentedTo
=============================================================================
