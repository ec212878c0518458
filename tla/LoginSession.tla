---------------------------- MODULE LoginSession ----------------------------
(***************************************************************************)
(* Browser sign-ins, as the handlers keep them in Redis.                   *)
(*                                                                         *)
(* Three keys with lives of their own: the session, the set of clients it  *)
(* reached, and the index of its user's sessions.  Redis runs one command  *)
(* at a time and every command is awaited, so handlers interleave between  *)
(* any two of them; none takes a lock.  A handler is the sequence of steps *)
(* it has left, most of them one Redis command, and a call puts the        *)
(* callee's steps in front.                                                *)
(*                                                                         *)
(* A tick of the clock is hours.  last_seen_at is finer than that: whether *)
(* SEEN_RESOLUTION has passed since the last save is left open.            *)
(***************************************************************************)
EXTENDS Naturals, Sequences, FiniteSets

CONSTANTS
    Session,    \* session ids; also the bound on how many are created
    User,
    Client,
    Request,    \* handler runs in flight at once
    Pwd,        \* the first factor
    Factor,     \* the others
    Ttl,        \* iden_session_ttl, in ticks
    MaxAge,     \* iden_session_max_age, in ticks
    Horizon,    \* the bound on the clock
    Handlers,   \* which of AllHandlers an instance lets run
    Slow,       \* whether a handler can take longer than a tick
    Obeys,      \* whether a cookie is dropped when its Max-Age has passed, as a
                \* browser does and somebody who copied it need not
    None        \* an absent key, cookie, session or argument

ASSUME LimitsAssumption ==
    /\ Ttl \in Nat \ {0}
    /\ MaxAge \in Nat
    /\ Horizon \in Nat

Time     == 0..Horizon
Never    == Horizon + Ttl + 1      \* the deadline of a key without a TTL
Deadline == 0..Never
Method   == {Pwd} \cup Factor

AllHandlers == {"login", "authorize", "stepup", "logout", "revoke", "list", "endall"}
ASSUME HandlersAssumption == Handlers \subseteq AllHandlers
ASSUME SwitchesAssumption == Slow \in BOOLEAN /\ Obeys \in BOOLEAN

ASSUME NamesAssumption ==
    /\ Pwd \notin Factor
    /\ None \notin Session \cup User \cup Client \cup Method
    /\ None \notin [user : User, amr : SUBSET Method, since : Time]
    /\ None \notin [user : User, amr : SUBSET Method, since : Time, until : Deadline]

VARIABLES
    now,
    \* Redis.
    store,      \* session:<hash>, the parsed payload and its deadline, or None
    clients,    \* session_clients:<hash>, a Redis set per session
    index,      \* user_sessions:<id>, a Redis set per user
    cookie,     \* the browsers' side: iden_session's deadline, 0 if never set
    \* The handlers, one entry per request.
    todo,       \* the steps left, <<>> when idle
    sid,        \* the session in hand: the cookie's, the path's, or a new one
    login,      \* the Session object last read, or None
    who,        \* the user signing in or acting
    arg,        \* the client asking, the factor verified, or the session to keep
    names,      \* the clients to notify
    found,      \* list_for_user: live sessions still to end
    missing,    \* list_for_user: keys that were gone, still to unlist
    stale,      \* list_for_user: outlived sessions, still to delete
    \* History, read by properties only.
    performed,  \* [Session -> SUBSET (Method \X Time)]: who proved what, when
    broken,     \* sessions whose key has been deleted or has expired
    ended,      \* those that a sign-out deleted
    revived,    \* those of them that a request had in hand at that moment
    lapsed,     \* sessions that were in an index when it expired
    owed,       \* <<session, client>>: a code was issued, no logout token sent
    excused,    \* those of them nobody could have told, see AddClient
    due         \* what an end_all_sessions under way ought to end

redis   == <<store, clients, index>>
locals  == <<sid, login, who, arg, names, found, missing, stale>>
history == <<performed, broken, ended, revived, lapsed, owed, excused, due>>
vars    == <<now, redis, cookie, todo, locals, history>>

Held   == [user : User, amr : SUBSET Method, since : Time]
Stored == [user : User, amr : SUBSET Method, since : Time, until : Deadline]
RedisSet(S) == [members : SUBSET S, until : Deadline]

Steps == {"get", "touch", "seen", "forget", "signedin", "code", "addclient",
          "clientsttl", "addmethod", "login", "reauth", "new", "save", "sadd", "indexttl",
          "clients", "notify", "del", "srem", "check", "purge", "retire", "unlist",
          "list", "mget", "tidy", "endnext", "done"}

TypeOK ==
    /\ now \in Time
    /\ store \in [Session -> Stored \cup {None}]
    /\ clients \in [Session -> RedisSet(Client)]
    /\ index \in [User -> RedisSet(Session)]
    /\ cookie \in [Session -> Deadline]
    /\ todo \in [Request -> Seq(Steps)]
    /\ sid \in [Request -> Session \cup {None}]
    /\ login \in [Request -> Held \cup {None}]
    /\ who \in [Request -> User \cup {None}]
    /\ arg \in [Request -> Client \cup Factor \cup Session \cup {None}]
    /\ names \in [Request -> SUBSET Client]
    /\ found \in [Request -> SUBSET Session]
    /\ missing \in [Request -> SUBSET Session]
    /\ stale \in [Request -> SUBSET Session]
    /\ performed \in [Session -> SUBSET (Method \X Time)]
    /\ ended \subseteq broken /\ broken \subseteq Session
    /\ revived \subseteq ended
    /\ lapsed \subseteq Session
    /\ owed \subseteq Session \X Client
    /\ excused \subseteq Session \X Client
    /\ due \in [Request -> SUBSET Session]

NoKey == [members |-> {}, until |-> Never]

Init ==
    /\ now = 0
    /\ store = [s \in Session |-> None]
    /\ clients = [s \in Session |-> NoKey]
    /\ index = [u \in User |-> NoKey]
    /\ cookie = [s \in Session |-> 0]
    /\ todo = [r \in Request |-> <<>>]
    /\ sid = [r \in Request |-> None]
    /\ login = [r \in Request |-> None]
    /\ who = [r \in Request |-> None]
    /\ arg = [r \in Request |-> None]
    /\ names = [r \in Request |-> {}]
    /\ found = [r \in Request |-> {}]
    /\ missing = [r \in Request |-> {}]
    /\ stale = [r \in Request |-> {}]
    /\ performed = [s \in Session |-> {}]
    /\ broken = {}
    /\ ended = {}
    /\ revived = {}
    /\ lapsed = {}
    /\ owed = {}
    /\ excused = {}
    /\ due = [r \in Request |-> {}]

-----------------------------------------------------------------------------
(* Redis commands.                                                         *)

\* SADD keeps the deadline of a key it finds; SREM of the last member deletes it.
Added(key, x)   == [members |-> key.members \cup {x}, until |-> key.until]
Removed(key, x) == IF key.members \subseteq {x} THEN NoKey
                   ELSE [members |-> key.members \ {x}, until |-> key.until]

\* Adding a TTL to what is left of the last.
AddedUp(key) == [members |-> key.members, until |-> key.until + Ttl]

\* EXPIRE does nothing to a key that is not there.
Extended(key) == IF key.members = {} THEN key
                 ELSE [members |-> key.members, until |-> now + Ttl]

\* _save: SET replaces the whole payload and starts the TTL again, whether or not
\* the key is still there.
Save(r, s, obj) ==
    /\ store' = [store EXCEPT ![s] = [user |-> obj.user, amr |-> obj.amr,
                                      since |-> obj.since, until |-> now + Ttl]]
    /\ login' = [login EXCEPT ![r] = obj]

\* _outlived
Outlived(session) == now - session.since > MaxAge

-----------------------------------------------------------------------------
(* Steps.                                                                  *)

At(r, step)      == todo[r] # <<>> /\ Head(todo[r]) = step
Pending(r, step) == \E i \in DOMAIN todo[r] : todo[r][i] = step

Continue(r)      == todo' = [todo EXCEPT ![r] = Tail(@)]
Call(r, steps)   == todo' = [todo EXCEPT ![r] = steps \o Tail(@)]
Return(r)        == todo' = [todo EXCEPT ![r] = <<"done">>]

\* What the functions of session_store and logout do, command by command.
GetSession       == <<"get", "touch">>
DeleteByPublicId == <<"check", "purge", "unlist">>
Delete           == GetSession \o <<"del", "srem">>

\* The index first: a listing in between finds no session behind the entry.
IndexFirst == <<"new", "sadd", "save", "indexttl">>

CreateSession == <<"new", "save", "sadd", "indexttl">>

\* Deleting first, reading what the session reached afterwards.
DeleteFirst == Delete \o <<"clients", "notify">>

\* "In that order because the record of which applications it reached lives with
\* the session."
EndSession == <<"clients", "notify">> \o Delete

Start(r, steps, s, u, a) ==
    /\ todo[r] = <<>>
    /\ todo' = [todo EXCEPT ![r] = steps \o <<"done">>]
    /\ sid' = [sid EXCEPT ![r] = s]
    /\ who' = [who EXCEPT ![r] = u]
    /\ arg' = [arg EXCEPT ![r] = a]
    /\ UNCHANGED <<now, redis, cookie, login, names, found, missing, stale, history>>

\* The response goes out; somebody who signed in gets the cookie with it.
Done(r) ==
    /\ At(r, "done")
    /\ todo' = [todo EXCEPT ![r] = <<>>]
    /\ sid' = [sid EXCEPT ![r] = None]
    /\ login' = [login EXCEPT ![r] = None]
    /\ who' = [who EXCEPT ![r] = None]
    /\ arg' = [arg EXCEPT ![r] = None]
    /\ names' = [names EXCEPT ![r] = {}]
    /\ found' = [found EXCEPT ![r] = {}]
    /\ due' = [due EXCEPT ![r] = {}]
    /\ cookie' = IF login[r] # None /\ who[r] # None
                   THEN [cookie EXCEPT ![sid[r]] = now + Ttl] ELSE cookie
    /\ UNCHANGED <<now, redis, missing, stale, performed, broken, ended, revived,
                   lapsed, owed, excused>>

(* session_store.get                                                       *)

Get(r) ==
    LET s == sid[r]
        session == [user |-> store[s].user, amr |-> store[s].amr,
                    since |-> store[s].since]
    IN
    /\ At(r, "get")
    /\ \/ /\ store[s] = None
          /\ login' = [login EXCEPT ![r] = None]
          /\ todo' = [todo EXCEPT ![r] = Tail(Tail(@))]
       \/ /\ store[s] # None
          /\ login' = [login EXCEPT ![r] = session]
          /\ IF Outlived(session)
               THEN todo' = [todo EXCEPT ![r] =
                        <<"check", "retire", "unlist", "forget">> \o Tail(Tail(@))]
               ELSE Continue(r)
    /\ UNCHANGED <<now, redis, cookie, sid, who, arg, names, found, missing, stale, history>>

\* An outlived session counts as none.
Forget(r) ==
    /\ At(r, "forget")
    /\ Continue(r)
    /\ login' = [login EXCEPT ![r] = None]
    /\ UNCHANGED <<now, redis, cookie, sid, who, arg, names, found, missing, stale, history>>

\* EXPIRE, and a save to follow if last_seen_at is old enough.
Touch(r) ==
    LET s == sid[r] IN
    /\ At(r, "touch")
    /\ store' = IF store[s] = None THEN store
                ELSE [store EXCEPT ![s].until = now + Ttl]
    /\ Continue(r) \/ Call(r, <<"seen">>)
    /\ UNCHANGED <<now, clients, index, cookie, locals, history>>

SaveSeen(r) ==
    /\ At(r, "seen")
    /\ Continue(r)
    /\ Save(r, sid[r], login[r])
    /\ UNCHANGED <<now, clients, index, cookie, sid, who, arg, names, found, missing, stale,
                   history>>

-----------------------------------------------------------------------------
(* session_store.delete and delete_by_public_id                            *)

\* Some other request that signs s out has read the clients it will tell.
TooLateToTell(r, s) ==
    \E q \in Request \ {r} :
        /\ sid[q] = s
        /\ Pending(q, "notify") \/ Pending(q, "del") \/ Pending(q, "purge")
        /\ ~Pending(q, "clients")

\* The requests that still have s in hand when r deletes it.
InHand(r, s) == {q \in Request \ {r} : sid[q] = s /\ login[q] # None}

\* DEL session:<hash> session_clients:<hash>
DeleteKeys(s) ==
    /\ store' = [store EXCEPT ![s] = None]
    /\ clients' = [clients EXCEPT ![s] = NoKey]
    /\ broken' = broken \cup {s}

\* The DEL of a sign-out.
Del(r) ==
    LET s == sid[r] IN
    /\ At(r, "del") \/ At(r, "purge")
    /\ Continue(r)
    /\ DeleteKeys(s)
    /\ ended' = ended \cup {s}
    /\ revived' = IF InHand(r, s) # {} THEN revived \cup {s} ELSE revived
    /\ UNCHANGED <<now, index, cookie, locals, performed, lapsed, owed, excused, due>>

\* The DEL of an outlived session: nobody is told, as nobody is when one expires.
Retire(r) ==
    LET s == sid[r] IN
    /\ At(r, "retire")
    /\ Continue(r)
    /\ DeleteKeys(s)
    /\ excused' = excused \cup {<<s, c>> : c \in clients[s].members}
    /\ UNCHANGED <<now, index, cookie, locals, performed, ended, revived, lapsed,
                   owed, due>>

\* delete: SREM from the index of whoever get said the session was.
Unindex(r) ==
    /\ At(r, "srem")
    /\ Continue(r)
    /\ index' = IF login[r] = None THEN index
                ELSE [index EXCEPT ![login[r].user] = Removed(@, sid[r])]
    /\ UNCHANGED <<now, store, clients, cookie, locals, history>>

\* delete_by_public_id: whose session it has to be.
Owner(r) == IF login[r] # None THEN login[r].user ELSE who[r]

\* The answer False, which also keeps the caller from telling anybody.
Check(r) ==
    LET key == store[sid[r]] IN
    /\ At(r, "check")
    /\ \/ /\ key # None
          /\ key.user = Owner(r)
          /\ Continue(r)
          /\ UNCHANGED names
       \/ /\ IF key = None THEN TRUE ELSE key.user # Owner(r)
          /\ todo' = [todo EXCEPT ![r] = Tail(Tail(Tail(@)))]
          /\ names' = [names EXCEPT ![r] = {}]
    /\ UNCHANGED <<now, redis, cookie, sid, login, who, arg, found, missing, stale, history>>

Unlist(r) ==
    /\ At(r, "unlist")
    /\ Continue(r)
    /\ index' = [index EXCEPT ![Owner(r)] = Removed(@, sid[r])]
    /\ UNCHANGED <<now, store, clients, cookie, locals, history>>

-----------------------------------------------------------------------------
(* logout.service                                                          *)

ReadClients(r) ==
    /\ At(r, "clients")
    /\ Continue(r)
    /\ names' = [names EXCEPT ![r] = clients[sid[r]].members]
    /\ UNCHANGED <<now, redis, cookie, sid, login, who, arg, found, missing, stale, history>>

\* Every delivery is attempted once, all at the same time.
Notify(r) ==
    /\ At(r, "notify")
    /\ Continue(r)
    /\ owed' = owed \ ({sid[r]} \X names[r])
    /\ UNCHANGED <<now, redis, cookie, locals, performed, broken, ended, revived,
                   lapsed, excused, due>>

-----------------------------------------------------------------------------
(* list_for_user and end_all_sessions                                      *)

\* The sessions whose id a browser has been given, and those of u that work.
Named == {s \in Session : cookie[s] # 0}

SignedIn(u) == {s \in Named : store[s] # None /\ store[s].user = u}

ReadIndex(r) ==
    /\ At(r, "list")
    /\ Continue(r)
    /\ found' = [found EXCEPT ![r] = index[who[r]].members]
    /\ due' = [due EXCEPT ![r] = IF Pending(r, "endnext")
                                   THEN SignedIn(who[r]) \ (broken \cup lapsed \cup {arg[r]})
                                   ELSE {}]
    /\ UNCHANGED <<now, redis, cookie, sid, login, who, arg, names, missing, stale,
                   performed, broken, ended, revived, lapsed, owed, excused>>

ReadSessions(r) ==
    LET absent == {s \in found[r] : store[s] = None}
        old == {s \in found[r] \ absent : Outlived(store[s])}
    IN
    /\ At(r, "mget")
    /\ Continue(r)
    /\ found' = [found EXCEPT ![r] = @ \ (absent \cup old)]
    /\ missing' = [missing EXCEPT ![r] = absent]
    /\ stale' = [stale EXCEPT ![r] = old]
    /\ UNCHANGED <<now, redis, cookie, sid, login, who, arg, names, history>>

\* A key that expired between the index read and now is dropped from the index;
\* a session that outlived its limit is deleted.
Tidy(r) ==
    /\ At(r, "tidy")
    /\ \/ \E s \in missing[r] :
            /\ missing' = [missing EXCEPT ![r] = @ \ {s}]
            /\ index' = [index EXCEPT ![who[r]] = Removed(@, s)]
            /\ UNCHANGED <<todo, sid, stale>>
       \/ \E s \in stale[r] :
            /\ stale' = [stale EXCEPT ![r] = @ \ {s}]
            /\ sid' = [sid EXCEPT ![r] = s]
            /\ todo' = [todo EXCEPT ![r] = <<"check", "retire", "unlist">> \o @]
            /\ UNCHANGED <<missing, index>>
       \/ /\ missing[r] = {} /\ stale[r] = {}
          /\ Continue(r)
          /\ UNCHANGED <<missing, stale, sid, index>>
    /\ UNCHANGED <<now, store, clients, cookie, login, who, arg, names, found, history>>

\* Stopping at the one to keep.
BreaksAtKept(r) == IF arg[r] \in found[r] THEN {} ELSE found[r]

\* The one to keep is passed over.
Left(r) == found[r] \ {arg[r]}

EndNext(r) ==
    LET left == Left(r) IN
    /\ At(r, "endnext")
    /\ IF left = {}
         THEN Continue(r) /\ UNCHANGED <<found, sid>>
         ELSE \E s \in left :
                /\ found' = [found EXCEPT ![r] = left \ {s}]
                /\ sid' = [sid EXCEPT ![r] = s]
                /\ todo' = [todo EXCEPT ![r] = <<"clients", "notify">>
                                                \o DeleteByPublicId \o @]
    /\ UNCHANGED <<now, redis, cookie, login, who, arg, names, missing, stale, history>>

-----------------------------------------------------------------------------
(* authorize, the second factors and the password                          *)

\* 401, or back to the login page.
SignedInOnly(r) ==
    /\ At(r, "signedin")
    /\ IF login[r] = None THEN Return(r) ELSE Continue(r)
    /\ UNCHANGED <<now, redis, cookie, locals, history>>

\* The code is committed, unless the request needs an interaction first.
IssueCode(r) ==
    /\ At(r, "code")
    /\ \/ Return(r) /\ UNCHANGED owed
       \/ Continue(r) /\ owed' = owed \cup {<<sid[r], arg[r]>>}
    /\ UNCHANGED <<now, redis, cookie, locals, performed, broken, ended, revived,
                   lapsed, excused, due>>

\* A client recorded once the session is over, or once whoever ends it has read
\* the list, cannot be told.
AddClient(r) ==
    LET s == sid[r] IN
    /\ At(r, "addclient")
    /\ Continue(r)
    /\ clients' = [clients EXCEPT ![s] = Added(@, arg[r])]
    /\ excused' = IF s \in broken \/ TooLateToTell(r, s)
                    THEN excused \cup {<<s, arg[r]>>} ELSE excused
    /\ UNCHANGED <<now, store, index, cookie, locals, performed, broken, ended,
                   revived, lapsed, owed, due>>

ExtendClients(r) ==
    /\ At(r, "clientsttl")
    /\ Continue(r)
    /\ clients' = [clients EXCEPT ![sid[r]] = Extended(@)]
    /\ UNCHANGED <<now, store, index, cookie, locals, history>>

\* The password, the code or the face was not accepted.
Rejected(r) ==
    /\ At(r, "login") \/ At(r, "addmethod")
    /\ Return(r)
    /\ who' = [who EXCEPT ![r] = None]
    /\ UNCHANGED <<now, redis, cookie, sid, login, arg, names, found, missing, stale,
                   history>>

\* A factor was verified; add_method saves it with whatever get read before.
AddMethod(r) ==
    LET s == sid[r] IN
    /\ At(r, "addmethod")
    /\ Continue(r)
    /\ performed' = [performed EXCEPT ![s] = @ \cup {<<arg[r], now>>}]
    /\ IF arg[r] \in login[r].amr
         THEN UNCHANGED <<store, login>>
         ELSE Save(r, s, [user |-> login[r].user, amr |-> login[r].amr \cup {arg[r]},
                          since |-> login[r].since])
    /\ UNCHANGED <<now, clients, index, cookie, sid, who, arg, names, found, missing, stale,
                   broken, ended, revived, lapsed, owed, excused, due>>

\* The bound on new sessions: every one under way can still draw a fresh id.
Room ==
    Cardinality({q \in Request : Pending(q, "new")})
        < Cardinality({s \in Session : performed[s] = {}})

\* The password is right: the same person signs in again, or a new session
\* begins, after the previous person's has been ended.
SignIn(r) ==
    /\ At(r, "login")
    /\ \/ /\ login[r] = None /\ Room
          /\ Call(r, CreateSession)
       \/ /\ login[r] # None
          /\ login[r].user = who[r]
          /\ Call(r, <<"reauth">>)
       \/ /\ login[r] # None /\ Room
          /\ login[r].user # who[r]
          /\ Call(r, EndSession \o CreateSession)
    /\ UNCHANGED <<now, redis, cookie, locals, history>>

\* With the factors of the sign-in before.
KeepsFactors(r) == login[r].amr \cup {Pwd}

\* reauthenticate starts over with the password alone.
StartsOver(r) == {Pwd}

Reauthenticate(r) ==
    /\ At(r, "reauth")
    /\ Continue(r)
    /\ Save(r, sid[r], [user |-> who[r], amr |-> StartsOver(r), since |-> now])
    /\ performed' = [performed EXCEPT ![sid[r]] = @ \cup {<<Pwd, now>>}]
    /\ UNCHANGED <<now, clients, index, cookie, sid, who, arg, names, found, missing, stale,
                   broken, ended, revived, lapsed, owed, excused, due>>

\* Keeping the id the browser came with.
KeptId(r, s) == IF sid[r] = None THEN performed[s] = {} ELSE s = sid[r]

\* generate_token
NewId(r, s) == performed[s] = {}

\* create, before it saves anything.
NewSession(r) ==
    /\ At(r, "new")
    /\ Continue(r)
    /\ \E s \in Session :
        /\ NewId(r, s)
        /\ sid' = [sid EXCEPT ![r] = s]
        /\ performed' = [performed EXCEPT ![s] = @ \cup {<<Pwd, now>>}]
    /\ login' = [login EXCEPT ![r] = [user |-> who[r], amr |-> {Pwd}, since |-> now]]
    /\ UNCHANGED <<now, redis, cookie, who, arg, names, found, missing, stale,
                   broken, ended, revived, lapsed, owed, excused, due>>

SaveNew(r) ==
    /\ At(r, "save")
    /\ Continue(r)
    /\ Save(r, sid[r], login[r])
    /\ UNCHANGED <<now, clients, index, cookie, sid, who, arg, names, found, missing, stale,
                   history>>

Index(r) ==
    /\ At(r, "sadd")
    /\ Continue(r)
    /\ index' = [index EXCEPT ![who[r]] = Added(@, sid[r])]
    /\ UNCHANGED <<now, store, clients, cookie, locals, history>>

ExtendIndex(r) ==
    /\ At(r, "indexttl")
    /\ Continue(r)
    /\ index' = [index EXCEPT ![who[r]] = Extended(@)]
    /\ UNCHANGED <<now, store, clients, cookie, locals, history>>

-----------------------------------------------------------------------------
(* Requests arrive, and time passes.                                       *)

\* A request can carry this session's cookie.
Presented(s) == cookie[s] # 0 /\ (Obeys => now < cookie[s])

\* POST /login
Login(r, s, u) ==
    /\ "login" \in Handlers
    /\ IF s = None THEN TRUE ELSE Presented(s)
    /\ Start(r, IF s = None THEN <<"login">> ELSE GetSession \o <<"login">>, s, u, None)

\* GET /oauth2/authorize
Authorize(r, s, c) ==
    /\ "authorize" \in Handlers
    /\ Presented(s)
    /\ Start(r, GetSession \o <<"signedin", "code", "addclient", "clientsttl">>,
             s, None, c)

\* POST /login/totp and /login/biometric
StepUp(r, s, f) ==
    /\ "stepup" \in Handlers
    /\ Presented(s)
    /\ Start(r, GetSession \o <<"signedin", "addmethod">>, s, None, f)

\* /oauth2/logout
Logout(r, s) ==
    /\ "logout" \in Handlers
    /\ Presented(s)
    /\ Start(r, GetSession \o <<"signedin">> \o EndSession, s, None, None)

\* DELETE /entity/sessions/{id}, by somebody holding an access token.
RevokeSession(r, s, u) ==
    /\ "revoke" \in Handlers
    /\ s \in Named
    /\ Start(r, <<"clients">> \o DeleteByPublicId \o <<"notify">>, s, u, None)

\* GET /entity/sessions
ListSessions(r, u) ==
    /\ "list" \in Handlers
    /\ Start(r, <<"list", "mget", "tidy">>, None, u, None)

\* A password changed (which may keep one) or reset, an account deactivated,
\* deleted, or its password reset by an administrator.
EndAllSessions(r, u, keep) ==
    /\ "endall" \in Handlers
    /\ keep \in Named \cup {None}
    /\ Start(r, <<"list", "mget", "tidy", "endnext">>, None, u, keep)

\* Keys whose deadline has come are gone.
Lapsed(key) == key.until <= now + 1

Tick ==
    LET over == {s \in Session : IF store[s] = None THEN FALSE ELSE Lapsed(store[s])}
    IN
    /\ now < Horizon
    /\ Slow \/ \A r \in Request : todo[r] = <<>>
    /\ now' = now + 1
    /\ store' = [s \in Session |-> IF s \in over THEN None ELSE store[s]]
    /\ clients' = [s \in Session |-> IF Lapsed(clients[s]) THEN NoKey ELSE clients[s]]
    /\ index' = [u \in User |-> IF Lapsed(index[u]) THEN NoKey ELSE index[u]]
    /\ broken' = broken \cup over
    /\ lapsed' = lapsed \cup UNION {index[u].members : u \in {v \in User : Lapsed(index[v])}}
    /\ excused' = excused \cup {p \in Session \X Client :
                       Lapsed(clients[p[1]]) /\ p[2] \in clients[p[1]].members}
    /\ UNCHANGED <<cookie, todo, locals, performed, ended, revived, owed, due>>

Step(r) ==
    \/ Get(r) \/ Forget(r) \/ Touch(r) \/ SaveSeen(r)
    \/ Del(r) \/ Retire(r) \/ Unindex(r) \/ Check(r) \/ Unlist(r)
    \/ ReadClients(r) \/ Notify(r)
    \/ ReadIndex(r) \/ ReadSessions(r) \/ Tidy(r) \/ EndNext(r)
    \/ SignedInOnly(r) \/ IssueCode(r) \/ AddClient(r) \/ ExtendClients(r)
    \/ Rejected(r) \/ AddMethod(r) \/ SignIn(r) \/ Reauthenticate(r)
    \/ NewSession(r) \/ SaveNew(r) \/ Index(r) \/ ExtendIndex(r)
    \/ Done(r)

Arrive(r) ==
    \/ \E s \in Session \cup {None}, u \in User : Login(r, s, u)
    \/ \E s \in Session, c \in Client : Authorize(r, s, c)
    \/ \E s \in Session, f \in Factor : StepUp(r, s, f)
    \/ \E s \in Session : Logout(r, s)
    \/ \E s \in Session, u \in User : RevokeSession(r, s, u)
    \/ \E u \in User : ListSessions(r, u)
    \/ \E u \in User, keep \in Session \cup {None} : EndAllSessions(r, u, keep)

Next ==
    \/ \E r \in Request : Step(r) \/ Arrive(r)
    \/ Tick

Spec == Init /\ [][Next]_vars

-----------------------------------------------------------------------------
(* Properties.                                                             *)

\* The assurance a session claims was earned: its password was given at the time
\* it says and every factor since then, however requests that read it at
\* different times overwrite each other (reauthenticate, add_method, get).
StoredMethodsWerePerformed ==
    \A s \in Session :
        store[s] # None =>
            /\ <<Pwd, store[s].since>> \in performed[s]
            /\ \A m \in store[s].amr :
                \E t \in Time : t >= store[s].since /\ <<m, t>> \in performed[s]

\* Until a session ends or its user's index expires, the index lists it, so that
\* it can be shown and ended: neither sign-ins nor listings that clean up under
\* way at the same moment lose it (create, list_for_user).
ListedUntilLapse ==
    \A s \in Named \ (broken \cup lapsed) :
        store[s] # None /\ s \in index[store[s].user].members

\* end_all_sessions ends every session its user had when it began, but for the
\* one to keep, whatever else lists, ends or renews them meanwhile.
EndAllEndsAll ==
    \A r \in Request : At(r, "done") => due[r] \subseteq broken

\* A session that was signed out is usable again only if some request had it in
\* hand at that moment (_save is an unconditional SET).
SignedOutStaysOut ==
    \A s \in ended : store[s] # None => s \in revived

\* Nobody is working on the session.
Quiet(s) == \A r \in Request : todo[r] # <<>> => sid[r] # s

\* Once a session has been signed out, every client it issued a code to has been
\* told, unless its record had expired or came too late (end_session).
ReachedClientsAreTold ==
    \A s \in ended, c \in Client :
        Quiet(s) /\ <<s, c>> \in owed => <<s, c>> \in excused

\* "Every use restarts the clock": as long as a session has not been idle for
\* session_ttl, the browser it was given to can use it.
EveryUseRestartsTheClock == \A s \in Named \ broken : cookie[s] > now

\* end_session ends a session "completely".
SessionEndsForGood == \A s \in ended : store[s] = None
=============================================================================
