-------------------------- MODULE RefreshRotation --------------------------
(***************************************************************************)
(* Refresh tokens: rotation, the replay window, reuse detection and        *)
(* revocation, as several workers run them against one Postgres and one    *)
(* Redis.                                                                  *)
(*                                                                         *)
(* A request is one run of a handler.  Exchanges go through the Redis lock *)
(* rotation_lock, the replay window, and a row lock held from SELECT ...   *)
(* FOR UPDATE to the end of the transaction.  A sweep is one               *)
(*   UPDATE refresh_tokens SET revoked_at = now() WHERE ... revoked_at IS  *)
(*   NULL                                                                  *)
(* over the families it names: the presented token's (reuse detection, an  *)
(* inactive user, the revocation endpoint), or all those of a browser      *)
(* session, a client or a user (sign-out, password reset, disconnecting an *)
(* application, an administrator).  Postgres runs at READ COMMITTED, so a  *)
(* sweep sees the rows committed when it starts, waits for the ones that   *)
(* are locked, and looks at each again before changing it; a row inserted  *)
(* meanwhile it never sees.                                                *)
(*                                                                         *)
(* Rows are keyed by the token itself (the code stores its hash).  Tokens  *)
(* are random, so no two exchanges ever draw the same one.                 *)
(***************************************************************************)
EXTENDS Naturals, FiniteSets

CONSTANTS
    Token,      \* refresh tokens; also the bound on how many are ever issued
    Family,     \* one per redeemed authorization code
    Client,     \* registered applications
    User,       \* accounts
    Request,    \* handler runs in flight at once
    ClientOf,   \* the client a family was issued to
    UserOf,     \* the user a family was issued for
    Remembers,  \* whether iden_refresh_grace_period is positive
    Events,     \* which of AllEvents an instance lets happen
    None,       \* SQL NULL, an absent Redis key
    Orphan,     \* a rotation lock whose holder died
    Ended       \* the abstract head of a family that is over

ASSUME OwnersAssumption ==
    /\ ClientOf \in [Family -> Client]
    /\ UserOf \in [Family -> User]
ASSUME RemembersAssumption == Remembers \in BOOLEAN

\* What happens to the handlers without their doing.
AllEvents == {"crash", "lease", "lapse", "expiry", "activation"}
ASSUME EventsAssumption == Events \subseteq AllEvents

\* What remember_rotation stores: who may collect, and the new refresh token.
Answer == [client : Client, token : Token]

ASSUME NamesAssumption ==
    /\ None \notin Token \cup Family \cup Request \cup Answer
    /\ Orphan \notin Request \cup {None}
    /\ Ended \notin Token \cup {None}

VARIABLES
    \* The refresh_tokens table, as committed.
    family,     \* [Token -> Family \cup {None}]; None: no such row
    live,       \* the rows whose revoked_at is NULL
    successor,  \* [Token -> Token \cup {None}]: rotated_to_id
    expired,    \* the rows whose expires_at has passed
    active,     \* the users whose is_active is set
    rowLock,    \* [Token -> Request \cup {None}]: who holds the row
    \* Redis.
    mutex,      \* [Token -> Request \cup {None, Orphan}]: refresh_lock:<token>
    replay,     \* [Token -> Answer \cup {None}]: refresh_replay:<token>
    \* The handlers' own state, one entry per request.
    pc,         \* the next step
    tok,        \* the token presented, None in a sweep
    by,         \* the client presenting it
    answer,     \* the refresh token of the response, None if it has none
    sweep,      \* what the running UPDATE has to do and has done
    \* History, read by properties and by Present only.
    swept,      \* families a committed sweep named
    clean,      \* those of them in which it met no row changed under it
    excuse,     \* what went wrong for a token, see Excuse
    answered    \* responses that reached a client: <<presented, client, new>>

rows     == <<family, live, successor, expired, active>>
handler  == <<pc, tok, by, answer, sweep>>
history  == <<swept, clean, excuse, answered>>
vars     == <<rows, rowLock, mutex, replay, handler, history>>

Issued == {t \in Token : family[t] # None}
Fresh  == Token \ Issued

\* The exchanges under way that may still succeed, each of which draws a token.
Demand == {tok[r] : r \in Request} \cap live

\* Somebody holds the token: it was the family's first, or a response that
\* carried it arrived.
Known ==
    {t \in Issued : \/ \A u \in Token : successor[u] # t
                    \/ \E a \in answered : a[3] = t}

\* One UPDATE: the families it names, the rows of its snapshot it has yet to look
\* at, the rows it has changed, and the families in which it skipped one.
Update(targets, todo, marked, skipped) ==
    [targets |-> targets, todo |-> todo, marked |-> marked, skipped |-> skipped]

NoSweep == Update({}, {}, {}, {})

\* Why an exchanged token may be presented again with no remembered answer:
\* the window lapsed, a living worker overran its lock's lease, or a worker
\* died between committing the exchange and remembering it.
Excuse == {"lapsed", "stalled", "crashed"}

TypeOK ==
    /\ family \in [Token -> Family \cup {None}]
    /\ live \subseteq Token
    /\ successor \in [Token -> Token \cup {None}]
    /\ expired \subseteq Token
    /\ active \subseteq User
    /\ rowLock \in [Token -> Request \cup {None}]
    /\ mutex \in [Token -> Request \cup {None, Orphan}]
    /\ replay \in [Token -> Answer \cup {None}]
    /\ pc \in [Request -> {"idle", "queued", "replay", "consume", "held", "rotate",
                           "remember", "reply", "sweep", "sweeping", "refused",
                           "rollback"}]
    /\ tok \in [Request -> Token \cup {None}]
    /\ by \in [Request -> Client \cup {None}]
    /\ answer \in [Request -> Token \cup {None}]
    /\ sweep \in [Request -> [targets : SUBSET Family, todo : SUBSET Token,
                              marked : SUBSET Token, skipped : SUBSET Family]]
    /\ swept \subseteq Family
    /\ clean \subseteq swept
    /\ excuse \in [Token -> SUBSET Excuse]
    /\ answered \subseteq Token \X Client \X Token

Init ==
    /\ family = [t \in Token |-> None]
    /\ live = {}
    /\ successor = [t \in Token |-> None]
    /\ expired = {}
    /\ active = User
    /\ rowLock = [t \in Token |-> None]
    /\ mutex = [t \in Token |-> None]
    /\ replay = [t \in Token |-> None]
    /\ pc = [r \in Request |-> "idle"]
    /\ tok = [r \in Request |-> None]
    /\ by = [r \in Request |-> None]
    /\ answer = [r \in Request |-> None]
    /\ sweep = [r \in Request |-> NoSweep]
    /\ swept = {}
    /\ clean = {}
    /\ excuse = [t \in Token |-> {}]
    /\ answered = {}

-----------------------------------------------------------------------------
(* Small steps shared by the handlers.                                     *)

Goto(r, label) == pc' = [pc EXCEPT ![r] = label]

\* The end of r's transaction: every row it locked is free again.
Unlocked(r) == [t \in Token |-> IF rowLock[t] = r THEN None ELSE rowLock[t]]

\* The end of the handler; its locals are gone.
Finish(r) ==
    /\ Goto(r, "idle")
    /\ tok' = [tok EXCEPT ![r] = None]
    /\ by' = [by EXCEPT ![r] = None]
    /\ answer' = [answer EXCEPT ![r] = None]
    /\ sweep' = [sweep EXCEPT ![r] = NoSweep]

StartSweep(r, fs) ==
    /\ Goto(r, "sweep")
    /\ sweep' = [sweep EXCEPT ![r] = Update(fs, {}, {}, {})]

\* The lock is released in a finally, if the lease still holds.
ReleaseMutex(r) ==
    mutex' = IF mutex[tok[r]] = r THEN [mutex EXCEPT ![tok[r]] = None] ELSE mutex

-----------------------------------------------------------------------------
(* The conditions the handlers test.  Each stands after the mistake it is    *)
(* easily mistaken for; the runs show which property notices.                *)

\* Without the lock around the replay check and the rotation.
NoRotationLock(t) == TRUE

MutexFree(t) == mutex[t] = None

\* Without with_for_update: the row is read whoever is changing it.
NoRowLock(r, t) == TRUE

\* A locked row makes every other transaction that wants it wait.
RowFree(r, t) == rowLock[t] \in {None, r}

\* Without revoked_at: only a rotated row counts as used.
OnlyRotated(t) == successor[t] # None

\* revoked_at or rotated_to_id is set; rotation sets both.
Used(t) == t \notin live

\* Without comparing the client the answer was given to.
AnybodyCollects(t, c) == replay[t] # None

\* There is a remembered answer and it was this client's.
Collects(t, c) == IF replay[t] = None THEN FALSE ELSE replay[t].client = c

-----------------------------------------------------------------------------
(* Issuing: the authorization-code grant, for a client allowed to refresh. *)

Redeem(f, t) ==
    /\ f \notin {family[u] : u \in Token}
    /\ t \in Fresh
    /\ Cardinality(Demand) < Cardinality(Fresh)
    /\ UserOf[f] \in active
    /\ family' = [family EXCEPT ![t] = f]
    /\ live' = live \cup {t}
    /\ UNCHANGED <<successor, expired, active, rowLock, mutex, replay, handler, history>>

-----------------------------------------------------------------------------
(* The refresh grant.                                                      *)

\* A client presents a token somebody holds.  The second conjunct is the bound:
\* every exchange in flight that may succeed can still draw a fresh token.
Present(r, t, c) ==
    /\ pc[r] = "idle"
    /\ Cardinality((Demand \cup {t}) \cap live) <= Cardinality(Fresh)
    /\ t \in Known
    /\ Goto(r, "queued")
    /\ tok' = [tok EXCEPT ![r] = t]
    /\ by' = [by EXCEPT ![r] = c]
    /\ UNCHANGED <<rows, rowLock, mutex, replay, answer, sweep, history>>

AcquireMutex(r) ==
    /\ pc[r] = "queued"
    /\ MutexFree(tok[r])
    /\ mutex' = [mutex EXCEPT ![tok[r]] = r]
    /\ Goto(r, "replay")
    /\ UNCHANGED <<rows, rowLock, replay, tok, by, answer, sweep, history>>

\* The library's default: no blocking_timeout, and the caller waits on.
WaitForever(r) == FALSE

\* blocking_timeout: the caller stops waiting and is refused.
GiveUp(r) ==
    /\ pc[r] = "queued"
    /\ mutex[tok[r]] # None
    /\ Finish(r)
    /\ UNCHANGED <<rows, rowLock, mutex, replay, history>>

\* Only the client that made the exchange collects the remembered answer.
ReplayedRotation(r) ==
    /\ pc[r] = "replay"
    /\ IF Collects(tok[r], by[r])
         THEN /\ answer' = [answer EXCEPT ![r] = replay[tok[r]].token]
              /\ Goto(r, "reply")
         ELSE /\ UNCHANGED answer
              /\ Goto(r, "consume")
    /\ UNCHANGED <<rows, rowLock, mutex, replay, tok, by, sweep, history>>

\* SELECT ... FOR UPDATE, then the checks on the row it returns: reuse first,
\* then expiry, then the client.
ConsumeRefreshToken(r) ==
    LET t == tok[r] IN
    /\ pc[r] = "consume"
    /\ RowFree(r, t)
    /\ rowLock' = [rowLock EXCEPT ![t] = r]
    /\ \/ /\ Used(t)
          /\ StartSweep(r, {family[t]})
       \/ /\ ~Used(t)
          /\ t \in expired \/ ClientOf[family[t]] # by[r]
          /\ Goto(r, "refused")
          /\ UNCHANGED sweep
       \/ /\ ~Used(t) /\ t \notin expired
          /\ ClientOf[family[t]] = by[r]
          /\ Goto(r, "held")
          /\ UNCHANGED sweep
    /\ UNCHANGED <<rows, mutex, replay, tok, by, answer, history>>

\* A statement of its own: the user row is read, not locked.
CheckUser(r) ==
    /\ pc[r] = "held"
    /\ IF UserOf[family[tok[r]]] \in active
         THEN Goto(r, "rotate") /\ UNCHANGED sweep
         ELSE StartSweep(r, {family[tok[r]]})
    /\ UNCHANGED <<rows, rowLock, mutex, replay, tok, by, answer, history>>

\* The commit that makes the exchange visible: the new row, and the old one
\* rotated and revoked.
Rotate(r, u) ==
    LET t == tok[r] IN
    /\ pc[r] = "rotate"
    /\ u \in Fresh
    /\ family' = [family EXCEPT ![u] = family[t]]
    /\ live' = (live \ {t}) \cup {u}
    /\ successor' = [successor EXCEPT ![t] = u]
    /\ rowLock' = Unlocked(r)
    /\ answer' = [answer EXCEPT ![r] = u]
    /\ Goto(r, IF Remembers THEN "remember" ELSE "reply")
    /\ UNCHANGED <<expired, active, mutex, replay, tok, by, sweep, history>>

\* Remembering the request before its answer was made.
RememberTooSoon(r) ==
    /\ pc[r] = "replay"
    /\ replay' = [replay EXCEPT ![tok[r]] = [client |-> by[r], token |-> answer[r]]]
    /\ Goto(r, "consume")
    /\ UNCHANGED <<rows, rowLock, mutex, tok, by, answer, sweep, history>>

RememberRotation(r) ==
    /\ pc[r] = "remember"
    /\ replay' = [replay EXCEPT ![tok[r]] = [client |-> by[r], token |-> answer[r]]]
    /\ Goto(r, "reply")
    /\ UNCHANGED <<rows, rowLock, mutex, tok, by, answer, sweep, history>>

\* Leaving the lock.  If its lease ran out, releasing it raises and the client
\* gets an error in place of the tokens.
Reply(r) ==
    /\ pc[r] = "reply"
    /\ answered' = IF mutex[tok[r]] = r
                     THEN answered \cup {<<tok[r], by[r], answer[r]>>}
                     ELSE answered
    /\ ReleaseMutex(r)
    /\ Finish(r)
    /\ UNCHANGED <<rows, rowLock, replay, swept, clean, excuse>>

\* InvalidGrant leaves the lock first; the transaction is rolled back when the
\* request's database session closes.
Refuse(r) ==
    /\ pc[r] = "refused"
    /\ ReleaseMutex(r)
    /\ Goto(r, "rollback")
    /\ UNCHANGED <<rows, rowLock, replay, tok, by, answer, sweep, history>>

Rollback(r) ==
    /\ pc[r] = "rollback"
    /\ rowLock' = Unlocked(r)
    /\ Finish(r)
    /\ UNCHANGED <<rows, mutex, replay, history>>

-----------------------------------------------------------------------------
(* Revocation.                                                             *)

\* A handler other than the refresh grant revokes these families' tokens.
Revoke(r, fs) ==
    /\ pc[r] = "idle"
    /\ StartSweep(r, fs)
    /\ UNCHANGED <<rows, rowLock, mutex, replay, tok, by, answer, history>>

\* The statement starts: these are the rows it will ever look at.
TakeSnapshot(r) ==
    LET targets == {f \in sweep[r].targets : \E t \in Token : family[t] = f}
        todo == {t \in live : family[t] \in targets}
    IN
    /\ pc[r] = "sweep"
    /\ sweep' = [sweep EXCEPT ![r] = Update(targets, todo, {}, {})]
    /\ Goto(r, "sweeping")
    /\ UNCHANGED <<rows, rowLock, mutex, replay, tok, by, answer, history>>

\* One row of the snapshot, once nobody else holds it: revoked if revoked_at is
\* still NULL, skipped if whoever held it got there first.
SweepRow(r, t) ==
    /\ pc[r] = "sweeping"
    /\ t \in sweep[r].todo
    /\ RowFree(r, t)
    /\ LET s == sweep[r] IN
       IF t \in live
         THEN /\ rowLock' = [rowLock EXCEPT ![t] = r]
              /\ sweep' = [sweep EXCEPT ![r] =
                    Update(s.targets, s.todo \ {t}, s.marked \cup {t}, s.skipped)]
         ELSE /\ UNCHANGED rowLock
              /\ sweep' = [sweep EXCEPT ![r] =
                    Update(s.targets, s.todo \ {t}, s.marked, s.skipped \cup {family[t]})]
    /\ UNCHANGED <<rows, mutex, replay, pc, tok, by, answer, history>>

\* The sweeping transaction commits.  An exchange goes on to refuse its client.
CommitSweep(r) ==
    /\ pc[r] = "sweeping"
    /\ sweep[r].todo = {}
    /\ live' = live \ sweep[r].marked
    /\ rowLock' = Unlocked(r)
    /\ swept' = swept \cup sweep[r].targets
    /\ clean' = clean \cup (sweep[r].targets \ sweep[r].skipped)
    /\ IF tok[r] = None
         THEN Finish(r)
         ELSE /\ Goto(r, "refused")
              /\ sweep' = [sweep EXCEPT ![r] = NoSweep]
              /\ UNCHANGED <<tok, by, answer>>
    /\ UNCHANGED <<family, successor, expired, active, mutex, replay, excuse, answered>>

\* The rows r waits for because somebody else holds them.  An UPDATE visits its
\* rows in the order of its plan, so any that is left may be the next.
WaitsFor(r) ==
    LET wanted == CASE pc[r] = "consume" -> {tok[r]}
                    [] pc[r] = "sweeping" -> sweep[r].todo
                    [] OTHER -> {}
    IN {t \in wanted : ~RowFree(r, t)}

\* Requests in a ring, each waiting for a row that the next one holds; r is one of
\* them, or stands before one of them in the queue for its row.
Deadlocked(r) ==
    \E ring \in SUBSET Request : \E want \in [ring -> Token] :
        /\ \A q \in ring : want[q] \in WaitsFor(q) /\ rowLock[want[q]] \in ring
        /\ \A p, q \in ring : p # q => rowLock[want[p]] # rowLock[want[q]]
        /\ \E q \in ring : want[q] \in WaitsFor(r)

\* Without deadlock_timeout: a statement waits for its row whatever happens.
Unnoticed(r) == FALSE

\* Nothing in the code orders the rows two sweeps take.  Postgres notices the ring
\* and aborts a transaction, whose rows are free at once; the statement raises, an
\* exchange leaves its rotation lock on the way out, and nothing of it remains.
DeadlockAbort(r) ==
    /\ Deadlocked(r)
    /\ rowLock' = Unlocked(r)
    /\ IF tok[r] = None
         THEN Finish(r)
         ELSE /\ Goto(r, "refused")
              /\ sweep' = [sweep EXCEPT ![r] = NoSweep]
              /\ UNCHANGED <<tok, by, answer>>
    /\ UNCHANGED <<rows, mutex, replay, history>>

-----------------------------------------------------------------------------
(* Failure, time, and the rest of the provider.                            *)

HoldsMutex(r, t) == tok[r] = t /\ mutex[t] = r

\* The worker dies.  Postgres rolls its transaction back; its Redis lock stays
\* until the lease runs out.
Crash(r) ==
    /\ "crash" \in Events
    /\ pc[r] # "idle"
    /\ rowLock' = Unlocked(r)
    /\ mutex' = [t \in Token |-> IF mutex[t] = r THEN Orphan ELSE mutex[t]]
    /\ excuse' = IF pc[r] = "remember"
                   THEN [excuse EXCEPT ![tok[r]] = @ \cup {"crashed"}]
                   ELSE excuse
    /\ Finish(r)
    /\ UNCHANGED <<rows, replay, swept, clean, answered>>

\* The lease of the rotation lock runs out, on a dead holder or on a slow one.
LeaseExpires(t) ==
    /\ "lease" \in Events
    /\ mutex[t] # None
    /\ mutex' = [mutex EXCEPT ![t] = None]
    /\ excuse' = IF mutex[t] = Orphan
                   THEN excuse
                   ELSE [excuse EXCEPT ![t] = @ \cup {"stalled"}]
    /\ UNCHANGED <<rows, rowLock, replay, handler, swept, clean, answered>>

\* The remembered answer's TTL runs out.
ReplayExpires(t) ==
    /\ "lapse" \in Events
    /\ replay[t] # None
    /\ replay' = [replay EXCEPT ![t] = None]
    /\ excuse' = [excuse EXCEPT ![t] = @ \cup {"lapsed"}]
    /\ UNCHANGED <<rows, rowLock, mutex, handler, swept, clean, answered>>

TokenExpires(t) ==
    /\ "expiry" \in Events
    /\ t \in Issued \ expired
    /\ expired' = expired \cup {t}
    /\ UNCHANGED <<family, live, successor, active, rowLock, mutex, replay, handler, history>>

\* An administrator deactivates or reactivates an account.  The sweep that goes
\* with it is a Revoke.
SetActive(u) ==
    /\ "activation" \in Events
    /\ active' = IF u \in active THEN active \ {u} ELSE active \cup {u}
    /\ UNCHANGED <<family, live, successor, expired, rowLock, mutex, replay, handler, history>>

-----------------------------------------------------------------------------

\* What a handler does once it has started, and needs nobody's leave to do.
Step(r) ==
    \/ AcquireMutex(r) \/ GiveUp(r) \/ ReplayedRotation(r)
    \/ ConsumeRefreshToken(r) \/ CheckUser(r)
    \/ \E u \in Token : Rotate(r, u)
    \/ RememberRotation(r) \/ Reply(r) \/ Refuse(r) \/ Rollback(r)
    \/ TakeSnapshot(r) \/ CommitSweep(r) \/ DeadlockAbort(r)
    \/ \E t \in Token : SweepRow(r, t)

Next ==
    \/ \E f \in Family, t \in Token : Redeem(f, t)
    \/ \E r \in Request, t \in Token, c \in Client : Present(r, t, c)
    \/ \E r \in Request, fs \in (SUBSET Family) \ {{}} : Revoke(r, fs)
    \/ \E r \in Request : Step(r) \/ Crash(r)
    \/ \E t \in Token : LeaseExpires(t) \/ ReplayExpires(t) \/ TokenExpires(t)
    \/ \E u \in User : SetActive(u)

Spec == Init /\ [][Next]_vars

\* The event loop runs every coroutine it can, a waiter for the rotation lock
\* gives up after blocking_timeout, and Postgres serves the waiters of a row in
\* the order they came and breaks every ring of them.
Fairness ==
    \A r \in Request :
        /\ WF_vars(Step(r))
        /\ SF_vars(ConsumeRefreshToken(r))
        /\ \A t \in Token : SF_vars(SweepRow(r, t))

FairSpec == Spec /\ Fairness

-----------------------------------------------------------------------------
(* Properties.                                                             *)

\* At most one token of a family can be exchanged, however many workers rotate,
\* revoke and die at once (with_for_update in consume_refresh_token).
AtMostOneLive ==
    \A t, u \in live : family[t] = family[u] => t = u

\* Two answers to one refresh token are the same answer: honest retries and
\* concurrent tabs never split a family in two (replayed_rotation).
OneAnswerPerToken ==
    \A a, b \in answered : a[1] = b[1] => a[3] = b[3]

\* A client only ever receives tokens issued to it, whether they were minted for
\* the request or remembered from an earlier one.
OnlyOwnTokens ==
    \A a \in answered : ClientOf[family[a[3]]] = a[2]

\* A sweep that found every row of a family as its snapshot had it ends the
\* family for good: no exchange under way, queued or later brings it back.
CleanSweepIsFinal ==
    \A t \in live : family[t] \notin clean

\* The presented token was exchanged by this very client and it asks again.
RepeatsOwnExchange(r) ==
    /\ pc[r] = "sweep"
    /\ tok[r] # None
    /\ successor[tok[r]] # None
    /\ ClientOf[family[tok[r]]] = by[r]

\* Presenting a token twice is taken for theft only once its answer is no longer
\* remembered, or if a worker died or overran the lease of rotation_lock.
ReuseMeansTheft ==
    \A r \in Request :
        RepeatsOwnExchange(r) => excuse[tok[r]] # {} \/ ~Remembers

\* rotation_lock: if a worker dies mid-exchange, the next caller "should get on
\* with it rather than inherit the outage".
NextCallerGetsOnWithIt ==
    \A r \in Request :
        RepeatsOwnExchange(r) => excuse[tok[r]] \cap {"lapsed", "stalled"} # {}

\* "Refresh token reuse detected; the token family has been revoked.": once a
\* sweep naming a family has committed, none of its tokens works.
SweptFamilyIsDead ==
    \A t \in live : family[t] \notin swept

\* Every request is answered, if only with an error: neither the rotation lock, nor
\* the row locks taken under it, nor sweeps that take the rows of several families
\* in opposite orders leave anybody waiting forever.
EveryRequestEnds ==
    \A r \in Request : pc[r] # "idle" ~> pc[r] = "idle"

-----------------------------------------------------------------------------
(* The abstract view: a family's head is its one live token.               *)

LiveIn(f) == {t \in live : family[t] = f}

head ==
    [f \in Family |->
        IF LiveIn(f) # {} THEN CHOOSE t \in Token : t \in LiveIn(f)
        ELSE IF \E t \in Token : family[t] = f THEN Ended ELSE None]

Lineage == INSTANCE TokenLineage WITH head <- head, used <- Issued

\* Rotation under locks, replays, sweeps and crashes implements the line of
\* succession that TokenLineage promises.
ImplementsLineage == Lineage!Spec
=============================================================================
