---------------------------- MODULE KioskShell ----------------------------
(***************************************************************************)
(* What a kiosk shows around the enrolment screen, and why.  Three parts   *)
(* that only know each other's answers: the page (App, useKioskState,      *)
(* Setup, Maintenance), which polls the kiosk server; the server (Device   *)
(* and its heartbeat), which holds the credentials; and IDEN, where        *)
(* kiosks are registered, paired, re-set and revoked.                      *)
(*                                                                         *)
(* A credential is the kiosk it is for and the number of the pairing that  *)
(* made its secret.  A token is the kiosk and the epoch it was issued in.  *)
(* Device saves and forgets its file in the step that sets its field, so   *)
(* the file is the field, and a restart reads it back.                     *)
(***************************************************************************)
EXTENDS Naturals, FiniteSets

CONSTANTS Kiosks,       \* kiosks registered at IDEN
          None,
          Refused,      \* IDEN's 401, or its 404 for a pairing code
          MaxPolls,     \* bound: snapshots on their way at once, no two the same
          MaxPairs,     \* bound: pair() calls at once
          MaxFaults,    \* bound: lost answers, restarts, IDEN's own errors
          MaxChanges    \* bound: what administrators do

\* What IDEN answers: a token, the kiosk's settings.
Token    == Kiosks \X Nat
Settings == [kiosk : Kiosks, service : BOOLEAN]

ASSUME ShellAssumption ==
    /\ Refused # None
    /\ {None, Refused} \cap (Kiosks \cup Token \cup Settings) = {}
    /\ {MaxPolls, MaxPairs, MaxFaults, MaxChanges} \subseteq Nat

VARIABLES
    \* The page.
    seen,       \* state: the last snapshot that landed, or None
    reachable,  \* whether the last poll to land was answered
    maint,      \* "closed", "open" or "pairing"
    polls,      \* snapshots on their way to the page
    pairs,      \* pair() calls: whether this Setup's, whose code, where, the answer
    \* The kiosk server.
    cred,       \* Device.credentials, and the file
    tok,        \* Device._token
    online,     \* Device.online
    config,     \* Device.config: the kiosk it describes and whether in service
    call,       \* where the heartbeat's Device.call waits, and for what
    \* IDEN.
    secret,     \* pairings of each kiosk so far: the number of its secret
    gone,       \* kiosks revoked
    codes,      \* kiosks with a pairing code that still works
    service,    \* kiosks in service
    epoch,      \* tokens of an earlier epoch are refused
    held,       \* history: every credential this device was given
    faults, changes

page == <<seen, reachable, maint, polls, pairs>>
device == <<cred, tok, online, config, call>>
iden == <<secret, gone, codes, service, epoch>>
vars == <<seen, reachable, maint, polls, pairs, cred, tok, online, config,
          call, secret, gone, codes, service, epoch, held, faults, changes>>

Snapshots == {"setup", "starting", "out of order", "out of service", "enrolment"}
Idle == [at |-> "off", try |-> 0, using |-> None, reply |-> None]

\* Device.state(), as the screen App shows for it.
State == IF cred = None THEN "setup"
         ELSE IF online = "unknown" THEN "starting"
         ELSE IF online = "no" THEN "out of order"
         ELSE IF config # None /\ ~config.service THEN "out of service"
         ELSE "enrolment"

Accepted(c) == c[1] \notin gone /\ secret[c[1]] = c[2]
Honoured(t) == t[1] \notin gone /\ epoch[t[1]] = t[2]

Init == /\ seen = None /\ reachable = TRUE /\ maint = "closed"
        /\ polls = {} /\ pairs = {}
        /\ cred = None /\ tok = None /\ online = "unknown" /\ config = None
        /\ call = Idle
        /\ secret = [k \in Kiosks |-> 0] /\ gone = {} /\ codes = Kiosks
        /\ service = Kiosks /\ epoch = [k \in Kiosks |-> 0]
        /\ held = {} /\ faults = 0 /\ changes = 0

Fault == faults < MaxFaults /\ faults' = faults + 1

---------------------------------------------------------------------------
\* The page.

\* What App renders.
ScreenOf(s, r, m) ==
    IF m = "pairing" THEN "setup"
    ELSE IF m = "open" THEN "maintenance"
    ELSE IF ~r \/ s = None THEN "starting"
    ELSE s

Screen == ScreenOf(seen, reachable, maint)

\* React keeps one Setup as long as the screen stays Setup; a call made from a
\* Setup that is gone still calls onPaired, but is nobody's "pending" any more.
Turn(s, r, m, p) ==
    /\ seen' = s /\ reachable' = r /\ maint' = m
    /\ pairs' = IF ScreenOf(s, r, m) = "setup" THEN p
                ELSE {[c EXCEPT !.mine = FALSE] : c \in p}

\* refresh(), from the interval or after a pairing, whether or not earlier ones are
\* answered: the server answers with its state at that moment, and the answers may
\* overtake each other.
Refresh ==
    /\ polls' = polls \cup {State}
    /\ Cardinality(polls') <= MaxPolls

Ask ==
    /\ Refresh
    /\ UNCHANGED <<seen, reachable, maint, pairs, device, iden, held, faults, changes>>

\* Mutant of Land: an answer does not take back that there was none.
LandUnreached(s) ==
    /\ Turn(s, reachable, maint, pairs)
    /\ polls' = polls \ {s}
    /\ UNCHANGED <<device, iden, held, faults, changes>>

Land(s) ==
    /\ Turn(s, TRUE, maint, pairs)
    /\ polls' = polls \ {s}
    /\ UNCHANGED <<device, iden, held, faults, changes>>

PollFails(s) ==
    /\ Fault
    /\ Turn(seen, FALSE, maint, pairs)
    /\ polls' = polls \ {s}
    /\ UNCHANGED <<device, iden, held, changes>>

\* Five seconds' press on the corner, over whatever is on the screen.  A second
\* finger overwrites hold.current and leaves the first one's timer running, so
\* the press need not last.
LongPress ==
    /\ maint # "open"
    /\ Turn(seen, reachable, "open", pairs)
    /\ UNCHANGED <<polls, device, iden, held, faults, changes>>

\* Maintenance's Pair again and Close, and Setup's Cancel.
MaintenanceButton ==
    /\ \/ maint = "open" /\ \E m \in {"pairing", "closed"} : Turn(seen, reachable, m, pairs)
       \/ maint = "pairing" /\ Turn(seen, reachable, "open", pairs)
    /\ UNCHANGED <<polls, device, iden, held, faults, changes>>

\* submit(): the scanner and the keypad are off while this Setup has a call
\* pending.
SubmitCode(k) ==
    /\ Screen = "setup" /\ ~\E c \in pairs : c.mine
    /\ Cardinality(pairs) < MaxPairs
    /\ pairs' = pairs \cup {[mine |-> TRUE, kiosk |-> k, at |-> "iden", reply |-> None]}
    /\ UNCHANGED <<seen, reachable, maint, polls, device, iden, held, faults, changes>>

---------------------------------------------------------------------------
\* Pairing.

\* pairing.consume and kiosks.pair: the code is gone either way, and the new
\* secret replaces the old one.
IdenPairs(c) ==
    /\ c \in pairs /\ c.at = "iden" /\ c.reply = None
    /\ IF c.kiosk \in codes \ gone
       THEN /\ secret' = [secret EXCEPT ![c.kiosk] = @ + 1]
            /\ pairs' = (pairs \ {c}) \cup
                   {[c EXCEPT !.reply = <<c.kiosk, secret[c.kiosk] + 1>>]}
       ELSE /\ pairs' = (pairs \ {c}) \cup {[c EXCEPT !.reply = Refused]}
            /\ UNCHANGED secret
    /\ codes' = codes \ {c.kiosk}
    /\ UNCHANGED <<seen, reachable, maint, polls, device, gone, service, epoch,
                   held, faults, changes>>

\* What comes of c on the way from the kiosk server to the page.
Relayed(c, reply) ==
    pairs' = (pairs \ {c}) \cup {[c EXCEPT !.at = "page", !.reply = reply]}

\* Device.pair resumes: IDEN has answered, and a new secret replaces the old one.
PairResumes(c) ==
    /\ c \in pairs /\ c.at = "iden" /\ c.reply # None
    /\ online' = "yes"
    /\ \/ c.reply = Refused /\ UNCHANGED <<cred, tok, config, held>>
       \/ /\ c.reply # Refused
          /\ cred' = c.reply /\ held' = held \cup {c.reply}
          /\ config' = None /\ tok' = None
    /\ Relayed(c, c.reply)
    /\ UNCHANGED <<seen, reachable, maint, polls, call, iden, faults, changes>>

\* No answer, or an error that says nothing of the code: IDEN may have paired the
\* kiosk all the same.
PairUnanswered(c) ==
    /\ c \in pairs /\ c.at = "iden" /\ Fault
    /\ online' \in {"no", "yes"}
    /\ Relayed(c, Refused)
    /\ UNCHANGED <<seen, reachable, maint, polls, cred, tok, config, call, iden,
                   held, changes>>

\* paired(): maintenance closes and the state is asked for again.
PairLands(c) ==
    /\ c \in pairs /\ c.at = "page" /\ c.reply # Refused
    /\ Turn(seen, reachable, "closed", pairs \ {c})
    /\ Refresh
    /\ UNCHANGED <<device, iden, held, faults, changes>>

\* Setup says what went wrong; the page may also have lost a good answer.
PairFails(c) ==
    /\ c \in pairs /\ c.at = "page"
    /\ \/ c.reply = Refused /\ UNCHANGED faults
       \/ c.reply # Refused /\ Fault
    /\ pairs' = pairs \ {c}
    /\ UNCHANGED <<seen, reachable, maint, polls, device, iden, held, changes>>

---------------------------------------------------------------------------
\* Device.call, as the heartbeat makes it.  A relayed enrolment makes the same
\* calls and stores no settings.

\* _access_token: the cached token, or a request for one, or NotPaired.
Waits(at, try, using) == call' = [at |-> at, try |-> try, using |-> using, reply |-> None]
Sends(try, token) ==
    \/ token # None /\ Waits("call", try, token)
    \/ token = None /\ cred # None /\ Waits("token", try, cred)
    \/ token = None /\ cred = None /\ call' = Idle

\* The heartbeat's wait is over, or cut short by a pairing.
Beat ==
    /\ call = Idle /\ cred # None
    /\ Sends(0, tok)
    /\ UNCHANGED <<page, cred, tok, online, config, iden, held, faults, changes>>

\* The cached token nears its expiry.
TokenLapses ==
    /\ tok # None /\ tok' = None
    /\ UNCHANGED <<page, cred, online, config, call, iden, held, faults, changes>>

\* IDEN answers: a token for a good secret, the settings for a good token, a
\* 401 for either when it is not.
IdenAnswers ==
    /\ call.reply = None
    /\ LET k == call.using[1] IN
       \/ /\ call.at = "token"
          /\ call' = [call EXCEPT !.reply =
                         IF Accepted(call.using) THEN <<k, epoch[k]>> ELSE Refused]
       \/ /\ call.at = "call"
          /\ call' = [call EXCEPT !.reply =
                         IF Honoured(call.using)
                         THEN [kiosk |-> k, service |-> k \in service] ELSE Refused]
    /\ UNCHANGED <<page, cred, tok, online, config, iden, held, faults, changes>>

\* _forget().
Forget == cred' = None /\ config' = None /\ tok' = None /\ call' = Idle

\* Mutant of TokenLands: a refusal ends the heartbeat, not the pairing.
TokenLandsKeeping ==
    /\ call.at = "token" /\ call.reply # None
    /\ online' = "yes"
    /\ \/ call.reply = Refused /\ call' = Idle /\ UNCHANGED <<cred, tok, config>>
       \/ /\ call.reply # Refused
          /\ tok' = call.reply
          /\ Waits("call", call.try, call.reply)
          /\ UNCHANGED <<cred, config>>
    /\ UNCHANGED <<page, iden, held, faults, changes>>

\* The token request resumes.
TokenLands ==
    /\ call.at = "token" /\ call.reply # None
    /\ online' = "yes"
    /\ \/ call.reply = Refused /\ Forget
       \/ /\ call.reply # Refused
          /\ tok' = call.reply
          /\ Waits("call", call.try, call.reply)
          /\ UNCHANGED <<cred, config>>
    /\ UNCHANGED <<page, iden, held, faults, changes>>

\* Mutant of LastTry: one 401 is enough.
EveryTry == TRUE

\* The first 401 drops the token and tries again, the second the pairing too.
LastTry == call.try = 1

\* Mutant of CallLands: the settings are kept once there are any.
CallLandsOnce ==
    /\ call.at = "call" /\ call.reply # None
    /\ online' = "yes"
    /\ \/ /\ call.reply # Refused
          /\ config' = (IF config = None THEN call.reply ELSE config) /\ call' = Idle
          /\ UNCHANGED <<cred, tok>>
       \/ /\ call.reply = Refused /\ ~LastTry
          /\ tok' = None /\ Sends(1, None)
          /\ UNCHANGED <<cred, config>>
       \/ call.reply = Refused /\ LastTry /\ Forget
    /\ UNCHANGED <<page, iden, held, faults, changes>>

\* The request itself resumes; the heartbeat keeps the settings it brought.
CallLands ==
    /\ call.at = "call" /\ call.reply # None
    /\ online' = "yes"
    /\ \/ /\ call.reply # Refused
          /\ config' = call.reply /\ call' = Idle
          /\ UNCHANGED <<cred, tok>>
       \/ /\ call.reply = Refused /\ ~LastTry
          /\ tok' = None /\ Sends(1, None)
          /\ UNCHANGED <<cred, config>>
       \/ call.reply = Refused /\ LastTry /\ Forget
    /\ UNCHANGED <<page, iden, held, faults, changes>>

\* No answer; or an error that is no refusal, which for a token is as bad, and for
\* the request itself is an answer without settings.  Neither costs the pairing.
CallFails ==
    /\ call # Idle /\ Fault
    /\ call' = Idle
    /\ online' \in {"no"} \cup (IF call.at = "call" THEN {"yes"} ELSE {})
    /\ UNCHANGED <<page, cred, tok, config, iden, held, changes>>

\* The kiosk server restarts: what it awaited is lost, on both sides.
Restart ==
    /\ Fault
    /\ tok' = None /\ online' = "unknown" /\ config' = None /\ call' = Idle
    /\ Turn(seen, reachable /\ polls = {}, maint, {})
    /\ polls' = {}
    /\ UNCHANGED <<cred, iden, held, changes>>

---------------------------------------------------------------------------
\* Administrators.

Change == changes < MaxChanges /\ changes' = changes + 1

\* A new code retires the one before.
IssueCode(k) ==
    /\ k \notin gone \cup codes /\ Change
    /\ codes' = codes \cup {k}
    /\ UNCHANGED <<page, device, secret, gone, service, epoch, held, faults>>

\* Another device presents the code.
OtherPairs(k) ==
    /\ k \in codes \ gone /\ Change
    /\ codes' = codes \ {k}
    /\ secret' = [secret EXCEPT ![k] = @ + 1]
    /\ UNCHANGED <<page, device, gone, service, epoch, held, faults>>

Revoke(k) ==
    /\ k \notin gone /\ Change
    /\ gone' = gone \cup {k}
    /\ UNCHANGED <<page, device, secret, codes, service, epoch, held, faults>>

SetService(k) ==
    /\ k \notin gone /\ Change
    /\ service' = (service \ {k}) \cup ({k} \ service)
    /\ UNCHANGED <<page, device, secret, gone, codes, epoch, held, faults>>

\* IDEN no longer honours the tokens it has issued a kiosk (bound: this happens
\* once, and to one of them).
RevokeTokens(k) ==
    /\ \A j \in Kiosks : epoch[j] = 0
    /\ Fault
    /\ epoch' = [epoch EXCEPT ![k] = @ + 1]
    /\ UNCHANGED <<page, device, secret, gone, codes, service, held, changes>>

---------------------------------------------------------------------------
Next == \/ Ask \/ \E s \in polls : Land(s) \/ PollFails(s)
        \/ LongPress \/ MaintenanceButton
        \/ \E k \in Kiosks : SubmitCode(k)
        \/ \E c \in pairs : \/ IdenPairs(c) \/ PairResumes(c) \/ PairUnanswered(c)
                            \/ PairLands(c) \/ PairFails(c)
        \/ Beat \/ TokenLapses
        \/ IdenAnswers \/ TokenLands \/ CallLands \/ CallFails
        \/ Restart
        \/ \E k \in Kiosks : \/ IssueCode(k) \/ OtherPairs(k) \/ Revoke(k)
                             \/ SetService(k) \/ RevokeTokens(k)

Spec == Init /\ [][Next]_vars

\* The interval and the heartbeat go on, IDEN answers, tokens age.
Fairness ==
    /\ WF_vars(Ask \/ \E s \in polls : Land(s))
    /\ WF_vars(Beat \/ IdenAnswers \/ TokenLands \/ CallLands)
    /\ WF_vars(TokenLapses)

FairSpec == Spec /\ Fairness

---------------------------------------------------------------------------
\* "Anything else - a scope IDEN has not seeded, a 5xx - is IDEN's problem, and
\* must not cost the kiosk its pairing" (device.py:105): a pairing is forgotten
\* only after IDEN has stopped accepting a secret this device was given.  Lost
\* answers, restarts and one loss of its tokens do not add up to that.
AccidentsForgetNothing ==
    [][(cred # None /\ cred' = None) => \E c \in held : ~Accepted(c)]_vars

\* A kiosk whose secret no longer works does not go on as if it did: it comes
\* to ask for a pairing code (call, _access_token, the heartbeat), whatever
\* tokens it still holds and whatever is in flight.
RefusedIsNoticed ==
    (cred # None /\ ~Accepted(cred)) ~> (cred = None \/ Accepted(cred))

\* "Settings changed in the dashboard arrive through the server's heartbeat,
\* and land here" (use-kiosk-state.ts:6): when changes and accidents are over,
\* the settings are the paired kiosk's current ones, though a heartbeat begun
\* under an earlier pairing may have stored that kiosk's.
SettingsArrive ==
    <>[](cred # None => config = [kiosk |-> cred[1], service |-> cred[1] \in service])

\* And what the page shows follows the kiosk server, though polls land in any
\* order.
ScreenCatchesUp == <>[](reachable /\ seen = State)

\* "IDEN refused its credentials: it was revoked, or another device was paired
\* in its place" (doc/operations/kiosks.md:273) is all that makes a kiosk ask to
\* be set up: a pairing IDEN accepts is not forgotten.
FreshPairingKept ==
    [][(cred # None /\ cred' = None) => ~Accepted(cred)]_vars
===========================================================================
