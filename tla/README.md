# IDEN in TLA+

IDEN is an OpenID Connect provider: a FastAPI service (`src/provider`) over Postgres and Redis, with a
stateless face engine (`src/engine`), a kiosk for enrolling faces (`src/kiosk`, a page and a small
server) and two browser applications (`src/web`: the sign-in pages and the dashboard).

Two things make it hard to get right and hard to test. Several workers of the provider run at once,
each an event loop that interleaves its requests at every `await`, so two requests meet in Postgres
rows and Redis keys and nowhere else. And the pages are made of asynchronous functions that outlive what
started them: React takes a component off the screen without stopping what it awaits, so an answer
can land on a screen, or a person, other than the one that asked. These modules are about both.

## 1. Inventory

| Part | State | Operations | Hard because |
|---|---|---|---|
| Refresh tokens (`token_service`, `oauth/grants`) | rows `refresh_tokens`; Redis `refresh_lock:*`, `refresh_replay:*` | redeem a code, exchange, replay within the window, detect reuse, revoke | two tabs, a retry and a thief all present the same token; a worker can die or stall between the commit and the remembered answer |
| Browser sessions (`session_store`, `logout/service`) | Redis `session:*`, `session_clients:*`, `user_sessions:*`; the cookie | create, use, step up, sign in again, list, end one, end all | three keys with a TTL each, unconditional writes of a payload read earlier |
| Authorisation (`oauth/routes.authorize`, `oauth/service`, `challenge_store`) | Redis `challenge:*`; rows `authorization_codes`, `consent_grants` | authorize, resume, sign in, step up, consent, redeem | one request is spread over many, and the browser may run several at once |
| Kiosk enrolment screen (`screens/enrol.tsx` and the screens it shows) | the page's `phase` and `agreed`; closures of what it awaits; IDEN's tickets and face challenges | touch, agree, scan, confirm, capture, enrol, every way out | people change in front of one screen while calls and captures of the one before go on |
| Kiosk capture (`ui/face-capture.tsx`, `use-camera`, `capture-sequence`, `head-tracker`) | the camera stream, the tracker, the run | open, follow the steps, take frames, hand them over | effects restarted while the camera opens; a run that outlives its component |
| Kiosk shell (`App`, `useKioskState`, `Setup`, `Maintenance`; `device.py`, `heartbeat.py`) | the last snapshot; the credentials' file, the token, the settings | poll, pair, heartbeat, restart | polls, pairings and heartbeats answered late, out of order or not at all |
| Sign-in pages (`web/auth-ui`) | the challenge query, LoginFlow's step and `owedMethods`, mutations, the camera | password, one-time code, face, another method, consent, recovery | answers to a step that was left; a challenge good for one capture |
| Dashboard (`web/dashboard`) | react-query's cache and mutations, wizards, dialogs, a secret or code on the screen | list, open, edit, register, pair, remove | what is stale after which write; a secret answered once; an answer to a page that was left |
| Sign-in and assurance (`login/*`, `auth_methods`, `entity/totp`) | `totp_credentials`, Redis `totp-used:*` | password, one-time code, face; enrol and remove an authenticator | what was proved must not outlive what it was proved for |
| Recovery and passwords (`recovery/service`, `entity/credentials`) | `users.password_hash`, Redis `password_reset:*` | request and confirm a reset, change a password | everything issued before has to stop working, in two stores, without a transaction over both |
| Rate limits (`core/ratelimit`) | Redis counters | hit, guard, record, clear | check and count are separate commands |
| Administration (`admin/*`) | users, roles, groups, APIs, scopes, clients, kiosks | edit, deactivate, delegate; never remove the last administrator | a post-condition over the whole database, checked per transaction |
| Self-service applications (`developer/clients`) | clients with an owner | create within a quota, edit, delete | count, then insert |
| Faces (`biometric/*`, `entity/face`) | `face_templates`, photos in object storage, Redis tickets, challenges, pairing codes | ticket, capture, enrol, verify, remove; pair a kiosk | one-shot secrets, two stores, attempts counted by read and write |
| Scope resolution (`scope_resolver`, `shared/scopes`) | none of its own | resolve what a token carries | set algebra over a catalogue that administrators edit meanwhile |
| Profile fields, logos, avatars, media, audit | rows, objects | edit, validate, store, serve | database row and stored object change separately |
| Engine, discovery, plumbing, shared components | none shared | | numerical, presentational or constant |

**How they interact.** A browser comes to `authorize` with a session cookie or none. What is missing
(a sign-in, a second factor, consent) is asked for through a challenge in Redis by the sign-in pages, and
the browser comes back. A code is committed to Postgres, then the client is recorded against the session in
Redis. The client exchanges the code for tokens; with a refresh token a *family* begins, tied to the
session by `sid`. Signing out, changing or resetting a password, deactivation, disconnecting an application
and reuse detection all end families by one SQL `UPDATE`, and sessions by Redis commands. No transaction
spans the two stores, and in most handlers nothing is locked. The dashboard is a client like any other. It
issues a ticket for a face, or a pairing code for a kiosk, and polls until it has been used. The kiosk's
page speaks to its own server only, which holds the kiosk's credentials and forwards to IDEN.

**What makes each part correct.**

* Refresh tokens: at most one token of a family can be exchanged; two answers to one token are the
  same answer and go to the same client; an honest repeat is not taken for theft; a revoked family
  stays revoked; every request is answered.
* Sessions: no session claims a factor that was not proved since its sign-in; a live session can be
  found and ended; ending all ends all; a session that was ended stays ended; every application the
  session reached hears of it.
* Authorisation: a code answers the request it was asked for (assurance, freshness, the hinted person,
  consent by the person it names); a challenge is spent once; nobody is asked twice.
* The kiosk: a face is stored only with the agreement of the person whose face it is, to the wording in
  force; it goes on that person's account; "You're enrolled" is true; every visit ends; the camera is on
  only while it is shown; frames are taken of somebody who is there; an accident does not cost the kiosk its
  pairing and a revocation does; the screen follows the server.
* The sign-in pages: they ask for what is owed and nothing given; an answer moves only the step that asked;
  one challenge, one capture; what recovery says is true; no spinner stays.
* The dashboard: what was saved is what is shown; a secret answered once is seen; a used code is noticed; no
  button stays at work.
* Recovery: nothing issued under the old password survives the new one.
* Administration: somebody can always administer; nobody grants what they may not.
* Scopes: a token carries what was asked for, what the client may ask for and what the person holds.

## 2. Modules

| Module | Models | Form |
|---|---|---|
| `TokenLineage` | what refresh tokens promise: a family is one line of succession | abstract specification |
| `RefreshRotation` | exchange, replay window, rotation lock, row locks, reuse detection, sweeps, crashes | implements `TokenLineage` |
| `RefreshRotationProofs` | theorems about it, for any number of anything | proofs |
| `LoginSession` | the session store's Redis keys and the handlers that use them, command by command | component |
| `LoginSessionProofs` | theorems about it | proofs |
| `AuthorizeFlow` | one authorization request over its many HTTP requests: challenge, sign-in, second factor, consent, code | component |
| `AuthorizeFlowProofs` | theorems about it | proofs |
| `KioskVisit` | the kiosk's enrolment screen with IDEN's tickets and challenges behind it | composition of page, server and provider |
| `KioskVisitProofs` | theorems about it | proofs |
| `CaptureRun` | what a capture promises the screen that shows it | abstract specification |
| `FaceCapture` | camera hook, tracker and run | implements `CaptureRun` |
| `FaceCaptureProofs` | theorems about it, the refinement among them | proofs |
| `KioskShell` | the page around the enrolment screen, the kiosk server, and the kiosk's record at IDEN | composition |
| `KioskShellProofs` | a theorem about it | proofs |
| `SignIn` | one tab of the sign-in pages with the endpoints behind them | composition |
| `SignInProofs` | theorems about it | proofs |
| `Dashboard` | one tab of the dashboard, as a table of pages and buttons over react-query | component |
| `DashboardProofs` | theorems about it | proofs |
| `MCRefreshRotation`, `MCRefreshScenes`, `MCLoginSession`, `MCAuthorizeFlow`, `MCKioskShell`, `MCDashboard` | the instances TLC explores | symmetry, scenes and small constants |

Names follow the code: an action is named for the function, the call or the button it stands for. What the
code keeps in Postgres or Redis is a variable; what a handler keeps in locals is a function from handlers
(`Request`, or `Tab` in `AuthorizeFlow`) to values, next to a program counter. In the modules of pages a
component's state is a variable, and an asynchronous function that waits is a record in a set (`calls`,
`runs`, `posts`, `polls`, `pairs`, `writes`) which carries the values its closure captured and the mounting
it was started from. Variables marked *history* record the past for properties (in `AuthorizeFlow` two of
them also keep an id from being drawn twice); no other guard reads them.

The modules meet where one component hands over to another. `KioskVisit` takes captures as `CaptureRun`
promises them, and `FaceCapture` is shown to keep that promise. `KioskShell` decides when the enrolment
screen is shown; `KioskVisit` lets it be taken away and given back at any time. `SignIn` has the provider's
side of one challenge as one step for each endpoint, which `AuthorizeFlow` and `LoginSession` take apart.

### RefreshRotation

*State.* `family`, `live`, `successor` are the columns of `refresh_tokens` the protocol reads
(`family_id`, `revoked_at IS NULL`, `rotated_to_id`); `rowLock` who holds a row from
`SELECT … FOR UPDATE` or a pending `UPDATE` to its commit; `mutex` the key `refresh_lock:<hash>`;
`replay` the key `refresh_replay:<hash>`.

*Steps of an exchange* (`oauth/grants.refresh_token`): `Present` → `AcquireMutex` or `GiveUp`
(`rotation_lock`) → the lookup of the remembered answer (`replayed_rotation`) →
`ConsumeRefreshToken` (row lock, checks, and on reuse the sweep) → rotation and commit →
`RememberRotation` → `ReleaseMutex`. A *sweep* is one `UPDATE` at READ COMMITTED in three kinds of step:
the snapshot (`StartSweep`), one `SweepRow` for each row, which waits for that row's lock and checks it
again, and the commit. Nothing orders the rows that two sweeps take, so they can wait for each other's, and an
exchange can stand between them: `Deadlocked` is such a ring, and `DeadlockAbort` is Postgres noticing it and
aborting one of the transactions, whose rows are free at once. Events: a worker dies (`Crash`), the ten-second lease of the lock runs out
(`LeaseExpires`), the remembered answer runs out (`ReplayExpires`), a token expires, an account is
switched off and on. Tokens are random, so no two exchanges draw the same one.

*Refinement.* A family's head is its one live token, `Ended` when rows exist and none is live, `None`
before it begins. `TokenLineage` allows a family to begin, to move its head to a fresh token, and to
end; nothing else. Everything the locks, answers, crashes and waits do has to be invisible to it.

### LoginSession

*State.* `store`, `clients`, `index` are `session:*`, `session_clients:*` and `user_sessions:*`, each
with its deadline; `cookie` is the deadline the browser was given. A handler is a sequence `todo` of
steps, most of them one Redis command. A call puts the callee's steps in front, so every operation of
`session_store` is written once, and `login`, `authorize`, `totp`, `logout`, ending one session, listing
them and ending all of them are sequences of such calls. `Tick` advances the clock and drops the keys
whose deadline it reaches.

### AuthorizeFlow

*State.* `challenge` is `challenge:*` (the parameters, when it was made, who consented), `codes` counts
the rows of `authorization_codes` by the challenge they came through, `consents` is `consent_grants` with
the identity of a row (`born`), `enrolled` the factors a person has set up, `session` what
`LoginSession` keeps, reduced to user, methods and time of sign-in. A tab is on a page (`page`), makes a
request (`params`), carries a challenge (`resume`) and waits for one handler (`pc`, `login`, `pending`,
`had`, `who`). A request's parameters are reduced to what `authorize` decides by: a sign-in of its own
(`prompt=login`, `select_account`, `max_age=0`), a consent of its own, no interaction, the hinted person,
the least level, the scopes, and whether the client skips consent.

*Steps.* `Send` and `Touch` are `get_login_session`; `ReadChallenge` is `challenge_store.get`; `Decide` is
the body of `authorize` from the hint to the consent check and ends in one of the interactions (with
`SaveChallenge`), an error, or a code (`Issue`, then `Delete`). `SignIn`, `Create`, `NextStep` are
`POST /login`; `AddMethod` is `POST /login/totp` and `/login/biometric`; `Consent` and `Record` are
`POST /consent`. Beside them: sign-out, expiry of a challenge, setting up and removing factors, withdrawal
of consent, resume URLs opened in other tabs and with other parameters, and a worker that dies at any
step.

The reads of Postgres in `Decide` are one step. Left out: deactivated accounts, several clients, a
session's TTL and index (they are in `LoginSession`), `challenge.user_id` and `challenge.methods` (they
choose what a page displays), and a `max_age` above zero, which lies between asking for a sign-in and
not asking.

### KioskVisit

*State.* `phase` and `agreed` are `Enrolment`'s two `useState`s. `told` is the consent wording of the last
poll, `who` the person in front of the kiosk, `calls` the requests the page awaits, `runs` the captures
under way. A call carries what its closure holds: the ticket, the challenge, the agreement, the frames'
face. At IDEN: `left` attempts and `live` tickets, `chals` not consumed, and `enrolled`. `assent` remembers
who agreed to what, in which visit.

*Steps.* `Touch`, `Agree`, `Scan`, `ConfirmYes`, `Start`, `Retry` and `WayOut` are the buttons of the
screens, `IdleOut` and `DoneOver` the two timers, `LastFrame`, `RunFails` and `Submit` what a capture does,
`HandleStart`, `AdmitEnrol`, `FinishEnrol` and `Refuse` what the kiosk server and IDEN do with a call, and
`ResumeCall` the `await` that returns, on whatever screen there is by then. `TakeScreen` and `GiveScreen` are
`App` replacing the screen; a new mounting does not see the phases the old one sets. Every person holds
one ticket. People change places at the idle screen: a visit is one person's, and what it leaves behind meets the
next person's.

### FaceCapture and CaptureRun

*State.* `opening` and `streams` say which runs of the camera effect are in `getUserMedia` and whose stream is
live, `loads` and `tracker` the same for the head tracker. The run is a program counter (`run`) over the
groups of equal steps, with the frames taken and, for each, whether `until()` had just found the person
where the step wants them. A reading of the tracker is that one fact; angles and thresholds are left out.

*Refinement.* `CaptureRun` promises frames that are handed over once a run, each of them taken while the
component was on the screen; and it states openly that a capture with its last frame hands over even after it
has left. `stage` maps the program counter.

### KioskShell

*State.* The page: `seen`, `reachable`, `maint`, and the polls and pairings in flight. The server: `cred`
(the field of `Device` and its file, which change together), `tok`, `online`, `config`, and where the
heartbeat's `call` waits. IDEN: the number of the secret in force (`secret`), kiosks that are gone, codes,
`service`, and an `epoch` that turns when tokens are revoked.

*Steps.* `Device.call` is taken apart at its `await`s: `Beat`, `IdenAnswers`, `TokenLands`, `CallLands`,
`CallFails`; its second try with a fresh token, and forgetting on the second refusal, are in there. Of `online`, an
answer that is an error leaves what the code leaves: "yes" for the call itself, "no" for a token. A pairing goes
through three processes: the page sends the code (`SubmitCode`), IDEN redeems it (`IdenPairs`), `Device.pair` goes
on with the answer (`PairResumes`) or without (`PairUnanswered`), and the page hears of it (`PairLands`, `PairFails`).
Polls go out on the interval and after a pairing, whether or not earlier ones are answered, and land in any order. `ScreenOf` and `Turn` are `App`'s choice of screen. Administrators issue
codes, pair another device, revoke, put in and out of service and revoke tokens; the server restarts.

### SignIn

*State.* The page (`route`, the `chal` query, `step`, `owed`, `status`, the `check` query of the face step,
`camera`), its requests (`posts`), captures that outlive their step, and the provider's challenge, session,
failures, face challenges, and password with its reset token.

*Steps.* The buttons; `Captured` and `CapturedAway` for a capture's last frame on and off the screen; one
action for each endpoint (`ReadChallenge`, `Login`, `VerifyTotp`, `IssueCheck`, `VerifyFace`,
`DecideConsent`, `SendLink`, `SpendToken` … `CommitPassword`); and what the page does with an answer
(`ChallengeLands`, `CheckLands`, `StepLands`, `OtherLands`). The face step fetches its challenge under a key of
its attempt, so a step that is entered again joins a fetch that the mounting before it left under way (`Fetches`,
`Awaited`). `mutate`'s callbacks are dropped once the step
is unmounted, a mutation's own `onSuccess` is not: `OtherLands` keeps them apart. A reset ends sessions
(`EndAllSessions`) and commits the password (`CommitPassword`) in that order, with other sign-ins between.

### Dashboard

Fourteen kinds of page (clients, groups, roles, users, kiosks, APIs, profile fields, applications; and the
account's authenticator, face, password, sessions, connections, profile) differ in what their buttons do,
not in how. So the module is a table, `WritesOf`, `ButtonsOf` and `NewOf`, transcribed page by page, and
actions that read it. *State:* `cache` is react-query's (data, a failed fetch, the fetch under way and the
data it may still answer with), `status` each mutation's, then the dialog, the secret, the panel with a code,
and the wizard; `writes` are mutations under way. Data is a version: the provider's clock when it last
changed. *Steps:* `Poll`, `Land`, `FetchFails`, `Retry` read; `Press`, `Handle`, `SendExtra`, `Done`,
`Settle`, `Fail` write, with the second request some flows make (a logo, a group's roles); `StepTo`,
`Continue`, `Jump`, `Submit` are the wizard. `RenewFails`, `StepUp` and `Return` are the sign-in gate, which
takes every page off the screen and what it held. Where a query has failed, most pages show an error and a retry in
place of what they had; the two settings that test for data alone, and the page that registered a kiosk, keep it
(`KeepsOld`, `OnScreen`). A panel goes at the first render that finds it used (`Rendered`). The wizard's steps are there
for which requests a flow can send, and when; no property is about the steps themselves.

## 3. Runs

| Run | Question | Instance | Distinct states |
|---|---|---|---|
| `refresh_rotation` | Is a family one line of succession? Do retries and tabs get one answer? Is only reuse taken for theft? Does anybody collect another's tokens? Is an undisturbed sweep final? | two scenes: one family with crashes, leases and replies that run out; two families of two clients with expiry and deactivation. Three tokens, two workers | 875,000 |
| `refresh_liveness` | Is every request answered? | two scenes: one family, crashes, leases and replies that run out; two families, swept in either order. Two tokens, two workers | 51,000 |
| `session_lifetime` | Was every factor a session claims proved since its sign-in? Is every client told? | one session, two workers, five handlers, past both limits | 1,190,000 |
| `session_index` | Does the index list every live session? Does ending all end all? | two sessions, two users, sign-in, listing, ending all | 2,230,000 |
| `authorize_flow` | Does a code answer its request, and with consent? Is anybody asked twice? Does a challenge yield one code? Does a withdrawn consent come back? | two scenes: two people in one tab, resume URLs opened again; two tabs on one challenge with expiry, enrolment and withdrawal. Workers die in both | 2,200,000 |
| `kiosk_visit` | Whose face, with whose consent, is enrolled on whose account? Is "You're enrolled" true? Does a visit end? | two people, two attempts, two visits, two mountings, two wordings, two calls or captures left waiting | 473,000 |
| `face_capture` | Do frames wait for the person? Is only the shown camera on? Does every run end? Is `CaptureRun` kept? | two movements, challenges of up to three steps, two effects, two runs | 59,000 |
| `kiosk_shell` | What costs a kiosk its pairing? Is a revocation noticed? Do settings arrive, and the screen catch up? | two scenes: one kiosk with one fault; one device paired as either of two kiosks, without faults. One pairing at a time, two polls, one change | 646,000 |
| `sign_in` | Do the pages ask for what is owed? Does an answer move another step? One capture for a challenge? Is what recovery says true? Does every wait end? | every combination of factors enrolled, level asked for and factors given, a pause after two failures, four steps mounted, two challenges | 350,000 |
| `dashboard` | Is what was saved shown? Is the secret seen? Is a used code noticed? Does every wait end? | each of the fourteen kinds of page, with the bounds of `MCDashboard` | 236,000 |
| `session_revived` | **violated**: is a session that was signed out gone? | one session, two workers | |
| `way_out` | **violated**: is nothing sent once the person has walked away? | as `kiosk_visit` | |

### What the properties say

* **Refresh tokens.** `AtMostOneLive`, `OneAnswerPerToken`, `OnlyOwnTokens`, `CleanSweepIsFinal`,
  `ReuseMeansTheft`, `ImplementsLineage`, `EveryRequestEnds`. A family whose sweep passed over a row inserted
  meanwhile is not clean, and `CleanSweepIsFinal` says nothing of it (section 5). `ReuseMeansTheft` names exactly what excuses a
  refusal: the remembered answer had run out, the worker had overrun its lease, or it had died.
* **Sessions.** `StoredMethodsWerePerformed`: however stale copies overwrite each other, no session claims
  a factor that was not given since the sign-in it names. (A step-up may be *lost* that way, when a late
  save of an older copy overwrites it; the person is asked again.) `ListedUntilLapse`, `EndAllEndsAll`,
  `SignedOutStaysOut`, `ReachedClientsAreTold` each name the one circumstance that excuses them: an index or
  a record of clients that has expired, or a request that had the session in hand. Those circumstances are the
  code's own, and the properties do not catch them (section 5).
* **Authorisation.** `CodesAnswerTheirRequest` and `CodesAreConsentedTo` are about the step that decides
  for a code, not its commit, before which a consent may still be withdrawn, and relate it to the history of the request: a sign-in since it came, the hinted person, the
  level, the consent of this person, not withdrawn. `NobodyIsAskedTwice` is the other side: what was
  obtained is remembered, unless handlers overlapped or somebody else approved the same challenge meanwhile.
  `SpentOnce` allows a second code only if two handlers overlapped on the challenge
  or a worker died between the commit and the deletion. `WithdrawnStaysWithdrawn` depends on the identity
  of the row a consent was read from.
* **A visit to the kiosk.** `ConsentOfThisFace` relates the face on an account to an agreement given long
  before, on a screen that may have gone, by a person who may have left: same person, same visit, same
  wording. `AskedMeansOwnFace` shows that "Is this you?" is enough where it is asked, though it is asked before the
  capture and the answer to somebody else's scan may land in between; Try again does not ask (section 5). `DoneMeansEnrolled` is about answers that are lost or
  late. `VisitEnds` is what `useIdle` and the answers must achieve together, since the timer is off while the
  page checks.
* **The capture.** `FramesWaitForThePerson` is the comment "Every frame waits, not just the first".
  `OnlyTheShownCameraIsOn` and `RunsEnd` are about effects cancelled while they wait and people who never
  move; `KeepsItsPromise` is the refinement.
* **The shell.** `AccidentsForgetNothing`: credentials are dropped only after IDEN stopped accepting one this
  device held, and one loss of its tokens is no such thing. `RefusedIsNoticed`: and then they are dropped, whatever tokens still work.
  `SettingsArrive` and `ScreenCatchesUp`: stale answers may land, another kiosk's settings among them, but do not stay.
* **Signing in.** `AskedForWhatIsOwed` keeps page and session together; `OnlyTheirOwnAnswerMovesThem` and
  `EachCaptureItsChallenge` are about steps that were left and entered again; `RecoveryTellsTheTruth` is about
  a reset done twice because its answer was lost.
* **The dashboard.** `SavedIsShown` checks every page's list of stale queries, with fetches under way when
  a write succeeds. It promises nothing of a query once an answer itself is put into it (section 5). `SecretReachesThePage`
  is about the page that made the secret: it ends with it in hand, and shows it with the record, which takes a retry if
  the record's fetch has failed. That one, `PairingIsNoticed` and `WaitsEnd` are about what fails, expires or
  is left meanwhile.

Each property was tried against a plausible slip in the code (the operators commented *Mutant of*), which
breaks it in the same run.

### Bounds and why they are enough

Two workers, or two tabs, are what every race of the provider needs: one that reads, one that writes in
between. Three tokens are two rotations, enough for a retry of the first after the second. A second family
and client are there only where the property is about somebody else's. The session runs set the TTL to one
tick and the maximum age to nothing, so a clock of two values passes both limits; sign-ins on either side of a
limit and handlers that straddle it (`Slow`) both happen. In `AuthorizeFlow` time advances only where two
times are compared: a sign-in, a new challenge, a withdrawal; `Horizon` and the shorter clock of the second
scene let each of these happen after the others. `MaxCodes` is two because a second code is already one too
many. A *scene*, chosen at the start and never changed, divides what can happen so that each part is explored
completely. Tabs, challenges, tokens, workers, users and sessions are interchangeable where a run declares
symmetry; the runs of temporal eventualities declare none.

At the kiosk two people are the one in front and the one before, and two visits their two visits; two
attempts are one that fails and the one after it; two wordings are the one agreed to and the one in force; two
calls or captures (`MaxOpen`) let one of the visit before meet one of this visit. Three steps make every shape of
challenge `groups` tells apart: equal neighbours, a movement between looks, a movement last. `Steady = 2` is
the code's; `Window = 3` leaves one reading that fails. One fault and one change in `KioskShell` meet at every
point of a heartbeat and a pairing: the hazards there are one late answer against one new fact. A second kiosk is
there for the heartbeat of an earlier pairing that brings the settings of another, and two polls for one that overtakes
another. Two families are what sweeps in opposite order need, since a family has one live row. `TRIES = 2` in
`SignIn` is one failure allowed and the one that pauses; four steps reach a step again after leaving it twice.
`MCDashboard` gives each kind two writes (one for kiosks and applications, whose flows are the longest), enough
openings to leave a page and come back, and one thing that is odd: a loss, a renewal that fails, or somebody else's
write. On the pages of clients, groups, users and APIs, which have the most buttons, a behaviour has two writes, or
one write and the odd thing. `Slack = 1`: the five seconds that `pairedSince` allows for
clock skew are one write.

Deadlock is checked for the provider's modules, except in `session_revived` where the clock stops at
`Horizon`. It is not for the pages: a page whose bounded visits, writes or steps are used up may rest.

### Fairness

* `RefreshRotation` (`Fairness`): weak fairness of each worker's next step is the event loop, which runs every coroutine that
  can run. A waiter for the rotation lock gives up after `blocking_timeout`, so waiting for it is a step that
  can always end; a ring of requests that wait for each other's rows always has its abort. Strong fairness of taking a row lock is Postgres' queue: the waiters for a row are served in
  order, so nobody is overtaken for ever.
* `KioskVisit`: the idle and the done timers fire, and every request is answered (or refused: a lost one ends
  as an error). Nobody has to press anything.
* `FaceCapture`: timers fire, readings are made, and a request for the camera is granted or refused.
* `KioskShell`: the page's interval and the heartbeat go on, IDEN answers, and tokens grow old.
* `SignIn` and `Dashboard`: requests are answered or fail, what is answered lands, a page that was told to go
  elsewhere goes, and a page that polls polls.

Nothing is assumed of people, administrators, failures or workers that die. `LoginSession` and `AuthorizeFlow`
have no eventuality of their own: their handlers take no locks and run to the end or to a bound of the model.

## 4. Proofs

Every invariant, every safety property of steps and both refinements that a passing run checks are theorems, for
every value of the constants. Each proof module has one inductive invariant (`IInv`, or the layers named
below), a lemma for what each kind of step does to it, and the theorems. The assumptions are those of the
component's own module, which TLC evaluates in its run: the bounds are numbers, what is chosen by an instance
(events, handlers, requests, kinds of page) is among what the module has, and the distinguished values (`None`,
`Orphan`, `Ended`, `Refused`) are none of the data. `FaceCapture` assumes also that a streak of readings has
at least one and fits its window, `RefreshRotation` that a family has one client and one user. The bounds stay in the guards: where
a theorem says "any number", it is for any value of the bound.

| Module | Theorem | States |
|---|---|---|
| `RefreshRotationProofs` | `TypeCorrect` | `TypeOK` |
| | `OneLiveToken` | `AtMostOneLive` |
| | `CleanSweeps` | `CleanSweepIsFinal` |
| | `AnswersAgree` | `OneAnswerPerToken` |
| | `OwnTokens` | `OnlyOwnTokens` |
| | `OnlyTheftIsRefused` | `ReuseMeansTheft` |
| | `Refinement` | `ImplementsLineage`: `RefreshRotation` implements `TokenLineage` |
| `LoginSessionProofs` | `EarnedTheorem` | `StoredMethodsWerePerformed` |
| | `ListedTheorem` | `ListedUntilLapse` |
| | `EndAllTheorem` | `EndAllEndsAll` |
| | `OutTheorem` | `SignedOutStaysOut` |
| | `ToldTheorem` | `ReachedClientsAreTold` |
| `AuthorizeFlowProofs` | `SpentTheorem` | `SpentOnce` |
| | `WithdrawnTheorem` | `WithdrawnStaysWithdrawn` |
| | `AskedOnceTheorem` | `NobodyIsAskedTwice` |
| | `CodesAnswerTheorem` | `CodesAnswerTheirRequest` |
| | `CodesConsentedTheorem` | `CodesAreConsentedTo` |
| `KioskVisitProofs` | `TypeCorrect` | `TypeOK` |
| | `EveryFaceConsented` | `ConsentOfThisFace` |
| | `AskedFacesAreOwn` | `AskedMeansOwnFace` |
| | `DoneIsTrue` | `DoneMeansEnrolled` |
| `FaceCaptureProofs` | `FramesTheorem` | `FramesWaitForThePerson` |
| | `CameraTheorem` | `OnlyTheShownCameraIsOn` |
| | `PromiseTheorem` | `KeepsItsPromise`: `FaceCapture` implements `CaptureRun` |
| `KioskShellProofs` | `PairingsSurviveAccidents` | `AccidentsForgetNothing` |
| `SignInProofs` | `AskedTheorem` | `AskedForWhatIsOwed` |
| | `RecoveryTheorem` | `RecoveryTellsTheTruth` |
| | `CaptureTheorem` | `EachCaptureItsChallenge` |
| | `MovesTheorem` | `OnlyTheirOwnAnswerMovesThem` |
| `DashboardProofs` | `SavedTheorem` | `SavedIsShown` |
| | `SecretTheorem` | `SecretReachesThePage` |

None of the properties but `OnlyTheShownCameraIsOn` is inductive as it stands; what each needs beside itself is the content of the
proofs. The invariants were model-checked before they were proved.

*Rotation* (`RefreshRotation`). In layers, each preserved by every action given the ones before it.

1. `Shapes`: types, and which locals a handler has set at which step. Without it a step could use a token
   that is not there.
2. `Locks`: a live row has no successor, and a handler that is about to rotate holds the lock of a row that
   is live and its client's. This is what `AtMostOneLive` needs: the row that is replaced is the family's
   live one, and it is not replaced twice.
3. `Sweeps`: a running sweep has skipped a row of the family, or is about to find one changed, or holds or
   will reach every live row. At its commit the last case leaves none.
4. `Answers`: an answer given, remembered or about to be is the successor of the token it was asked with, in
   the same family, for that family's client. `GivenForGood` shows that nothing takes this back.
5. `Excuses`: an exchange is remembered, or about to be by the holder of its lock, or its token has an
   excuse; and whoever runs under the lock holds it or has one.

For the refinement, `HeadMeans` turns the `CHOOSE` of the mapping into three facts about live rows, and each
action is shown to be a step of `TokenLineage` or to leave `head` and `used` alone.

*Sessions* (`LoginSession`). A handler is the sequence of steps it has left, and a step may put others in front, so
before anything can be said of the keys, `Shapes` says which sequences there can be: what may follow what
(`Follows`), what does not come again after what (`NoMore`). `InPlace` says what a handler must have in hand for the
steps still to come. Then, for the properties: every copy of a session, stored or in hand, claims only what was
performed (`Earnings`), and is of one person (`OnePerson`) under an id that has been drawn (`Generated`); a session
that has not ended is stored and, until the index lapses, listed, wherever it is found, held or in a cookie
(`Listing`); after a sign-out nobody holds a copy but who ended it (`Out`); what `end_all_sessions` has yet to
end is in its list or its hands (`Ending`); a client that is owed a token is on record, about to be, or in the list of
somebody about to tell it (`Owing`).

*Authorisation* (`AuthorizeFlow`). Handlers decide by copies of a challenge that others may have changed, spent or
deleted. `Made`, `CopiesAgree` and `InOrder` bound what a copy may be: of a challenge that was made, with the same
request and moment in every copy, made after the request came, and before a sign-in on its page. From
that a sign-in newer than the challenge is a sign-in since the request. `Approved` and `Remembered` are the two
directions of consent: an approval in a copy was given; and one that was given is in every copy, unless handlers
overlapped or somebody else approved too. `Spending` says who can still have a challenge whose code is out,
`Rows` that a consent read earlier and written now is that of a row still in force, or of one withdrawn, whose
identity then differs.

*Visits* (`KioskVisit`). A face on an account says nothing by itself of the screens that led to it, so the
invariant follows what a property needs along every carrier of it.

1. `Shapes`: types, and what each screen and each call in flight has filled in.
2. `Agreement`: an agreement on the screen was given in this visit by the person who stands there; so was the
   one in every capture and every call that will send it, by the face it goes with. Calls and captures outlive
   the screen, so the agreement has to be theirs and not the screen's.
3. `Faces`: a capture the visitor was asked about is of the ticket's own holder, on the screen, under way, on
   its way and on the account. It rests on who may stand there changing at the idle screen only.
4. `Results`: a good answer on its way back is of somebody who is enrolled by then, and enrolled people stay
   enrolled.

What a step may do to captures, calls and accounts is stated once for each (`a capture is one that was there, or
is started now by who stands there`, and so on) and cited by the three parts.

*The capture* (`FaceCapture`). `Waits`: a guided run that comes to take a frame still holds the streak of readings it
waited for. `Placed`: the frames so far are those of the challenge up to where the run is, which is the
start of its group plus what it has taken of it. That makes the hand-over complete, and rests on what `groups()`
returns for *every* challenge: its groups lie one after the other over the steps. `groups` is a recursive function
over prefixes, and `Induction` is proved here for a set (from a well-founded order), since the library's
induction takes an operator.

*The shell* (`KioskShell`). The device infers from a 401 that it is no longer paired, and may do so from an answer to a
token of an earlier pairing. `Secrets` and `Tokens` say that what it holds or asks with was issued to a kiosk it was;
`Answers`, what a refusal under way proves; `Second`, that a second try means either that IDEN has already refused one of
its secrets, or that the one loss of tokens (`OneLoss`) is spent and the token now in use is newer. "One loss" is a limit of the
model and of the property: see section 5.

*Signing in* (`SignIn`). `Page` says what a mounting is: at most one of its own submissions is under way, its step
shows it as pending, and no other answer has its number. Then each property has its part: `Numbers`, the places
where a face challenge's number can be, no two at once; `Factors`, that a factor given shows as the page leaving,
an answer on its way, or one lost, unless it was given before this page was opened (`Before`); `Recovery`, what an answer to a new password says of the provider.

*The dashboard* (`Dashboard`). The tables are part of the model, and the theorem quantifies over nothing in them: so
`TheTablesAgree`, `TheButtons` and `TheFlows` go through the fourteen kinds of page, and say that each write makes
stale every query whose data it changes, or puts its answer there. `Pending` then says that a write of the page on
the screen is the one its button waits for, so that its callback is heard; `Written`, that it claims no more
than the provider has done; `Shown`, that a query holds what was last acknowledged, or has a fetch
under way that cannot answer with anything older.

*What proving found.* Three properties held in their runs and not in general. `NobodyIsAskedTwice` did not except a
second person who approves the same challenge; `SavedIsShown` did not hold after a third write on the
authenticator's page; `AccidentsForgetNothing` did not hold for two kiosks' tokens lost one after the other. Each names
its exception or bound now, and the behaviour is in section 5.

*Only model-checked.* Eventualities under fairness (`EveryRequestEnds`, `VisitEnds`, `RunsEnd`,
`RefusedIsNoticed`, `SettingsArrive`, `ScreenCatchesUp`, `PairingIsNoticed`, and `WaitsEnd` of `SignIn` and of
`Dashboard`) and `ENABLED` are beyond the prover. The two violated properties are counterexamples and have no proof.

## 5. What the models found

Two disagreements between the code and its own words are runs:

* `session_revived`: a request that read a session before a sign-out writes it back afterwards.
* `way_out`: a capture that has its last frame still waits, up to five seconds after a movement; a person who
  leaves in that time is enrolled nevertheless, with the agreement the closure kept, and the result appears over
  the idle screen, where "Every way out … returns to the idle screen, with … nothing of the person kept".

Others are stated in the modules, under the words they are about, and given no run. To see one, add the property
to a cfg of its module:

| Property | Module | What the model does |
|---|---|---|
| `SweptFamilyIsDead` | `RefreshRotation` | `revoke_family` is one `UPDATE`; the row a concurrent exchange inserts is not in its snapshot and survives, though the caller is told that the family has been revoked |
| `NextCallerGetsOnWithIt` | `RefreshRotation` | a worker that dies after the commit and before `remember_rotation` leaves an honest retry to be taken for theft |
| `EveryUseRestartsTheClock` | `LoginSession` | the cookie's `Max-Age` is never restarted (`SessionRevived.cfg`) |
| `ConsentIsKept` | `AuthorizeFlow` | of two consents that read the same grant, the later commit drops what the earlier one added (an instance of two challenges at once, with an earlier grant that covers neither request) |
| `EveryFaceIsOwn` | `KioskVisit` | Try again starts an enrolment without "Is this you?"; if its answer comes when the next person stands there, their face is captured for the ticket of the one before |
| `FreshPairingKept` | `KioskShell` | a refusal of the old credentials that lands after a new pairing forgets the new one |
| `CameraStaysOff` | `SignIn` | the face step comes back, and its camera, while the page is on its way to the application |
| `EverySessionSignedOut` | `SignIn` | sessions are ended before the new password commits; a sign-in with the old one in between stays |

Met while modelling, outside what is modelled or named as an exception of a property:

* The index of a user's sessions and the record of a session's clients each expire a TTL after the last sign-in
  or the last authorisation, while use keeps the session alive (`session_store.py:104`, `:236`). Two tabs that
  return from one interaction at once get a code each (`SpentOnce` names the case). A challenge holds one approval:
  a person who approved is asked again if somebody else approves the same challenge before they come back
  (`NobodyIsAskedTwice` names it).
  Two losses of its tokens while one call is under way cost a kiosk its pairing (`device.py:123`). A code issued before a reset
  or a sign-out can be redeemed after it, though `recovery/service.py:71` says that everything issued before
  stops working.
* Leaving a wizard while its record is being made, or a renewal of the dashboard's token that fails then, loses
  the secret that is answered once (`handover.tsx:4-9`). Edits made while a save is pending are cleared by its
  success. An answer put into the cache is overwritten by a fetch that was sent before it, and
  overwrites what a later write showed: on the authenticator's page (`security-totp.tsx:41`) a confirmation that is
  answered after the authenticator was removed shows it again. A kiosk page whose poll
  fails takes its settings form, and what was typed, off the screen. A code asked for within five seconds of an
  earlier pairing disappears at once (`pairedSince`).
* A group that was made and whose roles then failed cannot be submitted again; the review of a wizard does nothing,
  and says nothing, if an earlier step is no longer valid.
* Two administrators who edit one record overwrite each other, since records are saved whole.
* `entity/totp/service.py:38-63`: an authenticator that is begun again between the read and the commit of a
  confirmation is confirmed with a secret nobody proved.

## 6. What could follow

In this order: the redemption of codes against sign-out and reset, with codes, sessions and families in one
module; `AdminLockout`, transactions over users and roles under the advisory lock, with the post-condition as a
theorem; `TotpEnrolment` and photos against templates; rate-limit counters and the developer's quota; the set
algebra of scopes against a reference definition.

## 7. Not modelled

* Cryptography and token formats (signatures, PKCE, hashing) are taken to be unforgeable. The biometric engine is
  numerical and stateless; a capture matches, fails or is refused.
* Administration's post-condition and delegation, the used one-time codes, rate limits other than the count of failed
  faces, the developer's quota, scope resolution, photos in object storage: see section 6.
* Attempts on a ticket are counted by read, add and write (`biometric/tickets.py:58`); `KioskVisit` counts one in the
  step that handles the call.
* Of the pages: wording, layout, validation of fields, filters and the paging of tables, the audit page, menus, the
  reading of a QR code from the camera. `fetchAll` pages by offset, so it may miss a row that moves meanwhile; a list
  is one query here.
* The audit log is append-only and nothing reads it back. Discovery, headers, body limits and configuration are
  constants or plumbing. Migrations, scripts, deployment and load tests are not part of the running system.
