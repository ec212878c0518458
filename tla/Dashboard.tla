------------------------------ MODULE Dashboard ------------------------------
(***************************************************************************)
(* One tab of the dashboard (web/dashboard): the console's pages, the      *)
(* developer's, the account's, and the flows that register something new.  *)
(*                                                                         *)
(* The pages differ in what their buttons do, not in how: a table says, by *)
(* kind of page and button, which queries a write makes stale and what its *)
(* answer does to the page; the actions below read it.  Data is a version: *)
(* the clock of the provider when it last changed.                         *)
(*                                                                         *)
(* Queries and mutations behave as in react-query 5: one fetch of a key at *)
(* a time, which goes on when nobody looks at it and which a page that     *)
(* opens joins; an invalidation refetches what is on the screen; what a    *)
(* hook does with an answer it does unmounted too, what a click does with  *)
(* one is dropped when the page is gone or a later click has been made.    *)
(***************************************************************************)
EXTENDS Naturals, FiniteSets

CONSTANTS None,
          Slack,       \* the clock skew pairedSince allows, in writes
          Kinds,       \* the pages of an instance, from AllKinds
          MaxWrites,   \* bound, by kind: writes the tab makes
          MaxOdds,     \* bound, by kind: what others do, what is lost, renewals failed
          MaxMounts    \* bound, by kind: pages opened

Console == {"client", "group", "role", "user", "kiosk", "api", "field", "app"}
Account == {"totp", "face", "password", "session", "connection", "profile"}
AllKinds == Console \cup Account

ASSUME DashboardAssumption ==
    /\ None \notin Nat \cup {"secret", "code"}
    /\ Slack \in Nat
    /\ {MaxWrites, MaxOdds, MaxMounts} \subseteq [AllKinds -> Nat]
    /\ Kinds \subseteq AllKinds

VARIABLES
    \* The tab.
    kind,      \* the kind of page
    route,     \* "list", "detail", "new", "handed" (new, once made), "away"
    gate,      \* RequireSignIn: "in", "error" or "redirecting"
    mount,     \* which mounting of a page this is
    cache,     \* queries: data, whether the last fetch failed, the fetch under way
    status,    \* mutations: what each says, and its last mutate
    dialog,    \* the dialog that is open, or None
    secret,    \* the page holds a secret, and shows it with its record
    panel,     \* the code or ticket on the screen, or None
    wizard,    \* the flow's step, the furthest, and the steps filled in badly
    writes,    \* mutations under way
    acked,     \* history: the version of the last write that succeeded, by query
    \* The provider.
    now, ver, exists,
    code,      \* the pairing code or ticket that works, or None
    paired,    \* the one last used, and when
    made, odds

page == <<status, dialog, secret, panel, wizard>>
tab == <<kind, route, gate, mount, cache, page, writes, acked>>
server == <<now, ver, exists, code, paired>>
vars == <<kind, route, gate, mount, cache, status, dialog, secret, panel,
          wizard, writes, acked, now, ver, exists, code, paired, made, odds>>

Queries == {"record", "more", "list"}

---------------------------------------------------------------------------
(* What each page's writes make stale (the keys its hooks invalidate).     *)

Both == {"record", "list"}

ClientWrites  == [save |-> Both, rotate |-> Both, logo |-> Both, delete |-> {"list"}]
\* Mutant of GroupWrites: the members are left as they were.
GroupWritesAlone == [save |-> Both, join |-> Both, member |-> Both, delete |-> {"list"}]
GroupWrites   == [save |-> Both, join |-> Queries, member |-> Queries, delete |-> {"list"}]
RoleWrites    == [save |-> Both, delete |-> {"list"}]
UserWrites    == [roles |-> {"record", "more"}, grants |-> {"record", "more"},
                  password |-> {"record"}, delete |-> {"list"}]
KioskWrites   == [code |-> {"record"}, renew |-> {"list"}, save |-> Both, delete |-> {"list"}]
ApiWrites     == [define |-> {"more", "list"}, scope |-> {"more", "list"}, delete |-> {"list"}]
FieldWrites   == [save |-> Both, delete |-> {"list"}]
AppWrites     == [save |-> Both, rotate |-> Both, logo |-> Both, delete |-> {"list"}]
TotpWrites    == [enroll |-> {}, confirm |-> {}, remove |-> {"record"}]
FaceWrites    == [code |-> {}, remove |-> {"record"}]
PasswordWrites == [save |-> {}]
SessionWrites == [remove |-> {"record"}]
ConnectionWrites == [remove |-> {"record"}]
ProfileWrites == [save |-> {}, logo |-> {}]

WritesOf(k) ==
    CASE k = "client" -> ClientWrites [] k = "group" -> GroupWrites [] k = "role" -> RoleWrites
      [] k = "user" -> UserWrites     [] k = "kiosk" -> KioskWrites [] k = "api" -> ApiWrites
      [] k = "field" -> FieldWrites   [] k = "app" -> AppWrites     [] k = "totp" -> TotpWrites
      [] k = "face" -> FaceWrites     [] k = "password" -> PasswordWrites
      [] k = "session" -> SessionWrites [] k = "connection" -> ConnectionWrites
      [] k = "profile" -> ProfileWrites

\* The answers that are put into the cache as they are.
Sets(k, op) == k = "profile" \/ (k = "totp" /\ op = "confirm")

---------------------------------------------------------------------------
(* What each button asks first, and what the answer does to the page.      *)

Button == [asks |-> FALSE, closes |-> {}, gives |-> None, goes |-> None]
Dialog == [Button EXCEPT !.asks = TRUE, !.closes = {"ok"}]
Leaves == [Dialog EXCEPT !.goes = "list"]

RotateDialog == [Dialog EXCEPT !.gives = "secret"]
AddMembersDialog == Dialog
CreateScopeDialog == Dialog
SettingsForm == Button
SetEditor == Button
LogoControl == Button

ClientButtons == [save |-> Button, rotate |-> RotateDialog, logo |-> LogoControl, delete |-> Leaves]
GroupButtons  == [save |-> Button, join |-> AddMembersDialog, member |-> Dialog, delete |-> Leaves]
RoleButtons   == [save |-> Button, delete |-> [Leaves EXCEPT !.closes = {"error"}]]
UserButtons   == [roles |-> SetEditor, grants |-> SetEditor, password |-> RotateDialog, delete |-> Leaves]
PairingPanel  == [Button EXCEPT !.gives = "code"]
KioskButtons  == [code |-> PairingPanel, renew |-> PairingPanel, save |-> SettingsForm, delete |-> Leaves]
ApiButtons    == [define |-> CreateScopeDialog, scope |-> Dialog,
                  delete |-> [Leaves EXCEPT !.closes = {"error"}]]
FieldButtons  == [save |-> [Button EXCEPT !.goes = "list"], delete |-> Dialog]
AppButtons    == [save |-> Button, rotate |-> RotateDialog, logo |-> LogoControl, delete |-> Leaves]
TotpButtons   == [enroll |-> [Button EXCEPT !.gives = "secret"], confirm |-> Button,
                  remove |-> [Dialog EXCEPT !.closes = {"ok", "error"}]]
FaceButtons   == [code |-> [Button EXCEPT !.gives = "code"],
                  remove |-> [Dialog EXCEPT !.closes = {"ok", "error"}]]
PasswordButtons == [save |-> Dialog]
SessionButtons == [remove |-> Dialog]
ConnectionButtons == [remove |-> Dialog]
ProfileButtons == [save |-> Button, logo |-> Button]

ButtonsOf(k) ==
    CASE k = "client" -> ClientButtons [] k = "group" -> GroupButtons [] k = "role" -> RoleButtons
      [] k = "user" -> UserButtons     [] k = "kiosk" -> KioskButtons [] k = "api" -> ApiButtons
      [] k = "field" -> FieldButtons   [] k = "app" -> AppButtons     [] k = "totp" -> TotpButtons
      [] k = "face" -> FaceButtons     [] k = "password" -> PasswordButtons
      [] k = "session" -> SessionButtons [] k = "connection" -> ConnectionButtons
      [] k = "profile" -> ProfileButtons

---------------------------------------------------------------------------
(* The flows that register something: their steps, which are checked, the  *)
(* request that follows the first, what they hand over, where they end.    *)

Flow == [steps |-> 3, checked |-> {1}, extra |-> FALSE, swallows |-> FALSE,
         gives |-> {None}, goes |-> "detail"]

ClientNew == [Flow EXCEPT !.steps = 5, !.checked = {1, 2}, !.extra = TRUE, !.swallows = TRUE,
                          !.gives = {None, "secret"}]
GroupNew  == [Flow EXCEPT !.extra = TRUE]
RoleNew   == Flow
UserNew   == [Flow EXCEPT !.gives = {"secret"}]
KioskNew  == [Flow EXCEPT !.steps = 1, !.gives = {"code"}]
ApiNew    == [Flow EXCEPT !.checked = {1, 2}, !.extra = TRUE]
FieldNew  == [Flow EXCEPT !.steps = 5, !.checked = {2, 4}, !.goes = "list"]
AppNew    == [Flow EXCEPT !.checked = {1, 2}, !.extra = TRUE, !.swallows = TRUE,
                          !.gives = {None, "secret"}]

NewOf(k) ==
    CASE k = "client" -> ClientNew [] k = "group" -> GroupNew [] k = "role" -> RoleNew
      [] k = "user" -> UserNew     [] k = "kiosk" -> KioskNew [] k = "api" -> ApiNew
      [] k = "field" -> FieldNew   [] k = "app" -> AppNew

---------------------------------------------------------------------------
Ops == DOMAIN WritesOf(kind)
B(op) == IF op = "create" THEN [Button EXCEPT !.goes = NewOf(kind).goes] ELSE ButtonsOf(kind)[op]

\* What the provider changes, among what the pages show.
Touches(op) ==
    CASE op = "delete" -> {"list"}
      [] op \in {"join", "member", "define", "scope"} -> {"more", "list"}
      [] op \in {"roles", "grants"} -> {"record", "more"}
      [] op \in {"rotate", "code", "renew", "password", "enroll"} \/ kind = "password" -> {}
      [] OTHER -> {"record", "list"}

More == IF kind \in {"group", "user", "api", "kiosk"} THEN {"more"} ELSE {}

\* The queries a route has on the screen.
QueriesAt(r) == CASE r = "list" -> {"list"}
                  [] r = "detail" -> IF kind = "password" THEN {} ELSE {"record"} \cup More
                  [] r = "handed" -> IF kind = "kiosk" THEN {"record"} ELSE {}
                  [] OTHER -> {}
Active(q) == gate = "in" /\ q \in QueriesAt(route)

\* What holds c is neither a spinner nor an ErrorState: two settings of the
\* account, and the page that registered a kiosk, keep what they had when a
\* fetch fails.
KeepsOld == kind \in {"totp", "face"} \/ route = "handed"
OnScreen(q, c) == Active(q) /\ c.data # None /\ (KeepsOld \/ ~c.bad)

Unread == [data |-> None, bad |-> FALSE, fetching |-> FALSE, old |-> None]

\* A fetch begins; its answer will be of then at the oldest.
Begun(q, c) == [c EXCEPT !.fetching = TRUE, !.bad = c.bad /\ c.data # None,
                         !.old = IF exists \/ q = "list" THEN ver[q] ELSE None]

\* A page that opens joins a fetch under way; an invalidation only one that is
\* the key's first.
Mounted(q, c) == IF c.fetching THEN c ELSE Begun(q, c)
Refetched(q, c) == IF c.data = None /\ c.fetching THEN c ELSE Begun(q, c)

Fresh == [step |-> 1, far |-> 1, wrong |-> IF kind \in Console THEN NewOf(kind).checked ELSE {}]
Unasked == [is |-> "idle", id |-> 0]

\* The local state of a page that opens.
Blank == /\ status' = [op \in Ops \cup {"create"} |-> Unasked]
         /\ dialog' = None /\ secret' = FALSE /\ panel' = None
         /\ wizard' = Fresh
         /\ acked' = [q \in Queries |-> 0]

Init ==
    /\ kind \in Kinds
    /\ route = (IF kind \in Console THEN "list" ELSE "detail")
    /\ gate = "in" /\ mount = 1
    /\ cache = [q \in Queries |-> IF q \in QueriesAt(route) THEN [Unread EXCEPT !.fetching = TRUE, !.old = 0] ELSE Unread]
    /\ status = [op \in Ops \cup {"create"} |-> Unasked]
    /\ dialog = None /\ secret = FALSE /\ panel = None /\ wizard = Fresh
    /\ writes = {} /\ acked = [q \in Queries |-> 0]
    /\ now = 0 /\ ver = [q \in Queries |-> 0] /\ exists = TRUE
    /\ code = None /\ paired = [code |-> None, at |-> 0]
    /\ made = 0 /\ odds = 0

Odd == odds < MaxOdds[kind] /\ odds' = odds + 1

---------------------------------------------------------------------------
(* Going about.                                                            *)

\* Another component: its state is new, the cache is not.
Opens(r, c) ==
    /\ route' = r /\ mount' = mount + 1
    /\ cache' = [q \in Queries |-> IF q \in QueriesAt(r) THEN Mounted(q, c[q]) ELSE c[q]]
    /\ Blank

\* Links, Cancel, breadcrumbs; there while anything is pending.
Leave(r) ==
    /\ gate = "in" /\ mount < MaxMounts[kind] /\ r # route
    /\ \/ r = "away"
       \/ r = "list" /\ kind \in Console
       \/ r = "new" /\ route = "list"
       \/ r = "detail" /\ route \in (IF kind \in Console THEN {"list", "handed"} ELSE {"away"})
    /\ Opens(r, cache)
    /\ UNCHANGED <<kind, gate, writes, server, made, odds>>

\* The gate takes the router off the screen, and what its pages hold.
Gated(g) == gate' = g /\ mount' = mount + 1 /\ Blank

\* A renewal that fails: over for invalid_grant, an error for anything else.
RenewFails ==
    /\ gate = "in" /\ mount < MaxMounts[kind] /\ Odd
    /\ \E g \in {"redirecting", "error"} : Gated(g)
    /\ UNCHANGED <<kind, route, cache, writes, server, made>>

\* StepUpNotice's button, after a refusal.
StepUp(op) ==
    /\ gate = "in" /\ mount < MaxMounts[kind]
    /\ kind \in Account /\ status[op].is = "error"
    /\ Gated("redirecting")
    /\ UNCHANGED <<kind, route, cache, writes, server, made, odds>>

\* Back from it, the page loaded anew: the one hereState named, or the first.
Return ==
    /\ gate # "in" /\ gate' = "in" /\ writes' = {}
    /\ Opens(IF gate = "redirecting" THEN IF route = "handed" THEN "new" ELSE route ELSE "away",
             [q \in Queries |-> Unread])
    /\ UNCHANGED <<kind, server, made, odds>>

---------------------------------------------------------------------------
(* Reading.                                                                *)

\* Mutant of Poll: a ticket on the screen is not waited for.
PollForKiosks(q) ==
    /\ Active(q) /\ ~cache[q].fetching
    /\ kind = "kiosk" /\ q = "record"
    /\ cache' = [cache EXCEPT ![q] = Begun(q, @)]
    /\ UNCHANGED <<kind, route, gate, mount, page, writes, acked, server, made, odds>>

\* A kiosk's page all the time, the face's while it shows a ticket.
Poll(q) ==
    /\ Active(q) /\ ~cache[q].fetching
    /\ q = "record" /\ (kind = "kiosk" \/ (kind = "face" /\ panel # None))
    /\ cache' = [cache EXCEPT ![q] = Begun(q, @)]
    /\ UNCHANGED <<kind, route, gate, mount, page, writes, acked, server, made, odds>>

\* The retry of an ErrorState.
Retry(q) ==
    /\ Active(q) /\ ~cache[q].fetching /\ cache[q].bad /\ ~OnScreen(q, cache[q])
    /\ cache' = [cache EXCEPT ![q] = Begun(q, @)]
    /\ UNCHANGED <<kind, route, gate, mount, page, writes, acked, server, made, odds>>

\* The fetch of a key that has landed is what the writes that made it stale wait for.
Waited(q) == {[w EXCEPT !.waits = @ \ {q}] : w \in writes}

\* pairedSince, and the same in FaceSetting: the panel has done its job.
PairedSince(v, p) == paired.code # None /\ v >= paired.at /\ paired.at + Slack >= p.at

\* A render of the record takes a panel that has off the screen.
Rendered(p, c) ==
    IF p # None /\ OnScreen("record", c) /\ PairedSince(c.data, p) THEN None ELSE p

Land(q) ==
    /\ cache[q].fetching
    /\ \E v \in {cache[q].old, IF exists \/ q = "list" THEN ver[q] ELSE None} :
         /\ cache' = [cache EXCEPT ![q] = [data |-> IF v = None THEN @.data ELSE v,
                                          bad |-> v = None, fetching |-> FALSE, old |-> None]]
         /\ panel' = IF q = "record" THEN Rendered(panel, cache'[q]) ELSE panel
    /\ writes' = Waited(q)
    /\ UNCHANGED <<kind, route, gate, mount, status, dialog, secret, wizard, acked, server, made, odds>>

\* Mutant of FetchFails: the write that waits for it is not told.
FetchFailsUnheard(q) ==
    /\ cache[q].fetching /\ Odd
    /\ cache' = [cache EXCEPT ![q] = [@ EXCEPT !.bad = TRUE, !.fetching = FALSE, !.old = None]]
    /\ UNCHANGED <<kind, route, gate, mount, page, writes, acked, server, made>>

FetchFails(q) ==
    /\ cache[q].fetching /\ Odd
    /\ cache' = [cache EXCEPT ![q] = [@ EXCEPT !.bad = TRUE, !.fetching = FALSE, !.old = None]]
    /\ writes' = Waited(q)
    /\ UNCHANGED <<kind, route, gate, mount, page, acked, server, made>>

---------------------------------------------------------------------------
(* Writing.                                                                *)

\* The button is there: with its record, the password's always; a face is not
\* removed from beside a ticket.
Here(op) ==
    LET q == IF kind = "field" /\ op = "delete" THEN "list" ELSE "record" IN
    /\ gate = "in" /\ route = (IF q = "list" THEN "list" ELSE "detail") /\ op # "renew"
    /\ kind = "password" \/ OnScreen(q, cache[q])
    /\ kind = "face" /\ op = "remove" => panel = None

OpenDialog(op) ==
    /\ Here(op) /\ dialog = None /\ B(op).asks
    /\ dialog' = op
    /\ UNCHANGED <<kind, route, gate, mount, cache, status, secret, panel, wizard,
                   writes, acked, server, made, odds>>

CloseDialog ==
    /\ gate = "in" /\ dialog # None
    /\ dialog' = None
    /\ UNCHANGED <<kind, route, gate, mount, cache, status, secret, panel, wizard,
                   writes, acked, server, made, odds>>

Sends(op, gives) ==
    /\ made < MaxWrites[kind] /\ made' = made + 1
    /\ writes' = writes \cup {[id |-> made + 1, op |-> op, mount |-> mount, stage |-> "sent",
                               gives |-> gives, ver |-> 0, waits |-> {}, lost |-> FALSE]}
    /\ status' = [status EXCEPT ![op] = [is |-> "pending", id |-> made + 1]]

\* The button, or the dialog's; PairingPanel's is there when its code has
\* expired, pending or not, on the page that registered the kiosk too.
Press(op) ==
    /\ \/ Here(op)
       \/ op = "renew" /\ gate = "in" /\ route = "handed" /\ panel # None
    /\ B(op).asks => dialog = op
    /\ kind = "totp" => /\ op = "confirm" => secret
                        /\ op = "enroll" => ~secret
    /\ IF op \in {"code", "renew"} /\ panel # None
       THEN panel.expired ELSE status[op].is # "pending"
    /\ Sends(op, B(op).gives)
    /\ UNCHANGED <<kind, route, gate, mount, cache, dialog, secret, panel, wizard,
                   acked, server, odds>>

Handle(w) ==
    /\ w.stage = "sent"
    /\ \/ /\ writes' = (writes \ {w}) \cup {[w EXCEPT !.stage = "refused"]}
          /\ UNCHANGED <<now, ver, exists, code>>
       \/ /\ exists \/ w.op = "create"
          /\ now' = now + 1
          /\ ver' = [q \in Queries |-> IF q \in Touches(w.op) THEN now + 1 ELSE ver[q]]
          /\ exists' = (w.op # "delete" \/ kind = "field")
          /\ code' = IF w.gives = "code" THEN now + 1 ELSE code
          /\ writes' = (writes \ {w}) \cup {[w EXCEPT !.stage = "done", !.ver = now + 1]}
    /\ UNCHANGED <<kind, route, gate, mount, cache, page, acked, paired, made, odds>>

\* A request that does not arrive, or an answer that does not.
Lost(w) ==
    /\ w.stage \in {"sent", "done"} /\ Odd
    /\ writes' = (writes \ {w}) \cup {[w EXCEPT !.stage = "refused", !.lost = TRUE]}
    /\ UNCHANGED <<kind, route, gate, mount, cache, page, acked, server, made>>

\* The first request of a flow is answered: the logo, the roles or the scopes
\* follow, unless there are none.
SendExtra(w) ==
    /\ w.stage = "done" /\ w.op = "create" /\ NewOf(kind).extra
    /\ writes' = (writes \ {w}) \cup {[w EXCEPT !.stage = "extra"]}
    /\ UNCHANGED <<kind, route, gate, mount, cache, page, acked, server, made, odds>>

\* Mutant of ExtraAnswered: a logo that fails fails the registration.
ExtraThrows(w, ok) ==
    /\ w.stage = "extra"
    /\ writes' = (writes \ {w}) \cup {[w EXCEPT !.stage = IF ok THEN "all done" ELSE "refused"]}
    /\ UNCHANGED <<kind, route, gate, mount, cache, page, acked, server, made, odds>>

\* storeLogo reports a failure where roles and scopes throw it.
ExtraAnswered(w, ok) ==
    /\ w.stage = "extra"
    /\ writes' = (writes \ {w}) \cup
         {[w EXCEPT !.stage = IF ok \/ NewOf(kind).swallows THEN "all done" ELSE "refused"]}
    /\ UNCHANGED <<kind, route, gate, mount, cache, page, acked, server, made, odds>>

\* The hook's onSuccess, mounted or not: the keys, or the answer itself.
Succeed(w) ==
    LET keys == IF w.op = "create" THEN {"list"} ELSE WritesOf(kind)[w.op]
        stale == {q \in keys : Active(q)}
        answers == w.op # "create" /\ Sets(kind, w.op) IN
    /\ w.stage \in {"done", "all done"}
    /\ cache' = [q \in Queries |->
                   IF q \in stale THEN Refetched(q, cache[q])
                   ELSE IF q = "record" /\ answers
                   THEN [cache[q] EXCEPT !.data = w.ver, !.bad = FALSE]
                   ELSE cache[q]]
    /\ acked' = [q \in Queries |->
                   IF answers THEN IF q = "record" THEN 0 ELSE acked[q]
                   ELSE IF /\ w.mount = mount /\ Active(q) /\ cache[q].data # None
                           /\ q \in Touches(w.op)
                   THEN w.ver ELSE acked[q]]
    /\ writes' = (writes \ {w}) \cup
         {[w EXCEPT !.stage = "settling", !.waits = IF kind \in Console THEN stale ELSE {}]}
    /\ UNCHANGED <<kind, route, gate, mount, page, server, made, odds>>

\* The click's onSuccess.
Done(w) ==
    LET b == B(w.op) IN
    IF b.goes # None /\ w.gives = None
    THEN Opens(b.goes, cache)
    ELSE /\ dialog' = IF dialog = w.op /\ "ok" \in b.closes THEN None ELSE dialog
         /\ secret' = IF w.gives = "secret" THEN TRUE
                      ELSE IF w.op = "confirm" THEN FALSE ELSE secret
         /\ panel' = IF w.gives = "code"
                     THEN Rendered([code |-> w.ver, at |-> now, expired |-> FALSE], cache["record"])
                     ELSE panel
         /\ status' = IF status[w.op].id = w.id THEN [status EXCEPT ![w.op] = Unasked] ELSE status
         /\ IF w.op = "create"
            THEN /\ route' = "handed"
                 /\ cache' = [q \in Queries |-> IF q \in QueriesAt("handed")
                                                THEN Mounted(q, cache[q]) ELSE cache[q]]
            ELSE UNCHANGED <<route, cache>>
         /\ UNCHANGED <<mount, wizard, acked>>

\* An account page's callbacks are all its hook's; elsewhere the last click's
\* alone counts.
Heard(w) == gate = "in" /\ w.mount = mount /\ (kind \in Account \/ status[w.op].id = w.id)

Settle(w) ==
    /\ w.stage = "settling" /\ w.waits = {}
    /\ writes' = writes \ {w}
    /\ IF Heard(w) THEN Done(w)
       ELSE UNCHANGED <<route, mount, cache, page, acked>>
    /\ UNCHANGED <<kind, gate, server, made, odds>>

Fail(w) ==
    /\ w.stage = "refused"
    /\ writes' = writes \ {w}
    /\ IF w.mount = mount /\ gate = "in"
       THEN /\ dialog' = IF dialog = w.op /\ "error" \in B(w.op).closes THEN None ELSE dialog
            /\ status' = IF status[w.op].id = w.id THEN [status EXCEPT ![w.op] = [is |-> "error", id |-> 0]]
                         ELSE status
       ELSE UNCHANGED <<dialog, status>>
    /\ UNCHANGED <<kind, route, gate, mount, cache, secret, panel, wizard, acked,
                   server, made, odds>>

---------------------------------------------------------------------------
(* The flow of steps.                                                      *)

In == gate = "in" /\ route = "new"
StepTo(n) == wizard' = [wizard EXCEPT !.step = n, !.far = IF n > @ THEN n ELSE @]
KeepsAllButWizard == UNCHANGED <<kind, route, gate, mount, cache, status, dialog, secret,
                                 panel, writes, acked, server, made, odds>>

FillIn ==
    /\ In /\ wizard.step \in NewOf(kind).checked
    /\ wizard' = [wizard EXCEPT !.wrong = IF wizard.step \in @ THEN @ \ {wizard.step}
                                          ELSE @ \cup {wizard.step}]
    /\ KeepsAllButWizard

Continue ==
    /\ In /\ status["create"].is # "pending"
    /\ wizard.step < NewOf(kind).steps /\ wizard.step \notin wizard.wrong
    /\ StepTo(wizard.step + 1)
    /\ KeepsAllButWizard

\* Back, and the stepper: to any step already reached.
Jump(n) ==
    /\ In /\ n # wizard.step /\ n <= wizard.far
    /\ StepTo(n)
    /\ KeepsAllButWizard

\* handleSubmit checks every step again.
Submit ==
    /\ In /\ status["create"].is # "pending"
    /\ wizard.step = NewOf(kind).steps /\ wizard.wrong = {}
    /\ \E gives \in NewOf(kind).gives : Sends("create", gives)
    /\ UNCHANGED <<kind, route, gate, mount, cache, dialog, secret, panel, wizard,
                   acked, server, odds>>

---------------------------------------------------------------------------
(* The panel, and the world.                                               *)

\* The countdown: the code is over for everybody.
PanelExpires ==
    /\ panel # None /\ ~panel.expired
    /\ panel' = [panel EXCEPT !.expired = TRUE]
    /\ code' = IF code = panel.code THEN None ELSE code
    /\ UNCHANGED <<kind, route, gate, mount, cache, status, dialog, secret, wizard,
                   writes, acked, now, ver, exists, paired, made, odds>>

\* FaceSetting's Done.
PanelDone ==
    /\ kind = "face" /\ gate = "in" /\ panel # None /\ OnScreen("record", cache["record"])
    /\ panel' = None
    /\ UNCHANGED <<kind, route, gate, mount, cache, status, dialog, secret, wizard,
                   writes, acked, server, made, odds>>

\* TotpSetting's Cancel.
CancelEnrolment ==
    /\ kind = "totp" /\ secret /\ OnScreen("record", cache["record"])
    /\ secret' = FALSE
    /\ UNCHANGED <<kind, route, gate, mount, cache, status, dialog, panel, wizard,
                   writes, acked, server, made, odds>>

\* A device pairs with the code on the screen, or a kiosk enrols the ticket's face.
DeviceUses ==
    /\ code # None /\ panel # None /\ panel.code = code /\ exists /\ Odd
    /\ now' = now + 1 /\ ver' = [ver EXCEPT !["record"] = now + 1]
    /\ paired' = [code |-> code, at |-> now + 1] /\ code' = None
    /\ UNCHANGED <<tab, exists, made>>

OthersWrite ==
    /\ exists /\ Odd
    /\ now' = now + 1 /\ ver' = [q \in Queries |-> now + 1]
    /\ exists' \in (IF kind \in Account THEN {TRUE} ELSE BOOLEAN)
    /\ UNCHANGED <<tab, code, paired, made>>

---------------------------------------------------------------------------
Writes(w) == Handle(w) \/ SendExtra(w) \/ (\E ok \in BOOLEAN : ExtraAnswered(w, ok))
             \/ Succeed(w) \/ Settle(w) \/ Fail(w)

Next ==
    \/ \E r \in {"list", "new", "detail", "away"} : Leave(r)
    \/ RenewFails \/ Return
    \/ \E q \in Queries : Poll(q) \/ Retry(q) \/ Land(q) \/ FetchFails(q)
    \/ \E op \in Ops : OpenDialog(op) \/ Press(op) \/ StepUp(op)
    \/ CloseDialog
    \/ \E w \in writes : Writes(w) \/ Lost(w)
    \/ kind \in Console /\ (FillIn \/ Continue \/ Submit)
    \/ \E n \in 1..5 : Jump(n)
    \/ PanelExpires \/ PanelDone \/ CancelEnrolment \/ DeviceUses \/ OthersWrite

Spec == Init /\ [][Next]_vars

\* Requests are answered, and the poll's timer runs.
Fairness ==
    /\ \A q \in Queries : WF_vars(Land(q)) /\ WF_vars(Poll(q))
    /\ WF_vars(\E w \in writes : Writes(w))

FairSpec == Spec /\ Fairness

---------------------------------------------------------------------------
(* What it promises.                                                       *)

\* What a page has saved it goes on to show: once nothing is being fetched, no
\* query on the screen is older than the last write the page made to it
\* (useWrite's invalidations, and the account's).  Promised neither to a query
\* that had nothing yet nor once an answer itself is put into the cache: a fetch
\* sent before that write, or an older answer, then comes over what was shown.
SavedIsShown ==
    \A q \in Queries :
        Active(q) /\ ~cache[q].fetching /\ ~cache[q].bad /\ cache[q].data # None
        => cache[q].data >= acked[q]

\* A secret is answered once.  A write that made one, and whose answer came back
\* to the page it left from, ends with the page holding the secret to show it,
\* whatever failed after it (SecretHandover, storeLogo).
SecretReachesThePage ==
    [][\A w \in writes :
         /\ w.gives = "secret" /\ w.ver # 0 /\ ~w.lost
         /\ gate = "in" /\ w.mount = mount
         /\ \A x \in writes' : x.id # w.id
         => secret']_vars

\* The code on the screen has been used: the page comes to say so, if the record
\* is still there and so is the person.
PairingIsNoticed ==
    LET used == panel # None /\ panel.code = paired.code /\ exists /\ gate = "in" IN
    used ~> ~used

\* No button stays at its "Working": whatever is lost, refused or left behind,
\* every mutation comes to say what became of it.
WaitsEnd ==
    LET waiting == \E op \in DOMAIN status : status[op].is = "pending" IN
    waiting ~> ~waiting

=============================================================================
