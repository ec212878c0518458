--------------------------- MODULE DashboardProofs ---------------------------
(***************************************************************************)
(* What a page of the dashboard shows, for any number of writes, losses,   *)
(* other people's changes and pages opened: proofs that what a page has    *)
(* saved it goes on to show, and that a secret made for it reaches it.     *)
(*                                                                         *)
(* Both rest on what a write under way knows of the page it left from: its *)
(* number is the one its button waits for, so that its callback is heard   *)
(* (Pending), and it never claims more than the provider has (Written).    *)
(* What a query holds, or is fetching, is then as new as what was last     *)
(* acknowledged to the page (Shown), by the table of what each write makes *)
(* stale against what it changes (TheTablesAgree).                         *)
(***************************************************************************)
EXTENDS Dashboard, TLAPS

Stages == {"sent", "refused", "done", "extra", "all done", "settling"}
Write  == [id : Nat, op : Ops \cup {"create"}, mount : Nat, stage : Stages,
           gives : {None, "secret", "code"}, ver : Nat, waits : SUBSET Queries,
           lost : BOOLEAN]
Query  == [data : Nat \cup {None}, bad : BOOLEAN, fetching : BOOLEAN, old : Nat \cup {None}]

Shapes ==
    /\ kind \in AllKinds /\ mount \in Nat /\ made \in Nat /\ now \in Nat
    /\ exists \in BOOLEAN
    /\ route \in {"list", "detail", "new", "handed", "away"}
    /\ kind \in Account => route \in {"detail", "away"}
    /\ ver \in [Queries -> Nat] /\ acked \in [Queries -> Nat]
    /\ cache \in [Queries -> Query]
    /\ status \in [Ops \cup {"create"} -> [is : {"idle", "pending", "error"}, id : Nat]]
    /\ writes \subseteq Write

\* Nothing is newer than the provider's clock.
Clock ==
    /\ \A q \in Queries : ver[q] <= now
    /\ \A w \in writes : \A q \in Touches(w.op) : w.ver <= ver[q]

\* A write of the page on the screen is the one its button waits for, but for a
\* pairing code's, whose button comes back while it is pending.
Pending ==
    /\ \A w \in writes : w.id <= made /\ w.mount <= mount
    /\ \A v, w \in writes : v.id = w.id => v = w
    /\ \A w \in writes :
         w.mount = mount =>
             /\ w.op \notin {"code", "renew"} => status[w.op] = [is |-> "pending", id |-> w.id]
             /\ w.op = "create" => route = "new"

\* What the stage of a write says of it.
Written ==
    \A w \in writes :
        /\ w.op = "create" => kind \in Console /\ w.gives \in NewOf(kind).gives
        /\ w.op # "create" => w.gives = B(w.op).gives
        /\ w.stage = "sent" => w.ver = 0
        /\ w.stage = "extra" => w.op = "create" /\ NewOf(kind).extra
        /\ w.stage = "refused" => w.lost \/ w.ver = 0 \/ w.gives # "secret"

\* What was acknowledged is there, or on its way.
ShownOf(q) ==
    /\ acked[q] <= ver[q]
    /\ acked[q] > 0 =>
         /\ cache[q].data # None
         /\ cache[q].fetching => cache[q].old = None \/ cache[q].old >= acked[q]
         /\ ~cache[q].fetching => cache[q].bad \/ cache[q].data >= acked[q]

Shown == \A q \in Queries : ShownOf(q)

IInv == Shapes /\ Clock /\ Pending /\ Written /\ Shown

-----------------------------------------------------------------------------
(* The tables.                                                             *)

\* Each row of the tables is for these operations.
LEMMA TheOperations ==
    ASSUME kind \in AllKinds
    PROVE  "create" \notin Ops
  <1>1. CASE kind = "client"
    BY <1>1 DEF Ops, WritesOf, ClientWrites
  <1>2. CASE kind = "group"
    BY <1>2 DEF Ops, WritesOf, GroupWrites
  <1>3. CASE kind = "role"
    BY <1>3 DEF Ops, WritesOf, RoleWrites
  <1>4. CASE kind = "user"
    BY <1>4 DEF Ops, WritesOf, UserWrites
  <1>5. CASE kind = "kiosk"
    BY <1>5 DEF Ops, WritesOf, KioskWrites
  <1>6. CASE kind = "api"
    BY <1>6 DEF Ops, WritesOf, ApiWrites
  <1>7. CASE kind = "field"
    BY <1>7 DEF Ops, WritesOf, FieldWrites
  <1>8. CASE kind = "app"
    BY <1>8 DEF Ops, WritesOf, AppWrites
  <1>9. CASE kind = "totp"
    BY <1>9 DEF Ops, WritesOf, TotpWrites
  <1>10. CASE kind = "face"
    BY <1>10 DEF Ops, WritesOf, FaceWrites
  <1>11. CASE kind = "password"
    BY <1>11 DEF Ops, WritesOf, PasswordWrites
  <1>12. CASE kind = "session"
    BY <1>12 DEF Ops, WritesOf, SessionWrites
  <1>13. CASE kind = "connection"
    BY <1>13 DEF Ops, WritesOf, ConnectionWrites
  <1>14. CASE kind = "profile"
    BY <1>14 DEF Ops, WritesOf, ProfileWrites
  <1> QED
    BY <1>1, <1>2, <1>3, <1>4, <1>5, <1>6, <1>7, <1>8, <1>9, <1>10, <1>11, <1>12, <1>13, <1>14 DEF AllKinds, Console, Account

\* What a write changes of what the screen can show, its answer makes stale: but
\* where the answer itself is put into the cache, and the account has no lists.
LEMMA TheTablesAgree ==
    ASSUME kind \in AllKinds, NEW op \in Ops, ~Sets(kind, op), NEW q \in Touches(op),
           kind \in Account => q # "list"
    PROVE  q \in WritesOf(kind)[op]
  <1>1. CASE kind = "client"
    BY <1>1 DEF Ops, WritesOf, ClientWrites, Touches, Sets, Both, Queries, Account
  <1>2. CASE kind = "group"
    BY <1>2 DEF Ops, WritesOf, GroupWrites, Touches, Sets, Both, Queries, Account
  <1>3. CASE kind = "role"
    BY <1>3 DEF Ops, WritesOf, RoleWrites, Touches, Sets, Both, Queries, Account
  <1>4. CASE kind = "user"
    BY <1>4 DEF Ops, WritesOf, UserWrites, Touches, Sets, Both, Queries, Account
  <1>5. CASE kind = "kiosk"
    BY <1>5 DEF Ops, WritesOf, KioskWrites, Touches, Sets, Both, Queries, Account
  <1>6. CASE kind = "api"
    BY <1>6 DEF Ops, WritesOf, ApiWrites, Touches, Sets, Both, Queries, Account
  <1>7. CASE kind = "field"
    BY <1>7 DEF Ops, WritesOf, FieldWrites, Touches, Sets, Both, Queries, Account
  <1>8. CASE kind = "app"
    BY <1>8 DEF Ops, WritesOf, AppWrites, Touches, Sets, Both, Queries, Account
  <1>9. CASE kind = "totp"
    BY <1>9 DEF Ops, WritesOf, TotpWrites, Touches, Sets, Both, Queries, Account
  <1>10. CASE kind = "face"
    BY <1>10 DEF Ops, WritesOf, FaceWrites, Touches, Sets, Both, Queries, Account
  <1>11. CASE kind = "password"
    BY <1>11 DEF Ops, WritesOf, PasswordWrites, Touches, Sets, Both, Queries, Account
  <1>12. CASE kind = "session"
    BY <1>12 DEF Ops, WritesOf, SessionWrites, Touches, Sets, Both, Queries, Account
  <1>13. CASE kind = "connection"
    BY <1>13 DEF Ops, WritesOf, ConnectionWrites, Touches, Sets, Both, Queries, Account
  <1>14. CASE kind = "profile"
    BY <1>14 DEF Ops, WritesOf, ProfileWrites, Touches, Sets, Both, Queries, Account
  <1> QED
    BY <1>1, <1>2, <1>3, <1>4, <1>5, <1>6, <1>7, <1>8, <1>9, <1>10, <1>11, <1>12, <1>13, <1>14 DEF AllKinds, Console, Account

\* What a button's answer gives, and where it leads: an account's nowhere.
LEMMA TheButtons ==
    ASSUME kind \in AllKinds, NEW op \in Ops
    PROVE  /\ ButtonsOf(kind)[op].gives \in {None, "secret", "code"}
           /\ ButtonsOf(kind)[op].goes \in {None, "list"}
           /\ kind \in Account => ButtonsOf(kind)[op].goes = None
           /\ op \in {"code", "renew"} => ButtonsOf(kind)[op].gives = "code"
  <1> DEFINE Fine(b) == /\ b.gives \in {None, "secret", "code"}
                        /\ b.goes \in {None, "list"}
             Stays(b) == Fine(b) /\ b.goes = None
             Told == [Leaves EXCEPT !.closes = {"error"}]
             Closes == [Dialog EXCEPT !.closes = {"ok", "error"}]
             Secret == [Button EXCEPT !.gives = "secret"]
             Code == [Button EXCEPT !.gives = "code"]
             Away == [Button EXCEPT !.goes = "list"]
  <1>a. Stays(Button) /\ Stays(Dialog) /\ Stays(RotateDialog) /\ Stays(PairingPanel)
    BY DEF Button, Dialog, RotateDialog, PairingPanel
  <1>b. Fine(Leaves) /\ Fine(Told)
    BY DEF Leaves, Dialog, Button
  <1>c. Stays(Secret) /\ Stays(Code) /\ Stays(Closes) /\ Fine(Away)
        /\ Code.gives = "code" /\ PairingPanel.gives = "code"
    BY DEF Dialog, Button, PairingPanel
  <1>d. /\ RoleButtons = [save |-> Button, delete |-> Told]
        /\ ApiButtons = [define |-> Dialog, scope |-> Dialog, delete |-> Told]
        /\ FieldButtons = [save |-> Away, delete |-> Dialog]
        /\ TotpButtons = [enroll |-> Secret, confirm |-> Button, remove |-> Closes]
        /\ FaceButtons = [code |-> Code, remove |-> Closes]
    BY DEF RoleButtons, ApiButtons, FieldButtons, TotpButtons, FaceButtons, CreateScopeDialog
  <1> HIDE DEF Told, Closes, Secret, Code, Away
  <1>1. CASE kind = "client"
    BY <1>a, <1>b, <1>c, <1>d, <1>1 DEF Ops, WritesOf, ButtonsOf, ClientWrites, ClientButtons, LogoControl, Account
  <1>2. CASE kind = "group"
    BY <1>a, <1>b, <1>c, <1>d, <1>2 DEF Ops, WritesOf, ButtonsOf, GroupWrites, GroupButtons, AddMembersDialog, Account
  <1>3. CASE kind = "role"
    BY <1>a, <1>b, <1>c, <1>d, <1>3 DEF Ops, WritesOf, ButtonsOf, RoleWrites, Account
  <1>4. CASE kind = "user"
    BY <1>a, <1>b, <1>c, <1>d, <1>4 DEF Ops, WritesOf, ButtonsOf, UserWrites, UserButtons, SetEditor, Account
  <1>5. CASE kind = "kiosk"
    BY <1>a, <1>b, <1>c, <1>d, <1>5 DEF Ops, WritesOf, ButtonsOf, KioskWrites, KioskButtons, SettingsForm, Account
  <1>6. CASE kind = "api"
    BY <1>a, <1>b, <1>c, <1>d, <1>6 DEF Ops, WritesOf, ButtonsOf, ApiWrites, Account
  <1>7. CASE kind = "field"
    BY <1>a, <1>b, <1>c, <1>d, <1>7 DEF Ops, WritesOf, ButtonsOf, FieldWrites, Account
  <1>8. CASE kind = "app"
    BY <1>a, <1>b, <1>c, <1>d, <1>8 DEF Ops, WritesOf, ButtonsOf, AppWrites, AppButtons, LogoControl, Account
  <1>9. CASE kind = "totp"
    BY <1>a, <1>b, <1>c, <1>d, <1>9 DEF Ops, WritesOf, ButtonsOf, TotpWrites, Account
  <1>10. CASE kind = "face"
    BY <1>a, <1>b, <1>c, <1>d, <1>10 DEF Ops, WritesOf, ButtonsOf, FaceWrites, Account
  <1>11. CASE kind = "password"
    BY <1>a, <1>b, <1>c, <1>d, <1>11 DEF Ops, WritesOf, ButtonsOf, PasswordWrites, PasswordButtons, Account
  <1>12. CASE kind = "session"
    BY <1>a, <1>b, <1>c, <1>d, <1>12 DEF Ops, WritesOf, ButtonsOf, SessionWrites, SessionButtons, Account
  <1>13. CASE kind = "connection"
    BY <1>a, <1>b, <1>c, <1>d, <1>13 DEF Ops, WritesOf, ButtonsOf, ConnectionWrites, ConnectionButtons, Account
  <1>14. CASE kind = "profile"
    BY <1>a, <1>b, <1>c, <1>d, <1>14 DEF Ops, WritesOf, ButtonsOf, ProfileWrites, ProfileButtons, Account
  <1> QED
    BY <1>1, <1>2, <1>3, <1>4, <1>5, <1>6, <1>7, <1>8, <1>9, <1>10, <1>11, <1>12, <1>13, <1>14 DEF AllKinds, Console, Account

\* What a flow hands over and where it ends; one that hands over a secret is
\* not undone by its second request.
LEMMA TheFlows ==
    ASSUME kind \in Console
    PROVE  /\ NewOf(kind).gives \subseteq {None, "secret", "code"}
           /\ NewOf(kind).goes \in {"list", "detail"}
           /\ ("secret" \in NewOf(kind).gives /\ NewOf(kind).extra) => NewOf(kind).swallows
  <1> USE DashboardAssumption
  <1>1. CASE kind = "client"
    BY <1>1 DEF NewOf, ClientNew, Flow
  <1>2. CASE kind = "group"
    BY <1>2 DEF NewOf, GroupNew, Flow
  <1>3. CASE kind = "role"
    BY <1>3 DEF NewOf, RoleNew, Flow
  <1>4. CASE kind = "user"
    BY <1>4 DEF NewOf, UserNew, Flow
  <1>5. CASE kind = "kiosk"
    BY <1>5 DEF NewOf, KioskNew, Flow
  <1>6. CASE kind = "api"
    BY <1>6 DEF NewOf, ApiNew, Flow
  <1>7. CASE kind = "field"
    BY <1>7 DEF NewOf, FieldNew, Flow
  <1>8. CASE kind = "app"
    BY <1>8 DEF NewOf, AppNew, Flow
  <1> QED
    BY <1>1, <1>2, <1>3, <1>4, <1>5, <1>6, <1>7, <1>8 DEF Console

-----------------------------------------------------------------------------
(* What each kind of step does.                                            *)

\* The queries go on as they are, or a fetch of them begins.
Reads == \A q \in Queries : cache'[q] \in {cache[q], Begun(q, cache[q])}

\* The page does something else than write or read the answer to a write.
Aside ==
    /\ UNCHANGED <<kind, route, mount, made, status, acked, writes>>
    /\ cache' \in [Queries -> Query]
    /\ Reads
    /\ exists' \in BOOLEAN /\ now' \in Nat /\ ver' \in [Queries -> Nat]
    /\ now <= now'
    /\ \A q \in Queries : ver[q] <= ver'[q] /\ ver'[q] <= now'

\* Another page is mounted.
Mounts ==
    /\ UNCHANGED <<kind, made, now, ver, exists>>
    /\ mount' = mount + 1
    /\ Blank
    /\ cache' \in [Queries -> Query]
    /\ route' \in {"list", "detail", "new", "handed", "away"}
    /\ kind \in Account => route' \in {"detail", "away"}
    /\ writes' \subseteq writes

\* A fetch begun is a query, with what it had.
LEMMA Begins ==
    ASSUME Shapes, NEW q \in Queries, NEW c \in Query
    PROVE  /\ Begun(q, c) \in Query
           /\ Mounted(q, c) \in Query
           /\ Refetched(q, c) \in Query
  BY DEF Begun, Mounted, Refetched, Query, Shapes

\* A page that is opened has each query as it was, or begins to fetch it.
LEMMA Opening ==
    ASSUME Shapes, NEW r, NEW c \in [Queries -> Query], Opens(r, c)
    PROVE  cache' \in [Queries -> Query]
  BY Begins DEF Opens

\* The steps that only look, fill in or wait.
LEMMA AsideSteps ==
    ASSUME Shapes, Clock,
           \/ \E q \in Queries : Poll(q) \/ Retry(q)
           \/ \E op \in Ops : OpenDialog(op)
           \/ CloseDialog \/ FillIn \/ Continue \/ \E n \in 1..5 : Jump(n)
           \/ PanelExpires \/ PanelDone \/ CancelEnrolment \/ DeviceUses \/ OthersWrite
           \/ UNCHANGED vars
    PROVE  Aside
  <1>0. /\ cache \in [Queries -> Query] /\ exists \in BOOLEAN /\ now \in Nat
        /\ ver \in [Queries -> Nat] /\ \A q \in Queries : ver[q] <= now
    BY DEF Shapes, Clock
  <1>1. CASE UNCHANGED <<kind, route, mount, made, status, acked, writes, cache, now, ver, exists>>
    BY <1>0, <1>1 DEF Aside, Reads
  <1>2. ASSUME NEW q \in Queries, Poll(q) \/ Retry(q)
        PROVE  Aside
    <2>1. cache' = [cache EXCEPT ![q] = Begun(q, cache[q])]
      BY <1>2 DEF Poll, Retry
    <2>2. Begun(q, cache[q]) \in Query
      BY <1>0, Begins
    <2>3. cache' \in [Queries -> Query] /\ Reads
      BY <1>0, <2>1, <2>2 DEF Reads
    <2> QED
      BY <1>0, <1>2, <2>3 DEF Poll, Retry, Aside, page, server
  <1>3. CASE \/ \E op \in Ops : OpenDialog(op)
             \/ CloseDialog \/ PanelDone \/ CancelEnrolment
    BY <1>1, <1>3 DEF OpenDialog, CloseDialog, PanelDone, CancelEnrolment, server
  <1>4. CASE FillIn \/ Continue \/ \E n \in 1..5 : Jump(n)
    BY <1>1, <1>4 DEF FillIn, Continue, Jump, KeepsAllButWizard, server
  <1>5. CASE PanelExpires
    BY <1>1, <1>5 DEF PanelExpires
  <1>6. CASE DeviceUses
    <2>1. now' = now + 1 /\ ver' = [ver EXCEPT !["record"] = now + 1] /\ exists' = exists
      BY <1>6 DEF DeviceUses
    <2>2. ASSUME NEW q \in Queries
          PROVE  ver'[q] \in Nat /\ ver[q] <= ver'[q] /\ ver'[q] <= now'
      <3>1. ver'[q] = IF q = "record" THEN now + 1 ELSE ver[q]
        BY <1>0, <2>1
      <3>2. ver[q] \in Nat /\ ver[q] <= now /\ now' = now + 1
        BY <1>0, <2>1
      <3> QED
        BY <1>0, <3>1, <3>2
    <2>3. ver' \in [Queries -> Nat]
      BY <1>0, <2>1, <2>2
    <2> QED
      BY <1>0, <1>6, <2>1, <2>2, <2>3 DEF DeviceUses, tab, page, Aside, Reads
  <1>7. CASE OthersWrite
    <2>1. now' = now + 1 /\ ver' = [q \in Queries |-> now + 1]
      BY <1>7 DEF OthersWrite
    <2>2. exists' \in BOOLEAN
      BY <1>7 DEF OthersWrite
    <2>3. \A q \in Queries : ver'[q] \in Nat /\ ver[q] <= ver'[q] /\ ver'[q] <= now'
      BY <1>0, <2>1
    <2> QED
      BY <1>0, <1>7, <2>1, <2>2, <2>3 DEF OthersWrite, tab, page, Aside, Reads
  <1>8. CASE UNCHANGED vars
    BY <1>1, <1>8 DEF vars
  <1> QED
    BY <1>2, <1>3, <1>4, <1>5, <1>6, <1>7, <1>8

\* The steps that mount another page, or none.
LEMMA MountSteps ==
    ASSUME Shapes,
           \/ \E r \in {"list", "new", "detail", "away"} : Leave(r)
           \/ RenewFails \/ Return \/ \E op \in Ops : StepUp(op)
    PROVE  Mounts
  <1>0. /\ cache \in [Queries -> Query]
        /\ route \in {"list", "detail", "new", "handed", "away"}
        /\ kind \in Account => route \in {"detail", "away"}
    BY DEF Shapes
  <1>1. ASSUME NEW r \in {"list", "new", "detail", "away"}, Leave(r)
        PROVE  Mounts
    <2>1. Opens(r, cache)
      BY <1>1 DEF Leave
    <2>2. cache' \in [Queries -> Query]
      BY <1>0, <2>1, Opening
    <2>3. kind \in Account => r \in {"detail", "away"}
      BY <1>0, <1>1 DEF Leave, Console, Account
    <2> QED
      BY <1>1, <2>1, <2>2, <2>3 DEF Leave, Opens, Mounts, server
  <1>2. CASE RenewFails \/ \E op \in Ops : StepUp(op)
    BY <1>0, <1>2 DEF RenewFails, StepUp, Gated, Mounts, server
  <1>3. CASE Return
    <2> DEFINE r == IF gate = "redirecting" THEN IF route = "handed" THEN "new" ELSE route ELSE "away"
               c == [q \in Queries |-> Unread]
    <2>1. Opens(r, c)
      BY <1>3 DEF Return
    <2>2. c \in [Queries -> Query]
      BY DEF Unread, Query
    <2>3. /\ r \in {"list", "detail", "new", "handed", "away"}
          /\ kind \in Account => r \in {"detail", "away"}
      BY <1>0
    <2> HIDE DEF r, c
    <2>4. cache' \in [Queries -> Query]
      BY <2>1, <2>2, Opening
    <2> QED
      BY <1>3, <2>1, <2>3, <2>4 DEF Return, Opens, Mounts, server
  <1> QED
    BY <1>1, <1>2, <1>3

\* A field of a write, or more, changed.
Kin(x, w) == x.id = w.id /\ x.op = w.op /\ x.mount = w.mount /\ x.gives = w.gives

\* The writes that are left were there before.
Left == \A x \in writes' : x \in Write /\ \E w \in writes : Kin(x, w)

\* And are as many, or fewer.
LEMMA OneGoesOn ==
    ASSUME Shapes, kind' = kind, NEW w \in writes, NEW x \in Write, Kin(x, w),
           writes' = (writes \ {w}) \cup {x}
    PROVE  Left
  BY DEF Left, Shapes, Kin

\* What a fetch that lands does to the writes that wait for it.
LEMMA WaitedKeeps ==
    ASSUME Shapes, NEW q, writes' = Waited(q)
    PROVE  \A x \in writes' : /\ x \in Write
                              /\ \E w \in writes : /\ Kin(x, w) /\ x.stage = w.stage
                                                  /\ x.ver = w.ver /\ x.lost = w.lost
                                                  /\ x = [w EXCEPT !.waits = @ \ {q}]
  <1>1. ASSUME NEW x \in writes'
        PROVE  \E w \in writes : x = [w EXCEPT !.waits = @ \ {q}]
    BY <1>1 DEF Waited
  <1>2. ASSUME NEW w \in writes, NEW x, x = [w EXCEPT !.waits = @ \ {q}]
        PROVE  /\ x \in Write
               /\ Kin(x, w) /\ x.stage = w.stage /\ x.ver = w.ver /\ x.lost = w.lost
    <2>1. w \in Write
      BY DEF Shapes
    <2>2. /\ x.id = w.id /\ x.op = w.op /\ x.mount = w.mount /\ x.gives = w.gives
          /\ x.stage = w.stage /\ x.ver = w.ver /\ x.lost = w.lost
      BY <1>2, <2>1 DEF Write
    <2>3. x \in Write
      BY <1>2, <2>1 DEF Write
    <2> QED
      BY <2>2, <2>3 DEF Kin
  <1> QED
    BY <1>1, <1>2

\* A new write, and the button that waits for it.
Sent(op) ==
    \E gives \in {None, "secret", "code"} :
        /\ made' = made + 1
        /\ writes' = writes \cup {[id |-> made + 1, op |-> op, mount |-> mount, stage |-> "sent",
                                  gives |-> gives, ver |-> 0, waits |-> {}, lost |-> FALSE]}
        /\ status' = [status EXCEPT ![op] = [is |-> "pending", id |-> made + 1]]
        /\ op = "create" => gives \in NewOf(kind).gives
        /\ op # "create" => gives = B(op).gives
        /\ op \notin {"code", "renew"} => status[op].is # "pending"
        /\ op = "create" => route = "new" /\ kind \in Console
        /\ op \in Ops \cup {"create"}
        /\ UNCHANGED <<kind, route, mount, cache, acked, now, ver, exists>>

\* A button pressed, a form submitted.
LEMMA SendSteps ==
    ASSUME Shapes,
           \/ \E op \in Ops : Press(op)
           \/ kind \in Console /\ Submit
    PROVE  \E op \in Ops \cup {"create"} : Sent(op)
  <1>0. kind \in AllKinds
    BY DEF Shapes
  <1>1. ASSUME NEW op \in Ops, Press(op)
        PROVE  Sent(op)
    <2>1. op # "create"
      BY <1>0, TheOperations
    <2>2. B(op).gives \in {None, "secret", "code"}
      BY <1>0, <2>1, TheButtons DEF B
    <2>3. op \notin {"code", "renew"} => status[op].is # "pending"
      BY <1>1 DEF Press
    <2> DEFINE g == B(op).gives
    <2>4. Sends(op, g) /\ UNCHANGED <<kind, route, mount, cache, acked, now, ver, exists>>
      BY <1>1 DEF Press, server
    <2>5. g = B(op).gives
      OBVIOUS
    <2> HIDE DEF g
    <2> QED
      BY <2>1, <2>2, <2>3, <2>4, <2>5 DEF Sends, Sent
  <1>2. CASE kind \in Console /\ Submit
    <2>1. PICK gives \in NewOf(kind).gives : Sends("create", gives)
      BY <1>2 DEF Submit
    <2>2. gives \in {None, "secret", "code"}
      BY <1>2, TheFlows
    <2>3. /\ status["create"].is # "pending" /\ route = "new"
          /\ UNCHANGED <<kind, route, mount, cache, acked, now, ver, exists>>
      BY <1>2 DEF Submit, In, server
    <2> QED
      BY <1>2, <2>1, <2>2, <2>3 DEF Sends, Sent
  <1> QED
    BY <1>1, <1>2

-----------------------------------------------------------------------------
(* What the parts of the invariant need of a step.                         *)

\* A tab stays on its kind of page, and the tables with it.
LEMMA SameKind ==
    ASSUME kind' = kind
    PROVE  /\ Ops' = Ops
           /\ Write' = Write
           /\ Query' = Query
           /\ \A op : Touches(op)' = Touches(op)
           /\ \A op : B(op)' = B(op)
           /\ NewOf(kind)' = NewOf(kind)
  BY DEF Ops, Write, Query, Touches, B

\* Numbers are given once, and to the page that is on the screen.
Numbered ==
    /\ \A w \in writes : w.id <= made /\ w.mount <= mount
    /\ \A v, w \in writes : v.id = w.id => v = w

Waiting ==
    \A w \in writes :
      w.mount = mount =>
          /\ w.op \notin {"code", "renew"} => status[w.op] = [is |-> "pending", id |-> w.id]
          /\ w.op = "create" => route = "new"

\* Pending in two parts, now and in the next state.
LEMMA PendingIs == (Pending <=> Numbered /\ Waiting) /\ (Pending' <=> Numbered' /\ Waiting')
  BY DEF Pending, Numbered, Waiting

\* Writes that are left keep their numbers.
LEMMA NumberedKept ==
    ASSUME Shapes, Numbered, Left, made' = made, mount' \in Nat, mount <= mount',
           \A x, y \in writes' : x.id = y.id => x = y
    PROVE  Numbered'
  <1>1. ASSUME NEW x \in writes'
        PROVE  x.id <= made' /\ x.mount <= mount'
    <2>1. PICK w \in writes : Kin(x, w)
      BY DEF Left
    <2>2. w.id <= made /\ w.mount <= mount /\ w \in Write
      BY DEF Numbered, Shapes
    <2> QED
      BY <2>1, <2>2 DEF Kin, Shapes, Write
  <1> QED
    BY <1>1 DEF Numbered

\* A write that moves on is still the only one of its number.
LEMMA OneMoves ==
    ASSUME Shapes, Numbered, NEW w \in writes, NEW x \in Write, Kin(x, w),
           writes' = (writes \ {w}) \cup {x}
    PROVE  \A y, z \in writes' : y.id = z.id => y = z
  BY DEF Numbered, Kin

\* A page that opens has no writes yet.
LEMMA WaitingAnew ==
    ASSUME Shapes, Numbered, Left, mount' = mount + 1
    PROVE  Waiting'
  <1>1. ASSUME NEW x \in writes'
        PROVE  x.mount # mount'
    <2>1. PICK w \in writes : Kin(x, w)
      BY DEF Left
    <2>2. w.mount <= mount /\ w \in Write
      BY DEF Numbered, Shapes
    <2> QED
      BY <2>1, <2>2 DEF Kin, Shapes, Write
  <1> QED
    BY <1>1 DEF Waiting

\* And one that stays waits for the same.
LEMMA WaitingOn ==
    ASSUME Shapes, Waiting, Left, UNCHANGED <<mount, status, route>>
    PROVE  Waiting'
  BY DEF Waiting, Left, Kin

\* A query that goes on, or is fetched anew, is as new as what it promises.
LEMMA ShownKept ==
    ASSUME Shapes, NEW q \in Queries, ShownOf(q),
           cache'[q] \in {cache[q], Begun(q, cache[q])},
           acked'[q] \in {acked[q], 0}, ver'[q] \in Nat, ver[q] <= ver'[q]
    PROVE  ShownOf(q)'
  <1>0. /\ cache[q] \in Query /\ acked[q] \in Nat /\ ver[q] \in Nat
    BY DEF Shapes
  <1>1. CASE acked'[q] = 0
    BY <1>0, <1>1 DEF ShownOf
  <1>2. CASE acked'[q] = acked[q] /\ cache'[q] = cache[q]
    BY <1>0, <1>2 DEF ShownOf, Query
  <1>3. CASE acked'[q] = acked[q] /\ cache'[q] = Begun(q, cache[q])
    <2>1. /\ cache'[q].data = cache[q].data /\ cache'[q].fetching
          /\ cache'[q].old \in {ver[q], None}
      BY <1>0, <1>3 DEF Begun, Query
    <2> QED
      BY <1>0, <1>3, <2>1 DEF ShownOf, Query
  <1> QED
    BY <1>1, <1>2, <1>3

\* The clock goes on; what a write has done stays done.
LEMMA ClockKept ==
    ASSUME Shapes, Clock, kind' = kind, now' \in Nat, ver' \in [Queries -> Nat],
           \A q \in Queries : ver[q] <= ver'[q] /\ ver'[q] <= now',
           \A x \in writes' : x \in Write /\ \E w \in writes : x.op = w.op /\ x.ver \in {w.ver, 0}
    PROVE  Clock'
  <1>1. ASSUME NEW x \in writes', NEW q \in Touches(x.op)'
        PROVE  x.ver <= ver'[q]
    <2>1. PICK w \in writes : x.op = w.op /\ x.ver \in {w.ver, 0}
      OBVIOUS
    <2>2. q \in Touches(w.op)
      BY <2>1, SameKind
    <2>3. q \in Queries
      BY <2>2 DEF Touches, Queries
    <2>4. w.ver <= ver[q] /\ w.ver \in Nat /\ ver[q] \in Nat /\ ver'[q] \in Nat
      BY <2>2, <2>3 DEF Clock, Shapes, Write
    <2> QED
      BY <2>1, <2>3, <2>4
  <1> QED
    BY <1>1 DEF Clock

-----------------------------------------------------------------------------
(* The steps, one by one.                                                  *)

\* A dashboard nobody has used yet.
LEMMA InitIInv == Init => IInv
  <1> SUFFICES ASSUME Init
               PROVE  IInv
    OBVIOUS
  <1> USE DashboardAssumption DEF Init
  <1>1. kind \in AllKinds /\ (kind \in Account => route \in {"detail", "away"})
    BY DEF Console, Account
  <1>2. cache \in [Queries -> Query]
    BY DEF Unread, Query
  <1>3. status \in [Ops \cup {"create"} -> [is : {"idle", "pending", "error"}, id : Nat]]
    BY DEF Unasked
  <1>4. Shapes
    BY <1>1, <1>2, <1>3 DEF Shapes
  <1>5. Clock /\ Pending /\ Written /\ Shown
    BY DEF Clock, Pending, Written, Shown, ShownOf
  <1> QED
    BY <1>4, <1>5 DEF IInv

\* What the page does besides writing.
LEMMA AsideKeeps == IInv /\ Aside => IInv'
  <1> SUFFICES ASSUME Shapes, Clock, Pending, Written, Shown, Aside
               PROVE  IInv'
    BY DEF IInv
  <1> USE DEF Aside
  <1>1. Shapes'
    BY SameKind DEF Shapes
  <1>2. \A x \in writes' : x \in Write /\ x \in writes
    BY DEF Shapes
  <1>3. Clock'
    BY <1>2, ClockKept
  <1>4. Pending'
    BY DEF Pending
  <1>5. Written'
    BY SameKind DEF Written
  <1>6. Shown'
    <2>1. ASSUME NEW q \in Queries
          PROVE  ShownOf(q)'
      BY ShownKept DEF Reads, Shown
    <2> QED
      BY <2>1 DEF Shown
  <1> QED
    BY <1>1, <1>3, <1>4, <1>5, <1>6 DEF IInv

\* Another page on the screen: the writes of the one before are not its own.
LEMMA MountsKeeps == IInv /\ Mounts => IInv'
  <1> SUFFICES ASSUME Shapes, Clock, Pending, Written, Shown, Mounts
               PROVE  IInv'
    BY DEF IInv
  <1>0. /\ UNCHANGED <<kind, made, now, ver, exists>> /\ mount' = mount + 1
        /\ writes' \subseteq writes /\ acked' = [q \in Queries |-> 0]
        /\ status' = [op \in Ops \cup {"create"} |-> Unasked]
    BY DEF Mounts, Blank
  <1>1. Shapes'
    BY <1>0, SameKind DEF Mounts, Shapes, Unasked
  <1>2. Left
    BY <1>0 DEF Left, Shapes, Kin
  <1>3. Clock'
    BY <1>0, ClockKept DEF Clock, Shapes
  <1>4. Pending'
    BY <1>0, <1>2, PendingIs, NumberedKept, WaitingAnew DEF Numbered, Shapes
  <1>5. Written'
    BY <1>0, SameKind DEF Written
  <1>6. Shown'
    BY <1>0 DEF Shown, ShownOf, Shapes
  <1> QED
    BY <1>1, <1>3, <1>4, <1>5, <1>6 DEF IInv

\* An answer that lands is no older than what it was asked for, or says that
\* there is nothing; one that does not land is an error.
LEMMA FetchKeeps ==
    ASSUME IInv, NEW q \in Queries, Land(q) \/ FetchFails(q)
    PROVE  IInv'
  <1>0. Shapes /\ Clock /\ Pending /\ Written /\ Shown
    BY DEF IInv
  <1>1. /\ UNCHANGED <<kind, route, mount, made, status, acked, now, ver, exists>>
        /\ writes' = Waited(q) /\ cache[q].fetching
    BY DEF Land, FetchFails, page, server
  <1>2. cache \in [Queries -> Query] /\ acked \in [Queries -> Nat] /\ ver \in [Queries -> Nat]
    BY <1>0 DEF Shapes
  <1>3. \E c \in Query :
           /\ cache' = [cache EXCEPT ![q] = c]
           /\ ~c.fetching
           /\ cache[q].data # None => c.data # None
           /\ c.bad \/ (c.data \in Nat /\ c.data \in {cache[q].old, ver[q]})
    <2>1. CASE Land(q)
      <3>1. PICK v \in {cache[q].old, IF exists \/ q = "list" THEN ver[q] ELSE None} :
               cache' = [cache EXCEPT ![q] = [data |-> IF v = None THEN @.data ELSE v,
                                              bad |-> v = None, fetching |-> FALSE, old |-> None]]
        BY <2>1 DEF Land
      <3> DEFINE c == [data |-> IF v = None THEN cache[q].data ELSE v,
                       bad |-> v = None, fetching |-> FALSE, old |-> None]
      <3>2. cache' = [cache EXCEPT ![q] = c]
        BY <3>1
      <3>3. v \in Nat \cup {None} /\ cache[q].data \in Nat \cup {None}
        BY <1>2 DEF Query
      <3>4. c \in Query
        BY <3>3 DEF Query
      <3>5. /\ ~c.fetching
            /\ cache[q].data # None => c.data # None
            /\ c.bad \/ (c.data \in Nat /\ c.data \in {cache[q].old, ver[q]})
        BY <3>3
      <3> HIDE DEF c
      <3> QED
        BY <3>2, <3>4, <3>5
    <2>2. CASE FetchFails(q)
      <3> DEFINE c == [cache[q] EXCEPT !.bad = TRUE, !.fetching = FALSE, !.old = None]
      <3>1. cache' = [cache EXCEPT ![q] = c]
        BY <2>2 DEF FetchFails
      <3>2. c \in Query /\ ~c.fetching /\ c.bad /\ c.data = cache[q].data
        BY <1>2 DEF Query
      <3> HIDE DEF c
      <3> QED
        BY <3>1, <3>2
    <2> QED
      BY <2>1, <2>2
  <1>4. PICK c \in Query :
           /\ cache' = [cache EXCEPT ![q] = c]
           /\ ~c.fetching
           /\ cache[q].data # None => c.data # None
           /\ c.bad \/ (c.data \in Nat /\ c.data \in {cache[q].old, ver[q]})
    BY <1>3
  <1>5. \A x \in writes' : /\ x \in Write
                           /\ \E w \in writes : /\ Kin(x, w) /\ x.stage = w.stage
                                               /\ x.ver = w.ver /\ x.lost = w.lost
                                               /\ x = [w EXCEPT !.waits = @ \ {q}]
    BY <1>0, <1>1, WaitedKeeps
  <1>6. Left
    BY <1>5 DEF Left
  <1>7. Shapes'
    BY <1>0, <1>1, <1>2, <1>4, <1>5, SameKind DEF Shapes
  <1>8. Clock'
    <2>1. \A x \in writes' : x \in Write /\ \E w \in writes : x.op = w.op /\ x.ver \in {w.ver, 0}
      BY <1>5 DEF Kin
    <2> QED
      BY <1>0, <1>1, <2>1, ClockKept DEF Clock, Shapes
  <1>9. Pending'
    <2>1. \A x, y \in writes' : x.id = y.id => x = y
      <3> SUFFICES ASSUME NEW x \in writes', NEW y \in writes', x.id = y.id
                   PROVE  x = y
        OBVIOUS
      <3>1. PICK v \in writes : Kin(x, v) /\ x = [v EXCEPT !.waits = @ \ {q}]
        BY <1>5
      <3>2. PICK w \in writes : Kin(y, w) /\ y = [w EXCEPT !.waits = @ \ {q}]
        BY <1>5
      <3>3. v.id = w.id
        BY <3>1, <3>2 DEF Kin
      <3>4. v = w
        BY <1>0, <3>3 DEF Pending
      <3> QED
        BY <3>1, <3>2, <3>4
    <2> QED
      BY <1>0, <1>1, <1>6, <2>1, PendingIs, NumberedKept, WaitingOn DEF Shapes
  <1>10. Written'
    BY <1>0, <1>1, <1>5, SameKind DEF Written, Kin
  <1>11. Shown'
    <2>1. ASSUME NEW p \in Queries, p # q
          PROVE  ShownOf(p)'
      BY <1>0, <1>1, <1>2, <1>4, <2>1 DEF Shown, ShownOf
    <2>2. ShownOf(q)'
      <3>1. cache'[q] = c
        BY <1>2, <1>4
      <3>2. ShownOf(q)
        BY <1>0 DEF Shown
      <3>3. CASE c.bad
        BY <1>1, <1>4, <3>1, <3>2, <3>3 DEF ShownOf
      <3>4. CASE c.data \in Nat /\ c.data \in {cache[q].old, ver[q]}
        BY <1>1, <1>2, <1>4, <3>1, <3>2, <3>4, DashboardAssumption DEF ShownOf
      <3> QED
        BY <1>4, <3>3, <3>4
    <2> QED
      BY <2>1, <2>2 DEF Shown
  <1> QED
    BY <1>7, <1>8, <1>9, <1>10, <1>11 DEF IInv

\* A new write has a number of its own, and its button was not waiting.
LEMMA SentKeeps ==
    ASSUME IInv, NEW op \in Ops \cup {"create"}, Sent(op)
    PROVE  IInv'
  <1>0. Shapes /\ Clock /\ Pending /\ Written /\ Shown
    BY DEF IInv
  <1>1. PICK gives \in {None, "secret", "code"} :
        /\ made' = made + 1
        /\ writes' = writes \cup {[id |-> made + 1, op |-> op, mount |-> mount, stage |-> "sent",
                                  gives |-> gives, ver |-> 0, waits |-> {}, lost |-> FALSE]}
        /\ status' = [status EXCEPT ![op] = [is |-> "pending", id |-> made + 1]]
        /\ op = "create" => gives \in NewOf(kind).gives
        /\ op # "create" => gives = B(op).gives
        /\ op \notin {"code", "renew"} => status[op].is # "pending"
        /\ op = "create" => route = "new" /\ kind \in Console
        /\ UNCHANGED <<kind, route, mount, cache, acked, now, ver, exists>>
    BY DEF Sent
  <1> DEFINE n == [id |-> made + 1, op |-> op, mount |-> mount, stage |-> "sent",
                   gives |-> gives, ver |-> 0, waits |-> {}, lost |-> FALSE]
  <1>2. /\ n \in Write
        /\ n.id = made + 1 /\ n.op = op /\ n.mount = mount /\ n.stage = "sent"
        /\ n.gives = gives /\ n.ver = 0
    <2>1. made + 1 \in Nat /\ mount \in Nat
      BY <1>0 DEF Shapes
    <2>2. n \in Write
      BY <2>1 DEF Write, Stages
    <2> QED
      BY <2>2
  <1>3. writes' = writes \cup {n}
    BY <1>1
  <1> HIDE DEF n
  <1>4. made \in Nat /\ mount \in Nat /\ writes \subseteq Write
        /\ status \in [Ops \cup {"create"} -> [is : {"idle", "pending", "error"}, id : Nat]]
    BY <1>0 DEF Shapes
  <1>5. Shapes'
    <2>1. status' \in [Ops \cup {"create"} -> [is : {"idle", "pending", "error"}, id : Nat]]
      BY <1>1, <1>4
    <2> QED
      BY <1>0, <1>1, <1>2, <1>3, <1>4, <2>1, SameKind DEF Shapes
  <1>6. Clock'
    <2>1. ASSUME NEW x \in writes', NEW p \in Touches(x.op)'
          PROVE  x.ver <= ver'[p]
      <3>1. p \in Touches(x.op) /\ p \in Queries
        BY <1>1, SameKind DEF Touches, Queries
      <3>2. ver[p] \in Nat
        BY <1>0, <3>1 DEF Shapes
      <3>3. CASE x = n
        BY <1>1, <1>2, <3>2, <3>3
      <3>4. CASE x \in writes
        BY <1>0, <1>1, <3>1, <3>4 DEF Clock
      <3> QED
        BY <1>3, <3>3, <3>4
    <2> QED
      BY <1>0, <1>1, <2>1 DEF Clock
  <1>7. Numbered'
    <2>1. \A w \in writes : w.id \in Nat /\ w.mount \in Nat /\ w.id <= made /\ w.mount <= mount
      BY <1>0, <1>4 DEF Pending, Write
    <2>2. \A v, w \in writes : v.id = w.id => v = w
      BY <1>0 DEF Pending
    <2> QED
      BY <1>1, <1>2, <1>3, <1>4, <2>1, <2>2 DEF Numbered
  <1>8. Waiting'
    <2>1. ASSUME NEW w \in writes, w.mount = mount, w.op \notin {"code", "renew"}
          PROVE  status[w.op] = [is |-> "pending", id |-> w.id] /\ w.op # op
      BY <1>0, <1>1, <2>1 DEF Pending
    <2>2. ASSUME NEW x \in writes', x.mount = mount'
          PROVE  /\ x.op \notin {"code", "renew"} => status'[x.op] = [is |-> "pending", id |-> x.id]
                 /\ x.op = "create" => route' = "new"
      <3>1. CASE x = n
        BY <1>1, <1>2, <1>4, <3>1
      <3>2. CASE x \in writes
        <4>1. x.op \in Ops \cup {"create"}
          BY <1>4, <3>2 DEF Write
        <4> QED
          BY <1>0, <1>1, <1>4, <2>1, <2>2, <3>2, <4>1 DEF Pending
      <3> QED
        BY <1>3, <3>1, <3>2
    <2> QED
      BY <2>2 DEF Waiting
  <1>9. Written'
    <2>1. ASSUME NEW x \in writes', x = n
          PROVE  /\ x.op = "create" => kind' \in Console /\ x.gives \in NewOf(kind).gives
                 /\ x.op # "create" => x.gives = B(x.op).gives
                 /\ x.stage = "sent" /\ x.ver = 0
      BY <1>1, <1>2, <2>1
    <2> QED
      BY <1>0, <1>1, <1>3, <2>1, SameKind DEF Written
  <1>10. Shown'
    <2>1. ASSUME NEW p \in Queries
          PROVE  ShownOf(p)'
      BY <1>0, <1>1, ShownKept DEF Shown, Shapes
    <2> QED
      BY <2>1 DEF Shown
  <1> QED
    BY <1>5, <1>6, <1>7, <1>8, <1>9, <1>10, PendingIs DEF IInv

\* A write that moves on, with the clock or without it.
LEMMA MovedOn ==
    ASSUME Shapes, Clock, Pending, Written, NEW w \in writes, NEW x \in Write, Kin(x, w),
           writes' = (writes \ {w}) \cup {x},
           UNCHANGED <<kind, route, mount, made, status>>,
           now' \in Nat, ver' \in [Queries -> Nat],
           \A q \in Queries : ver[q] <= ver'[q] /\ ver'[q] <= now',
           \A q \in Touches(w.op) : x.ver <= ver'[q],
           x.stage = "sent" => x.ver = 0,
           x.stage = "extra" => x.op = "create" /\ NewOf(kind).extra,
           x.stage = "refused" => x.lost \/ x.ver = 0 \/ x.gives # "secret"
    PROVE  writes' \subseteq Write /\ Clock' /\ Pending' /\ Written'
  <1>1. writes' \subseteq Write /\ writes \subseteq Write
    BY DEF Shapes
  <1>2. Left
    BY <1>1, OneGoesOn
  <1>3. Clock'
    <2>1. ASSUME NEW y \in writes', NEW q \in Touches(y.op)'
          PROVE  y.ver <= ver'[q]
      <3>1. q \in Touches(y.op) /\ q \in Queries
        BY SameKind DEF Touches, Queries
      <3>2. CASE y = x
        BY <3>1, <3>2 DEF Kin
      <3>3. CASE y \in writes
        <4>1. y.ver \in Nat /\ ver[q] \in Nat /\ ver'[q] \in Nat
          BY <1>1, <3>1, <3>3 DEF Shapes, Write
        <4>2. y.ver <= ver[q] /\ ver[q] <= ver'[q]
          BY <3>1, <3>3 DEF Clock
        <4> QED
          BY <4>1, <4>2
      <3> QED
        BY <3>2, <3>3
    <2> QED
      BY <2>1 DEF Clock
  <1>4. Pending'
    BY <1>2, PendingIs, OneMoves, NumberedKept, WaitingOn DEF Shapes
  <1>5. Written'
    <2>1. /\ x.op = "create" => kind \in Console /\ x.gives \in NewOf(kind).gives
          /\ x.op # "create" => x.gives = B(x.op).gives
      BY DEF Written, Kin
    <2> QED
      BY <2>1, SameKind DEF Written
  <1> QED
    BY <1>1, <1>3, <1>4, <1>5

\* The provider's part: it refuses, or its clock goes on and dates the answer.
LEMMA HandleKeeps ==
    ASSUME IInv, NEW w \in writes, Handle(w)
    PROVE  IInv'
  <1>0. Shapes /\ Clock /\ Pending /\ Written /\ Shown
    BY DEF IInv
  <1>1. /\ w \in Write /\ now \in Nat /\ ver \in [Queries -> Nat] /\ exists \in BOOLEAN
        /\ \A q \in Queries : ver[q] <= now
    BY <1>0 DEF Shapes, Clock
  <1>2. /\ UNCHANGED <<kind, route, mount, made, status, cache, acked>>
        /\ w.stage = "sent" /\ w.ver = 0
    BY <1>0 DEF Handle, page, Written
  <1>3. CASE /\ writes' = (writes \ {w}) \cup {[w EXCEPT !.stage = "refused"]}
             /\ UNCHANGED <<now, ver, exists>>
    <2> DEFINE x == [w EXCEPT !.stage = "refused"]
    <2>1. x \in Write /\ Kin(x, w) /\ x.stage = "refused" /\ x.ver = 0
      BY <1>1, <1>2 DEF Write, Stages, Kin
    <2>2. writes' = (writes \ {w}) \cup {x}
      BY <1>3
    <2> HIDE DEF x
    <2>3. \A q \in Touches(w.op) : x.ver <= ver'[q]
      BY <1>1, <1>2, <1>3, <2>1 DEF Touches, Queries
    <2>4. writes' \subseteq Write /\ Clock' /\ Pending' /\ Written'
      BY <1>0, <1>1, <1>2, <1>3, <2>1, <2>2, <2>3, MovedOn
    <2>5. Shapes'
      BY <1>0, <1>2, <1>3, <2>4, SameKind DEF Shapes
    <2>6. Shown'
      BY <1>0, <1>2, <1>3 DEF Shown, ShownOf
    <2> QED
      BY <2>4, <2>5, <2>6 DEF IInv
  <1>4. CASE /\ now' = now + 1
             /\ ver' = [q \in Queries |-> IF q \in Touches(w.op) THEN now + 1 ELSE ver[q]]
             /\ exists' = (w.op # "delete" \/ kind = "field")
             /\ writes' = (writes \ {w}) \cup {[w EXCEPT !.stage = "done", !.ver = now + 1]}
    <2> DEFINE then == now + 1
               x == [w EXCEPT !.stage = "done", !.ver = then]
    <2>a. then \in Nat
      BY <1>1
    <2> HIDE DEF then
    <2>b. x \in Write /\ Kin(x, w) /\ x.stage = "done" /\ x.ver = then
      BY <1>1, <2>a DEF Write, Stages, Kin
    <2>1. x \in Write /\ Kin(x, w) /\ x.stage = "done" /\ x.ver = now + 1
      BY <2>b DEF then
    <2>2. writes' = (writes \ {w}) \cup {x}
      BY <1>4 DEF then
    <2> HIDE DEF x
    <2>3. ASSUME NEW q \in Queries
          PROVE  /\ ver'[q] \in Nat /\ ver[q] <= ver'[q] /\ ver'[q] <= now'
                 /\ q \in Touches(w.op) => x.ver <= ver'[q]
      <3>1. ver'[q] = IF q \in Touches(w.op) THEN now + 1 ELSE ver[q]
        BY <1>4
      <3>2. ver[q] \in Nat /\ ver[q] <= now /\ now' = now + 1
        BY <1>1, <1>4
      <3> QED
        BY <1>1, <2>1, <3>1, <3>2
    <2>4. now' \in Nat /\ ver' \in [Queries -> Nat]
      BY <1>1, <1>4, <2>3
    <2>5. \A q \in Touches(w.op) : x.ver <= ver'[q]
      BY <2>3 DEF Touches, Queries
    <2>6. writes' \subseteq Write /\ Clock' /\ Pending' /\ Written'
      BY <1>0, <1>2, <2>1, <2>2, <2>3, <2>4, <2>5, MovedOn
    <2>7. Shapes'
      <3>1. exists' \in BOOLEAN
        BY <1>4
      <3> QED
        BY <1>0, <1>2, <2>4, <2>6, <3>1, SameKind DEF Shapes
    <2>8. Shown'
      <3>1. ASSUME NEW q \in Queries
            PROVE  ShownOf(q)'
        BY <1>0, <1>2, <2>3, ShownKept DEF Shown
      <3> QED
        BY <3>1 DEF Shown
    <2> QED
      BY <2>6, <2>7, <2>8 DEF IInv
  <1> QED
    BY <1>3, <1>4, Zenon DEF Handle

\* What is lost is refused; the second request of a flow follows the first, and
\* its failure counts where it is not swallowed.
LEMMA ProgressKeeps ==
    ASSUME IInv, NEW w \in writes,
           \/ Lost(w) \/ SendExtra(w) \/ \E ok \in BOOLEAN : ExtraAnswered(w, ok)
    PROVE  IInv'
  <1>0. Shapes /\ Clock /\ Pending /\ Written /\ Shown
    BY DEF IInv
  <1>1. /\ w \in Write /\ now \in Nat /\ ver \in [Queries -> Nat] /\ exists \in BOOLEAN
        /\ \A q \in Queries : ver[q] <= now
        /\ kind \in AllKinds
    BY <1>0 DEF Shapes, Clock
  <1>2. UNCHANGED <<kind, route, mount, made, status, cache, acked, now, ver, exists>>
    BY DEF Lost, SendExtra, ExtraAnswered, page, server
  <1>3. \E x \in Write :
            /\ Kin(x, w) /\ x.ver = w.ver
            /\ writes' = (writes \ {w}) \cup {x}
            /\ x.stage # "sent"
            /\ x.stage = "extra" => x.op = "create" /\ NewOf(kind).extra
            /\ x.stage = "refused" => x.lost \/ x.ver = 0 \/ x.gives # "secret"
    <2>1. CASE Lost(w)
      <3> DEFINE x == [w EXCEPT !.stage = "refused", !.lost = TRUE]
      <3>1. /\ x \in Write /\ Kin(x, w) /\ x.ver = w.ver /\ x.stage = "refused" /\ x.lost
        BY <1>1 DEF Write, Stages, Kin
      <3>2. writes' = (writes \ {w}) \cup {x}
        BY <2>1 DEF Lost
      <3> HIDE DEF x
      <3> QED
        BY <3>1, <3>2
    <2>2. CASE SendExtra(w)
      <3> DEFINE x == [w EXCEPT !.stage = "extra"]
      <3>1. /\ x \in Write /\ Kin(x, w) /\ x.ver = w.ver /\ x.stage = "extra" /\ x.op = w.op
        BY <1>1 DEF Write, Stages, Kin
      <3>2. /\ writes' = (writes \ {w}) \cup {x}
            /\ w.op = "create" /\ NewOf(kind).extra
        BY <2>2 DEF SendExtra
      <3> HIDE DEF x
      <3> QED
        BY <3>1, <3>2
    <2>3. ASSUME NEW ok \in BOOLEAN, ExtraAnswered(w, ok)
          PROVE  \E x \in Write :
                    /\ Kin(x, w) /\ x.ver = w.ver
                    /\ writes' = (writes \ {w}) \cup {x}
                    /\ x.stage # "sent"
                    /\ x.stage = "extra" => x.op = "create" /\ NewOf(kind).extra
                    /\ x.stage = "refused" => x.lost \/ x.ver = 0 \/ x.gives # "secret"
      <3> DEFINE st == IF ok \/ NewOf(kind).swallows THEN "all done" ELSE "refused"
                 x == [w EXCEPT !.stage = st]
      <3>1. st \in {"all done", "refused"} /\ (st = "refused" => ~NewOf(kind).swallows)
        OBVIOUS
      <3>2. /\ writes' = (writes \ {w}) \cup {x}
            /\ w.stage = "extra"
        BY <2>3 DEF ExtraAnswered
      <3> HIDE DEF st
      <3>3. /\ x \in Write /\ Kin(x, w) /\ x.ver = w.ver /\ x.stage = st /\ x.gives = w.gives
        BY <1>1, <3>1 DEF Write, Stages, Kin
      <3> HIDE DEF x
      <3>4. /\ kind \in Console /\ w.gives \in NewOf(kind).gives /\ NewOf(kind).extra
        BY <1>0, <3>2 DEF Written
      <3>5. st = "refused" => w.gives # "secret"
        BY <3>1, <3>4, TheFlows
      <3> QED
        BY <3>1, <3>2, <3>3, <3>5
    <2> QED
      BY <2>1, <2>2, <2>3
  <1>4. PICK x \in Write :
            /\ Kin(x, w) /\ x.ver = w.ver
            /\ writes' = (writes \ {w}) \cup {x}
            /\ x.stage # "sent"
            /\ x.stage = "extra" => x.op = "create" /\ NewOf(kind).extra
            /\ x.stage = "refused" => x.lost \/ x.ver = 0 \/ x.gives # "secret"
    BY <1>3
  <1>5. \A q \in Touches(w.op) : x.ver <= ver'[q]
    BY <1>0, <1>2, <1>4 DEF Clock
  <1>6. now' \in Nat /\ ver' \in [Queries -> Nat]
        /\ \A q \in Queries : ver[q] <= ver'[q] /\ ver'[q] <= now'
    BY <1>1, <1>2
  <1>7. writes' \subseteq Write /\ Clock' /\ Pending' /\ Written'
    BY <1>0, <1>2, <1>4, <1>5, <1>6, MovedOn
  <1>8. Shapes'
    BY <1>0, <1>2, <1>7, SameKind DEF Shapes
  <1>9. Shown'
    BY <1>0, <1>2 DEF Shown, ShownOf
  <1> QED
    BY <1>7, <1>8, <1>9 DEF IInv

\* An answer makes stale what its write has changed, so that what it acknowledges
\* to a page is being fetched; or takes the promise back with what it puts in.
LEMMA SucceedKeeps ==
    ASSUME IInv, NEW w \in writes, Succeed(w)
    PROVE  IInv'
  <1>0. Shapes /\ Clock /\ Pending /\ Written /\ Shown
    BY DEF IInv
  <1>1. /\ w \in Write /\ now \in Nat /\ ver \in [Queries -> Nat] /\ exists \in BOOLEAN
        /\ acked \in [Queries -> Nat] /\ cache \in [Queries -> Query]
        /\ \A q \in Queries : ver[q] <= now
        /\ kind \in AllKinds
    BY <1>0 DEF Shapes, Clock
  <1>2. UNCHANGED <<kind, route, mount, made, status, now, ver, exists>>
    BY DEF Succeed, page, server
  <1> DEFINE keys == IF w.op = "create" THEN {"list"} ELSE WritesOf(kind)[w.op]
             stale == {q \in keys : Active(q)}
             answers == w.op # "create" /\ Sets(kind, w.op)
             waits == IF kind \in Console THEN stale ELSE {}
             x == [w EXCEPT !.stage = "settling", !.waits = waits]
  <1>3. /\ cache' = [q \in Queries |->
                      IF q \in stale THEN Refetched(q, cache[q])
                      ELSE IF q = "record" /\ answers
                      THEN [cache[q] EXCEPT !.data = w.ver, !.bad = FALSE]
                      ELSE cache[q]]
        /\ acked' = [q \in Queries |->
                      IF answers THEN IF q = "record" THEN 0 ELSE acked[q]
                      ELSE IF /\ w.mount = mount /\ Active(q) /\ cache[q].data # None
                              /\ q \in Touches(w.op)
                      THEN w.ver ELSE acked[q]]
        /\ writes' = (writes \ {w}) \cup {x}
    BY Zenon DEF Succeed
  <1>4. stale \subseteq Queries
    BY DEF Active, QueriesAt, More, Queries
  <1>5. \A q \in Queries : q \in Touches(w.op) => w.ver <= ver[q]
    BY <1>0 DEF Clock
  <1>6. ASSUME NEW q \in Queries, ~answers, w.mount = mount, Active(q), q \in Touches(w.op)
        PROVE  q \in stale
    <2>1. w.op # "create"
      <3> SUFFICES ASSUME w.op = "create"
                   PROVE  FALSE
        OBVIOUS
      <3>1. route = "new"
        BY <1>0, <1>6 DEF Pending
      <3> QED
        BY <1>6, <3>1 DEF Active, QueriesAt
    <2>2. w.op \in Ops
      BY <1>1, <2>1 DEF Write
    <2>3. kind \in Account => q # "list"
      BY <1>0, <1>6 DEF Shapes, Active, QueriesAt, More
    <2>4. q \in WritesOf(kind)[w.op]
      BY <1>1, <1>6, <2>1, <2>2, <2>3, TheTablesAgree
    <2> QED
      BY <1>6, <2>1, <2>4
  <1>7. waits \subseteq Queries
    BY <1>4
  <1> HIDE DEF keys, stale, answers, waits
  <1>8. /\ x \in Write /\ Kin(x, w) /\ x.ver = w.ver /\ x.stage = "settling"
    BY <1>1, <1>7 DEF Write, Stages, Kin
  <1> HIDE DEF x
  <1>9. writes' \subseteq Write /\ Clock' /\ Pending' /\ Written'
    <2>1. now' \in Nat /\ ver' \in [Queries -> Nat]
          /\ \A q \in Queries : ver[q] <= ver'[q] /\ ver'[q] <= now'
      BY <1>1, <1>2
    <2>2. \A q \in Touches(w.op) : x.ver <= ver'[q]
      BY <1>2, <1>5, <1>8 DEF Touches, Queries
    <2> QED
      BY <1>0, <1>2, <1>3, <1>8, <2>1, <2>2, MovedOn
  <1>10. w.ver \in Nat
    BY <1>1 DEF Write
  <1>11. cache' \in [Queries -> Query] /\ acked' \in [Queries -> Nat]
    <2>1. ASSUME NEW q \in Queries
          PROVE  /\ Refetched(q, cache[q]) \in Query
                 /\ [cache[q] EXCEPT !.data = w.ver, !.bad = FALSE] \in Query
                 /\ cache[q] \in Query
      <3>1. cache[q] \in Query
        BY <1>1
      <3>2. Refetched(q, cache[q]) \in Query
        BY <1>0, <3>1, Begins
      <3>3. [cache[q] EXCEPT !.data = w.ver, !.bad = FALSE] \in Query
        BY <1>10, <3>1 DEF Query
      <3> QED
        BY <3>1, <3>2, <3>3
    <2> QED
      BY <1>1, <1>3, <1>10, <2>1
  <1>12. Shapes'
    BY <1>0, <1>2, <1>9, <1>11, SameKind DEF Shapes
  <1>13. ASSUME NEW q \in Queries
         PROVE  ShownOf(q)'
    <2>0. ShownOf(q) /\ cache[q] \in Query /\ acked[q] \in Nat /\ ver[q] \in Nat
      BY <1>0, <1>1 DEF Shown
    <2>1. CASE acked'[q] = 0
      BY <1>2, <2>0, <2>1 DEF ShownOf
    <2>2. CASE /\ ~answers /\ w.mount = mount /\ Active(q) /\ cache[q].data # None
               /\ q \in Touches(w.op)
      <3>1. acked'[q] = w.ver /\ w.ver <= ver[q] /\ q \in stale
        BY <1>3, <1>5, <1>6, <2>2
      <3>2. cache'[q] = Begun(q, cache[q])
        BY <1>3, <2>2, <3>1 DEF Refetched
      <3>3. /\ cache'[q].data = cache[q].data /\ cache'[q].fetching
            /\ cache'[q].old \in {ver[q], None}
        BY <2>0, <3>2 DEF Begun, Query
      <3> QED
        BY <1>2, <1>10, <2>0, <2>2, <3>1, <3>3 DEF ShownOf
    <2>3. CASE acked'[q] = acked[q] /\ ~(q = "record" /\ answers)
      <3>1. cache'[q] \in {cache[q], Begun(q, cache[q])}
        BY <1>3, <2>3 DEF Refetched
      <3> QED
        BY <1>0, <1>2, <2>0, <2>3, <3>1, ShownKept
    <2> QED
      BY <1>3, <2>1, <2>2, <2>3
  <1> QED
    BY <1>9, <1>12, <1>13 DEF IInv, Shown

\* The end of a write's own button's waiting.
LEMMA StatusEnds ==
    ASSUME Shapes, Pending, NEW w \in writes, NEW u, u.is \in {"idle", "error"}, u.id = 0,
           u \in [is : {"idle", "pending", "error"}, id : Nat],
           status' = IF status[w.op].id = w.id THEN [status EXCEPT ![w.op] = u] ELSE status,
           writes' = writes \ {w}, UNCHANGED <<kind, mount>>,
           route' = route \/ (w.op = "create" /\ w.mount = mount)
    PROVE  /\ status' \in [Ops \cup {"create"} -> [is : {"idle", "pending", "error"}, id : Nat]]
           /\ Waiting'
  <1>0. /\ status \in [Ops \cup {"create"} -> [is : {"idle", "pending", "error"}, id : Nat]]
        /\ writes \subseteq Write
        /\ \A x \in writes : x.op \in Ops \cup {"create"}
    BY DEF Shapes, Write
  <1>1. status' \in [Ops \cup {"create"} -> [is : {"idle", "pending", "error"}, id : Nat]]
    BY <1>0
  <1>2. ASSUME NEW x \in writes, x # w, x.mount = mount, x.op \notin {"code", "renew"}
        PROVE  /\ status'[x.op] = status[x.op]
               /\ x.op = "create" => route' = route
    <2>a. status[x.op] = [is |-> "pending", id |-> x.id]
      BY <1>2 DEF Pending
    <2>1. status[x.op].id = x.id
      BY <2>a
    <2>2. x.id # w.id
      BY <1>2 DEF Pending
    <2>3. status'[x.op] = status[x.op]
      BY <1>0, <2>1, <2>2
    <2>4. ASSUME x.op = "create", w.op = "create", w.mount = mount
          PROVE  FALSE
      <3>a. status["create"] = [is |-> "pending", id |-> w.id]
        BY <2>4 DEF Pending
      <3>1. status["create"].id = w.id
        BY <3>a
      <3> QED
        BY <2>1, <2>2, <2>4, <3>1
    <2> QED
      BY <2>3, <2>4
  <1>3. Waiting'
    <2>1. ASSUME NEW x \in writes', x.mount = mount'
          PROVE  /\ x.op \notin {"code", "renew"} =>
                       status'[x.op] = [is |-> "pending", id |-> x.id]
                 /\ x.op = "create" => route' = "new"
      BY <1>2, <2>1 DEF Pending
    <2> QED
      BY <2>1 DEF Waiting
  <1> QED
    BY <1>1, <1>3

\* A callback that is heard opens a page or ends its button's waiting.
LEMMA SettleKeeps ==
    ASSUME IInv, NEW w \in writes, Settle(w)
    PROVE  IInv'
  <1>0. Shapes /\ Clock /\ Pending /\ Written /\ Shown
    BY DEF IInv
  <1>1. /\ UNCHANGED <<kind, now, ver, exists, made>>
        /\ writes' = writes \ {w} /\ w \in Write
    BY <1>0 DEF Settle, server, Shapes
  <1>2. kind \in AllKinds /\ mount \in Nat /\ cache \in [Queries -> Query]
        /\ now \in Nat /\ ver \in [Queries -> Nat]
    BY <1>0 DEF Shapes
  <1>3. Left
    BY <1>0, <1>1 DEF Left, Shapes, Kin
  <1>4. Clock'
    <2>1. \A x \in writes' : x \in Write /\ \E v \in writes : x.op = v.op /\ x.ver \in {v.ver, 0}
      BY <1>0, <1>1 DEF Shapes
    <2> QED
      BY <1>0, <1>1, <1>2, <2>1, ClockKept DEF Clock
  <1>5. Written'
    BY <1>0, <1>1, SameKind DEF Written
  <1>6. w.op = "create" => kind \in Console
    BY <1>0 DEF Written
  <1>7. CASE ~Heard(w)
    <2>1. UNCHANGED <<route, mount, cache, status, acked>>
      BY <1>7 DEF Settle, page
    <2>2. Pending'
      BY <1>0, <1>1, <2>1 DEF Pending
    <2>3. Shapes'
      BY <1>0, <1>1, <2>1, SameKind DEF Shapes
    <2>4. Shown'
      BY <1>0, <1>1, <2>1 DEF Shown, ShownOf
    <2> QED
      BY <1>4, <1>5, <2>2, <2>3, <2>4 DEF IInv
  <1>8. CASE Heard(w) /\ B(w.op).goes # None /\ w.gives = None
    <2>1. Opens(B(w.op).goes, cache)
      BY <1>8 DEF Settle, Done
    <2>2. B(w.op).goes \in {"list", "detail"} /\ (kind \in Account => B(w.op).goes = "detail")
      <3>1. CASE w.op = "create"
        BY <1>6, <3>1, TheFlows DEF B, Button, Console, Account
      <3>2. CASE w.op # "create"
        <4>1. w.op \in Ops
          BY <1>1, <3>2 DEF Write
        <4> QED
          BY <1>2, <1>8, <3>2, <4>1, TheButtons DEF B
      <3> QED
        BY <3>1, <3>2
    <2>3. cache' \in [Queries -> Query]
      BY <1>0, <1>2, <2>1, Opening
    <2>4. Mounts
      BY <1>1, <2>1, <2>2, <2>3 DEF Opens, Mounts
    <2> QED
      BY <2>4, MountsKeeps
  <1>9. CASE Heard(w) /\ ~(B(w.op).goes # None /\ w.gives = None)
    <2>1. /\ status' = IF status[w.op].id = w.id THEN [status EXCEPT ![w.op] = Unasked] ELSE status
          /\ UNCHANGED <<mount, acked>>
          /\ w.op # "create" => UNCHANGED <<route, cache>>
          /\ w.op = "create" =>
                /\ route' = "handed"
                /\ cache' = [q \in Queries |-> IF q \in QueriesAt("handed")
                                               THEN Mounted(q, cache[q]) ELSE cache[q]]
      BY <1>9 DEF Settle, Done
    <2>2. w.mount = mount
      BY <1>9 DEF Heard
    <2> DEFINE u == Unasked
    <2>3. u.is = "idle" /\ u.id = 0 /\ u \in [is : {"idle", "pending", "error"}, id : Nat]
      BY DEF Unasked
    <2>4. status' = IF status[w.op].id = w.id THEN [status EXCEPT ![w.op] = u] ELSE status
      BY <2>1
    <2> HIDE DEF u
    <2>a. route' = route \/ (w.op = "create" /\ w.mount = mount)
      BY <2>1, <2>2
    <2>b. UNCHANGED <<kind, mount>> /\ writes' = writes \ {w} /\ Pending /\ u.is \in {"idle", "error"}
      BY <1>0, <1>1, <2>1, <2>3
    <2>5. /\ status' \in [Ops \cup {"create"} -> [is : {"idle", "pending", "error"}, id : Nat]]
          /\ Waiting'
      BY <1>0, <2>3, <2>4, <2>a, <2>b, StatusEnds
    <2>6. Reads /\ cache' \in [Queries -> Query]
      <3>1. CASE w.op # "create"
        BY <1>2, <2>1, <3>1 DEF Reads
      <3>2. CASE w.op = "create"
        <4>1. \A q \in Queries : Mounted(q, cache[q]) \in {cache[q], Begun(q, cache[q])}
          BY DEF Mounted
        <4>2. \A q \in Queries : Mounted(q, cache[q]) \in Query
          BY <1>0, <1>2, Begins
        <4> QED
          BY <1>2, <2>1, <3>2, <4>1, <4>2 DEF Reads
      <3> QED
        BY <3>1, <3>2
    <2>7. Shapes'
      <3>1. /\ route' \in {"list", "detail", "new", "handed", "away"}
            /\ kind \in Account => route' \in {"detail", "away"}
        BY <1>0, <1>6, <2>1 DEF Shapes, Console, Account
      <3>2. writes' \subseteq Write
        BY <1>0, <1>1 DEF Shapes
      <3> QED
        BY <1>0, <1>1, <2>1, <2>5, <2>6, <3>1, <3>2, SameKind DEF Shapes
    <2>8. Pending'
      BY <1>0, <1>1, <1>2, <1>3, <2>1, <2>5, PendingIs, NumberedKept DEF Numbered
    <2>9. Shown'
      <3>1. ASSUME NEW q \in Queries
            PROVE  ShownOf(q)'
        BY <1>0, <1>1, <1>2, <2>1, <2>6, ShownKept DEF Shown, Reads
      <3> QED
        BY <3>1 DEF Shown
    <2> QED
      BY <1>4, <1>5, <2>7, <2>8, <2>9 DEF IInv
  <1> QED
    BY <1>7, <1>8, <1>9

\* A refusal ends its button's waiting, if the page is still there.
LEMMA FailKeeps ==
    ASSUME IInv, NEW w \in writes, Fail(w)
    PROVE  IInv'
  <1>0. Shapes /\ Clock /\ Pending /\ Written /\ Shown
    BY DEF IInv
  <1>1. /\ UNCHANGED <<kind, route, mount, cache, acked, now, ver, exists, made>>
        /\ writes' = writes \ {w}
    BY DEF Fail, server
  <1>2. /\ writes \subseteq Write /\ now \in Nat /\ ver \in [Queries -> Nat] /\ mount \in Nat
        /\ cache \in [Queries -> Query]
    BY <1>0 DEF Shapes
  <1>3. Left
    BY <1>1, <1>2 DEF Left, Kin
  <1>4. Clock'
    <2>1. \A x \in writes' : x \in Write /\ \E v \in writes : x.op = v.op /\ x.ver \in {v.ver, 0}
      BY <1>1, <1>2
    <2> QED
      BY <1>0, <1>1, <1>2, <2>1, ClockKept DEF Clock
  <1>5. Written'
    BY <1>0, <1>1, SameKind DEF Written
  <1>6. /\ status' \in [Ops \cup {"create"} -> [is : {"idle", "pending", "error"}, id : Nat]]
        /\ Waiting'
    <2>1. CASE status' = status
      BY <1>0, <1>1, <2>1 DEF Shapes, Pending, Waiting
    <2>2. CASE status' = IF status[w.op].id = w.id
                         THEN [status EXCEPT ![w.op] = [is |-> "error", id |-> 0]] ELSE status
      <3> DEFINE u == [is |-> "error", id |-> 0]
      <3>1. u.is = "error" /\ u.id = 0 /\ u \in [is : {"idle", "pending", "error"}, id : Nat]
        OBVIOUS
      <3>2. status' = IF status[w.op].id = w.id THEN [status EXCEPT ![w.op] = u] ELSE status
        BY <2>2
      <3> HIDE DEF u
      <3> QED
        <4>1. route' = route \/ (w.op = "create" /\ w.mount = mount)
          BY <1>1
        <4>2. UNCHANGED <<kind, mount>> /\ writes' = writes \ {w} /\ u.is \in {"idle", "error"}
          BY <1>1, <3>1
        <4>3. Shapes /\ Pending /\ u.id = 0
              /\ u \in [is : {"idle", "pending", "error"}, id : Nat]
          BY <1>0, <3>1
        <4> QED
          BY <3>2, <4>1, <4>2, <4>3, StatusEnds
    <2> QED
      BY <2>1, <2>2 DEF Fail
  <1>7. Shapes'
    BY <1>0, <1>1, <1>6, SameKind DEF Shapes
  <1>8. Pending'
    BY <1>0, <1>1, <1>2, <1>3, <1>6, PendingIs, NumberedKept DEF Numbered
  <1>9. Shown'
    BY <1>0, <1>1 DEF Shown, ShownOf
  <1> QED
    BY <1>4, <1>5, <1>7, <1>8, <1>9 DEF IInv

\* The invariant is inductive.
LEMMA NextIInv == IInv /\ [Next]_vars => IInv'
  <1> SUFFICES ASSUME IInv, [Next]_vars
               PROVE  IInv'
    OBVIOUS
  <1>0. Shapes /\ Clock
    BY DEF IInv
  <1>1. CASE \/ \E r \in {"list", "new", "detail", "away"} : Leave(r)
             \/ RenewFails \/ Return \/ \E op \in Ops : StepUp(op)
    BY <1>0, <1>1, MountSteps, MountsKeeps
  <1>2. CASE \/ \E q \in Queries : Poll(q) \/ Retry(q)
             \/ \E op \in Ops : OpenDialog(op)
             \/ CloseDialog \/ FillIn \/ Continue \/ \E n \in 1..5 : Jump(n)
             \/ PanelExpires \/ PanelDone \/ CancelEnrolment \/ DeviceUses \/ OthersWrite
             \/ UNCHANGED vars
    BY <1>0, <1>2, AsideSteps, AsideKeeps
  <1>3. CASE \E q \in Queries : Land(q) \/ FetchFails(q)
    BY <1>3, FetchKeeps
  <1>4. CASE \/ \E op \in Ops : Press(op)
             \/ kind \in Console /\ Submit
    BY <1>0, <1>4, SendSteps, SentKeeps
  <1>5. CASE \E w \in writes : Writes(w) \/ Lost(w)
    BY <1>5, HandleKeeps, ProgressKeeps, SucceedKeeps, SettleKeeps, FailKeeps DEF Writes
  <1> QED
    BY <1>1, <1>2, <1>3, <1>4, <1>5 DEF Next

-----------------------------------------------------------------------------
(* What is shown.                                                          *)

\* Whatever is lost, refused or changed by others, and however the page's writes
\* and fetches overtake each other: what it has saved it shows, once nothing is
\* being fetched.
THEOREM SavedTheorem == Spec => []SavedIsShown
  <1>1. Spec => []IInv
    BY InitIInv, NextIInv, PTL DEF Spec
  <1>2. IInv => SavedIsShown
    <2> SUFFICES ASSUME Shapes, Shown,
                        NEW q \in Queries, ~cache[q].fetching, ~cache[q].bad,
                        cache[q].data # None
                 PROVE  cache[q].data >= acked[q]
      BY DEF IInv, SavedIsShown
    <2>1. cache[q].data \in Nat /\ acked[q] \in Nat
      BY DEF Shapes, Query
    <2> QED
      BY <2>1 DEF Shown, ShownOf
  <1> QED
    BY <1>1, <1>2, PTL

-----------------------------------------------------------------------------
(* What is handed over.                                                    *)

\* A write that is gone has been settled or refused, or its page with it; every
\* other step leaves one of its number.
LEMMA WhatEndsAWrite ==
    ASSUME IInv, [Next]_vars, NEW w \in writes, gate = "in", \A x \in writes' : x.id # w.id
    PROVE  Settle(w) \/ Fail(w)
  <1>0. Shapes /\ writes \subseteq Write /\ kind \in AllKinds
    BY DEF IInv, Shapes
  <1>1. w \notin writes'
    OBVIOUS
  <1>2. CASE UNCHANGED writes
    BY <1>1, <1>2
  <1>3. CASE \/ \E r \in {"list", "new", "detail", "away"} : Leave(r)
             \/ RenewFails \/ Return \/ \E op \in Ops : StepUp(op)
    BY <1>2, <1>3 DEF Leave, RenewFails, Return, StepUp
  <1>4. CASE \/ \E q \in Queries : Poll(q) \/ Retry(q)
             \/ \E op \in Ops : OpenDialog(op)
             \/ CloseDialog \/ FillIn \/ Continue \/ \E n \in 1..5 : Jump(n)
             \/ PanelExpires \/ PanelDone \/ CancelEnrolment \/ DeviceUses \/ OthersWrite
             \/ UNCHANGED vars
    <2>1. Aside
      BY <1>0, <1>4, AsideSteps DEF IInv
    <2> QED
      BY <1>2, <2>1 DEF Aside
  <1>5. ASSUME NEW q \in Queries, Land(q) \/ FetchFails(q)
        PROVE  FALSE
    <2>1. writes' = Waited(q)
      BY <1>5 DEF Land, FetchFails
    <2>2. [w EXCEPT !.waits = @ \ {q}] \in writes'
      BY <2>1 DEF Waited
    <2>3. [w EXCEPT !.waits = @ \ {q}].id = w.id
      BY <1>0 DEF Write
    <2> QED
      BY <2>2, <2>3
  <1>6. CASE \/ \E op \in Ops : Press(op)
             \/ kind \in Console /\ Submit
    BY <1>0, <1>1, <1>6, SendSteps DEF Sent
  <1>7. ASSUME NEW v \in writes, Writes(v) \/ Lost(v)
        PROVE  Settle(w) \/ Fail(w)
    <2>1. v = w
      BY <1>1, <1>7 DEF Writes, Lost, Handle, SendExtra, ExtraAnswered, Succeed, Settle, Fail
    <2>2. CASE Handle(w) \/ Lost(w) \/ SendExtra(w) \/ \E ok \in BOOLEAN : ExtraAnswered(w, ok)
      <3>1. \A st, n : [w EXCEPT !.stage = st].id = w.id
                     /\ [w EXCEPT !.stage = st, !.ver = n].id = w.id
                     /\ [w EXCEPT !.stage = st, !.lost = TRUE].id = w.id
        BY <1>0 DEF Write
      <3>2. CASE Handle(w)
        <4>1. \/ [w EXCEPT !.stage = "refused"] \in writes'
              \/ [w EXCEPT !.stage = "done", !.ver = now + 1] \in writes'
          BY <3>2, Zenon DEF Handle
        <4> QED
          BY <3>1, <4>1
      <3>3. CASE Lost(w)
        BY <3>1, <3>3 DEF Lost
      <3>4. CASE SendExtra(w)
        BY <3>1, <3>4 DEF SendExtra
      <3>5. ASSUME NEW ok \in BOOLEAN, ExtraAnswered(w, ok)
            PROVE  FALSE
        <4> DEFINE st == IF ok \/ NewOf(kind).swallows THEN "all done" ELSE "refused"
        <4>1. [w EXCEPT !.stage = st] \in writes'
          BY <3>5 DEF ExtraAnswered
        <4> HIDE DEF st
        <4> QED
          BY <3>1, <4>1
      <3> QED
        BY <2>2, <3>2, <3>3, <3>4, <3>5
    <2>3. CASE Succeed(w)
      <3>1. \A ws : [w EXCEPT !.stage = "settling", !.waits = ws].id = w.id
        BY <1>0 DEF Write
      <3> QED
        BY <2>3, <3>1 DEF Succeed
    <2> QED
      BY <1>7, <2>1, <2>2, <2>3 DEF Writes
  <1> QED
    BY <1>3, <1>4, <1>5, <1>6, <1>7 DEF Next

\* And a write that gives a secret, if its answer has arrived, is not refused
\* any more; its callback is heard by the page it left from.
THEOREM SecretTheorem == Spec => SecretReachesThePage
  <1>1. Spec => []IInv
    BY InitIInv, NextIInv, PTL DEF Spec
  <1>2. IInv /\ [Next]_vars =>
            [\A w \in writes :
               /\ w.gives = "secret" /\ w.ver # 0 /\ ~w.lost
               /\ gate = "in" /\ w.mount = mount
               /\ \A x \in writes' : x.id # w.id
               => secret']_vars
    <2> SUFFICES ASSUME IInv, [Next]_vars, NEW w \in writes,
                        w.gives = "secret", w.ver # 0, ~w.lost, gate = "in", w.mount = mount,
                        \A x \in writes' : x.id # w.id
                 PROVE  secret'
      OBVIOUS
    <2>0. Shapes /\ Pending /\ Written /\ kind \in AllKinds /\ w \in Write
      BY DEF IInv, Shapes
    <2>1. Settle(w) \/ Fail(w)
      BY WhatEndsAWrite
    <2>2. ~Fail(w)
      BY <2>0 DEF Fail, Written
    <2>3. w.op \notin {"code", "renew"}
      <3> SUFFICES ASSUME w.op \in {"code", "renew"}
                   PROVE  FALSE
        OBVIOUS
      <3>1. B(w.op).gives = "secret" /\ w.op \in Ops
        BY <2>0 DEF Written, Write
      <3> QED
        BY <2>0, <3>1, TheButtons DEF B
    <2>4. Heard(w)
      <3>1. status[w.op] = [is |-> "pending", id |-> w.id]
        BY <2>0, <2>3 DEF Pending
      <3>2. status[w.op].id = w.id
        BY <3>1
      <3> QED
        BY <3>2 DEF Heard
    <2>5. w.gives # None
      BY DashboardAssumption
    <2> QED
      BY <2>1, <2>2, <2>4, <2>5 DEF Settle, Done
  <1> QED
    BY <1>1, <1>2, PTL DEF Spec, SecretReachesThePage
=============================================================================
