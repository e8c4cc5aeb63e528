------------------------------ MODULE WebPages ------------------------------
(***************************************************************************)
(* A user in front of one page of the frontend, and the server behind it.  *)
(* The page asks for its list and its details, a user opens forms and      *)
(* submits them, answers come late, in any order, or not at all, and the   *)
(* user leaves the page and comes back.  What the pages and their handlers *)
(* are is in WebForms, what the server allows in WebAccess.                *)
(*                                                                         *)
(* Bounds: calls under way (Slot), openings of forms and visits of the     *)
(* page, each for the role the user has.                                   *)
(* Two rows, two queries: what a user typed, filtered or turned to.        *)
(***************************************************************************)
EXTENDS WebForms, Naturals, Sequences

CONSTANTS Slot, MaxOpenings, MaxVisits

ASSUME WebAssumption ==
  MaxOpenings \in [Roles -> Nat] /\ MaxVisits \in [Roles -> Nat] /\ Slot # {}

Row == {1, 2}
Query == {1, 2}

With(page, offers) == [page |-> page, offers |-> offers]

Pages ==
  [maintenance |-> With(MaintenancePage,
     [createOrder |-> CreateOrderDialog, triage |-> TriageDialog, checklist |-> ChecklistDialog]),
   disposal |-> With(DisposalPage,
     [create |-> CreateDisposalDialog, approve |-> ApproveButton, complete |-> CompleteDialog,
      revert |-> RevertDialog]),
   alerts |-> With(AlertsPage,
     [acknowledge |-> AcknowledgeButton, resolve |-> ResolveDialog]),
   barrels |-> With(BarrelsPage,
     [template |-> DownloadTemplateButton, create |-> CreateBarrelDialog,
      batchStatus |-> BatchStatusBar]),
   barrel |-> With(BarrelPage,
     [transfer |-> TransferDialog, maintain |-> SendToMaintenanceDialog]),
   linkQr |-> With(LinkQrPage,
     [scan |-> LinkScanner, export |-> ExportUnlinkedButton, upload |-> UploadLinkButton]),
   quickRegister |-> With(QuickRegisterPage, [scan |-> QuickScanner]),
   clients |-> With(ClientsPage,
     [create |-> CreateClientDialog, edit |-> EditClientDialog, delete |-> DeleteClientDialog]),
   geofences |-> With(GeofencesPage,
     [create |-> CreateGeofenceDialog, edit |-> EditGeofenceDialog,
      delete |-> DeleteGeofenceDialog]),
   components |-> With(ComponentsPage,
     [create |-> CreateComponentDialog, edit |-> EditComponentDialog]),
   users |-> With(UsersPage, [create |-> CreateUserDialog, toggle |-> ToggleUserButton]),
   dashboard |-> With(DashboardPage, <<>>),
   reports |-> With(ReportsPage, <<>>),
   logistics |-> With(LogisticsPage, <<>>),
   search |-> With(GlobalSearch, <<>>),
   tenants |-> With(TenantsPage, <<>>),
   tenant |-> With(TenantPage,
     [toggle |-> ToggleStatusButton, unlock |-> UnlockUserButton,
      createAdmin |-> CreateTenantAdminDialog, reset |-> ResetPasswordDialog]),
   newTenant |-> With(NewTenantPage,
     [createTenant |-> CreateTenantForm, createAdmin |-> CreateAdminForm]),
   batches |-> With(BatchesPage,
     [generate |-> GenerateButton, export |-> ExportButton, print |-> PrintDialog]),
   transfer |-> With(TransferPage,
     [search |-> SearchButton, transfer |-> ConfirmTransferDialog]),
   audit |-> With(AuditPage, <<>>)]

\* Faulty: the items are not filtered by role.
SidebarUnfiltered(role) ==
  {"barrels", "dashboard", "clients", "geofences", "disposal", "reports", "logistics",
   "maintenance", "alerts", "users", "components"}

\* The sidebars, and where a role begins.
Sidebar(role) ==
  {"barrels"} \cup
  (IF role \in Office THEN {"dashboard", "clients", "geofences", "disposal", "reports"} ELSE {}) \cup
  (IF role \in Yard THEN {"logistics"} ELSE {}) \cup
  (IF role \in Repairs THEN {"maintenance", "alerts"} ELSE {}) \cup
  (IF role \in Admin THEN {"users", "components"} ELSE {})

SuperAdminSidebar == {"tenants", "newTenant", "batches", "transfer", "audit"}

Menu(role) == IF role = "SUPER_ADMIN" THEN SuperAdminSidebar ELSE Sidebar(role)

RoleHome(role) ==
  CASE role \in Office -> "dashboard"
    [] role = "SUPER_ADMIN" -> "tenants"
    [] OTHER -> "barrels"

\* The search offers the same pages to everybody, and two keys work everywhere.
QuickNav == {"dashboard", "barrels", "logistics", "maintenance", "clients", "geofences",
             "reports", "alerts", "disposal"}
Shortcuts == {"quickRegister", "search"}

VARIABLES
  role,      \* the role of the user in the database
  user,      \* the role the pages believe in, from the last checkAuth
  at,        \* the page, "none" before the first
  denied,    \* the way that led the user here, if the page is not for him
  query,     \* what the list on the screen should be the answer to
  listing,   \* what it is the answer to (0: nothing yet), and whether it is out of date
  loading,   \* the list is being loaded, says the page
  detail,    \* the detail of a row: "closed", "loading" or "shown"
  selected,  \* the row the page has selected, 0 for none
  form,      \* the form or button the user is at
  busy,      \* flags of handlers under way
  calls,     \* requests under way
  opened,    \* forms opened so far, by name
  done,      \* how often the server did what the n-th of them asks    (history)
  misled,    \* forms that told an error of what the server had done   (history)
  strayed,   \* a request went to a row that was not chosen            (history)
  excused,   \* the list has a reason to be wrong                      (history)
  visits     \* how often the user came to the page                    (bound)

who == <<role, user, at, denied, visits>>
list == <<query, listing, loading, excused>>
choice == <<detail, selected, form, opened, strayed>>
work == <<busy, calls, done, misled>>
vars == <<who, list, choice, work>>

NoForm == [is |-> "none", item |-> 0, nth |-> 0, moved |-> FALSE]

NoCall == [kind |-> "none", pc |-> "idle", is |-> "none", item |-> 0, nth |-> 0, query |-> 0,
           stale |-> FALSE, alive |-> FALSE]

Page == Pages[at].page
Offers == Pages[at].offers
Of(c) == Offers[calls[c].is]

Here == at # "none" /\ user \in Page.guard
Rows == Here /\ listing.query # 0 /\ ~(Page.hides /\ loading)

Free(c) == calls[c].kind = "none"

\* The slot the next call takes: one of those that are free, always the same.
Next1 == CHOOSE c \in Slot : Free(c)
Room == \E c \in Slot : Free(c)

UnderWay == {c \in Slot : calls[c].alive}

\* A request, and what RolesGuard makes of it.
Send(call, routes) ==
  [call EXCEPT !.alive = TRUE,
               !.pc = IF \A r \in routes : CanActivate(role, r) THEN "sent" ELSE "barred"]

ListCall(q) == Send([NoCall EXCEPT !.kind = "list", !.query = q], Page.list)

\* The list is as good as its last load if nothing else is under way.
Lone(c, q) == UnderWay \subseteq {c} /\ q = query

Over(c) == calls' = [calls EXCEPT ![c] = NoCall]

Release(flag) == busy' = {b \in busy : b[1] # flag}

\* Faulty: the handler ends without loading the list.
NoReload(c, q) == Over(c) /\ UNCHANGED <<loading, excused>>

\* The call c goes on as a load of the list, with the query q of its closure.
Reload(c, q) ==
  IF Page.list = {}
  THEN Over(c) /\ UNCHANGED <<loading, excused>>
  ELSE /\ calls' = [calls EXCEPT ![c] = ListCall(q)]
       /\ loading' = TRUE
       /\ excused' = ~Lone(c, q)

-----------------------------------------------------------------------------
(***************************************************************************)
(* Coming and going, lists and details                                     *)
(***************************************************************************)

\* A page opens: by its address the browser asks again who is here, by a link
\* it does not.  What was under way goes on without the page.
Come(p, how) ==
  LET now == IF how = "address" THEN role ELSE user
      next == Pages[p].page
      left == [c \in Slot |-> IF calls[c].kind = "write" THEN [calls[c] EXCEPT !.alive = FALSE]
                              ELSE NoCall]
      slots == {c \in Slot : left[c].kind = "none"}
      asks == now \in next.mounted /\ next.list # {} IN
  /\ visits < MaxVisits[role]
  /\ at \in {"none", p}
  /\ CASE how = "menu" -> p \in Menu(user)
       [] how = "home" -> p = RoleHome(user)
       [] how = "quick" -> p \in QuickNav \cup Shortcuts /\ user \in Tenants
       [] how = "address" -> TRUE
  /\ slots # {}
  /\ at' = p /\ user' = now /\ visits' = visits + 1
  /\ denied' = IF now \in next.guard THEN "no" ELSE how
  /\ query' = 1 /\ listing' = [query |-> 0, stale |-> FALSE]
  /\ loading' = asks
  /\ excused' = FALSE
  /\ calls' = IF ~asks THEN left
              ELSE [left EXCEPT ![CHOOSE c \in slots : TRUE] =
                      [NoCall EXCEPT !.kind = "list", !.query = 1, !.alive = TRUE,
                         !.pc = IF \A r \in next.list : CanActivate(role, r)
                                THEN "sent" ELSE "barred"]]
  /\ detail' = "closed" /\ selected' = 0 /\ form' = NoForm /\ busy' = {}
  /\ UNCHANGED <<role, opened, done, misled, strayed>>

\* An administrator gives the user another role, and no page knows of it yet.
ChangeRole(r) ==
  /\ role = user /\ at = "none"
  /\ user \in Tenants /\ r \in Tenants \ {role}
  /\ role' = r
  /\ UNCHANGED <<user, at, denied, visits, list, choice, work>>

\* The user types, filters or turns the page.
AskFor(q) ==
  /\ Here /\ Page.list # {}
  /\ form = NoForm /\ detail = "closed"
  /\ q # query
  /\ Room
  /\ query' = q
  /\ calls' = [calls EXCEPT ![Next1] = ListCall(q)]
  /\ loading' = TRUE
  /\ excused' = (UnderWay # {})
  /\ UNCHANGED <<who, listing, choice, busy, done, misled>>

ListArrives(c) ==
  /\ calls[c].kind = "list" /\ calls[c].pc = "sent"
  /\ listing' = [query |-> calls[c].query, stale |-> calls[c].stale]
  /\ loading' = FALSE
  /\ Over(c)
  /\ UNCHANGED <<who, query, excused, choice, busy, done, misled>>

ListFails(c) ==
  /\ calls[c].kind = "list"
  /\ loading' = FALSE
  /\ excused' = TRUE
  /\ Over(c)
  /\ UNCHANGED <<who, query, listing, choice, busy, done, misled>>

\* The detail of a row opens and is loaded.
OpenDetail(i) ==
  /\ Rows /\ Page.detail # {}
  /\ form = NoForm /\ detail = "closed"
  /\ Room
  /\ detail' = "loading"
  /\ calls' = [calls EXCEPT ![Next1] =
                 Send([NoCall EXCEPT !.kind = "detail", !.item = i], Page.detail)]
  /\ UNCHANGED <<who, list, selected, form, opened, strayed, busy, done, misled>>

CloseDetail ==
  /\ detail # "closed" /\ form = NoForm
  /\ at # "newTenant"
  /\ detail' = "closed"
  /\ UNCHANGED <<who, list, selected, form, opened, strayed, work>>

\* Whichever detail arrives is the one that is shown.
DetailArrives(c) ==
  /\ calls[c].kind = "detail"
  /\ selected' = IF calls[c].pc = "sent" THEN calls[c].item ELSE selected
  /\ detail' = IF detail = "loading" THEN "shown" ELSE detail
  /\ calls[c].pc = "sent"
  /\ Over(c)
  /\ UNCHANGED <<who, list, form, opened, strayed, busy, done, misled>>

DetailFails(c) ==
  /\ calls[c].kind = "detail"
  /\ selected' = IF Page.falls THEN calls[c].item ELSE selected
  /\ detail' = IF detail = "loading" THEN "shown" ELSE detail
  /\ Over(c)
  /\ UNCHANGED <<who, list, form, opened, strayed, busy, done, misled>>

-----------------------------------------------------------------------------
(***************************************************************************)
(* Forms                                                                   *)
(***************************************************************************)

\* Calls whose answer may change what the page has selected.
Moving ==
  {c \in UnderWay : \/ calls[c].kind \in {"detail", "again"}
                    \/ calls[c].kind = "write" /\ Of(c).then \in {"next", "detail"}}

\* Where a form can be opened, and for which row.
Reaches(h, i) ==
  CASE h.picks = "new" -> i = 0 /\ detail = "closed"
    [] h.picks = "row" -> i \in Row /\ Rows /\ detail # "loading"
    [] h.picks = "select" -> i \in Row /\ Rows /\ (detail = "shown" => i = selected)
                             /\ detail # "loading"
    [] h.picks \in {"shown", "held"} -> detail = "shown" /\ selected # 0 /\ i = selected

\* Faulty: the row is not taken along.
OpenFormOnly(o, i) ==
  LET h == Offers[o] IN
  /\ Here /\ user \in h.seen
  /\ form = NoForm
  /\ Len(opened) < MaxOpenings[role] /\ Len(opened) < MaxOpenings[user]
  /\ Reaches(h, i)
  /\ form' = [is |-> o, item |-> i, nth |-> Len(opened) + 1, moved |-> Moving # {}]
  /\ opened' = Append(opened, o) /\ done' = Append(done, 0)
  /\ UNCHANGED <<who, list, detail, selected, strayed, busy, calls, misled>>

\* The user opens a dialog, or turns to a button.
OpenForm(o, i) ==
  LET h == Offers[o] IN
  /\ Here /\ user \in h.seen
  /\ form = NoForm
  /\ Len(opened) < MaxOpenings[role] /\ Len(opened) < MaxOpenings[user]
  /\ Reaches(h, i)
  /\ form' = [is |-> o, item |-> i, nth |-> Len(opened) + 1, moved |-> Moving # {}]
  /\ selected' = IF h.picks = "select" THEN i ELSE selected
  /\ opened' = Append(opened, o) /\ done' = Append(done, 0)
  /\ UNCHANGED <<who, list, detail, strayed, busy, calls, misled>>

CloseForm ==
  /\ form # NoForm
  /\ form' = NoForm
  /\ UNCHANGED <<who, list, detail, selected, opened, strayed, work>>

\* The button of the form is disabled.
Disabled ==
  /\ form # NoForm
  /\ Offers[form.is].locked
  /\ \E b \in busy : /\ b[1] = Offers[form.is].flag
                     /\ b[1] \in RowFlags => b[2] = form.item

\* The flag of the handler h is set for the row i.
Flagged(h, i) ==
  CASE h.flag = "none" -> busy
    [] h.flag \in RowFlags -> {b \in busy : b[1] # h.flag} \cup {<<h.flag, i>>}
    [] OTHER -> busy \cup {<<h.flag, 0>>}

\* The handler sends its request, for the row it has by now.
Submit ==
  LET h == Offers[form.is]
      target == IF h.picks \in {"select", "shown"} THEN selected ELSE form.item IN
  /\ form # NoForm
  /\ ~Disabled
  /\ Room
  /\ calls' = [calls EXCEPT ![Next1] =
                 Send([NoCall EXCEPT !.kind = "write", !.is = form.is, !.item = target,
                                     !.nth = form.nth, !.query = query], {h.route})]
  /\ busy' = Flagged(h, form.item)
  /\ strayed' = (strayed \/ (target # form.item /\ ~form.moved))
  /\ UNCHANGED <<who, list, detail, selected, form, opened, done, misled>>

-----------------------------------------------------------------------------
(***************************************************************************)
(* The server, and the answers                                             *)
(***************************************************************************)

\* The server does what it is asked.  A list that is on its way may have been
\* read before.
Perform(c) ==
  /\ calls[c].kind = "write" /\ calls[c].pc = "sent"
  /\ done' = [done EXCEPT ![calls[c].nth] = IF @ < 2 THEN @ + 1 ELSE @]
  /\ IF Of(c).touches
     THEN /\ listing' = [listing EXCEPT !.stale = (listing.query # 0)]
          /\ \E before \in SUBSET {d \in Slot : calls[d].kind \in {"list", "again"}} :
               calls' = [d \in Slot |-> IF d = c THEN [calls[c] EXCEPT !.pc = "done"]
                                        ELSE IF d \in before THEN [calls[d] EXCEPT !.stale = TRUE]
                                        ELSE calls[d]]
     ELSE calls' = [calls EXCEPT ![c].pc = "done"] /\ UNCHANGED listing
  /\ UNCHANGED <<who, query, loading, excused, choice, busy, misled>>

\* The success of a form closes it, for whichever row it is open by now.
Closed(c) == form' = IF form.is = calls[c].is THEN NoForm ELSE form

Succeeds(c) ==
  LET h == Of(c)
      a == calls[c]
      again == Send([a EXCEPT !.kind = "again", !.stale = FALSE],
                    IF h.then = "detail" THEN Page.detail ELSE Page.list) IN
  /\ a.kind = "write" /\ a.pc = "done" /\ a.alive
  /\ Closed(c)
  /\ CASE h.then \in {"nothing", "step"} ->
            /\ Over(c) /\ Release(h.flag)
            /\ IF h.then = "step" THEN detail' = "shown" /\ selected' = 1
               ELSE UNCHANGED <<detail, selected>>
            /\ UNCHANGED <<listing, loading, excused>>
       [] h.then \in {"reload", "close"} ->
            /\ Reload(c, a.query) /\ Release(h.flag)
            /\ detail' = IF h.then = "close" THEN "closed" ELSE detail
            /\ UNCHANGED <<listing, selected>>
       [] h.then = "next" ->
            /\ Over(c) /\ Release(h.flag)
            /\ listing' = [listing EXCEPT !.stale = FALSE]
            /\ selected' = 3 - a.item
            /\ excused' = (excused \/ UnderWay # {c} \/ a.query # query)
            /\ UNCHANGED <<loading, detail>>
       [] h.then \in {"detail", "within", "quietly"} ->
            /\ calls' = [calls EXCEPT ![c] = again]
            /\ UNCHANGED <<listing, loading, excused, busy, detail, selected>>
  /\ UNCHANGED <<who, query, opened, strayed, done, misled>>

\* Faulty: the flag stays when the request fails.
FailsBusy(c) ==
  LET h == Of(c)
      a == calls[c] IN
  /\ a.kind = "write" /\ a.alive
  /\ misled' = IF a.pc = "done" THEN misled \cup {a.nth} ELSE misled
  /\ excused' = (excused \/ (a.pc = "done" /\ h.touches))
  /\ Over(c)
  /\ UNCHANGED <<who, query, listing, loading, choice, busy, done>>

\* An error is told: the server said no (another request was first, a value is
\* wrong, it has failed), or it did what it was asked and its answer was lost.
Fails(c) ==
  LET h == Of(c)
      a == calls[c] IN
  /\ a.kind = "write" /\ a.alive
  /\ misled' = IF a.pc = "done" THEN misled \cup {a.nth} ELSE misled
  /\ excused' = (excused \/ (a.pc = "done" /\ h.touches))
  /\ Over(c) /\ Release(h.flag)
  /\ UNCHANGED <<who, query, listing, loading, choice, done>>

\* What a handler loads before it ends has arrived.
AgainArrives(c) ==
  LET h == Of(c)
      a == calls[c] IN
  /\ a.kind = "again" /\ a.pc = "sent"
  /\ Release(h.flag)
  /\ IF h.then = "detail"
     THEN selected' = a.item /\ Reload(c, a.query) /\ UNCHANGED listing
     ELSE /\ listing' = [query |-> a.query, stale |-> a.stale]
          /\ excused' = (excused \/ ~Lone(c, a.query))
          /\ Over(c) /\ UNCHANGED <<selected, loading>>
  /\ UNCHANGED <<who, query, detail, form, opened, strayed, done, misled>>

\* It has not: the handler tells an error of what was done, or says nothing.
AgainFails(c) ==
  LET h == Of(c)
      a == calls[c] IN
  /\ a.kind = "again"
  /\ misled' = IF h.then # "quietly" THEN misled \cup {a.nth} ELSE misled
  /\ excused' = TRUE
  /\ Over(c) /\ Release(h.flag)
  /\ UNCHANGED <<who, query, listing, loading, choice, done>>

\* A request whose page is gone ends; nothing is loaded again.
Forgotten(c) ==
  /\ calls[c].kind = "write" /\ ~calls[c].alive
  /\ excused' = (excused \/ (calls[c].pc = "done" /\ Of(c).touches))
  /\ Over(c)
  /\ UNCHANGED <<who, query, listing, loading, choice, busy, done, misled>>

-----------------------------------------------------------------------------
Init ==
  /\ user \in Roles /\ role = user
  /\ at = "none" /\ denied = "no" /\ visits = 0
  /\ query = 1 /\ listing = [query |-> 0, stale |-> FALSE]
  /\ loading = FALSE /\ excused = FALSE
  /\ detail = "closed" /\ selected = 0 /\ form = NoForm
  /\ opened = <<>> /\ strayed = FALSE
  /\ busy = {} /\ calls = [c \in Slot |-> NoCall]
  /\ done = <<>>
  /\ misled = {}

\* An answer on its way to the page, or a request on its way to the server.
Proceeds(c) ==
  \/ ListArrives(c) \/ ListFails(c)
  \/ DetailArrives(c) \/ DetailFails(c)
  \/ Perform(c)
  \/ Succeeds(c) \/ Fails(c)
  \/ AgainArrives(c) \/ AgainFails(c)
  \/ Forgotten(c)

Next ==
  \/ \E p \in DOMAIN Pages, how \in {"menu", "home", "quick", "address"} : Come(p, how)
  \/ \E r \in Roles : ChangeRole(r)
  \/ \E q \in Query : AskFor(q)
  \/ \E i \in Row : OpenDetail(i)
  \/ CloseDetail
  \/ at # "none" /\ \E o \in DOMAIN Offers, i \in {0} \cup Row : OpenForm(o, i)
  \/ CloseForm
  \/ Submit
  \/ \E c \in Slot : Proceeds(c)

Spec == Init /\ [][Next]_vars

-----------------------------------------------------------------------------
(***************************************************************************)
(* Correctness                                                             *)
(***************************************************************************)

\* The handlers of all pages, and their flags.
Name == UNION {DOMAIN Pages[p].offers : p \in DOMAIN Pages}
Flag == UNION {{Pages[p].offers[o].flag : o \in DOMAIN Pages[p].offers} : p \in DOMAIN Pages}

Form == [is : Name \cup {"none"}, item : {0} \cup Row, nth : Nat, moved : BOOLEAN]

Call ==
  [kind : {"none", "list", "detail", "write", "again"}, pc : {"idle", "sent", "barred", "done"},
   is : Name \cup {"none"}, item : {0} \cup Row, nth : Nat, query : {0} \cup Query,
   stale : BOOLEAN, alive : BOOLEAN]

\* The user, the page and its requests keep their shape.
TypeOK ==
  /\ role \in Roles /\ user \in Roles
  /\ at \in DOMAIN Pages \cup {"none"} /\ visits \in Nat
  /\ denied \in {"no", "menu", "home", "quick", "address"}
  /\ query \in Query /\ listing \in [query : {0} \cup Query, stale : BOOLEAN]
  /\ loading \in BOOLEAN /\ excused \in BOOLEAN
  /\ detail \in {"closed", "loading", "shown"} /\ selected \in {0} \cup Row
  /\ form \in Form /\ opened \in Seq(Name) /\ strayed \in BOOLEAN
  /\ busy \subseteq Flag \X ({0} \cup Row) /\ calls \in [Slot -> Call]
  /\ done \in Seq(0..2) /\ Len(done) = Len(opened) /\ misled \subseteq 1..Len(opened)

\* What the open page asked for and RolesGuard refused.
Refused ==
  LET Asked(a) == CASE a.kind = "list" -> Page.list
                    [] a.kind = "detail" -> Page.detail
                    [] a.kind = "again" -> Page.list \cup Page.detail
                    [] OTHER -> {Offers[a.is].route} IN
  {r \in Page.once \cup UNION {Asked(calls[c]) : c \in UnderWay} : ~CanActivate(role, r)}

\* What a page offers to a role of the breweries and the server refuses it.
Overpromised ==
  LET Hands == {"LOGISTICS", "MAINTENANCE"}
      Unlinked == {<<"barrelReads", "findUnlinked">>, <<"barrelReads", "exportUnlinked">>,
                   <<"barrels", "linkQr">>, <<"barrels", "batchLinkQr">>} IN
  [p \in DOMAIN Pages |->
     CASE p = "maintenance" -> {"MANAGER"} \X {<<"maintenance", "createOrder">>,
            <<"maintenance", "registerTriage">>, <<"maintenance", "registerChecklist">>}
       [] p = "disposal" -> {"MANAGER"} \X {<<"disposals", "complete">>, <<"disposals", "revert">>}
       [] p = "alerts" -> ({"MANAGER", "MAINTENANCE"} \X {<<"alerts", "resolve">>})
            \cup {<<"MAINTENANCE", <<"alerts", "acknowledge">>>>}
       [] p = "barrels" -> Hands \X {<<"barrels", "batchUpdateStatus">>}
       [] p = "barrel" -> (Hands \X loadOwners)
            \cup {<<"MANAGER", <<"maintenance", "createOrder">>>>}
       [] p = "linkQr" -> Hands \X Unlinked
       [] p = "quickRegister" -> {<<"MAINTENANCE", <<"barrels", "scanOrCreate">>>>}
       [] p = "clients" -> {"MANAGER"} \X {<<"clients", "update">>, <<"clients", "delete">>}
       [] p = "geofences" -> {"MANAGER"} \X {<<"geofences", "update">>, <<"geofences", "delete">>}
       [] p = "search" -> {"MAINTENANCE"} \X (fetchClients \cup fetchGeofences)
       [] p = "transfer" -> {<<"SUPER_ADMIN", <<"barrels", "scanOrCreate">>>>}
       [] OTHER -> {}]

\* The menu and the first page of a role lead nowhere he is denied, and the server
\* refuses only what the pages are known to offer too widely, a user whose role
\* was changed, a super administrator at a page of the breweries, or a page that
\* runs behind the notice that it is denied.
RefusedExplained ==
  at # "none" =>
    /\ denied \in {"no", "quick", "address"}
    /\ \/ role # user
       \/ user \notin Page.guard
       \/ user = "SUPER_ADMIN" /\ Page.mounted = Roles
       \/ \A r \in Refused : <<user, r>> \in Overpromised[at]

\* A form does its work twice only if it told an error after the first time, or
\* has no flag of its own that keeps its button disabled.
OncePerOpening ==
  \A n \in 1..Len(opened) :
    done[n] > 1 =>
      \/ n \in misled
      \/ Offers[opened[n]].flag \in {"none"} \cup RowFlags

\* A request goes to the row the user chose, unless an answer that could move
\* the choice was on its way when he chose.
ActsOnChosen == ~strayed

\* When nothing is under way the list is the one that was asked for, as the
\* server has it, unless two calls crossed or one of them failed.
ListFollows ==
  at # "none" /\ listing.query # 0 /\ (\A c \in Slot : Free(c)) /\ ~excused
    => listing.query = query /\ ~listing.stale

\* A button is disabled only while a request of its handler, for its row, is under
\* way: no failure leaves it so.
LockHeld ==
  \A b \in busy :
    \E c \in UnderWay :
      /\ calls[c].kind \in {"write", "again"}
      /\ Of(c).flag = b[1]
      /\ b[1] \in RowFlags => calls[c].item = b[2]
=============================================================================
