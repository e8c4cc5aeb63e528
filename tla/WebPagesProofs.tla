-------------------------- MODULE WebPagesProofs ----------------------------
(***************************************************************************)
(* Proofs about WebPages, for any number of calls under way, openings of   *)
(* forms and visits, and for every page of the frontend.                   *)
(***************************************************************************)
EXTENDS WebPages, SequenceTheorems, TLAPS

\* A request of a form: on its way, or followed by a load of its own.
Work(c) == calls[c].kind \in {"write", "again"}

Working(c) == Work(c) /\ calls[c].alive

\* A flag that is neither missing nor the name of a row.
Proper(h) == h.flag \notin {"none"} \cup RowFlags

\* The list of the page is, or will be, out of date because of what c did.
Debt(c) ==
  \/ calls[c].kind = "again"
  \/ calls[c].kind = "write" /\ calls[c].pc = "done" /\ Of(c).touches

\* Calls that will move what is selected.
Moves(c) ==
  \/ calls[c].kind = "detail"
  \/ calls[c].kind = "again" /\ Of(c).then = "detail"
  \/ Working(c) /\ Of(c).then \in {"next", "detail"}

-----------------------------------------------------------------------------
(* The inductive invariant. *)

CallOK(c) ==
  /\ calls[c].kind = "none" => ~calls[c].alive
  /\ calls[c].kind \in {"list", "detail", "again"} => calls[c].alive
  /\ calls[c].kind # "none" => at # "none"
  /\ calls[c].kind \in {"list", "write", "again"} => calls[c].query \in Query
  /\ calls[c].kind = "detail" => calls[c].item \in Row
  /\ Work(c) =>
       /\ calls[c].is \in DOMAIN Offers
       /\ calls[c].nth \in 1..Len(opened)
       /\ opened[calls[c].nth] = calls[c].is
       /\ calls[c].alive => user \in Of(c).seen
       /\ Of(c).then \in {"next", "detail"} => calls[c].item \in Row
  /\ calls[c].kind = "again" => Of(c).then \in {"detail", "within", "quietly"}

CallsOK == \A c \in Slot : CallOK(c)

FormOK ==
  \/ form = NoForm
  \/ /\ at # "none"
     /\ form.is \in DOMAIN Offers
     /\ form.nth \in 1..Len(opened)
     /\ opened[form.nth] = form.is
     /\ user \in Offers[form.is].seen
     /\ Offers[form.is].picks \in {"select", "shown"} => selected \in Row

\* Names of forms that were opened are names of the page, and before the first
\* page nothing was opened.
OpenedOK == \A n \in 1..Len(opened) : at # "none" /\ opened[n] \in DOMAIN Offers

\* A proper flag is set while its request is under way, which is the only one.
FlagsOK ==
  \A c \in Slot :
    Working(c) /\ Proper(Of(c)) =>
      /\ <<Of(c).flag, 0>> \in busy
      /\ \A d \in Slot : Working(d) /\ Of(d).flag = Of(c).flag => d = c

\* The request c is one of the n-th form.
Mine(c, n) == Work(c) /\ calls[c].nth = n

\* What a form that told no error has done so far.
Once(n) ==
  /\ done[n] <= 1
  /\ \A c \in Slot :
       Mine(c, n) =>
         /\ \A d \in Slot : Mine(d, n) => d = c
         /\ calls[c].kind = "write" /\ calls[c].pc # "done" => done[n] = 0
  /\ form.nth = n =>
       /\ \A c \in Slot : Mine(c, n) => calls[c].kind = "write" /\ calls[c].alive
       /\ (\A c \in Slot : ~Mine(c, n)) => done[n] = 0

OnceOK ==
  \A n \in 1..Len(opened) : n \notin misled /\ Proper(Offers[opened[n]]) => Once(n)

\* While a form is open whose choice nothing could move, only its own success
\* can move it, which closes it.
Chosen ==
  form # NoForm /\ ~form.moved =>
    /\ Offers[form.is].picks \in {"select", "shown"} => selected = form.item
    /\ \A c \in Slot : Moves(c) => calls[c].kind = "write" /\ calls[c].is = form.is

\* The list, as long as nothing excuses it.
ListOK ==
  at # "none" /\ ~excused =>
    /\ \A c \in Slot :
         calls[c].kind = "list" =>
           /\ calls[c].query = query
           /\ \A d \in Slot : calls[d].kind = "list" => d = c
    /\ \A c \in Slot :
         calls[c].kind \in {"list", "again"} /\ calls[c].stale =>
           \E d \in Slot : d # c /\ Debt(d)
    /\ (\A c \in Slot : calls[c].kind # "list") =>
         /\ listing.query \in {0, query}
         /\ listing.stale => \E d \in Slot : Debt(d)

DeniedOK == denied \in {"no", "quick", "address"}

IInv ==
  /\ TypeOK /\ CallsOK /\ FormOK /\ OpenedOK /\ DeniedOK
  /\ LockHeld /\ FlagsOK /\ OnceOK
  /\ Chosen /\ ActsOnChosen /\ ListOK

-----------------------------------------------------------------------------
(* The table of pages and handlers. *)

Thens == {"nothing", "reload", "close", "detail", "within", "quietly", "next", "step"}

\* What the machine needs of a handler.
Sound(h) ==
  /\ h.picks \in {"new", "row", "select", "shown", "held"}
  /\ h.then \in Thens
  /\ h.touches => h.then \notin {"nothing", "step"}
  /\ h.flag # "none" => h.locked
  /\ h.flag \in RowFlags => h.picks = "row"
  /\ h.then = "next" => h.picks = "select"
  /\ h.then = "detail" => h.picks = "shown"

\* A call of Handler with arguments like these is sound behind either button.
Fitting(picks, flag, then) ==
  /\ picks \in {"new", "row", "select", "shown", "held"}
  /\ then \in Thens
  /\ flag \in RowFlags => picks = "row"
  /\ then = "next" => picks = "select"
  /\ then = "detail" => picks = "shown"

LEMMA ButtonFields ==
  ASSUME NEW route, NEW picks, NEW flag, NEW then, NEW roles, Fitting(picks, flag, then)
  PROVE  LET b == Button(Handler(route, picks, flag, then), roles) IN
         /\ b.route = route /\ b.picks = picks /\ b.then = then /\ b.seen = roles
         /\ Sound(b)
<1> DEFINE h == Handler(route, picks, flag, then)
           b == Button(h, roles)
<1>1. h \in [route : {route}, picks : {picks}, flag : {flag}, then : {then},
             touches : {then \notin {"nothing", "step"}}, seen : {Roles}, locked : {FALSE}]
  BY DEF Handler
<1>2. b = [h EXCEPT !.seen = roles, !.locked = (h.flag # "none")]
  BY DEF Button
<1> HIDE DEF h, b
<1>3. /\ b.route = route /\ b.picks = picks /\ b.then = then /\ b.seen = roles
      /\ b.flag = flag /\ b.locked = (flag # "none")
      /\ b.touches = (then \notin {"nothing", "step"})
  BY <1>1, <1>2
<1>4. Sound(b)
  BY <1>3 DEF Sound, Fitting
<1> QED
  BY <1>3, <1>4 DEF b, h

LEMMA OpenButtonFields ==
  ASSUME NEW route, NEW picks, NEW then, NEW roles, Fitting(picks, "none", then)
  PROVE  LET b == OpenButton(Handler(route, picks, "none", then), roles) IN
         /\ b.route = route /\ b.picks = picks /\ b.then = then /\ b.seen = roles
         /\ Sound(b)
<1> DEFINE h == Handler(route, picks, "none", then)
           b == OpenButton(h, roles)
<1>1. h \in [route : {route}, picks : {picks}, flag : {"none"}, then : {then},
             touches : {then \notin {"nothing", "step"}}, seen : {Roles}, locked : {FALSE}]
  BY DEF Handler
<1>2. b = [h EXCEPT !.seen = roles]
  BY DEF OpenButton
<1> HIDE DEF h, b
<1>3. /\ b.route = route /\ b.picks = picks /\ b.then = then /\ b.seen = roles
      /\ b.flag = "none" /\ b.touches = (then \notin {"nothing", "step"})
  BY <1>1, <1>2
<1>4. Sound(b)
  BY <1>3 DEF Sound, Fitting, RowFlags
<1> QED
  BY <1>3, <1>4 DEF b, h

LEMMA PageFields ==
  ASSUME NEW guard, NEW load, NEW once
  PROVE  PageFor(guard, load, once) \in
           [guard : {guard}, mounted : {Roles}, list : {load}, once : {once}, hides : {TRUE},
            detail : {{}}, falls : {FALSE}]
BY DEF PageFor

\* What a page promises the machine.
TableOK(p) ==
  LET offers == Pages[p].offers IN
  /\ \A o \in DOMAIN offers :
       /\ Sound(offers[o])
       /\ offers[o].then \notin {"nothing", "step"} => Pages[p].page.list # {}
  /\ \A o, q \in DOMAIN offers :
       offers[o].then = "step" => offers[q].picks \notin {"select", "shown"}

\* A button, by what the machine asks of it.
Is(b, route, picks, then, roles) ==
  /\ b.route = route /\ b.picks = picks /\ b.then = then /\ b.seen = roles
  /\ Sound(b)

\* A page, by what the machine and RolesGuard ask of it.
Looks(P, guard, mounted, load, once, info) ==
  /\ P.guard = guard /\ P.mounted = mounted
  /\ P.list = load /\ P.once = once /\ P.detail = info

LEMMA PageLooks ==
  ASSUME NEW guard, NEW load, NEW once
  PROVE  /\ Looks(PageFor(guard, load, once), guard, Roles, load, once, {})
         /\ Looks(PageForAll(load, once), Roles, Roles, load, once, {})
         /\ Looks(PageUnder(load, once), SuperAdmin, SuperAdmin, load, once, {})
         /\ Looks([PageFor(guard, load, once) EXCEPT !.hides = FALSE],
                  guard, Roles, load, once, {})
<1>1. ASSUME NEW g PROVE Looks(PageFor(g, load, once), g, Roles, load, once, {})
  BY DEF Looks, PageFor
<1>2. Looks(PageForAll(load, once), Roles, Roles, load, once, {})
  BY <1>1 DEF PageForAll
<1> DEFINE P == PageFor(SuperAdmin, load, once)
<1>3. P \in [guard : {SuperAdmin}, mounted : {Roles}, list : {load}, once : {once},
             hides : {TRUE}, detail : {{}}, falls : {FALSE}]
  BY PageFields
<1>4. PageUnder(load, once) = [P EXCEPT !.mounted = SuperAdmin]
  BY DEF PageUnder
<1> DEFINE Q == PageFor(guard, load, once)
<1>5. Q \in [guard : {guard}, mounted : {Roles}, list : {load}, once : {once},
             hides : {TRUE}, detail : {{}}, falls : {FALSE}]
  BY PageFields
<1> HIDE DEF P, Q
<1>6. Looks(PageUnder(load, once), SuperAdmin, SuperAdmin, load, once, {})
  BY <1>3, <1>4 DEF Looks
<1>7. Looks([Q EXCEPT !.hides = FALSE], guard, Roles, load, once, {})
  BY <1>5 DEF Looks
<1> QED
  BY <1>1, <1>2, <1>6, <1>7 DEF Q

LEMMA DetailLooks ==
  ASSUME NEW guard, NEW load, NEW once, NEW info
  PROVE  /\ Looks([PageFor(guard, load, once) EXCEPT !.detail = info],
                  guard, Roles, load, once, info)
         /\ Looks([PageFor(guard, load, once) EXCEPT !.detail = info, !.falls = TRUE],
                  guard, Roles, load, once, info)
<1> DEFINE P == PageFor(guard, load, once)
<1>1. P \in [guard : {guard}, mounted : {Roles}, list : {load}, once : {once},
             hides : {TRUE}, detail : {{}}, falls : {FALSE}]
  BY PageFields
<1> HIDE DEF P
<1>2. /\ Looks([P EXCEPT !.detail = info], guard, Roles, load, once, info)
      /\ Looks([P EXCEPT !.detail = info, !.falls = TRUE], guard, Roles, load, once, info)
  BY <1>1 DEF Looks
<1> QED
  BY <1>2 DEF P

\* What the controllers declare of the routes that pages use.

LEMMA MaintenanceControllerRoutes ==
  ASSUME NEW u
  PROVE  /\ CanActivate(u, <<"maintenance", "findAllOrders">>) <=> u \in Repairs
         /\ CanActivate(u, <<"maintenance", "getCalendar">>) <=> u \in Repairs
         /\ CanActivate(u, <<"maintenance", "findOrderById">>) <=> u \in Repairs
         /\ CanActivate(u, <<"maintenance", "createOrder">>) <=> u \in Workshop
         /\ CanActivate(u, <<"maintenance", "registerTriage">>) <=> u \in Workshop
         /\ CanActivate(u, <<"maintenance", "registerChecklist">>) <=> u \in Workshop
BY DEF CanActivate, Controllers, MaintenanceController

LEMMA BarrelReadsRoutes ==
  ASSUME NEW u
  PROVE  /\ CanActivate(u, <<"barrelReads", "findAll">>) <=> u \in Tenants
         /\ CanActivate(u, <<"barrelReads", "downloadTemplate">>) <=> u \in Office
         /\ CanActivate(u, <<"barrelReads", "findById">>) <=> u \in Tenants
         /\ CanActivate(u, <<"barrelReads", "getTimeline">>) <=> u \in Tenants
         /\ CanActivate(u, <<"barrelReads", "getOwnershipHistory">>) <=> u \in Office
         /\ CanActivate(u, <<"barrelReads", "findUnlinked">>) <=> u \in Office
         /\ CanActivate(u, <<"barrelReads", "exportUnlinked">>) <=> u \in Office
BY DEF CanActivate, Controllers, BarrelReads

LEMMA DisposalControllerRoutes ==
  ASSUME NEW u
  PROVE  /\ CanActivate(u, <<"disposals", "findAll">>) <=> u \in Office
         /\ CanActivate(u, <<"disposals", "getSuggestions">>) <=> u \in Office
         /\ CanActivate(u, <<"disposals", "getAnalytics">>) <=> u \in Office
         /\ CanActivate(u, <<"disposals", "findById">>) <=> u \in Office
         /\ CanActivate(u, <<"disposals", "create">>) <=> u \in Office
         /\ CanActivate(u, <<"disposals", "approve">>) <=> u \in Office
         /\ CanActivate(u, <<"disposals", "complete">>) <=> u \in Admin
         /\ CanActivate(u, <<"disposals", "revert">>) <=> u \in Admin
BY DEF CanActivate, Controllers, DisposalController

LEMMA AlertControllerRoutes ==
  ASSUME NEW u
  PROVE  /\ CanActivate(u, <<"alerts", "findAll">>) <=> u \in Repairs
         /\ CanActivate(u, <<"alerts", "getCounts">>) <=> u \in Repairs
         /\ CanActivate(u, <<"alerts", "findById">>) <=> u \in Repairs
         /\ CanActivate(u, <<"alerts", "acknowledge">>) <=> u \in Office
         /\ CanActivate(u, <<"alerts", "resolve">>) <=> u \in Admin
BY DEF CanActivate, Controllers, AlertController

LEMMA BarrelControllerRoutes ==
  ASSUME NEW u
  PROVE  /\ CanActivate(u, <<"barrels", "create">>) <=> u \in Office
         /\ CanActivate(u, <<"barrels", "batchUpdateStatus">>) <=> u \in Office
         /\ CanActivate(u, <<"barrels", "transferBarrel">>) <=> u \in Office
         /\ CanActivate(u, <<"barrels", "linkQr">>) <=> u \in Office
         /\ CanActivate(u, <<"barrels", "batchLinkQr">>) <=> u \in Office
         /\ CanActivate(u, <<"barrels", "scanOrCreate">>) <=> u \in Sales
         /\ CanActivate(u, <<"barrels", "generateBatch">>) <=> u \in (Office \cup SuperAdmin)
BY DEF CanActivate, Controllers, BarrelController

LEMMA ClientControllerRoutes ==
  ASSUME NEW u
  PROVE  /\ CanActivate(u, <<"clients", "findAll">>) <=> u \in Sales
         /\ CanActivate(u, <<"clients", "create">>) <=> u \in Office
         /\ CanActivate(u, <<"clients", "update">>) <=> u \in Admin
         /\ CanActivate(u, <<"clients", "delete">>) <=> u \in Admin
BY DEF CanActivate, Controllers, ClientController

LEMMA GeofenceControllerRoutes ==
  ASSUME NEW u
  PROVE  /\ CanActivate(u, <<"geofences", "findAll">>) <=> u \in Sales
         /\ CanActivate(u, <<"geofences", "create">>) <=> u \in Office
         /\ CanActivate(u, <<"geofences", "update">>) <=> u \in Admin
         /\ CanActivate(u, <<"geofences", "delete">>) <=> u \in Admin
BY DEF CanActivate, Controllers, GeofenceController

LEMMA ComponentControllerRoutes ==
  ASSUME NEW u
  PROVE  /\ CanActivate(u, <<"components", "findAll">>) <=> u \in Repairs
         /\ CanActivate(u, <<"components", "create">>) <=> u \in Admin
         /\ CanActivate(u, <<"components", "update">>) <=> u \in Admin
BY DEF CanActivate, Controllers, ComponentController

LEMMA UserControllerRoutes ==
  ASSUME NEW u
  PROVE  /\ CanActivate(u, <<"users", "findAll">>) <=> u \in Admin
         /\ CanActivate(u, <<"users", "create">>) <=> u \in Admin
         /\ CanActivate(u, <<"users", "deactivate">>) <=> u \in Admin
BY DEF CanActivate, Controllers, UserController

LEMMA DashboardControllerRoutes ==
  ASSUME NEW u
  PROVE  /\ CanActivate(u, <<"dashboard", "getFleetHealth">>) <=> u \in Office
         /\ CanActivate(u, <<"dashboard", "getCostPerLiter">>) <=> u \in Office
         /\ CanActivate(u, <<"dashboard", "getAssetTurnover">>) <=> u \in Office
         /\ CanActivate(u, <<"dashboard", "getLossReport">>) <=> u \in Office
BY DEF CanActivate, Controllers, DashboardController

LEMMA ReportControllerRoutes ==
  ASSUME NEW u
  PROVE  /\ CanActivate(u, <<"reports", "getBigNumbers">>) <=> u \in Office
         /\ CanActivate(u, <<"reports", "getAssetReport">>) <=> u \in Office
         /\ CanActivate(u, <<"reports", "getMaintenanceReport">>) <=> u \in Office
         /\ CanActivate(u, <<"reports", "getDisposalReport">>) <=> u \in Office
         /\ CanActivate(u, <<"reports", "getComponentReport">>) <=> u \in Office
         /\ CanActivate(u, <<"reports", "getLossAnalysis">>) <=> u \in Office
BY DEF CanActivate, Controllers, ReportController

LEMMA SuperAdminControllerRoutes ==
  ASSUME NEW u
  PROVE  /\ CanActivate(u, <<"superAdmin", "listTenants">>) <=> u \in SuperAdmin
         /\ CanActivate(u, <<"superAdmin", "getTenant">>) <=> u \in SuperAdmin
         /\ CanActivate(u, <<"superAdmin", "listTenantUsers">>) <=> u \in SuperAdmin
         /\ CanActivate(u, <<"superAdmin", "updateTenantStatus">>) <=> u \in SuperAdmin
         /\ CanActivate(u, <<"superAdmin", "unlockUser">>) <=> u \in SuperAdmin
         /\ CanActivate(u, <<"superAdmin", "createTenantAdmin">>) <=> u \in SuperAdmin
         /\ CanActivate(u, <<"superAdmin", "resetPassword">>) <=> u \in SuperAdmin
         /\ CanActivate(u, <<"superAdmin", "createTenant">>) <=> u \in SuperAdmin
         /\ CanActivate(u, <<"superAdmin", "listBatches">>) <=> u \in SuperAdmin
         /\ CanActivate(u, <<"superAdmin", "getBatchStats">>) <=> u \in SuperAdmin
         /\ CanActivate(u, <<"superAdmin", "exportBatch">>) <=> u \in SuperAdmin
         /\ CanActivate(u, <<"superAdmin", "printBatch">>) <=> u \in SuperAdmin
         /\ CanActivate(u, <<"superAdmin", "transferBatch">>) <=> u \in SuperAdmin
         /\ CanActivate(u, <<"superAdmin", "getAuditLogs">>) <=> u \in SuperAdmin
BY DEF CanActivate, Controllers, SuperAdminController

-----------------------------------------------------------------------------
(* Page by page. *)

\* RolesGuard refuses a page only what the table knows.
Promises(p) ==
  LET P == Pages[p].page
      offers == Pages[p].offers
      Kept(u, r) == CanActivate(u, r) \/ <<u, r>> \in Overpromised[p] IN
  \A u \in P.guard :
    (u = "SUPER_ADMIN" => P.mounted # Roles) =>
      /\ \A r \in P.once \cup P.list \cup P.detail : Kept(u, r)
      /\ \A o \in DOMAIN offers : u \in offers[o].seen => Kept(u, offers[o].route)

LEMMA MaintenanceTable == TableOK("maintenance") /\ Promises("maintenance")
<1>1. /\ "maintenance" \in DOMAIN Pages
      /\ Pages["maintenance"].page = MaintenancePage
      /\ Pages["maintenance"].offers =
           [createOrder |-> CreateOrderDialog, triage |-> TriageDialog, checklist |->
            ChecklistDialog]
  BY DEF Pages, With
<1>2. Looks(MaintenancePage, Repairs, Roles, loadOrders,
            loadCalendar \cup searchBarrels, openOrderDetail)
  BY DetailLooks DEF MaintenancePage
<1>3. /\ Fitting("new", "creating", "reload")
      /\ Fitting("shown", "triageSubmitting", "detail")
      /\ Fitting("shown", "checklistSubmitting", "detail")
  BY DEF Fitting, Thens, RowFlags
<1>4. Is(CreateOrderDialog, <<"maintenance", "createOrder">>, "new", "reload", Roles)
  BY <1>3, ButtonFields DEF Is, CreateOrderDialog, handleCreateOrder
<1>5. Is(TriageDialog, <<"maintenance", "registerTriage">>, "shown", "detail", Roles)
  BY <1>3, ButtonFields DEF Is, TriageDialog, handleTriage
<1>6. Is(ChecklistDialog, <<"maintenance", "registerChecklist">>, "shown", "detail", Roles)
  BY <1>3, ButtonFields DEF Is, ChecklistDialog, handleChecklist
<1>7. TableOK("maintenance")
  BY <1>1, <1>2, <1>4, <1>5, <1>6 DEF TableOK, Looks, Is, loadOrders
<1>8. Overpromised["maintenance"] =
        {"MANAGER"} \X {<<"maintenance", "createOrder">>, <<"maintenance",
          "registerTriage">>, <<"maintenance", "registerChecklist">>}
  BY <1>1 DEF Overpromised
<1>9. Promises("maintenance")
  <2>1. ASSUME NEW u \in Pages["maintenance"].page.guard,
               u = "SUPER_ADMIN" => Pages["maintenance"].page.mounted # Roles,
               NEW r \in (loadCalendar \cup searchBarrels) \cup loadOrders \cup openOrderDetail
        PROVE  CanActivate(u, r) \/ <<u, r>> \in Overpromised["maintenance"]
    BY <1>1, <1>2, <2>1, <1>8, MaintenanceControllerRoutes, BarrelReadsRoutes
    DEF Looks, Roles, Tenants, Office, Workshop, Repairs, loadOrders, loadCalendar,
        searchBarrels, openOrderDetail
  <2>2. ASSUME NEW u \in Pages["maintenance"].page.guard,
               u = "SUPER_ADMIN" => Pages["maintenance"].page.mounted # Roles,
               NEW o \in DOMAIN Pages["maintenance"].offers,
               u \in Pages["maintenance"].offers[o].seen
        PROVE  LET r == Pages["maintenance"].offers[o].route IN
               CanActivate(u, r) \/ <<u, r>> \in Overpromised["maintenance"]
    <3>1. /\ CanActivate(u, <<"maintenance", "createOrder">>)
               \/ <<u, <<"maintenance", "createOrder">>>> \in Overpromised["maintenance"]
          /\ CanActivate(u, <<"maintenance", "registerTriage">>)
               \/ <<u, <<"maintenance", "registerTriage">>>> \in Overpromised["maintenance"]
          /\ CanActivate(u, <<"maintenance", "registerChecklist">>)
               \/ <<u, <<"maintenance", "registerChecklist">>>> \in Overpromised["maintenance"]
      BY <1>1, <1>2, <2>2, <1>8, MaintenanceControllerRoutes
      DEF Looks, Roles, Tenants, Office, Workshop, Repairs
    <3> QED
      BY <1>1, <1>4, <1>5, <1>6, <2>2, <3>1 DEF Is
  <2> QED
    BY <1>2, <2>1, <2>2, <1>1 DEF Promises, Looks
<1> QED
  BY <1>7, <1>9

LEMMA DisposalTable == TableOK("disposal") /\ Promises("disposal")
<1>1. /\ "disposal" \in DOMAIN Pages
      /\ Pages["disposal"].page = DisposalPage
      /\ Pages["disposal"].offers =
           [create |-> CreateDisposalDialog, approve |-> ApproveButton, complete |->
            CompleteDialog, revert |-> RevertDialog]
  BY DEF Pages, With
<1>2. Looks(DisposalPage, Office, Roles, fetchDisposals,
            fetchAnalytics \cup searchBarrels, {<<"disposals", "findById">>})
  BY DetailLooks DEF DisposalPage
<1>3. /\ Fitting("new", "creating", "reload")
      /\ Fitting("shown", "approving", "close")
      /\ Fitting("shown", "completing", "close")
      /\ Fitting("held", "reverting", "close")
  BY DEF Fitting, Thens, RowFlags
<1>4. Is(CreateDisposalDialog, <<"disposals", "create">>, "new", "reload", Roles)
  BY <1>3, ButtonFields DEF Is, CreateDisposalDialog, handleCreateDisposal
<1>5. Is(ApproveButton, <<"disposals", "approve">>, "shown", "close", Roles)
  BY <1>3, ButtonFields DEF Is, ApproveButton, handleApprove
<1>6. Is(CompleteDialog, <<"disposals", "complete">>, "shown", "close", Roles)
  BY <1>3, ButtonFields DEF Is, CompleteDialog, handleComplete
<1>7. Is(RevertDialog, <<"disposals", "revert">>, "held", "close", Roles)
  BY <1>3, ButtonFields DEF Is, RevertDialog, handleRevert
<1>8. TableOK("disposal")
  BY <1>1, <1>2, <1>4, <1>5, <1>6, <1>7 DEF TableOK, Looks, Is, fetchDisposals
<1>9. Overpromised["disposal"] =
        {"MANAGER"} \X {<<"disposals", "complete">>, <<"disposals", "revert">>}
  BY <1>1 DEF Overpromised
<1>10. Promises("disposal")
  <2>1. ASSUME NEW u \in Pages["disposal"].page.guard,
               u = "SUPER_ADMIN" => Pages["disposal"].page.mounted # Roles,
               NEW r \in (fetchAnalytics \cup searchBarrels) \cup fetchDisposals
                          \cup {<<"disposals", "findById">>}
        PROVE  CanActivate(u, r) \/ <<u, r>> \in Overpromised["disposal"]
    BY <1>1, <1>2, <2>1, <1>9, DisposalControllerRoutes, BarrelReadsRoutes
    DEF Looks, Roles, Tenants, Admin, Office, fetchDisposals, fetchAnalytics, searchBarrels
  <2>2. ASSUME NEW u \in Pages["disposal"].page.guard,
               u = "SUPER_ADMIN" => Pages["disposal"].page.mounted # Roles,
               NEW o \in DOMAIN Pages["disposal"].offers, u \in Pages["disposal"].offers[o].seen
        PROVE  LET r == Pages["disposal"].offers[o].route IN
               CanActivate(u, r) \/ <<u, r>> \in Overpromised["disposal"]
    <3>1. /\ CanActivate(u, <<"disposals", "create">>)
               \/ <<u, <<"disposals", "create">>>> \in Overpromised["disposal"]
          /\ CanActivate(u, <<"disposals", "approve">>)
               \/ <<u, <<"disposals", "approve">>>> \in Overpromised["disposal"]
          /\ CanActivate(u, <<"disposals", "complete">>)
               \/ <<u, <<"disposals", "complete">>>> \in Overpromised["disposal"]
          /\ CanActivate(u, <<"disposals", "revert">>)
               \/ <<u, <<"disposals", "revert">>>> \in Overpromised["disposal"]
      BY <1>1, <1>2, <2>2, <1>9, DisposalControllerRoutes DEF Looks, Roles, Tenants, Admin, Office
    <3> QED
      BY <1>1, <1>4, <1>5, <1>6, <1>7, <2>2, <3>1 DEF Is
  <2> QED
    BY <1>2, <2>1, <2>2, <1>1 DEF Promises, Looks
<1> QED
  BY <1>8, <1>10

LEMMA AlertsTable == TableOK("alerts") /\ Promises("alerts")
<1>1. /\ "alerts" \in DOMAIN Pages
      /\ Pages["alerts"].page = AlertsPage
      /\ Pages["alerts"].offers =
           [acknowledge |-> AcknowledgeButton, resolve |-> ResolveDialog]
  BY DEF Pages, With
<1>2. Looks(AlertsPage, Repairs, Roles, fetchAlerts, fetchCounts, {<<"alerts", "findById">>})
  BY DetailLooks DEF AlertsPage
<1>3. /\ Fitting("row", "none", "reload")
      /\ Fitting("select", "resolving", "close")
  BY DEF Fitting, Thens, RowFlags
<1>4. Is(AcknowledgeButton, <<"alerts", "acknowledge">>, "row", "reload", Roles)
  BY <1>3, OpenButtonFields DEF Is, AcknowledgeButton, handleAcknowledge
<1>5. Is(ResolveDialog, <<"alerts", "resolve">>, "select", "close", Roles)
  BY <1>3, ButtonFields DEF Is, ResolveDialog, handleResolve
<1>6. TableOK("alerts")
  BY <1>1, <1>2, <1>4, <1>5 DEF TableOK, Looks, Is, fetchAlerts
<1>7. Overpromised["alerts"] =
        ({"MANAGER", "MAINTENANCE"} \X {<<"alerts", "resolve">>}) \cup {<<"MAINTENANCE",
          <<"alerts", "acknowledge">>>>}
  BY <1>1 DEF Overpromised
<1>8. Promises("alerts")
  <2>1. ASSUME NEW u \in Pages["alerts"].page.guard,
               u = "SUPER_ADMIN" => Pages["alerts"].page.mounted # Roles,
               NEW r \in fetchCounts \cup fetchAlerts \cup {<<"alerts", "findById">>}
        PROVE  CanActivate(u, r) \/ <<u, r>> \in Overpromised["alerts"]
    BY <1>1, <1>2, <2>1, <1>7, AlertControllerRoutes
    DEF Looks, Roles, Admin, Office, Repairs, fetchAlerts, fetchCounts
  <2>2. ASSUME NEW u \in Pages["alerts"].page.guard,
               u = "SUPER_ADMIN" => Pages["alerts"].page.mounted # Roles,
               NEW o \in DOMAIN Pages["alerts"].offers, u \in Pages["alerts"].offers[o].seen
        PROVE  LET r == Pages["alerts"].offers[o].route IN
               CanActivate(u, r) \/ <<u, r>> \in Overpromised["alerts"]
    <3>1. /\ CanActivate(u, <<"alerts", "acknowledge">>)
               \/ <<u, <<"alerts", "acknowledge">>>> \in Overpromised["alerts"]
          /\ CanActivate(u, <<"alerts", "resolve">>)
               \/ <<u, <<"alerts", "resolve">>>> \in Overpromised["alerts"]
      BY <1>1, <1>2, <2>2, <1>7, AlertControllerRoutes DEF Looks, Roles, Admin, Office, Repairs
    <3> QED
      BY <1>1, <1>4, <1>5, <2>2, <3>1 DEF Is
  <2> QED
    BY <1>2, <2>1, <2>2, <1>1 DEF Promises, Looks
<1> QED
  BY <1>6, <1>8

LEMMA BarrelsTable == TableOK("barrels") /\ Promises("barrels")
<1>1. /\ "barrels" \in DOMAIN Pages
      /\ Pages["barrels"].page = BarrelsPage
      /\ Pages["barrels"].offers =
           [template |-> DownloadTemplateButton, create |-> CreateBarrelDialog,
            batchStatus |-> BatchStatusBar]
  BY DEF Pages, With
<1>2. Looks(BarrelsPage, Roles, Roles, fetchBarrels, {}, {})
  BY PageLooks DEF BarrelsPage
<1>3. /\ Fitting("new", "none", "nothing")
      /\ Fitting("new", "creating", "reload")
      /\ Fitting("row", "none", "reload")
  BY DEF Fitting, Thens, RowFlags
<1>4. Is(DownloadTemplateButton, <<"barrelReads", "downloadTemplate">>, "new", "nothing", Office)
  BY <1>3, OpenButtonFields DEF Is, DownloadTemplateButton, handleDownloadTemplate
<1>5. Is(CreateBarrelDialog, <<"barrels", "create">>, "new", "reload", Office)
  BY <1>3, ButtonFields DEF Is, CreateBarrelDialog, handleCreateBarrel
<1>6. Is(BatchStatusBar, <<"barrels", "batchUpdateStatus">>, "row", "reload", Roles)
  BY <1>3, OpenButtonFields DEF Is, BatchStatusBar, handleBatchStatus
<1>7. TableOK("barrels")
  BY <1>1, <1>2, <1>4, <1>5, <1>6 DEF TableOK, Looks, Is, fetchBarrels
<1>8. Overpromised["barrels"] =
        {"LOGISTICS", "MAINTENANCE"} \X {<<"barrels", "batchUpdateStatus">>}
  BY <1>1 DEF Overpromised
<1>9. Promises("barrels")
  <2>1. ASSUME NEW u \in Pages["barrels"].page.guard,
               u = "SUPER_ADMIN" => Pages["barrels"].page.mounted # Roles,
               NEW r \in fetchBarrels
        PROVE  CanActivate(u, r) \/ <<u, r>> \in Overpromised["barrels"]
    BY <1>1, <1>2, <2>1, <1>8, BarrelReadsRoutes DEF Looks, Roles, Tenants, Office, fetchBarrels
  <2>2. ASSUME NEW u \in Pages["barrels"].page.guard,
               u = "SUPER_ADMIN" => Pages["barrels"].page.mounted # Roles,
               NEW o \in DOMAIN Pages["barrels"].offers, u \in Pages["barrels"].offers[o].seen
        PROVE  LET r == Pages["barrels"].offers[o].route IN
               CanActivate(u, r) \/ <<u, r>> \in Overpromised["barrels"]
    <3>1. /\ u \in Office => CanActivate(u, <<"barrelReads", "downloadTemplate">>)
               \/ <<u, <<"barrelReads", "downloadTemplate">>>> \in Overpromised["barrels"]
          /\ u \in Office => CanActivate(u, <<"barrels", "create">>)
               \/ <<u, <<"barrels", "create">>>> \in Overpromised["barrels"]
          /\ CanActivate(u, <<"barrels", "batchUpdateStatus">>)
               \/ <<u, <<"barrels", "batchUpdateStatus">>>> \in Overpromised["barrels"]
      BY <1>1, <1>2, <2>2, <1>8, BarrelReadsRoutes, BarrelControllerRoutes
      DEF Looks, Roles, Tenants, Office
    <3> QED
      BY <1>1, <1>4, <1>5, <1>6, <2>2, <3>1 DEF Is
  <2> QED
    BY <1>2, <2>1, <2>2, <1>1 DEF Promises, Looks
<1> QED
  BY <1>7, <1>9

LEMMA BarrelTable == TableOK("barrel") /\ Promises("barrel")
<1>1. /\ "barrel" \in DOMAIN Pages
      /\ Pages["barrel"].page = BarrelPage
      /\ Pages["barrel"].offers =
           [transfer |-> TransferDialog, maintain |-> SendToMaintenanceDialog]
  BY DEF Pages, With
<1>2. Looks(BarrelPage, Roles, Roles, loadBarrel, loadOwners, {})
  BY PageLooks DEF BarrelPage
<1>3. /\ Fitting("row", "transferring", "quietly")
      /\ Fitting("row", "maintenanceSubmitting", "within")
  BY DEF Fitting, Thens, RowFlags
<1>4. Is(TransferDialog, <<"barrels", "transferBarrel">>, "row", "quietly",
         {"ADMIN", "SUPER_ADMIN"})
  BY <1>3, ButtonFields DEF Is, TransferDialog, handleTransfer
<1>5. Is(SendToMaintenanceDialog, <<"maintenance", "createOrder">>, "row", "within", Repairs)
  BY <1>3, ButtonFields DEF Is, SendToMaintenanceDialog, handleSendToMaintenance
<1>6. TableOK("barrel")
  BY <1>1, <1>2, <1>4, <1>5 DEF TableOK, Looks, Is, loadBarrel
<1>7. Overpromised["barrel"] =
        ({"LOGISTICS", "MAINTENANCE"} \X loadOwners) \cup {<<"MANAGER", <<"maintenance",
          "createOrder">>>>}
  BY <1>1 DEF Overpromised
<1>8. Promises("barrel")
  <2>1. ASSUME NEW u \in Pages["barrel"].page.guard,
               u = "SUPER_ADMIN" => Pages["barrel"].page.mounted # Roles,
               NEW r \in loadOwners \cup loadBarrel
        PROVE  CanActivate(u, r) \/ <<u, r>> \in Overpromised["barrel"]
    BY <1>1, <1>2, <2>1, <1>7, BarrelReadsRoutes
    DEF Looks, Roles, Tenants, Office, Workshop, Repairs, loadBarrel, loadOwners
  <2>2. ASSUME NEW u \in Pages["barrel"].page.guard,
               u = "SUPER_ADMIN" => Pages["barrel"].page.mounted # Roles,
               NEW o \in DOMAIN Pages["barrel"].offers, u \in Pages["barrel"].offers[o].seen
        PROVE  LET r == Pages["barrel"].offers[o].route IN
               CanActivate(u, r) \/ <<u, r>> \in Overpromised["barrel"]
    <3>1. /\ u \in {"ADMIN", "SUPER_ADMIN"} => CanActivate(u, <<"barrels", "transferBarrel">>)
               \/ <<u, <<"barrels", "transferBarrel">>>> \in Overpromised["barrel"]
          /\ u \in Repairs => CanActivate(u, <<"maintenance", "createOrder">>)
               \/ <<u, <<"maintenance", "createOrder">>>> \in Overpromised["barrel"]
      BY <1>1, <1>2, <2>2, <1>7, BarrelControllerRoutes, MaintenanceControllerRoutes
      DEF Looks, Roles, Tenants, Office, Workshop, Repairs, loadOwners
    <3> QED
      BY <1>1, <1>4, <1>5, <2>2, <3>1 DEF Is
  <2> QED
    BY <1>2, <2>1, <2>2, <1>1 DEF Promises, Looks
<1> QED
  BY <1>6, <1>8

LEMMA LinkQrTable == TableOK("linkQr") /\ Promises("linkQr")
<1>1. /\ "linkQr" \in DOMAIN Pages
      /\ Pages["linkQr"].page = LinkQrPage
      /\ Pages["linkQr"].offers =
           [scan |-> LinkScanner, export |-> ExportUnlinkedButton, upload |->
            UploadLinkButton]
  BY DEF Pages, With
<1>2. Looks(LinkQrPage, Roles, Roles, fetchUnlinked, {}, {})
  BY PageLooks DEF LinkQrPage
<1>3. /\ Fitting("select", "none", "next")
      /\ Fitting("new", "none", "nothing")
      /\ Fitting("new", "uploading", "reload")
  BY DEF Fitting, Thens, RowFlags
<1>4. Is(LinkScanner, <<"barrels", "linkQr">>, "select", "next", Roles)
  BY <1>3, OpenButtonFields DEF Is, LinkScanner, handleLinkScan
<1>5. Is(ExportUnlinkedButton, <<"barrelReads", "exportUnlinked">>, "new", "nothing", Roles)
  BY <1>3, OpenButtonFields DEF Is, ExportUnlinkedButton, handleExportUnlinked
<1>6. Is(UploadLinkButton, <<"barrels", "batchLinkQr">>, "new", "reload", Roles)
  BY <1>3, ButtonFields DEF Is, UploadLinkButton, handleUploadLinkFile
<1>7. TableOK("linkQr")
  BY <1>1, <1>2, <1>4, <1>5, <1>6 DEF TableOK, Looks, Is, fetchUnlinked
<1>8. Overpromised["linkQr"] =
        {"LOGISTICS", "MAINTENANCE"} \X {<<"barrelReads", "findUnlinked">>,
          <<"barrelReads", "exportUnlinked">>, <<"barrels", "linkQr">>, <<"barrels",
          "batchLinkQr">>}
  BY <1>1 DEF Overpromised
<1>9. Promises("linkQr")
  <2>1. ASSUME NEW u \in Pages["linkQr"].page.guard,
               u = "SUPER_ADMIN" => Pages["linkQr"].page.mounted # Roles,
               NEW r \in fetchUnlinked
        PROVE  CanActivate(u, r) \/ <<u, r>> \in Overpromised["linkQr"]
    BY <1>1, <1>2, <2>1, <1>8, BarrelReadsRoutes DEF Looks, Roles, Office, fetchUnlinked
  <2>2. ASSUME NEW u \in Pages["linkQr"].page.guard,
               u = "SUPER_ADMIN" => Pages["linkQr"].page.mounted # Roles,
               NEW o \in DOMAIN Pages["linkQr"].offers, u \in Pages["linkQr"].offers[o].seen
        PROVE  LET r == Pages["linkQr"].offers[o].route IN
               CanActivate(u, r) \/ <<u, r>> \in Overpromised["linkQr"]
    <3>1. /\ CanActivate(u, <<"barrels", "linkQr">>)
               \/ <<u, <<"barrels", "linkQr">>>> \in Overpromised["linkQr"]
          /\ CanActivate(u, <<"barrelReads", "exportUnlinked">>)
               \/ <<u, <<"barrelReads", "exportUnlinked">>>> \in Overpromised["linkQr"]
          /\ CanActivate(u, <<"barrels", "batchLinkQr">>)
               \/ <<u, <<"barrels", "batchLinkQr">>>> \in Overpromised["linkQr"]
      BY <1>1, <1>2, <2>2, <1>8, BarrelControllerRoutes, BarrelReadsRoutes
      DEF Looks, Roles, Office
    <3> QED
      BY <1>1, <1>4, <1>5, <1>6, <2>2, <3>1 DEF Is
  <2> QED
    BY <1>2, <2>1, <2>2, <1>1 DEF Promises, Looks
<1> QED
  BY <1>7, <1>9

LEMMA QuickRegisterTable == TableOK("quickRegister") /\ Promises("quickRegister")
<1>1. /\ "quickRegister" \in DOMAIN Pages
      /\ Pages["quickRegister"].page = QuickRegisterPage
      /\ Pages["quickRegister"].offers =
           [scan |-> QuickScanner]
  BY DEF Pages, With
<1>2. Looks(QuickRegisterPage, Roles, Roles, {}, {}, {})
  BY PageLooks DEF QuickRegisterPage
<1>3. /\ Fitting("new", "none", "nothing")
  BY DEF Fitting, Thens, RowFlags
<1>4. Is(QuickScanner, <<"barrels", "scanOrCreate">>, "new", "nothing", Roles)
  BY <1>3, OpenButtonFields DEF Is, QuickScanner, handleQuickScan
<1>5. TableOK("quickRegister")
  BY <1>1, <1>2, <1>4 DEF TableOK, Looks, Is
<1>6. Overpromised["quickRegister"] =
        {<<"MAINTENANCE", <<"barrels", "scanOrCreate">>>>}
  BY <1>1 DEF Overpromised
<1>7. Promises("quickRegister")
  BY <1>1, <1>2, <1>4, <1>6, BarrelControllerRoutes DEF Promises, Looks, Is, Roles, Office, Sales
<1> QED
  BY <1>5, <1>7

LEMMA ClientsTable == TableOK("clients") /\ Promises("clients")
<1>1. /\ "clients" \in DOMAIN Pages
      /\ Pages["clients"].page = ClientsPage
      /\ Pages["clients"].offers =
           [create |-> CreateClientDialog, edit |-> EditClientDialog, delete |->
            DeleteClientDialog]
  BY DEF Pages, With
<1>2. Looks(ClientsPage, Office, Roles, fetchClients, {}, {})
  BY PageLooks DEF ClientsPage
<1>3. /\ Fitting("new", "creating", "reload")
      /\ Fitting("row", "editing", "reload")
      /\ Fitting("row", "deleting", "reload")
  BY DEF Fitting, Thens, RowFlags
<1>4. Is(CreateClientDialog, <<"clients", "create">>, "new", "reload", Roles)
  BY <1>3, ButtonFields DEF Is, CreateClientDialog, handleCreateClient
<1>5. Is(EditClientDialog, <<"clients", "update">>, "row", "reload", Roles)
  BY <1>3, ButtonFields DEF Is, EditClientDialog, handleEditClient
<1>6. Is(DeleteClientDialog, <<"clients", "delete">>, "row", "reload", Roles)
  BY <1>3, ButtonFields DEF Is, DeleteClientDialog, handleDeleteClient
<1>7. TableOK("clients")
  BY <1>1, <1>2, <1>4, <1>5, <1>6 DEF TableOK, Looks, Is, fetchClients
<1>8. Overpromised["clients"] =
        {"MANAGER"} \X {<<"clients", "update">>, <<"clients", "delete">>}
  BY <1>1 DEF Overpromised
<1>9. Promises("clients")
  <2>1. ASSUME NEW u \in Pages["clients"].page.guard,
               u = "SUPER_ADMIN" => Pages["clients"].page.mounted # Roles,
               NEW r \in fetchClients
        PROVE  CanActivate(u, r) \/ <<u, r>> \in Overpromised["clients"]
    BY <1>1, <1>2, <2>1, <1>8, ClientControllerRoutes
    DEF Looks, Roles, Admin, Office, Sales, fetchClients
  <2>2. ASSUME NEW u \in Pages["clients"].page.guard,
               u = "SUPER_ADMIN" => Pages["clients"].page.mounted # Roles,
               NEW o \in DOMAIN Pages["clients"].offers, u \in Pages["clients"].offers[o].seen
        PROVE  LET r == Pages["clients"].offers[o].route IN
               CanActivate(u, r) \/ <<u, r>> \in Overpromised["clients"]
    <3>1. /\ CanActivate(u, <<"clients", "create">>)
               \/ <<u, <<"clients", "create">>>> \in Overpromised["clients"]
          /\ CanActivate(u, <<"clients", "update">>)
               \/ <<u, <<"clients", "update">>>> \in Overpromised["clients"]
          /\ CanActivate(u, <<"clients", "delete">>)
               \/ <<u, <<"clients", "delete">>>> \in Overpromised["clients"]
      BY <1>1, <1>2, <2>2, <1>8, ClientControllerRoutes DEF Looks, Roles, Admin, Office, Sales
    <3> QED
      BY <1>1, <1>4, <1>5, <1>6, <2>2, <3>1 DEF Is
  <2> QED
    BY <1>2, <2>1, <2>2, <1>1 DEF Promises, Looks
<1> QED
  BY <1>7, <1>9

LEMMA GeofencesTable == TableOK("geofences") /\ Promises("geofences")
<1>1. /\ "geofences" \in DOMAIN Pages
      /\ Pages["geofences"].page = GeofencesPage
      /\ Pages["geofences"].offers =
           [create |-> CreateGeofenceDialog, edit |-> EditGeofenceDialog, delete |->
            DeleteGeofenceDialog]
  BY DEF Pages, With
<1>2. Looks(GeofencesPage, Office, Roles, fetchGeofences, {}, {})
  BY PageLooks DEF GeofencesPage
<1>3. /\ Fitting("new", "creating", "reload")
      /\ Fitting("row", "editing", "reload")
      /\ Fitting("row", "deleting", "reload")
  BY DEF Fitting, Thens, RowFlags
<1>4. Is(CreateGeofenceDialog, <<"geofences", "create">>, "new", "reload", Roles)
  BY <1>3, ButtonFields DEF Is, CreateGeofenceDialog, handleCreateGeofence
<1>5. Is(EditGeofenceDialog, <<"geofences", "update">>, "row", "reload", Roles)
  BY <1>3, ButtonFields DEF Is, EditGeofenceDialog, handleEditGeofence
<1>6. Is(DeleteGeofenceDialog, <<"geofences", "delete">>, "row", "reload", Roles)
  BY <1>3, ButtonFields DEF Is, DeleteGeofenceDialog, handleDeleteGeofence
<1>7. TableOK("geofences")
  BY <1>1, <1>2, <1>4, <1>5, <1>6 DEF TableOK, Looks, Is, fetchGeofences
<1>8. Overpromised["geofences"] =
        {"MANAGER"} \X {<<"geofences", "update">>, <<"geofences", "delete">>}
  BY <1>1 DEF Overpromised
<1>9. Promises("geofences")
  <2>1. ASSUME NEW u \in Pages["geofences"].page.guard,
               u = "SUPER_ADMIN" => Pages["geofences"].page.mounted # Roles,
               NEW r \in fetchGeofences
        PROVE  CanActivate(u, r) \/ <<u, r>> \in Overpromised["geofences"]
    BY <1>1, <1>2, <2>1, <1>8, GeofenceControllerRoutes
    DEF Looks, Roles, Admin, Office, Sales, fetchGeofences
  <2>2. ASSUME NEW u \in Pages["geofences"].page.guard,
               u = "SUPER_ADMIN" => Pages["geofences"].page.mounted # Roles,
               NEW o \in DOMAIN Pages["geofences"].offers, u \in Pages["geofences"].offers[o].seen
        PROVE  LET r == Pages["geofences"].offers[o].route IN
               CanActivate(u, r) \/ <<u, r>> \in Overpromised["geofences"]
    <3>1. /\ CanActivate(u, <<"geofences", "create">>)
               \/ <<u, <<"geofences", "create">>>> \in Overpromised["geofences"]
          /\ CanActivate(u, <<"geofences", "update">>)
               \/ <<u, <<"geofences", "update">>>> \in Overpromised["geofences"]
          /\ CanActivate(u, <<"geofences", "delete">>)
               \/ <<u, <<"geofences", "delete">>>> \in Overpromised["geofences"]
      BY <1>1, <1>2, <2>2, <1>8, GeofenceControllerRoutes DEF Looks, Roles, Admin, Office, Sales
    <3> QED
      BY <1>1, <1>4, <1>5, <1>6, <2>2, <3>1 DEF Is
  <2> QED
    BY <1>2, <2>1, <2>2, <1>1 DEF Promises, Looks
<1> QED
  BY <1>7, <1>9

LEMMA ComponentsTable == TableOK("components") /\ Promises("components")
<1>1. /\ "components" \in DOMAIN Pages
      /\ Pages["components"].page = ComponentsPage
      /\ Pages["components"].offers =
           [create |-> CreateComponentDialog, edit |-> EditComponentDialog]
  BY DEF Pages, With
<1>2. Looks(ComponentsPage, Admin, Roles, fetchComponents, {}, {})
  BY PageLooks DEF ComponentsPage
<1>3. /\ Fitting("new", "creating", "reload")
      /\ Fitting("row", "editing", "reload")
  BY DEF Fitting, Thens, RowFlags
<1>4. Is(CreateComponentDialog, <<"components", "create">>, "new", "reload", Roles)
  BY <1>3, ButtonFields DEF Is, CreateComponentDialog, handleCreateComponent
<1>5. Is(EditComponentDialog, <<"components", "update">>, "row", "reload", Roles)
  BY <1>3, ButtonFields DEF Is, EditComponentDialog, handleEditComponent
<1>6. TableOK("components")
  BY <1>1, <1>2, <1>4, <1>5 DEF TableOK, Looks, Is, fetchComponents
<1>7. Promises("components")
  <2>1. ASSUME NEW u \in Pages["components"].page.guard,
               u = "SUPER_ADMIN" => Pages["components"].page.mounted # Roles,
               NEW r \in fetchComponents
        PROVE  CanActivate(u, r)
    BY <1>1, <1>2, <2>1, ComponentControllerRoutes
    DEF Looks, Roles, Admin, Office, Repairs, fetchComponents
  <2>2. ASSUME NEW u \in Pages["components"].page.guard,
               u = "SUPER_ADMIN" => Pages["components"].page.mounted # Roles,
               NEW o \in DOMAIN Pages["components"].offers,
               u \in Pages["components"].offers[o].seen
        PROVE  LET r == Pages["components"].offers[o].route IN
               CanActivate(u, r)
    <3>1. /\ CanActivate(u, <<"components", "create">>)
          /\ CanActivate(u, <<"components", "update">>)
      BY <1>1, <1>2, <2>2, ComponentControllerRoutes DEF Looks, Roles, Admin, Office, Repairs
    <3> QED
      BY <1>1, <1>4, <1>5, <2>2, <3>1 DEF Is
  <2> QED
    BY <1>2, <2>1, <2>2, <1>1 DEF Promises, Looks
<1> QED
  BY <1>6, <1>7

LEMMA UsersTable == TableOK("users") /\ Promises("users")
<1>1. /\ "users" \in DOMAIN Pages
      /\ Pages["users"].page = UsersPage
      /\ Pages["users"].offers =
           [create |-> CreateUserDialog, toggle |-> ToggleUserButton]
  BY DEF Pages, With
<1>2. Looks(UsersPage, Admin, Roles, fetchUsers, {}, {})
  BY PageLooks DEF UsersPage
<1>3. /\ Fitting("new", "creating", "reload")
      /\ Fitting("row", "togglingId", "reload")
  BY DEF Fitting, Thens, RowFlags
<1>4. Is(CreateUserDialog, <<"users", "create">>, "new", "reload", Roles)
  BY <1>3, ButtonFields DEF Is, CreateUserDialog, handleCreateUser
<1>5. Is(ToggleUserButton, <<"users", "deactivate">>, "row", "reload", Roles)
  BY <1>3, ButtonFields DEF Is, ToggleUserButton, toggleUserStatus
<1>6. TableOK("users")
  BY <1>1, <1>2, <1>4, <1>5 DEF TableOK, Looks, Is, fetchUsers
<1>7. Promises("users")
  <2>1. ASSUME NEW u \in Pages["users"].page.guard,
               u = "SUPER_ADMIN" => Pages["users"].page.mounted # Roles,
               NEW r \in fetchUsers
        PROVE  CanActivate(u, r)
    BY <1>1, <1>2, <2>1, UserControllerRoutes DEF Looks, Roles, Admin, fetchUsers
  <2>2. ASSUME NEW u \in Pages["users"].page.guard,
               u = "SUPER_ADMIN" => Pages["users"].page.mounted # Roles,
               NEW o \in DOMAIN Pages["users"].offers, u \in Pages["users"].offers[o].seen
        PROVE  LET r == Pages["users"].offers[o].route IN
               CanActivate(u, r)
    <3>1. /\ CanActivate(u, <<"users", "create">>)
          /\ CanActivate(u, <<"users", "deactivate">>)
      BY <1>1, <1>2, <2>2, UserControllerRoutes DEF Looks, Roles, Admin
    <3> QED
      BY <1>1, <1>4, <1>5, <2>2, <3>1 DEF Is
  <2> QED
    BY <1>2, <2>1, <2>2, <1>1 DEF Promises, Looks
<1> QED
  BY <1>6, <1>7

LEMMA DashboardTable == TableOK("dashboard") /\ Promises("dashboard")
<1>1. /\ "dashboard" \in DOMAIN Pages
      /\ Pages["dashboard"].page = DashboardPage
      /\ Pages["dashboard"].offers = <<>>
  BY DEF Pages, With
<1>2. Looks(DashboardPage, Office, Roles, {<<"dashboard", "getFleetHealth">>},
                        {<<"dashboard", "getCostPerLiter">>, <<"dashboard", "getAssetTurnover">>,
              <<"alerts", "getCounts">>, <<"reports", "getBigNumbers">>}, {})
  BY PageLooks DEF DashboardPage
<1>3. TableOK("dashboard")
  BY <1>1, <1>2 DEF TableOK, Looks
<1>4. Promises("dashboard")
  BY <1>1, <1>2, DashboardControllerRoutes, AlertControllerRoutes, ReportControllerRoutes
  DEF Promises, Looks, Roles, Office, Repairs
<1> QED
  BY <1>3, <1>4

LEMMA ReportsTable == TableOK("reports") /\ Promises("reports")
<1>1. /\ "reports" \in DOMAIN Pages
      /\ Pages["reports"].page = ReportsPage
      /\ Pages["reports"].offers = <<>>
  BY DEF Pages, With
<1>2. Looks(ReportsPage, Office, Roles, {<<"reports", "getAssetReport">>, <<"reports",
              "getMaintenanceReport">>, <<"reports", "getDisposalReport">>, <<"reports",
              "getComponentReport">>, <<"reports", "getLossAnalysis">>},
                        {<<"dashboard", "getCostPerLiter">>, <<"dashboard", "getAssetTurnover">>,
              <<"dashboard", "getLossReport">>}, {})
  BY PageLooks DEF ReportsPage
<1>3. TableOK("reports")
  BY <1>1, <1>2 DEF TableOK, Looks
<1>4. Promises("reports")
  BY <1>1, <1>2, ReportControllerRoutes, DashboardControllerRoutes
  DEF Promises, Looks, Roles, Office
<1> QED
  BY <1>3, <1>4

LEMMA LogisticsTable == TableOK("logistics") /\ Promises("logistics")
<1>1. /\ "logistics" \in DOMAIN Pages
      /\ Pages["logistics"].page = LogisticsPage
      /\ Pages["logistics"].offers = <<>>
  BY DEF Pages, With
<1>2. Looks(LogisticsPage, Yard, Roles, {}, {}, {})
  BY PageLooks DEF LogisticsPage
<1>3. TableOK("logistics")
  BY <1>1, <1>2 DEF TableOK, Looks
<1>4. Promises("logistics")
  BY <1>1, <1>2 DEF Promises, Looks, Roles, Yard
<1> QED
  BY <1>3, <1>4

LEMMA SearchTable == TableOK("search") /\ Promises("search")
<1>1. /\ "search" \in DOMAIN Pages
      /\ Pages["search"].page = GlobalSearch
      /\ Pages["search"].offers = <<>>
  BY DEF Pages, With
<1>2. Looks(GlobalSearch, Roles, Roles, fetchBarrels, fetchClients \cup fetchGeofences, {})
  BY PageLooks DEF GlobalSearch
<1>3. TableOK("search")
  BY <1>1, <1>2 DEF TableOK, Looks, fetchBarrels
<1>4. Overpromised["search"] =
        {"MAINTENANCE"} \X (fetchClients \cup fetchGeofences)
  BY <1>1 DEF Overpromised
<1>5. Promises("search")
  BY <1>1, <1>2, <1>4, BarrelReadsRoutes, ClientControllerRoutes, GeofenceControllerRoutes
  DEF Promises, Looks, Roles, Tenants, Office, Sales, fetchBarrels, fetchClients, fetchGeofences
<1> QED
  BY <1>3, <1>5

LEMMA TenantsTable == TableOK("tenants") /\ Promises("tenants")
<1>1. /\ "tenants" \in DOMAIN Pages
      /\ Pages["tenants"].page = TenantsPage
      /\ Pages["tenants"].offers = <<>>
  BY DEF Pages, With
<1>2. Looks(TenantsPage, SuperAdmin, SuperAdmin, fetchTenants, {}, {})
  BY PageLooks DEF TenantsPage
<1>3. TableOK("tenants")
  BY <1>1, <1>2 DEF TableOK, Looks, fetchTenants
<1>4. Promises("tenants")
  BY <1>1, <1>2, SuperAdminControllerRoutes DEF Promises, Looks, Roles, SuperAdmin, fetchTenants
<1> QED
  BY <1>3, <1>4

LEMMA TenantTable == TableOK("tenant") /\ Promises("tenant")
<1>1. /\ "tenant" \in DOMAIN Pages
      /\ Pages["tenant"].page = TenantPage
      /\ Pages["tenant"].offers =
           [toggle |-> ToggleStatusButton, unlock |-> UnlockUserButton, createAdmin |->
            CreateTenantAdminDialog, reset |-> ResetPasswordDialog]
  BY DEF Pages, With
<1>2. Looks(TenantPage, SuperAdmin, SuperAdmin, fetchTenantUsers, fetchTenant, {})
  BY PageLooks DEF TenantPage
<1>3. /\ Fitting("new", "togglingStatus", "nothing")
      /\ Fitting("row", "unlockingUser", "reload")
      /\ Fitting("new", "creating", "reload")
      /\ Fitting("row", "resetting", "reload")
  BY DEF Fitting, Thens, RowFlags
<1>4. Is(ToggleStatusButton, <<"superAdmin", "updateTenantStatus">>, "new", "nothing", Roles)
  BY <1>3, ButtonFields DEF Is, ToggleStatusButton, handleToggleStatus
<1>5. Is(UnlockUserButton, <<"superAdmin", "unlockUser">>, "row", "reload", Roles)
  BY <1>3, ButtonFields DEF Is, UnlockUserButton, handleUnlockUser
<1>6. Is(CreateTenantAdminDialog, <<"superAdmin", "createTenantAdmin">>, "new", "reload", Roles)
  BY <1>3, ButtonFields DEF Is, CreateTenantAdminDialog, handleCreateTenantAdmin
<1>7. Is(ResetPasswordDialog, <<"superAdmin", "resetPassword">>, "row", "reload", Roles)
  BY <1>3, ButtonFields DEF Is, ResetPasswordDialog, handleResetPassword
<1>8. TableOK("tenant")
  BY <1>1, <1>2, <1>4, <1>5, <1>6, <1>7 DEF TableOK, Looks, Is, fetchTenantUsers
<1>9. Promises("tenant")
  <2>1. ASSUME NEW u \in Pages["tenant"].page.guard,
               u = "SUPER_ADMIN" => Pages["tenant"].page.mounted # Roles,
               NEW r \in fetchTenant \cup fetchTenantUsers
        PROVE  CanActivate(u, r)
    BY <1>1, <1>2, <2>1, SuperAdminControllerRoutes
    DEF Looks, Roles, SuperAdmin, fetchTenantUsers, fetchTenant
  <2>2. ASSUME NEW u \in Pages["tenant"].page.guard,
               u = "SUPER_ADMIN" => Pages["tenant"].page.mounted # Roles,
               NEW o \in DOMAIN Pages["tenant"].offers, u \in Pages["tenant"].offers[o].seen
        PROVE  LET r == Pages["tenant"].offers[o].route IN
               CanActivate(u, r)
    <3>1. /\ CanActivate(u, <<"superAdmin", "updateTenantStatus">>)
          /\ CanActivate(u, <<"superAdmin", "unlockUser">>)
          /\ CanActivate(u, <<"superAdmin", "createTenantAdmin">>)
          /\ CanActivate(u, <<"superAdmin", "resetPassword">>)
      BY <1>1, <1>2, <2>2, SuperAdminControllerRoutes DEF Looks, Roles, SuperAdmin
    <3> QED
      BY <1>1, <1>4, <1>5, <1>6, <1>7, <2>2, <3>1 DEF Is
  <2> QED
    BY <1>2, <2>1, <2>2, <1>1 DEF Promises, Looks
<1> QED
  BY <1>8, <1>9

LEMMA NewTenantTable == TableOK("newTenant") /\ Promises("newTenant")
<1>1. /\ "newTenant" \in DOMAIN Pages
      /\ Pages["newTenant"].page = NewTenantPage
      /\ Pages["newTenant"].offers =
           [createTenant |-> CreateTenantForm, createAdmin |-> CreateAdminForm]
  BY DEF Pages, With
<1>2. Looks(NewTenantPage, SuperAdmin, SuperAdmin, {}, {}, {})
  BY PageLooks DEF NewTenantPage
<1>3. /\ Fitting("new", "loading", "step")
      /\ Fitting("held", "loading", "nothing")
  BY DEF Fitting, Thens, RowFlags
<1>4. Is(CreateTenantForm, <<"superAdmin", "createTenant">>, "new", "step", Roles)
  BY <1>3, ButtonFields DEF Is, CreateTenantForm, handleCreateTenant
<1>5. Is(CreateAdminForm, <<"superAdmin", "createTenantAdmin">>, "held", "nothing", Roles)
  BY <1>3, ButtonFields DEF Is, CreateAdminForm, handleCreateAdmin
<1>6. TableOK("newTenant")
  BY <1>1, <1>2, <1>4, <1>5 DEF TableOK, Looks, Is
<1>7. Promises("newTenant")
  <2>1. ASSUME NEW u \in Pages["newTenant"].page.guard,
               u = "SUPER_ADMIN" => Pages["newTenant"].page.mounted # Roles,
               NEW r \in {}
        PROVE  CanActivate(u, r)
    BY <1>1, <1>2, <2>1 DEF Looks, Roles, SuperAdmin
  <2>2. ASSUME NEW u \in Pages["newTenant"].page.guard,
               u = "SUPER_ADMIN" => Pages["newTenant"].page.mounted # Roles,
               NEW o \in DOMAIN Pages["newTenant"].offers, u \in Pages["newTenant"].offers[o].seen
        PROVE  LET r == Pages["newTenant"].offers[o].route IN
               CanActivate(u, r)
    <3>1. /\ CanActivate(u, <<"superAdmin", "createTenant">>)
          /\ CanActivate(u, <<"superAdmin", "createTenantAdmin">>)
      BY <1>1, <1>2, <2>2, SuperAdminControllerRoutes DEF Looks, Roles, SuperAdmin
    <3> QED
      BY <1>1, <1>4, <1>5, <2>2, <3>1 DEF Is
  <2> QED
    BY <1>2, <2>1, <2>2, <1>1 DEF Promises, Looks
<1> QED
  BY <1>6, <1>7

LEMMA BatchesTable == TableOK("batches") /\ Promises("batches")
<1>1. /\ "batches" \in DOMAIN Pages
      /\ Pages["batches"].page = BatchesPage
      /\ Pages["batches"].offers =
           [generate |-> GenerateButton, export |-> ExportButton, print |-> PrintDialog]
  BY DEF Pages, With
<1>2. Looks(BatchesPage, SuperAdmin, SuperAdmin, fetchBatches,
            {<<"superAdmin", "getBatchStats">>} \cup fetchTenants, {})
  BY PageLooks DEF BatchesPage
<1>3. /\ Fitting("new", "generating", "reload")
      /\ Fitting("row", "none", "reload")
  BY DEF Fitting, Thens, RowFlags
<1>4. Is(GenerateButton, <<"barrels", "generateBatch">>, "new", "reload", Roles)
  BY <1>3, ButtonFields DEF Is, GenerateButton, handleGenerate
<1>5. Is(ExportButton, <<"superAdmin", "exportBatch">>, "row", "reload", Roles)
  BY <1>3, OpenButtonFields DEF Is, ExportButton, handleExport
<1>6. Is(PrintDialog, <<"superAdmin", "printBatch">>, "row", "reload", Roles)
  BY <1>3, OpenButtonFields DEF Is, PrintDialog, handlePrint
<1>7. TableOK("batches")
  BY <1>1, <1>2, <1>4, <1>5, <1>6 DEF TableOK, Looks, Is, fetchBatches
<1>8. Promises("batches")
  <2>1. ASSUME NEW u \in Pages["batches"].page.guard,
               u = "SUPER_ADMIN" => Pages["batches"].page.mounted # Roles,
               NEW r \in {<<"superAdmin", "getBatchStats">>} \cup fetchTenants \cup fetchBatches
        PROVE  CanActivate(u, r)
    BY <1>1, <1>2, <2>1, SuperAdminControllerRoutes
    DEF Looks, Roles, Office, SuperAdmin, fetchBatches, fetchTenants
  <2>2. ASSUME NEW u \in Pages["batches"].page.guard,
               u = "SUPER_ADMIN" => Pages["batches"].page.mounted # Roles,
               NEW o \in DOMAIN Pages["batches"].offers, u \in Pages["batches"].offers[o].seen
        PROVE  LET r == Pages["batches"].offers[o].route IN
               CanActivate(u, r)
    <3>1. /\ CanActivate(u, <<"barrels", "generateBatch">>)
          /\ CanActivate(u, <<"superAdmin", "exportBatch">>)
          /\ CanActivate(u, <<"superAdmin", "printBatch">>)
      BY <1>1, <1>2, <2>2, BarrelControllerRoutes, SuperAdminControllerRoutes
      DEF Looks, Roles, Office, SuperAdmin
    <3> QED
      BY <1>1, <1>4, <1>5, <1>6, <2>2, <3>1 DEF Is
  <2> QED
    BY <1>2, <2>1, <2>2, <1>1 DEF Promises, Looks
<1> QED
  BY <1>7, <1>8

LEMMA TransferTable == TableOK("transfer") /\ Promises("transfer")
<1>1. /\ "transfer" \in DOMAIN Pages
      /\ Pages["transfer"].page = TransferPage
      /\ Pages["transfer"].offers =
           [search |-> SearchButton, transfer |-> ConfirmTransferDialog]
  BY DEF Pages, With
<1>2. Looks(TransferPage, SuperAdmin, SuperAdmin, {}, fetchTenants, {})
  BY PageLooks DEF TransferPage
<1>3. /\ Fitting("new", "searching", "nothing")
      /\ Fitting("new", "transferring", "nothing")
  BY DEF Fitting, Thens, RowFlags
<1>4. Is(SearchButton, <<"barrels", "scanOrCreate">>, "new", "nothing", Roles)
  BY <1>3, ButtonFields DEF Is, SearchButton, handleSearch
<1>5. Is(ConfirmTransferDialog, <<"superAdmin", "transferBatch">>, "new", "nothing", Roles)
  BY <1>3, ButtonFields DEF Is, ConfirmTransferDialog, handleTransferBatch
<1>6. TableOK("transfer")
  BY <1>1, <1>2, <1>4, <1>5 DEF TableOK, Looks, Is
<1>7. Overpromised["transfer"] =
        {<<"SUPER_ADMIN", <<"barrels", "scanOrCreate">>>>}
  BY <1>1 DEF Overpromised
<1>8. Promises("transfer")
  <2>1. ASSUME NEW u \in Pages["transfer"].page.guard,
               u = "SUPER_ADMIN" => Pages["transfer"].page.mounted # Roles,
               NEW r \in fetchTenants
        PROVE  CanActivate(u, r) \/ <<u, r>> \in Overpromised["transfer"]
    BY <1>1, <1>2, <2>1, <1>7, SuperAdminControllerRoutes
    DEF Looks, Roles, Office, Sales, SuperAdmin, fetchTenants
  <2>2. ASSUME NEW u \in Pages["transfer"].page.guard,
               u = "SUPER_ADMIN" => Pages["transfer"].page.mounted # Roles,
               NEW o \in DOMAIN Pages["transfer"].offers, u \in Pages["transfer"].offers[o].seen
        PROVE  LET r == Pages["transfer"].offers[o].route IN
               CanActivate(u, r) \/ <<u, r>> \in Overpromised["transfer"]
    <3>1. /\ CanActivate(u, <<"barrels", "scanOrCreate">>)
               \/ <<u, <<"barrels", "scanOrCreate">>>> \in Overpromised["transfer"]
          /\ CanActivate(u, <<"superAdmin", "transferBatch">>)
               \/ <<u, <<"superAdmin", "transferBatch">>>> \in Overpromised["transfer"]
      BY <1>1, <1>2, <2>2, <1>7, BarrelControllerRoutes, SuperAdminControllerRoutes
      DEF Looks, Roles, Office, Sales, SuperAdmin
    <3> QED
      BY <1>1, <1>4, <1>5, <2>2, <3>1 DEF Is
  <2> QED
    BY <1>2, <2>1, <2>2, <1>1 DEF Promises, Looks
<1> QED
  BY <1>6, <1>8

LEMMA AuditTable == TableOK("audit") /\ Promises("audit")
<1>1. /\ "audit" \in DOMAIN Pages
      /\ Pages["audit"].page = AuditPage
      /\ Pages["audit"].offers = <<>>
  BY DEF Pages, With
<1>2. Looks(AuditPage, SuperAdmin, SuperAdmin, {<<"superAdmin", "getAuditLogs">>}, {}, {})
  BY PageLooks DEF AuditPage
<1>3. TableOK("audit")
  BY <1>1, <1>2 DEF TableOK, Looks
<1>4. Promises("audit")
  BY <1>1, <1>2, SuperAdminControllerRoutes DEF Promises, Looks, Roles, SuperAdmin
<1> QED
  BY <1>3, <1>4

LEMMA Tables ==
  ASSUME NEW p \in DOMAIN Pages
  PROVE  TableOK(p) /\ Promises(p)
<1>1. DOMAIN Pages =
        {"maintenance", "disposal", "alerts", "barrels", "barrel", "linkQr", "quickRegister",
         "clients", "geofences", "components", "users", "dashboard", "reports", "logistics",
         "search", "tenants", "tenant", "newTenant", "batches", "transfer", "audit"}
  BY DEF Pages
<1> QED
  BY <1>1, MaintenanceTable, DisposalTable, AlertsTable, BarrelsTable, BarrelTable, LinkQrTable,
     QuickRegisterTable, ClientsTable, GeofencesTable, ComponentsTable, UsersTable,
     DashboardTable, ReportsTable, LogisticsTable, SearchTable, TenantsTable, TenantTable,
     NewTenantTable, BatchesTable, TransferTable, AuditTable

-----------------------------------------------------------------------------
(* Facts about requests, forms and flags. *)

LEMMA NoCallFields ==
  /\ NoCall \in Call
  /\ NoCall.kind = "none" /\ ~NoCall.alive /\ ~NoCall.stale
BY DEF NoCall, Call

\* A request that is sent is the same request, under way.
LEMMA SendFields ==
  ASSUME NEW a \in Call, NEW routes
  PROVE  LET s == Send(a, routes) IN
         /\ s \in Call /\ s.alive /\ s.pc \in {"sent", "barred"}
         /\ s.kind = a.kind /\ s.is = a.is /\ s.item = a.item /\ s.nth = a.nth
         /\ s.query = a.query /\ s.stale = a.stale
<1> DEFINE pc == IF \A r \in routes : CanActivate(role, r) THEN "sent" ELSE "barred"
<1>1. pc \in {"sent", "barred"}
  OBVIOUS
<1> HIDE DEF pc
<1>2. Send(a, routes) = [a EXCEPT !.alive = TRUE, !.pc = pc]
  BY DEF Send, pc
<1> QED
  BY <1>1, <1>2 DEF Call

LEMMA ListCallFields ==
  ASSUME NEW q \in Query
  PROVE  LET l == ListCall(q) IN
         l \in Call /\ l.kind = "list" /\ l.query = q /\ ~l.stale /\ l.alive
<1> DEFINE a == [NoCall EXCEPT !.kind = "list", !.query = q]
<1>1. a \in Call /\ a.kind = "list" /\ a.query = q /\ ~a.stale
  BY NoCallFields DEF Call
<1> HIDE DEF a
<1>2. ListCall(q) = Send(a, Page.list)
  BY DEF ListCall, a
<1> QED
  BY <1>1, <1>2, SendFields

LEMMA DetailCallFields ==
  ASSUME NEW i \in Row, NEW routes
  PROVE  LET l == Send([NoCall EXCEPT !.kind = "detail", !.item = i], routes) IN
         l \in Call /\ l.kind = "detail" /\ l.item = i /\ l.alive
<1> DEFINE a == [NoCall EXCEPT !.kind = "detail", !.item = i]
<1>1. a \in Call /\ a.kind = "detail" /\ a.item = i
  BY NoCallFields DEF Call
<1> HIDE DEF a
<1>2. LET l == Send(a, routes) IN l \in Call /\ l.kind = "detail" /\ l.item = i /\ l.alive
  BY <1>1, SendFields
<1> QED
  BY <1>2 DEF a

LEMMA AgainCallFields ==
  ASSUME NEW c \in Call, NEW routes
  PROVE  LET l == Send([c EXCEPT !.kind = "again", !.stale = FALSE], routes) IN
         /\ l \in Call /\ l.kind = "again" /\ l.is = c.is /\ l.item = c.item /\ l.nth = c.nth
         /\ l.query = c.query /\ ~l.stale /\ l.alive
<1> DEFINE a == [c EXCEPT !.kind = "again", !.stale = FALSE]
<1>1. /\ a \in Call /\ a.kind = "again" /\ a.is = c.is /\ a.item = c.item /\ a.nth = c.nth
      /\ a.query = c.query /\ ~a.stale
  BY DEF Call
<1> HIDE DEF a
<1>2. LET l == Send(a, routes) IN
      /\ l \in Call /\ l.kind = "again" /\ l.is = c.is /\ l.item = c.item /\ l.nth = c.nth
      /\ l.query = c.query /\ ~l.stale /\ l.alive
  BY <1>1, SendFields
<1> QED
  BY <1>2 DEF a

\* What the handlers of the open page are.
LEMMA OfferFacts ==
  ASSUME at \in DOMAIN Pages, NEW o \in DOMAIN Offers
  PROVE  /\ o \in Name /\ Offers[o].flag \in Flag /\ Sound(Offers[o])
         /\ Offers[o].then \notin {"nothing", "step"} => Page.list # {}
         /\ \A q \in DOMAIN Offers :
              Offers[o].then = "step" => Offers[q].picks \notin {"select", "shown"}
<1>1. TableOK(at)
  BY Tables
<1> QED
  BY <1>1 DEF TableOK, Offers, Page, Name, Flag

LEMMA NextSlot ==
  ASSUME Room
  PROVE  Next1 \in Slot /\ Free(Next1)
BY DEF Room, Next1

-----------------------------------------------------------------------------
(* What a step of a request, or of the server, does to the requests. *)

\* The request d is what it was; what it brings may have become stale.
Same(d) ==
  /\ calls'[d].kind = calls[d].kind /\ calls'[d].pc = calls[d].pc
  /\ calls'[d].is = calls[d].is /\ calls'[d].item = calls[d].item
  /\ calls'[d].nth = calls[d].nth /\ calls'[d].query = calls[d].query
  /\ calls'[d].alive = calls[d].alive

\* The request c ends, or goes on as a load of the list.
Ends(c) == calls'[c].kind = "none" /\ ~calls'[c].alive

Loads(c) ==
  /\ calls[c].kind \in {"write", "again"} /\ calls[c].alive
  /\ calls'[c].kind = "list" /\ calls'[c].query = calls[c].query
  /\ ~calls'[c].stale /\ calls'[c].alive

\* The server does what the request c asks.
Performs(c) ==
  /\ calls[c].kind = "write" /\ calls[c].pc = "sent"
  /\ calls'[c].kind = "write" /\ calls'[c].pc = "done"
  /\ calls'[c].is = calls[c].is /\ calls'[c].item = calls[c].item
  /\ calls'[c].nth = calls[c].nth /\ calls'[c].query = calls[c].query
  /\ calls'[c].alive = calls[c].alive

\* The request c succeeded and its handler loads something before it ends.
Turns(c) ==
  /\ calls[c].kind = "write" /\ calls[c].pc = "done" /\ calls[c].alive
  /\ Of(c).then \in {"detail", "within", "quietly"}
  /\ calls'[c].kind = "again" /\ calls'[c].alive /\ ~calls'[c].stale
  /\ calls'[c].is = calls[c].is /\ calls'[c].item = calls[c].item
  /\ calls'[c].nth = calls[c].nth /\ calls'[c].query = calls[c].query

\* The handler of c takes its flag back when it ends, and only then.
Returns(c) ==
  IF Working(c) /\ (Ends(c) \/ Loads(c))
  THEN busy' = {b \in busy : b[1] # Of(c).flag}
  ELSE busy' = busy

Proceeding(c) ==
  /\ UNCHANGED <<who, query, opened, strayed>>
  /\ calls' \in [Slot -> Call]
  /\ \A d \in Slot : d # c => Same(d)
  /\ Ends(c) \/ Loads(c) \/ Performs(c) \/ Turns(c)
  /\ Returns(c)

LEMMA OverFields ==
  ASSUME TypeOK, NEW c \in Slot, Over(c)
  PROVE  /\ calls' \in [Slot -> Call] /\ \A d \in Slot : d # c => Same(d) /\ calls'[d] = calls[d]
         /\ Ends(c) /\ calls'[c] = NoCall
BY NoCallFields DEF TypeOK, Over, Same, Ends

LEMMA ReloadFields ==
  ASSUME TypeOK, NEW c \in Slot, NEW q \in Query, Reload(c, q), calls[c].query = q,
         Work(c), calls[c].alive
  PROVE  /\ calls' \in [Slot -> Call] /\ \A d \in Slot : d # c => Same(d) /\ calls'[d] = calls[d]
         /\ \/ Page.list = {} /\ Ends(c) /\ UNCHANGED <<loading, excused>>
            \/ Loads(c) /\ loading' = TRUE /\ excused' = ~Lone(c, q)
<1>1. CASE Page.list = {}
  BY <1>1, OverFields DEF Reload
<1>2. CASE Page.list # {}
  <2>1. calls' = [calls EXCEPT ![c] = ListCall(q)] /\ loading' = TRUE /\ excused' = ~Lone(c, q)
    BY <1>2 DEF Reload
  <2>2. LET l == ListCall(q) IN
        l \in Call /\ l.kind = "list" /\ l.query = q /\ ~l.stale /\ l.alive
    BY ListCallFields
  <2> QED
    BY <2>1, <2>2 DEF TypeOK, Same, Loads, Work
<1> QED
  BY <1>1, <1>2

\* The server does what it is asked, and what was read before may be stale.
LEMMA PerformFields ==
  ASSUME TypeOK, NEW c \in Slot, Perform(c)
  PROVE  /\ calls' \in [Slot -> Call] /\ \A d \in Slot : d # c => Same(d)
         /\ Performs(c)
<1> DEFINE a == [calls[c] EXCEPT !.pc = "done"]
<1>1. calls[c] \in Call /\ \A d \in Slot : calls[d] \in Call
  BY DEF TypeOK
<1>2. /\ a \in Call /\ a.kind = calls[c].kind /\ a.pc = "done" /\ a.is = calls[c].is
      /\ a.item = calls[c].item /\ a.nth = calls[c].nth /\ a.query = calls[c].query
      /\ a.alive = calls[c].alive
  BY <1>1 DEF Call
<1>3. \A d \in Slot :
        LET s == [calls[d] EXCEPT !.stale = TRUE] IN
        /\ s \in Call /\ s.kind = calls[d].kind /\ s.pc = calls[d].pc /\ s.is = calls[d].is
        /\ s.item = calls[d].item /\ s.nth = calls[d].nth /\ s.query = calls[d].query
        /\ s.alive = calls[d].alive
  BY <1>1 DEF Call
<1>4. CASE Of(c).touches
  <2>1. PICK before \in SUBSET {d \in Slot : calls[d].kind \in {"list", "again"}} :
          calls' = [d \in Slot |-> IF d = c THEN [calls[c] EXCEPT !.pc = "done"]
                                   ELSE IF d \in before THEN [calls[d] EXCEPT !.stale = TRUE]
                                   ELSE calls[d]]
    BY <1>4 DEF Perform
  <2>2. calls'[c] = a /\ calls' \in [Slot -> Call]
    BY <2>1, <1>1, <1>2, <1>3
  <2>3. \A d \in Slot : d # c => Same(d)
    BY <2>1, <1>1, <1>3 DEF Same
  <2> QED
    BY <1>2, <2>2, <2>3 DEF Performs, Perform
<1>5. CASE ~Of(c).touches
  <2>1. calls' = [calls EXCEPT ![c] = a]
    BY <1>5 DEF Perform
  <2> HIDE DEF a
  <2>2. calls'[c] = a /\ calls' \in [Slot -> Call] /\ \A d \in Slot : d # c => calls'[d] = calls[d]
    BY <2>1, <1>1, <1>2 DEF TypeOK
  <2> QED
    BY <1>2, <2>2 DEF Same, Performs, Perform
<1> QED
  BY <1>4, <1>5

\* What a request knows that an action of its own needs.
LEMMA WorkFacts ==
  ASSUME TypeOK, NEW c \in Slot, CallOK(c), Work(c)
  PROVE  /\ at \in DOMAIN Pages /\ calls[c].is \in DOMAIN Offers /\ calls[c].query \in Query
         /\ calls[c].nth \in 1..Len(opened) /\ Sound(Of(c)) /\ Of(c).flag \in Flag
         /\ Of(c).then \notin {"nothing", "step"} => Page.list # {}
         /\ \A q \in DOMAIN Offers :
              Of(c).then = "step" => Offers[q].picks \notin {"select", "shown"}
<1>1. at \in DOMAIN Pages /\ calls[c].is \in DOMAIN Offers
  BY DEF CallOK, Work, TypeOK
<1> QED
  BY <1>1, OfferFacts DEF Of, CallOK, Work

LEMMA SucceedsFields ==
  ASSUME TypeOK, NEW c \in Slot, CallOK(c), Succeeds(c)
  PROVE  Proceeding(c)
<1> DEFINE h == Of(c)
           a == calls[c]
           again == Send([a EXCEPT !.kind = "again", !.stale = FALSE],
                         IF h.then = "detail" THEN Page.detail ELSE Page.list)
<1>1. a \in Call /\ a.kind = "write" /\ a.pc = "done" /\ a.alive /\ Working(c) /\ Work(c)
  BY DEF Succeeds, TypeOK, Working, Work
<1>2. h.then \in Thens /\ a.query \in Query
  BY <1>1, WorkFacts DEF Sound
<1>3. UNCHANGED <<who, query, opened, strayed>>
  BY DEF Succeeds
<1>4. CASE h.then \in {"nothing", "step", "next"}
  <2>1. Over(c) /\ Release(h.flag)
    BY <1>4 DEF Succeeds
  <2> QED
    BY <1>1, <1>3, <2>1, OverFields DEF Proceeding, Returns, Release
<1>5. CASE h.then \in {"reload", "close"}
  <2>1. Reload(c, a.query) /\ Release(h.flag)
    BY <1>5 DEF Succeeds
  <2>2. /\ calls' \in [Slot -> Call] /\ \A d \in Slot : d # c => Same(d)
        /\ Ends(c) \/ Loads(c)
    BY <1>1, <1>2, <2>1, ReloadFields
  <2> QED
    BY <1>1, <1>3, <2>1, <2>2 DEF Proceeding, Returns, Release
<1>6. CASE h.then \in {"detail", "within", "quietly"}
  <2>1. calls' = [calls EXCEPT ![c] = again] /\ busy' = busy
    BY <1>6 DEF Succeeds
  <2>2. /\ again \in Call /\ again.kind = "again" /\ again.is = a.is /\ again.item = a.item
        /\ again.nth = a.nth /\ again.query = a.query /\ ~again.stale /\ again.alive
    BY <1>1, AgainCallFields
  <2> HIDE DEF again
  <2>3. /\ calls' \in [Slot -> Call] /\ \A d \in Slot : d # c => Same(d)
        /\ Turns(c) /\ ~Ends(c) /\ ~Loads(c)
    BY <1>1, <1>6, <2>1, <2>2 DEF TypeOK, Same, Turns, Ends, Loads
  <2> QED
    BY <1>3, <2>1, <2>3 DEF Proceeding, Returns
<1> QED
  BY <1>2, <1>4, <1>5, <1>6 DEF Thens

LEMMA ProceedFields ==
  ASSUME TypeOK, NEW c \in Slot, CallOK(c), Proceeds(c)
  PROVE  Proceeding(c)
<1>1. ASSUME ListArrives(c) \/ ListFails(c) \/ DetailArrives(c) \/ DetailFails(c)
      PROVE  Proceeding(c)
  <2>1. /\ Over(c) /\ ~Working(c) /\ busy' = busy
        /\ UNCHANGED <<who, query, opened, strayed>>
    BY <1>1 DEF ListArrives, ListFails, DetailArrives, DetailFails, Working, Work,
                choice, list
  <2> QED
    BY <2>1, OverFields DEF Proceeding, Returns
<1>2. ASSUME Forgotten(c) PROVE Proceeding(c)
  <2>1. /\ Over(c) /\ ~Working(c) /\ busy' = busy
        /\ UNCHANGED <<who, query, opened, strayed>>
    BY <1>2 DEF Forgotten, Working, Work, choice
  <2> QED
    BY <2>1, OverFields DEF Proceeding, Returns
<1>3. ASSUME Perform(c) PROVE Proceeding(c)
  <2>1. UNCHANGED <<who, query, opened, strayed, busy>>
    BY <1>3 DEF Perform, choice
  <2> QED
    BY <1>3, <2>1, PerformFields DEF Proceeding, Returns, Performs, Ends, Loads
<1>4. ASSUME Succeeds(c) PROVE Proceeding(c)
  BY <1>4, SucceedsFields
<1>5. ASSUME Fails(c) \/ AgainFails(c) PROVE Proceeding(c)
  <2>1. CallOK(c)
    OBVIOUS
  <2>2. /\ Over(c) /\ Working(c) /\ Release(Of(c).flag)
        /\ UNCHANGED <<who, query, opened, strayed>>
    BY <1>5, <2>1 DEF Fails, AgainFails, Working, Work, choice, CallOK
  <2> QED
    BY <2>2, OverFields DEF Proceeding, Returns, Release
<1>6. ASSUME AgainArrives(c) PROVE Proceeding(c)
  <2>1. /\ Working(c) /\ Work(c) /\ calls[c].alive /\ Release(Of(c).flag)
        /\ UNCHANGED <<who, query, opened, strayed>>
    BY <1>6 DEF AgainArrives, Working, Work, CallOK
  <2>2. calls[c].query \in Query
    BY <2>1, WorkFacts
  <2>3. Over(c) \/ Reload(c, calls[c].query)
    BY <1>6 DEF AgainArrives
  <2>4. /\ calls' \in [Slot -> Call] /\ \A d \in Slot : d # c => Same(d)
        /\ Ends(c) \/ Loads(c)
    BY <2>1, <2>2, <2>3, OverFields, ReloadFields
  <2> QED
    BY <2>1, <2>4 DEF Proceeding, Returns, Release
<1> QED
  BY <1>1, <1>2, <1>3, <1>4, <1>5, <1>6 DEF Proceeds

-----------------------------------------------------------------------------
(* Types. *)

Places == {"closed", "loading", "shown"}

LEMMA ProceedTyped ==
  ASSUME TypeOK, NEW c \in Slot, CallOK(c), Proceeds(c)
  PROVE  TypeOK'
<1>1. Proceeding(c)
  BY ProceedFields
<1>2. calls[c] \in Call
  BY DEF TypeOK
<1>3. busy' \subseteq Flag \X ({0} \cup Row)
  BY <1>1 DEF Proceeding, Returns, TypeOK
<1>4. /\ listing' \in [query : {0} \cup Query, stale : BOOLEAN]
      /\ loading' \in BOOLEAN /\ excused' \in BOOLEAN
  <2>1. ASSUME Reload(c, calls[c].query) PROVE loading' \in BOOLEAN /\ excused' \in BOOLEAN
    <3>1. CASE Page.list = {}
      BY <2>1, <3>1 DEF Reload, TypeOK
    <3>2. CASE Page.list # {}
      <4>1. loading' = TRUE /\ excused' = ~Lone(c, calls[c].query)
        BY <2>1, <3>2 DEF Reload
      <4>2. Lone(c, calls[c].query) \in BOOLEAN
        BY DEF Lone
      <4> QED
        BY <4>1, <4>2
    <3> QED
      BY <3>1, <3>2
  <2>2. CASE ListArrives(c) \/ ListFails(c)
    <3>1. calls[c].query \in {0} \cup Query /\ calls[c].stale \in BOOLEAN
      BY <1>2 DEF Call
    <3>2. CASE ListArrives(c)
      BY <3>1, <3>2 DEF ListArrives, TypeOK
    <3>3. CASE ListFails(c)
      BY <3>3 DEF ListFails, TypeOK
    <3> QED
      BY <2>2, <3>2, <3>3
  <2>3. CASE DetailArrives(c) \/ DetailFails(c)
    BY <2>3 DEF DetailArrives, DetailFails, TypeOK, list
  <2>4. CASE Perform(c)
    <3>1. listing' = listing \/ listing' = [listing EXCEPT !.stale = (listing.query # 0)]
      BY <2>4 DEF Perform
    <3>2. [listing EXCEPT !.stale = (listing.query # 0)]
            \in [query : {0} \cup Query, stale : BOOLEAN]
      BY DEF TypeOK
    <3>3. loading' = loading /\ excused' = excused
      BY <2>4 DEF Perform
    <3> QED
      BY <3>1, <3>2, <3>3 DEF TypeOK
  <2>5. CASE Succeeds(c)
    <3>1. Work(c) /\ Of(c).then \in Thens
      BY <2>5, WorkFacts DEF Succeeds, Sound, Work
    <3>2. listing' = listing \/ listing' = [listing EXCEPT !.stale = FALSE]
      BY <2>5, <3>1 DEF Succeeds, Thens
    <3>3. [listing EXCEPT !.stale = FALSE] \in [query : {0} \cup Query, stale : BOOLEAN]
      BY DEF TypeOK
    <3>4. CASE Of(c).then \in {"reload", "close"}
      BY <2>5, <2>1, <3>2, <3>3, <3>4 DEF Succeeds, TypeOK
    <3>5. CASE Of(c).then \notin {"reload", "close"}
      <4>1. loading' = loading /\ (excused' = excused \/ excused' \in BOOLEAN)
        BY <2>5, <3>1, <3>5 DEF Succeeds, Thens, TypeOK
      <4> QED
        BY <4>1, <3>2, <3>3 DEF TypeOK
    <3> QED
      BY <3>4, <3>5
  <2>6. CASE Fails(c) \/ AgainFails(c) \/ Forgotten(c)
    BY <2>6 DEF Fails, AgainFails, Forgotten, TypeOK
  <2>7. CASE AgainArrives(c)
    <3>1. CASE Of(c).then = "detail"
      BY <2>7, <2>1, <3>1 DEF AgainArrives, TypeOK
    <3>2. CASE Of(c).then # "detail"
      BY <2>7, <3>2, <1>2 DEF AgainArrives, TypeOK, Call
    <3> QED
      BY <3>1, <3>2
  <2> QED
    BY <2>2, <2>3, <2>4, <2>5, <2>6, <2>7 DEF Proceeds
<1>5. detail' \in Places /\ selected' \in {0} \cup Row /\ form' \in Form
  <2>1. NoForm \in Form
    BY DEF NoForm, Form
  <2>2. calls[c].item \in {0} \cup Row
    BY <1>2 DEF Call
  <2>3. CASE DetailArrives(c) \/ DetailFails(c)
    BY <2>2, <2>3 DEF DetailArrives, DetailFails, TypeOK, Places
  <2>4. CASE AgainArrives(c)
    BY <2>2, <2>4 DEF AgainArrives, TypeOK, Places
  <2>5. CASE Succeeds(c)
    <3>1. Work(c) /\ Of(c).then \in Thens
      BY <2>5, WorkFacts DEF Succeeds, Sound, Work
    <3>2. form' \in Form
      BY <2>5, <2>1 DEF Succeeds, Closed, TypeOK
    <3>3. Of(c).then = "next" => 3 - calls[c].item \in Row
      BY <3>1 DEF CallOK, Row
    <3>4. detail' \in Places
      BY <2>5, <3>1 DEF Succeeds, Thens, TypeOK, Places
    <3>5. selected' \in {0} \cup Row
      <4>1. \/ selected' = selected
            \/ selected' = 1
            \/ Of(c).then = "next" /\ selected' = 3 - calls[c].item
        BY <2>5, <3>1 DEF Succeeds, Thens
      <4> QED
        BY <4>1, <3>3 DEF TypeOK, Row
    <3> QED
      BY <3>2, <3>4, <3>5
  <2>6. CASE ListArrives(c) \/ ListFails(c) \/ Perform(c) \/ Fails(c) \/ AgainFails(c)
             \/ Forgotten(c)
    BY <2>6 DEF ListArrives, ListFails, Perform, Fails, AgainFails, Forgotten, choice, TypeOK,
                Places
  <2> QED
    BY <2>3, <2>4, <2>5, <2>6 DEF Proceeds
<1>6. done' \in Seq(0..2) /\ Len(done') = Len(opened)
  <2>1. CASE Perform(c)
    <3>1. calls[c].nth \in 1..Len(done) /\ done \in Seq(0..2)
      BY <2>1 DEF Perform, CallOK, Work, TypeOK
    <3>2. done[calls[c].nth] \in 0..2
      BY <3>1
    <3> DEFINE k == IF done[calls[c].nth] < 2 THEN done[calls[c].nth] + 1 ELSE done[calls[c].nth]
    <3>3. k \in 0..2
      BY <3>2
    <3>4. done' = [done EXCEPT ![calls[c].nth] = k]
      BY <2>1 DEF Perform
    <3> HIDE DEF k
    <3> QED
      BY <3>1, <3>3, <3>4, ExceptSeq DEF TypeOK
  <2>2. CASE ~Perform(c)
    <3>1. done' = done
      BY <2>2 DEF Proceeds, ListArrives, ListFails, DetailArrives, DetailFails, Succeeds, Fails,
                  AgainArrives, AgainFails, Forgotten
    <3> QED
      BY <3>1 DEF TypeOK
  <2> QED
    BY <2>1, <2>2
<1>7. misled' \subseteq 1..Len(opened)
  <2>1. misled' = misled \/ (Work(c) /\ misled' = misled \cup {calls[c].nth})
    BY DEF Proceeds, ListArrives, ListFails, DetailArrives, DetailFails, Perform, Succeeds, Fails,
           AgainArrives, AgainFails, Forgotten, Work
  <2> QED
    BY <2>1 DEF TypeOK, CallOK
<1>8. UNCHANGED <<role, user, at, visits, denied, query, opened, strayed>>
  BY <1>1 DEF Proceeding, who
<1>9. calls' \in [Slot -> Call]
  BY <1>1 DEF Proceeding
<1> QED
  BY <1>3, <1>4, <1>5, <1>6, <1>7, <1>8, <1>9 DEF TypeOK, Places

\* Coming to a page ends what the page had asked; requests that change something
\* go on without it.
Comes ==
  /\ calls' \in [Slot -> Call]
  /\ \A c \in Slot :
       \/ calls'[c].kind = "none" /\ ~calls'[c].alive
       \/ /\ calls'[c].kind = "list" /\ calls'[c].alive
          /\ calls'[c].query = 1 /\ ~calls'[c].stale
       \/ /\ calls[c].kind = "write" /\ calls'[c].kind = "write" /\ ~calls'[c].alive
          /\ calls'[c].pc = calls[c].pc /\ calls'[c].is = calls[c].is
          /\ calls'[c].item = calls[c].item /\ calls'[c].nth = calls[c].nth
          /\ calls'[c].query = calls[c].query
  /\ \A c, d \in Slot : calls'[c].kind = "list" /\ calls'[d].kind = "list" => c = d

LEMMA ComeFields ==
  ASSUME TypeOK, NEW p \in DOMAIN Pages, NEW how, Come(p, how)
  PROVE  Comes
<1> DEFINE now == IF how = "address" THEN role ELSE user
           next == Pages[p].page
           left == [c \in Slot |-> IF calls[c].kind = "write"
                                   THEN [calls[c] EXCEPT !.alive = FALSE] ELSE NoCall]
           slots == {c \in Slot : left[c].kind = "none"}
           asks == now \in next.mounted /\ next.list # {}
           pc == IF \A r \in next.list : CanActivate(role, r) THEN "sent" ELSE "barred"
           a == [NoCall EXCEPT !.kind = "list", !.query = 1, !.alive = TRUE, !.pc = pc]
           s == CHOOSE c \in slots : TRUE
<1>1. pc \in {"sent", "barred"}
  OBVIOUS
<1> HIDE DEF pc
<1>2. a \in Call /\ a.kind = "list" /\ a.alive /\ a.query = 1 /\ ~a.stale
  BY <1>1, NoCallFields DEF Call, Query
<1>3. \A c \in Slot :
        LET w == [calls[c] EXCEPT !.alive = FALSE] IN
        /\ w \in Call /\ w.kind = calls[c].kind /\ ~w.alive /\ w.pc = calls[c].pc
        /\ w.is = calls[c].is /\ w.item = calls[c].item /\ w.nth = calls[c].nth
        /\ w.query = calls[c].query
  <2> SUFFICES ASSUME NEW b \in Call
               PROVE  LET w == [b EXCEPT !.alive = FALSE] IN
                      /\ w \in Call /\ w.kind = b.kind /\ ~w.alive /\ w.pc = b.pc
                      /\ w.is = b.is /\ w.item = b.item /\ w.nth = b.nth
                      /\ w.query = b.query
    BY DEF TypeOK
  <2> QED
    BY DEF Call
<1>4. \A c \in Slot :
        /\ left[c] \in Call
        /\ \/ left[c].kind = "none" /\ ~left[c].alive
           \/ /\ calls[c].kind = "write" /\ left[c].kind = "write" /\ ~left[c].alive
              /\ left[c].pc = calls[c].pc /\ left[c].is = calls[c].is
              /\ left[c].item = calls[c].item /\ left[c].nth = calls[c].nth
              /\ left[c].query = calls[c].query
  BY <1>3, NoCallFields
<1>5. slots # {} /\ calls' = IF ~asks THEN left ELSE [left EXCEPT ![s] = a]
  BY DEF Come, pc
<1>6. left \in [Slot -> Call]
  BY <1>4
<1>7. s \in Slot
  BY <1>5
<1> HIDE DEF left, a, asks, s, slots
<1>8. CASE ~asks
  BY <1>4, <1>5, <1>6, <1>8 DEF Comes
<1>9. CASE asks
  <2>1. /\ calls' = [left EXCEPT ![s] = a] /\ calls' \in [Slot -> Call]
        /\ calls'[s] = a /\ \A c \in Slot : c # s => calls'[c] = left[c]
    BY <1>2, <1>5, <1>6, <1>7, <1>9
  <2> QED
    BY <1>2, <1>4, <1>7, <2>1 DEF Comes
<1> QED
  BY <1>8, <1>9

\* A user's step that asks the server for something takes a free slot.
Issues(c) ==
  /\ c \in Slot /\ calls[c].kind = "none"
  /\ calls' \in [Slot -> Call] /\ calls'[c].alive
  /\ \A d \in Slot : d # c => calls'[d] = calls[d]

LEMMA AskFields ==
  ASSUME TypeOK, NEW q \in Query, AskFor(q)
  PROVE  \E c \in Slot :
           Issues(c) /\ calls'[c].kind = "list" /\ calls'[c].query = q /\ ~calls'[c].stale
<1>1. Next1 \in Slot /\ Free(Next1)
  BY NextSlot DEF AskFor
<1>2. LET l == ListCall(q) IN
      l \in Call /\ l.kind = "list" /\ l.query = q /\ ~l.stale /\ l.alive
  BY ListCallFields
<1>3. calls' = [calls EXCEPT ![Next1] = ListCall(q)]
  BY DEF AskFor
<1> QED
  BY <1>1, <1>2, <1>3 DEF TypeOK, Issues, Free

LEMMA OpenDetailFields ==
  ASSUME TypeOK, NEW i \in Row, OpenDetail(i)
  PROVE  \E c \in Slot : Issues(c) /\ calls'[c].kind = "detail" /\ calls'[c].item = i
<1> DEFINE l == Send([NoCall EXCEPT !.kind = "detail", !.item = i], Page.detail)
<1>1. Next1 \in Slot /\ Free(Next1)
  BY NextSlot DEF OpenDetail
<1>2. l \in Call /\ l.kind = "detail" /\ l.item = i /\ l.alive
  BY DetailCallFields
<1>3. calls' = [calls EXCEPT ![Next1] = l]
  BY DEF OpenDetail
<1> HIDE DEF l
<1> QED
  BY <1>1, <1>2, <1>3 DEF TypeOK, Issues, Free

\* What the form sends, and for which row.
Target ==
  IF Offers[form.is].picks \in {"select", "shown"} THEN selected ELSE form.item

LEMMA SubmitFields ==
  ASSUME TypeOK, FormOK, Submit
  PROVE  /\ form # NoForm
         /\ \E c \in Slot :
              /\ Issues(c) /\ calls'[c].kind = "write" /\ calls'[c].pc \in {"sent", "barred"}
              /\ calls'[c].is = form.is /\ calls'[c].item = Target
              /\ calls'[c].nth = form.nth /\ calls'[c].query = query
<1> DEFINE l == Send([NoCall EXCEPT !.kind = "write", !.is = form.is, !.item = Target,
                                    !.nth = form.nth, !.query = query],
                     {Offers[form.is].route})
<1>1. Next1 \in Slot /\ Free(Next1) /\ form # NoForm
  BY NextSlot DEF Submit
<1>2. at \in DOMAIN Pages /\ form.is \in DOMAIN Offers /\ form.nth \in Nat
  BY <1>1 DEF FormOK, TypeOK
<1>3. form.is \in Name /\ Target \in {0} \cup Row /\ query \in Query
  <2>1. form.is \in Name
    BY <1>2, OfferFacts
  <2>2. form.item \in {0} \cup Row /\ selected \in {0} \cup Row /\ query \in Query
    BY DEF TypeOK, Form
  <2> QED
    BY <2>1, <2>2 DEF Target
<1>4. /\ l \in Call /\ l.kind = "write" /\ l.is = form.is /\ l.item = Target
      /\ l.nth = form.nth /\ l.query = query /\ l.alive /\ l.pc \in {"sent", "barred"}
  <2> DEFINE a == [NoCall EXCEPT !.kind = "write", !.is = form.is, !.item = Target,
                                 !.nth = form.nth, !.query = query]
  <2>1. /\ a \in Call /\ a.kind = "write" /\ a.is = form.is /\ a.item = Target
        /\ a.nth = form.nth /\ a.query = query
    BY <1>2, <1>3, NoCallFields DEF Call
  <2> HIDE DEF a
  <2>2. LET w == Send(a, {Offers[form.is].route}) IN
        /\ w \in Call /\ w.kind = "write" /\ w.is = form.is /\ w.item = Target
        /\ w.nth = form.nth /\ w.query = query /\ w.alive /\ w.pc \in {"sent", "barred"}
    BY <2>1, SendFields
  <2> QED
    BY <2>2 DEF a
<1>5. calls' = [calls EXCEPT ![Next1] = l]
  BY DEF Submit, Target
<1> HIDE DEF l
<1> QED
  BY <1>1, <1>4, <1>5 DEF TypeOK, Issues, Free

\* What the steps of the user are.
UserStep ==
  \/ \E p \in DOMAIN Pages, how \in {"menu", "home", "quick", "address"} : Come(p, how)
  \/ \E r \in Roles : ChangeRole(r)
  \/ \E q \in Query : AskFor(q)
  \/ \E i \in Row : OpenDetail(i)
  \/ CloseDetail
  \/ at # "none" /\ \E o \in DOMAIN Offers, i \in {0} \cup Row : OpenForm(o, i)
  \/ CloseForm
  \/ Submit

LEMMA NextSteps == Next <=> UserStep \/ \E c \in Slot : Proceeds(c)
BY DEF Next, UserStep

\* The form that is opened.
LEMMA OpenFormFields ==
  ASSUME TypeOK, NEW o \in DOMAIN Offers, NEW i \in {0} \cup Row, OpenForm(o, i), at # "none"
  PROVE  /\ form' \in Form /\ form'.is = o /\ form'.item = i
         /\ form'.nth = Len(opened) + 1 /\ form'.moved = (Moving # {})
         /\ opened' \in Seq(Name) /\ done' \in Seq(0..2)
         /\ Len(opened') = Len(opened) + 1 /\ Len(done') = Len(done) + 1
         /\ opened'[Len(opened) + 1] = o /\ done'[Len(done) + 1] = 0
         /\ \A n \in 1..Len(opened) : opened'[n] = opened[n]
         /\ \A n \in 1..Len(done) : done'[n] = done[n]
<1>1. o \in Name
  BY OfferFacts DEF TypeOK
<1>2. form' = [is |-> o, item |-> i, nth |-> Len(opened) + 1, moved |-> Moving # {}]
  BY DEF OpenForm
<1>3. Len(opened) \in Nat
  BY DEF TypeOK
<1>4. /\ form' \in Form /\ form'.is = o /\ form'.item = i
      /\ form'.nth = Len(opened) + 1 /\ form'.moved = (Moving # {})
  BY <1>1, <1>2, <1>3 DEF Form
<1>5. opened' = Append(opened, o) /\ done' = Append(done, 0)
  BY DEF OpenForm
<1>6. opened \in Seq(Name) /\ done \in Seq(0..2) /\ 0 \in 0..2
  BY DEF TypeOK
<1> QED
  BY <1>1, <1>4, <1>5, <1>6, AppendProperties

LEMMA UserTyped ==
  ASSUME TypeOK, FormOK, UserStep
  PROVE  TypeOK'
<1>1. ASSUME NEW p \in DOMAIN Pages, NEW how \in {"menu", "home", "quick", "address"}, Come(p, how)
      PROVE  TypeOK'
  <2>1. calls' \in [Slot -> Call]
    BY <1>1, ComeFields DEF Comes
  <2>2. at' = p /\ user' \in Roles /\ visits' \in Nat
        /\ denied' \in {"no", "menu", "home", "quick", "address"}
    BY <1>1 DEF Come, TypeOK
  <2>3. /\ query' \in Query /\ listing' \in [query : {0} \cup Query, stale : BOOLEAN]
        /\ loading' \in BOOLEAN /\ excused' \in BOOLEAN
    <3>1. query' = 1 /\ listing' = [query |-> 0, stale |-> FALSE] /\ excused' = FALSE
      BY <1>1 DEF Come
    <3>2. loading' \in BOOLEAN
      BY <1>1 DEF Come
    <3> QED
      BY <3>1, <3>2 DEF Query
  <2>4. /\ detail' = "closed" /\ selected' = 0 /\ form' = NoForm /\ busy' = {}
        /\ UNCHANGED <<role, opened, done, misled, strayed>>
    BY <1>1 DEF Come
  <2>5. NoForm \in Form
    BY DEF NoForm, Form
  <2> QED
    BY <2>1, <2>2, <2>3, <2>4, <2>5 DEF TypeOK
<1>2. ASSUME NEW r \in Roles, ChangeRole(r) PROVE TypeOK'
  BY <1>2 DEF ChangeRole, list, choice, work, TypeOK
<1>3. ASSUME NEW q \in Query, AskFor(q) PROVE TypeOK'
  <2>1. calls' \in [Slot -> Call]
    BY <1>3, AskFields DEF Issues
  <2>2. /\ query' = q /\ loading' = TRUE /\ excused' = (UnderWay # {})
        /\ UNCHANGED <<who, listing, choice, busy, done, misled>>
    BY <1>3 DEF AskFor
  <2> QED
    BY <2>1, <2>2 DEF TypeOK, who, choice
<1>4. ASSUME NEW i \in Row, OpenDetail(i) PROVE TypeOK'
  <2>1. calls' \in [Slot -> Call]
    BY <1>4, OpenDetailFields DEF Issues
  <2>2. /\ detail' = "loading"
        /\ UNCHANGED <<who, list, selected, form, opened, strayed, busy, done, misled>>
    BY <1>4 DEF OpenDetail
  <2> QED
    BY <2>1, <2>2 DEF TypeOK, who, list
<1>5. ASSUME CloseDetail PROVE TypeOK'
  BY <1>5 DEF CloseDetail, who, list, work, TypeOK
<1>6. ASSUME at # "none", NEW o \in DOMAIN Offers, NEW i \in {0} \cup Row, OpenForm(o, i)
      PROVE  TypeOK'
  <2>1. /\ form' \in Form /\ opened' \in Seq(Name) /\ done' \in Seq(0..2)
        /\ Len(opened') = Len(opened) + 1 /\ Len(done') = Len(done) + 1
    BY <1>6, OpenFormFields
  <2>2. selected' \in {0} \cup Row
    BY <1>6 DEF OpenForm, TypeOK
  <2>3. UNCHANGED <<who, list, detail, strayed, busy, calls, misled>>
    BY <1>6 DEF OpenForm
  <2>4. misled' \subseteq 1..Len(opened')
    BY <2>1, <2>3 DEF TypeOK
  <2> QED
    BY <2>1, <2>2, <2>3, <2>4 DEF TypeOK, who, list
<1>7. ASSUME CloseForm PROVE TypeOK'
  <2>1. NoForm \in Form
    BY DEF NoForm, Form
  <2> QED
    BY <1>7, <2>1 DEF CloseForm, who, list, work, TypeOK
<1>8. ASSUME Submit PROVE TypeOK'
  <2>1. calls' \in [Slot -> Call] /\ form # NoForm
    BY <1>8, SubmitFields DEF Issues
  <2>2. at \in DOMAIN Pages /\ form.is \in DOMAIN Offers
    BY <2>1 DEF FormOK, TypeOK
  <2>3. Offers[form.is].flag \in Flag
    BY <2>2, OfferFacts
  <2>4. busy' = Flagged(Offers[form.is], form.item) /\ strayed' \in BOOLEAN
    BY <1>8 DEF Submit, TypeOK, Form
  <2>5. form.item \in {0} \cup Row
    BY DEF TypeOK, Form
  <2>6. busy' \subseteq Flag \X ({0} \cup Row)
    BY <2>3, <2>4, <2>5 DEF Flagged, TypeOK
  <2>7. UNCHANGED <<who, list, detail, selected, form, opened, done, misled>>
    BY <1>8 DEF Submit
  <2> QED
    BY <2>1, <2>4, <2>6, <2>7 DEF TypeOK, who, list
<1> QED
  BY <1>1, <1>2, <1>3, <1>4, <1>5, <1>6, <1>7, <1>8 DEF UserStep

-----------------------------------------------------------------------------
(* Requests, forms and names. *)

LEMMA SamePage ==
  ASSUME at' = at
  PROVE  Offers' = Offers /\ Page' = Page
BY DEF Offers, Page

\* The page a user is at does not change while he has opened something.
LEMMA ComeStays ==
  ASSUME TypeOK, NEW p \in DOMAIN Pages, NEW how, Come(p, how)
  PROVE  at' = p /\ at' # "none" /\ (at # "none" => at' = at)
<1>1. "none" \notin DOMAIN Pages
  BY DEF Pages
<1> QED
  BY <1>1 DEF Come

LEMMA ProceedCalls ==
  ASSUME TypeOK, CallsOK, NEW c \in Slot, Proceeds(c)
  PROVE  CallsOK'
<1>1. Proceeding(c)
  BY ProceedFields DEF CallsOK
<1>2. at' = at /\ user' = user /\ opened' = opened /\ Offers' = Offers
  BY <1>1, SamePage DEF Proceeding, who
<1>3. ASSUME NEW d \in Slot, Same(d) \/ Performs(d) PROVE CallOK(d)'
  BY <1>2, <1>3 DEF CallsOK, CallOK, Same, Performs, Work, Of
<1>4. ASSUME Ends(c) PROVE CallOK(c)'
  BY <1>4 DEF Ends, CallOK, Work
<1>5. ASSUME Loads(c) PROVE CallOK(c)'
  <2>1. at # "none" /\ calls[c].query \in Query
    BY <1>5, WorkFacts DEF Loads, Work, CallsOK, CallOK
  <2> QED
    BY <1>2, <1>5, <2>1 DEF Loads, CallOK, Work
<1>6. ASSUME Turns(c) PROVE CallOK(c)'
  BY <1>2, <1>6 DEF CallsOK, CallOK, Turns, Work, Of
<1> QED
  BY <1>1, <1>3, <1>4, <1>5, <1>6 DEF CallsOK, Proceeding

LEMMA UserCalls ==
  ASSUME TypeOK, CallsOK, FormOK, UserStep
  PROVE  CallsOK'
<1>1. ASSUME NEW p \in DOMAIN Pages, NEW how, Come(p, how) PROVE CallsOK'
  <2>1. Comes /\ at' # "none" /\ opened' = opened /\ (at # "none" => Offers' = Offers)
    BY <1>1, ComeFields, ComeStays, SamePage DEF Come
  <2> SUFFICES ASSUME NEW c \in Slot PROVE CallOK(c)'
    BY DEF CallsOK
  <2>2. CASE calls'[c].kind \in {"none", "list"}
    BY <2>1, <2>2 DEF Comes, CallOK, Work, Query
  <2>3. CASE /\ calls[c].kind = "write" /\ calls'[c].kind = "write" /\ ~calls'[c].alive
             /\ calls'[c].is = calls[c].is /\ calls'[c].item = calls[c].item
             /\ calls'[c].nth = calls[c].nth /\ calls'[c].query = calls[c].query
    <3>1. CallOK(c) /\ at # "none"
      BY <2>3 DEF CallsOK, CallOK
    <3> QED
      BY <2>1, <2>3, <3>1 DEF CallOK, Work, Of
  <2> QED
    BY <2>1, <2>2, <2>3 DEF Comes
<1>2. ASSUME calls' = calls, opened' = opened, user' = user, at' = at PROVE CallsOK'
  BY <1>2, SamePage DEF CallsOK, CallOK, Work, Of
<1>3. ASSUME NEW r \in Roles, ChangeRole(r) PROVE CallsOK'
  BY <1>2, <1>3 DEF ChangeRole, choice, work
<1>4. ASSUME CloseDetail \/ CloseForm PROVE CallsOK'
  BY <1>2, <1>4 DEF CloseDetail, CloseForm, who, work
<1>5. ASSUME at # "none", NEW o \in DOMAIN Offers, NEW i \in {0} \cup Row, OpenForm(o, i)
      PROVE  CallsOK'
  <2>1. /\ Len(opened') = Len(opened) + 1
        /\ \A n \in 1..Len(opened) : opened'[n] = opened[n]
    BY <1>5, OpenFormFields
  <2>2. calls' = calls /\ user' = user /\ at' = at /\ Offers' = Offers
    BY <1>5, SamePage DEF OpenForm, who
  <2>3. Len(opened) \in Nat
    BY DEF TypeOK
  <2>4. 1..Len(opened) \subseteq 1..Len(opened')
    BY <2>1, <2>3
  <2> SUFFICES ASSUME NEW c \in Slot PROVE CallOK(c)'
    BY DEF CallsOK
  <2>5. CallOK(c)
    BY DEF CallsOK
  <2> QED
    BY <2>1, <2>2, <2>4, <2>5 DEF CallOK, Work, Of
<1>6. ASSUME NEW c, Issues(c), CallOK(c)', opened' = opened, user' = user, at' = at PROVE CallsOK'
  BY <1>6, SamePage DEF Issues, CallsOK, CallOK, Work, Of
<1>7. ASSUME NEW q \in Query, AskFor(q) PROVE CallsOK'
  <2>0. PICK c \in Slot : Issues(c) /\ calls'[c].kind = "list" /\ calls'[c].query = q
    BY <1>7, AskFields
  <2>1. opened' = opened /\ user' = user /\ at' = at /\ at # "none"
    BY <1>7 DEF AskFor, who, choice, Here
  <2>2. CallOK(c)'
    BY <2>0, <2>1 DEF CallOK, Work, Issues
  <2> QED
    BY <1>6, <2>0, <2>1, <2>2
<1>8. ASSUME NEW i \in Row, OpenDetail(i) PROVE CallsOK'
  <2>0. PICK c \in Slot : Issues(c) /\ calls'[c].kind = "detail" /\ calls'[c].item = i
    BY <1>8, OpenDetailFields
  <2>1. opened' = opened /\ user' = user /\ at' = at /\ at # "none"
    BY <1>8 DEF OpenDetail, who, Rows, Here
  <2>2. CallOK(c)'
    BY <2>0, <2>1 DEF CallOK, Work, Issues
  <2> QED
    BY <1>6, <2>0, <2>1, <2>2
<1>9. ASSUME Submit PROVE CallsOK'
  <2>0. PICK c \in Slot :
          /\ Issues(c) /\ calls'[c].kind = "write" /\ calls'[c].is = form.is
          /\ calls'[c].item = Target /\ calls'[c].nth = form.nth /\ calls'[c].query = query
    BY <1>9, SubmitFields
  <2>1. form # NoForm
    BY <1>9, SubmitFields
  <2>2. opened' = opened /\ user' = user /\ at' = at /\ Offers' = Offers /\ query \in Query
    BY <1>9, SamePage DEF Submit, who, TypeOK
  <2>3. at \in DOMAIN Pages /\ at # "none" /\ form.is \in DOMAIN Offers
    BY <2>1 DEF FormOK, TypeOK
  <2>4. Offers[form.is].then \in {"next", "detail"} => Target \in Row
    <3>1. Sound(Offers[form.is])
      BY <2>3, OfferFacts
    <3> QED
      BY <2>1, <3>1 DEF Sound, FormOK, Target
  <2>5. CallOK(c)'
    BY <2>0, <2>1, <2>2, <2>3, <2>4 DEF CallOK, Work, Of, FormOK, Issues
  <2> QED
    BY <1>6, <2>0, <2>1, <2>2, <2>5
<1> QED
  BY <1>1, <1>3, <1>4, <1>5, <1>7, <1>8, <1>9 DEF UserStep

LEMMA OpenedStays ==
  ASSUME TypeOK, OpenedOK, Next
  PROVE  OpenedOK'
<1>1. ASSUME NEW p \in DOMAIN Pages, NEW how, Come(p, how) PROVE OpenedOK'
  <2>1. at' # "none" /\ opened' = opened /\ (at # "none" => Offers' = Offers)
    BY <1>1, ComeStays, SamePage DEF Come
  <2> QED
    BY <2>1 DEF OpenedOK
<1>2. ASSUME at' = at, opened' = opened PROVE OpenedOK'
  BY <1>2, SamePage DEF OpenedOK
<1>3. ASSUME at # "none", NEW o \in DOMAIN Offers, NEW i \in {0} \cup Row, OpenForm(o, i)
      PROVE  OpenedOK'
  <2>1. /\ Len(opened') = Len(opened) + 1 /\ opened'[Len(opened) + 1] = o
        /\ \A n \in 1..Len(opened) : opened'[n] = opened[n]
    BY <1>3, OpenFormFields
  <2>2. at' = at /\ Offers' = Offers
    BY <1>3, SamePage DEF OpenForm, who
  <2>3. Len(opened) \in Nat
    BY DEF TypeOK
  <2>4. \A n \in 1..Len(opened') : n \in 1..Len(opened) \/ n = Len(opened) + 1
    BY <2>1, <2>3
  <2> QED
    BY <1>3, <2>1, <2>2, <2>4 DEF OpenedOK
<1>4. ASSUME NEW c \in Slot, Proceeds(c) PROVE at' = at /\ opened' = opened
  BY <1>4 DEF Proceeds, ListArrives, ListFails, DetailArrives, DetailFails, Perform, Succeeds,
              Fails, AgainArrives, AgainFails, Forgotten, who, choice
<1>5. ASSUME \/ \E r \in Roles : ChangeRole(r)
             \/ \E q \in Query : AskFor(q)
             \/ \E i \in Row : OpenDetail(i)
             \/ CloseDetail \/ CloseForm \/ Submit
      PROVE  at' = at /\ opened' = opened
  BY <1>5 DEF ChangeRole, AskFor, OpenDetail, CloseDetail, CloseForm, Submit, who, choice
<1> QED
  BY <1>1, <1>2, <1>3, <1>4, <1>5 DEF Next

\* What is selected stays a row.
LEMMA SelectedStays ==
  ASSUME TypeOK, CallsOK, NEW c \in Slot, Proceeds(c)
  PROVE  selected' = selected \/ selected' \in Row
<1>1. CallOK(c)
  BY DEF CallsOK
<1>2. CASE DetailArrives(c) \/ DetailFails(c)
  BY <1>1, <1>2 DEF DetailArrives, DetailFails, CallOK
<1>3. CASE AgainArrives(c)
  BY <1>1, <1>3 DEF AgainArrives, CallOK, Work
<1>4. CASE Succeeds(c)
  <2>1. Work(c) /\ Of(c).then \in Thens
    BY <1>1, <1>4, WorkFacts DEF Succeeds, Sound, Work
  <2>2. Of(c).then = "next" => 3 - calls[c].item \in Row
    BY <1>1, <2>1 DEF CallOK, Row
  <2>3. \/ selected' = selected
        \/ selected' = 1
        \/ Of(c).then = "next" /\ selected' = 3 - calls[c].item
    BY <1>4, <2>1 DEF Succeeds, Thens
  <2> QED
    BY <2>2, <2>3 DEF Row
<1>5. CASE \/ ListArrives(c) \/ ListFails(c) \/ Perform(c)
           \/ Fails(c) \/ AgainFails(c) \/ Forgotten(c)
  BY <1>5 DEF ListArrives, ListFails, Perform, Fails, AgainFails, Forgotten, choice
<1> QED
  BY <1>2, <1>3, <1>4, <1>5 DEF Proceeds

\* A step of a request leaves the form, or closes it.
LEMMA ProceedForm ==
  ASSUME NEW c \in Slot, Proceeds(c)
  PROVE  /\ form' = form \/ form' = NoForm
         /\ Succeeds(c) => form' = IF form.is = calls[c].is THEN NoForm ELSE form
         /\ ~Succeeds(c) => form' = form
BY DEF Proceeds, ListArrives, ListFails, DetailArrives, DetailFails, Perform, Succeeds, Closed,
       Fails, AgainArrives, AgainFails, Forgotten, choice

LEMMA FormStays ==
  ASSUME TypeOK, CallsOK, FormOK, OpenedOK, Next
  PROVE  FormOK'
<1>1. ASSUME NEW c \in Slot, Proceeds(c) PROVE FormOK'
  <2>1. at' = at /\ user' = user /\ opened' = opened /\ Offers' = Offers
    BY <1>1, ProceedFields, SamePage DEF Proceeding, who, CallsOK
  <2>2. form' = form \/ form' = NoForm
    BY <1>1, ProceedForm
  <2>3. selected' = selected \/ selected' \in Row
    BY <1>1, SelectedStays
  <2> QED
    BY <2>1, <2>2, <2>3 DEF FormOK
<1>2. ASSUME form' = NoForm PROVE FormOK'
  BY <1>2 DEF FormOK
<1>3. ASSUME NEW p \in DOMAIN Pages, NEW how, Come(p, how) PROVE form' = NoForm
  BY <1>3 DEF Come
<1>4. ASSUME form' = form, opened' = opened, user' = user, at' = at, selected' = selected
      PROVE  FormOK'
  BY <1>4, SamePage DEF FormOK
<1>5. ASSUME \/ \E r \in Roles : ChangeRole(r)
             \/ \E q \in Query : AskFor(q)
             \/ \E i \in Row : OpenDetail(i)
             \/ CloseDetail \/ Submit
      PROVE  form' = form /\ opened' = opened /\ user' = user /\ at' = at /\ selected' = selected
  BY <1>5 DEF ChangeRole, AskFor, OpenDetail, CloseDetail, Submit, who, choice
<1>6. ASSUME CloseForm PROVE form' = NoForm
  BY <1>6 DEF CloseForm
<1>7. ASSUME at # "none", NEW o \in DOMAIN Offers, NEW i \in {0} \cup Row, OpenForm(o, i)
      PROVE  FormOK'
  <2>1. /\ form'.is = o /\ form'.nth = Len(opened) + 1
        /\ Len(opened') = Len(opened) + 1 /\ opened'[Len(opened) + 1] = o
    BY <1>7, OpenFormFields
  <2>2. at' = at /\ user' = user /\ Offers' = Offers
    BY <1>7, SamePage DEF OpenForm, who
  <2>3. user \in Offers[o].seen
    BY <1>7 DEF OpenForm
  <2>4. Offers[o].picks \in {"select", "shown"} => selected' \in Row
    BY <1>7 DEF OpenForm, Reaches, TypeOK
  <2>5. Len(opened) + 1 \in 1..Len(opened')
    BY <2>1 DEF TypeOK
  <2> QED
    BY <1>7, <2>1, <2>2, <2>3, <2>4, <2>5 DEF FormOK
<1> QED
  BY <1>1, <1>2, <1>3, <1>4, <1>5, <1>6, <1>7 DEF Next

-----------------------------------------------------------------------------
(* Flags. *)

\* A request of a form that is under way after a step of c was so before.
LEMMA WorkBefore ==
  ASSUME NEW c \in Slot, NEW d \in Slot, Proceeding(c), Work(d)'
  PROVE  /\ Work(d) /\ Of(d)' = Of(d) /\ calls'[d].item = calls[d].item
         /\ calls'[d].nth = calls[d].nth /\ calls'[d].is = calls[d].is
         /\ calls'[d].alive = calls[d].alive
         /\ (d = c => ~Ends(c) /\ ~Loads(c))
<1>1. Offers' = Offers
  BY SamePage DEF Proceeding, who
<1>2. CASE d # c
  BY <1>1, <1>2 DEF Proceeding, Same, Work, Of
<1>3. CASE d = c
  <2>1. ~Ends(c) /\ ~Loads(c)
    BY <1>3 DEF Work, Ends, Loads
  <2>2. Performs(c) \/ Turns(c)
    BY <2>1 DEF Proceeding
  <2> QED
    BY <1>1, <1>3, <2>1, <2>2 DEF Performs, Turns, Work, Of
<1> QED
  BY <1>2, <1>3

LEMMA WorkAfter ==
  ASSUME NEW c \in Slot, NEW d \in Slot, Proceeding(c), Work(d), d # c \/ ~(Ends(c) \/ Loads(c))
  PROVE  /\ Work(d)' /\ Of(d)' = Of(d) /\ calls'[d].item = calls[d].item
         /\ calls'[d].alive = calls[d].alive
<1>1. Offers' = Offers
  BY SamePage DEF Proceeding, who
<1>2. CASE d # c
  BY <1>1, <1>2 DEF Proceeding, Same, Work, Of
<1>3. CASE d = c
  <2>1. Performs(c) \/ Turns(c)
    BY <1>3 DEF Proceeding
  <2> QED
    BY <1>1, <1>3, <2>1 DEF Performs, Turns, Work, Of
<1> QED
  BY <1>2, <1>3

\* The request d keeps the flag b.
Holds(d, b) ==
  Working(d) /\ Of(d).flag = b[1] /\ (b[1] \in RowFlags => calls[d].item = b[2])

LEMMA LockHeldBy == LockHeld <=> \A b \in busy : \E d \in Slot : Holds(d, b)
BY DEF LockHeld, Holds, Working, Work, UnderWay

LEMMA ProceedFlags ==
  ASSUME TypeOK, CallsOK, LockHeld, FlagsOK, NEW c \in Slot, Proceeds(c)
  PROVE  LockHeld' /\ FlagsOK'
<1>1. Proceeding(c)
  BY ProceedFields DEF CallsOK
<1>2. ASSUME NEW b \in busy' PROVE \E d \in Slot : Holds(d, b)'
  <2>1. b \in busy
    BY <1>1, <1>2 DEF Proceeding, Returns
  <2>2. PICK d \in Slot : Holds(d, b)
    BY <2>1, LockHeldBy
  <2>3. d # c \/ ~(Ends(c) \/ Loads(c))
    BY <1>1, <1>2, <2>2 DEF Proceeding, Returns, Holds
  <2>4. Holds(d, b)'
    BY <1>1, <2>2, <2>3, WorkAfter DEF Holds, Working
  <2> QED
    BY <2>4
<1>3. LockHeld'
  BY <1>2 DEF LockHeld, Holds, Working, Work, UnderWay
<1>4. ASSUME NEW d \in Slot, Working(d)', Proper(Of(d))'
      PROVE  /\ <<Of(d).flag, 0>>' \in busy'
             /\ \A e \in Slot : Working(e)' /\ Of(e).flag' = Of(d).flag' => e = d
  <2>1. Working(d) /\ Of(d)' = Of(d) /\ (d = c => ~Ends(c) /\ ~Loads(c)) /\ Proper(Of(d))
    BY <1>1, <1>4, WorkBefore DEF Working, Proper
  <2>2. /\ <<Of(d).flag, 0>> \in busy
        /\ \A e \in Slot : Working(e) /\ Of(e).flag = Of(d).flag => e = d
    BY <2>1 DEF FlagsOK
  <2>3. \A e \in Slot : Working(e)' => Working(e) /\ Of(e)' = Of(e)
    BY <1>1, WorkBefore DEF Working
  <2>4. <<Of(d).flag, 0>> \in busy'
    BY <1>1, <2>1, <2>2 DEF Proceeding, Returns
  <2> QED
    BY <2>1, <2>2, <2>3, <2>4
<1>5. FlagsOK'
  BY <1>4 DEF FlagsOK
<1> QED
  BY <1>3, <1>5

LEMMA SubmitFlags ==
  ASSUME TypeOK, CallsOK, FormOK, LockHeld, FlagsOK, Submit
  PROVE  LockHeld' /\ FlagsOK'
<1> DEFINE h == Offers[form.is]
<1>1. PICK c \in Slot :
        /\ Issues(c) /\ calls'[c].kind = "write" /\ calls'[c].is = form.is
        /\ calls'[c].item = Target
  BY SubmitFields
<1>2. form # NoForm /\ at \in DOMAIN Pages /\ form.is \in DOMAIN Offers /\ ~Disabled
  BY SubmitFields DEF FormOK, TypeOK, Submit
<1>3. Offers' = Offers
  BY SamePage DEF Submit, who
<1>4. busy' = Flagged(h, form.item)
  BY DEF Submit
<1>5. Sound(h)
  BY <1>2, OfferFacts
<1>6. Working(c)' /\ Of(c)' = h /\ ~Working(c)
  BY <1>1, <1>3 DEF Issues, Working, Work, Of
<1>7. \A d \in Slot : d # c =>
        /\ Working(d)' <=> Working(d)
        /\ Of(d)' = Of(d) /\ calls'[d].item = calls[d].item
  BY <1>1, <1>3 DEF Issues, Working, Work, Of
<1>8. h.flag \in RowFlags => Target = form.item
  BY <1>5 DEF Sound, Target
<1> HIDE DEF h
<1>9. ASSUME NEW b \in busy' PROVE \E d \in Slot : Holds(d, b)'
  <2>1. CASE b \in busy
    <3>1. PICK d \in Slot : Holds(d, b)
      BY <2>1, LockHeldBy
    <3>2. Holds(d, b)'
      BY <1>6, <1>7, <3>1 DEF Holds
    <3> QED
      BY <3>2
  <2>2. CASE b \notin busy
    <3>1. \/ h.flag \in RowFlags /\ b = <<h.flag, form.item>>
          \/ h.flag \notin RowFlags /\ b = <<h.flag, 0>>
      BY <1>4, <1>9, <2>2 DEF Flagged
    <3>2. Holds(c, b)'
      BY <1>1, <1>6, <1>8, <3>1 DEF Holds
    <3> QED
      BY <3>2
  <2> QED
    BY <2>1, <2>2
<1>10. LockHeld'
  BY <1>9 DEF LockHeld, Holds, Working, Work, UnderWay
<1>11. ASSUME Proper(h), NEW d \in Slot, Working(d) PROVE Of(d).flag # h.flag
  <2>1. SUFFICES ASSUME Of(d).flag = h.flag PROVE FALSE
    OBVIOUS
  <2>2. <<h.flag, 0>> \in busy
    BY <1>11, <2>1 DEF FlagsOK, Proper
  <2>3. h.locked /\ h.flag \notin RowFlags
    BY <1>5, <1>11 DEF Proper, Sound
  <2> QED
    BY <1>2, <2>2, <2>3 DEF Disabled, h
<1>12. ASSUME NEW d \in Slot, Working(d)', Proper(Of(d))'
       PROVE  /\ <<Of(d).flag, 0>>' \in busy'
              /\ \A e \in Slot : Working(e)' /\ Of(e).flag' = Of(d).flag' => e = d
  <2>1. CASE d = c
    <3>1. Proper(h)
      BY <1>6, <1>12, <2>1 DEF Proper
    <3>2. <<h.flag, 0>> \in busy'
      BY <1>4, <3>1 DEF Flagged, Proper
    <3> QED
      BY <1>6, <1>7, <1>11, <2>1, <3>1, <3>2
  <2>2. CASE d # c
    <3>1. Working(d) /\ Of(d)' = Of(d) /\ Proper(Of(d))
      BY <1>7, <1>12, <2>2 DEF Proper
    <3>2. <<Of(d).flag, 0>> \in busy
      BY <3>1 DEF FlagsOK
    <3>3. <<Of(d).flag, 0>> \in busy'
      BY <1>4, <3>1, <3>2 DEF Flagged, Proper
    <3>4. ASSUME NEW e \in Slot, Working(e)', Of(e).flag' = Of(d).flag' PROVE e = d
      <4>1. CASE e = c
        <5>1. Of(d).flag = h.flag
          BY <1>6, <3>1, <3>4, <4>1
        <5> QED
          BY <1>11, <3>1, <5>1 DEF Proper
      <4>2. CASE e # c
        <5>1. Working(e) /\ Of(e).flag = Of(d).flag
          BY <1>7, <3>1, <3>4, <4>2
        <5> QED
          BY <3>1, <5>1 DEF FlagsOK
      <4> QED
        BY <4>1, <4>2
    <3> QED
      BY <3>1, <3>3, <3>4
  <2> QED
    BY <2>1, <2>2
<1>13. FlagsOK'
  BY <1>12 DEF FlagsOK
<1> QED
  BY <1>10, <1>13


\* A step of the user that leaves the requests of the forms alone.
Quiet ==
  /\ at' = at /\ busy' = busy
  /\ \A d \in Slot : Work(d) \/ Work(d)' => calls'[d] = calls[d]

LEMMA QuietSteps ==
  ASSUME TypeOK,
         \/ \E r \in Roles : ChangeRole(r)
         \/ \E q \in Query : AskFor(q)
         \/ \E i \in Row : OpenDetail(i)
         \/ CloseDetail \/ CloseForm
         \/ at # "none" /\ \E o \in DOMAIN Offers, i \in {0} \cup Row : OpenForm(o, i)
  PROVE  Quiet
<1>1. ASSUME NEW q \in Query, AskFor(q) PROVE Quiet
  <2>1. PICK c \in Slot : Issues(c) /\ calls'[c].kind = "list"
    BY <1>1, AskFields
  <2> QED
    BY <1>1, <2>1 DEF AskFor, Issues, Quiet, Work, who
<1>2. ASSUME NEW i \in Row, OpenDetail(i) PROVE Quiet
  <2>1. PICK c \in Slot : Issues(c) /\ calls'[c].kind = "detail"
    BY <1>2, OpenDetailFields
  <2> QED
    BY <1>2, <2>1 DEF OpenDetail, Issues, Quiet, Work, who
<1>3. ASSUME \/ \E r \in Roles : ChangeRole(r)
             \/ CloseDetail \/ CloseForm
             \/ \E o \in DOMAIN Offers, i \in {0} \cup Row : OpenForm(o, i)
      PROVE  Quiet
  BY <1>3 DEF ChangeRole, CloseDetail, CloseForm, OpenForm, Quiet, who, work
<1> QED
  BY <1>1, <1>2, <1>3

LEMMA QuietFlags ==
  ASSUME LockHeld, FlagsOK, Quiet
  PROVE  LockHeld' /\ FlagsOK'
<1>1. Offers' = Offers
  BY SamePage DEF Quiet
<1>2. \A d \in Slot :
        /\ Working(d)' <=> Working(d)
        /\ Working(d) => Of(d)' = Of(d) /\ calls'[d] = calls[d]
  BY <1>1 DEF Quiet, Working, Work, Of
<1>3. busy' = busy
  BY DEF Quiet
<1>4. ASSUME NEW b \in busy' PROVE \E d \in Slot : Holds(d, b)'
  <2>1. PICK d \in Slot : Holds(d, b)
    BY <1>3, <1>4, LockHeldBy
  <2>2. Holds(d, b)'
    BY <1>2, <2>1 DEF Holds
  <2> QED
    BY <2>2
<1>5. LockHeld'
  BY <1>4 DEF LockHeld, Holds, Working, Work, UnderWay
<1>6. FlagsOK'
  BY <1>2, <1>3 DEF FlagsOK, Proper
<1> QED
  BY <1>5, <1>6

\* Flags stay with their requests.
LEMMA FlagsStay ==
  ASSUME TypeOK, CallsOK, FormOK, LockHeld, FlagsOK, Next
  PROVE  LockHeld' /\ FlagsOK'
<1>1. ASSUME NEW p \in DOMAIN Pages, NEW how, Come(p, how) PROVE LockHeld' /\ FlagsOK'
  <2>1. busy' = {} /\ Comes
    BY <1>1, ComeFields DEF Come
  <2>2. \A d \in Slot : ~Working(d)'
    BY <2>1 DEF Comes, Working, Work
  <2> QED
    BY <2>1, <2>2 DEF LockHeld, FlagsOK
<1>2. ASSUME Submit PROVE LockHeld' /\ FlagsOK'
  BY <1>2, SubmitFlags
<1>3. ASSUME NEW c \in Slot, Proceeds(c) PROVE LockHeld' /\ FlagsOK'
  BY <1>3, ProceedFlags
<1>4. ASSUME \/ \E r \in Roles : ChangeRole(r)
             \/ \E q \in Query : AskFor(q)
             \/ \E i \in Row : OpenDetail(i)
             \/ CloseDetail \/ CloseForm
             \/ at # "none" /\ \E o \in DOMAIN Offers, i \in {0} \cup Row : OpenForm(o, i)
      PROVE  LockHeld' /\ FlagsOK'
  BY <1>4, QuietSteps, QuietFlags
<1> QED
  BY <1>1, <1>2, <1>3, <1>4 DEF Next

-----------------------------------------------------------------------------
(* Forms do their work once. *)

\* Nothing happened to the requests of the n-th form, or they went with it.
LEMMA OnceKept ==
  ASSUME NEW n \in Nat, Once(n), done'[n] = done[n],
         \A d \in Slot : Mine(d, n)' =>
           Mine(d, n) /\ calls'[d].kind = calls[d].kind /\ calls'[d].pc = calls[d].pc,
         form'.nth = n =>
           /\ form.nth = n
           /\ \A d \in Slot : Mine(d, n) => Mine(d, n)' /\ calls'[d].alive = calls[d].alive
  PROVE  Once(n)'
<1>1. done'[n] <= 1
  BY DEF Once
<1>2. ASSUME NEW c \in Slot, Mine(c, n)'
      PROVE  /\ \A d \in Slot : Mine(d, n)' => d = c
             /\ calls'[c].kind = "write" /\ calls'[c].pc # "done" => done'[n] = 0
  BY <1>2 DEF Once
<1>3. ASSUME form'.nth = n
      PROVE  /\ \A c \in Slot : Mine(c, n)' => calls'[c].kind = "write" /\ calls'[c].alive
             /\ (\A c \in Slot : ~Mine(c, n)') => done'[n] = 0
  BY <1>3 DEF Once
<1> QED
  BY <1>1, <1>2, <1>3 DEF Once

LEMMA PerformOnce ==
  ASSUME TypeOK, CallsOK, NEW c \in Slot, Perform(c), NEW n \in 1..Len(opened), Once(n), Mine(c, n)
  PROVE  Once(n)'
<1>1. done[n] = 0
  BY DEF Once, Perform
<1>2. done \in Seq(0..2) /\ Len(done) = Len(opened) /\ calls[c].nth = n
  BY DEF TypeOK, Mine
<1>3. done'[n] = 1
  <2>1. n \in DOMAIN done
    BY <1>2
  <2>2. done' = [done EXCEPT ![n] = IF @ < 2 THEN @ + 1 ELSE @]
    BY <1>2 DEF Perform
  <2> QED
    BY <1>1, <2>1, <2>2
<1>4. Performs(c) /\ form' = form /\ \A d \in Slot : d # c => Same(d)
  BY PerformFields, ProceedForm DEF Perform, choice
<1>5. Mine(c, n)' /\ calls'[c].kind = "write" /\ calls'[c].pc = "done"
      /\ calls'[c].alive = calls[c].alive
  BY <1>4 DEF Performs, Mine, Work
<1>6. ASSUME NEW d \in Slot, Mine(d, n)' PROVE d = c
  <2>1. Mine(d, n) \/ d = c
    BY <1>4, <1>6 DEF Same, Mine, Work
  <2> QED
    BY <2>1 DEF Once
<1> QED
  BY <1>3, <1>4, <1>5, <1>6 DEF Once

LEMMA EndOnce ==
  ASSUME TypeOK, CallsOK, FormOK, NEW c \in Slot, Proceeds(c), ~Perform(c),
         NEW n \in 1..Len(opened), n \notin misled', Once(n), Mine(c, n)
  PROVE  Once(n)'
<1>1. Proceeding(c) /\ CallOK(c)
  BY ProceedFields DEF CallsOK
<1>2. ASSUME NEW d \in Slot, Mine(d, n)'
      PROVE  d = c /\ (Succeeds(c) => calls'[d].kind # "write")
  <2>1. Mine(d, n) \/ d = c
    BY <1>1, <1>2 DEF Proceeding, Same, Mine, Work
  <2>2. d = c
    BY <2>1 DEF Once
  <2>3. Ends(c) \/ Loads(c) \/ Performs(c) \/ Turns(c)
    BY <1>1 DEF Proceeding
  <2>4. Succeeds(c) => ~Performs(c)
    BY DEF Succeeds, Performs
  <2> QED
    BY <2>2, <2>3, <2>4 DEF Ends, Loads, Turns
<1>3. /\ ~ListArrives(c) /\ ~ListFails(c) /\ ~DetailArrives(c) /\ ~DetailFails(c)
  BY DEF Mine, Work, ListArrives, ListFails, DetailArrives, DetailFails
<1>4. Succeeds(c) \/ Fails(c) \/ AgainArrives(c) \/ AgainFails(c) \/ Forgotten(c)
  BY <1>3 DEF Proceeds
<1>5. done' = done
  BY <1>4 DEF Succeeds, Fails, AgainArrives, AgainFails, Forgotten
<1>6. n # 0 /\ NoForm.nth = 0
  BY DEF NoForm
<1>7. CASE Succeeds(c)
  <2>1. ASSUME form'.nth = n PROVE FALSE
    <3>1. form' = IF form.is = calls[c].is THEN NoForm ELSE form
      BY <1>7, ProceedForm
    <3>2. form' = form /\ form # NoForm
      BY <1>6, <2>1, <3>1
    <3>3. form.is = opened[n] /\ calls[c].is = opened[n]
      BY <1>1, <2>1, <3>2 DEF FormOK, CallOK, Mine
    <3> QED
      BY <1>6, <2>1, <3>1, <3>3
  <2> QED
    BY <1>2, <1>5, <1>7, <2>1 DEF Once
<1>8. CASE ~Succeeds(c)
  <2>1. form' = form
    BY <1>8, ProceedForm
  <2>2. Ends(c) \/ Loads(c)
    <3>1. CASE AgainArrives(c)
      <4>1. Over(c) \/ Reload(c, calls[c].query)
        BY <3>1 DEF AgainArrives
      <4>2. Work(c) /\ calls[c].alive /\ calls[c].query \in Query
        BY <1>1, <3>1 DEF AgainArrives, Work, CallOK
      <4> QED
        BY <4>1, <4>2, OverFields, ReloadFields
    <3>2. CASE Fails(c) \/ AgainFails(c) \/ Forgotten(c)
      BY <3>2, OverFields DEF Fails, AgainFails, Forgotten
    <3> QED
      BY <1>4, <1>8, <3>1, <3>2
  <2>3. \A d \in Slot : ~Mine(d, n)'
    BY <1>2, <2>2 DEF Ends, Loads, Mine, Work
  <2>4. form.nth = n => done[n] = 0
    <3>1. CASE Fails(c)
      BY <3>1 DEF Fails, Mine, Once
    <3>2. CASE AgainArrives(c) \/ AgainFails(c)
      BY <3>2 DEF AgainArrives, AgainFails, Once
    <3>3. CASE Forgotten(c)
      BY <3>3 DEF Forgotten, Once
    <3> QED
      BY <1>4, <1>8, <3>1, <3>2, <3>3
  <2> QED
    BY <1>5, <2>1, <2>3, <2>4 DEF Once
<1> QED
  BY <1>7, <1>8

LEMMA ProceedOnce ==
  ASSUME TypeOK, CallsOK, FormOK, OnceOK, NEW c \in Slot, Proceeds(c)
  PROVE  OnceOK'
<1>1. Proceeding(c)
  BY ProceedFields DEF CallsOK
<1>2. opened' = opened /\ Offers' = Offers
  BY <1>1, SamePage DEF Proceeding, who
<1>3. misled \subseteq misled'
  BY DEF Proceeds, ListArrives, ListFails, DetailArrives, DetailFails, Perform, Succeeds, Fails,
         AgainArrives, AgainFails, Forgotten
<1>4. ASSUME NEW n \in 1..Len(opened), n \notin misled', Proper(Offers[opened[n]])
      PROVE  Once(n)'
  <2>1. Once(n)
    BY <1>3, <1>4 DEF OnceOK
  <2>2. CASE Mine(c, n)
    BY <1>4, <2>1, <2>2, PerformOnce, EndOnce
  <2>3. CASE ~Mine(c, n)
    <3>1. done'[n] = done[n]
      <4>1. ASSUME Perform(c) PROVE calls[c].nth # n /\ n \in DOMAIN done
        BY <2>3, <4>1 DEF Mine, Work, Perform, TypeOK
      <4> QED
        BY <4>1 DEF Proceeds, ListArrives, ListFails, DetailArrives, DetailFails, Perform,
                    Succeeds, Fails, AgainArrives, AgainFails, Forgotten
    <3>2. ~Mine(c, n)'
      BY <1>1, <2>3 DEF Proceeding, Ends, Loads, Performs, Turns, Mine, Work
    <3>3. \A d \in Slot :
            /\ Mine(d, n)' <=> Mine(d, n)
            /\ Mine(d, n) => /\ calls'[d].kind = calls[d].kind /\ calls'[d].pc = calls[d].pc
                             /\ calls'[d].alive = calls[d].alive
      BY <1>1, <2>3, <3>2 DEF Proceeding, Same, Mine, Work
    <3>4. form'.nth = n => form.nth = n
      BY ProceedForm DEF NoForm
    <3> QED
      BY <2>1, <3>1, <3>3, <3>4, OnceKept
  <2> QED
    BY <2>2, <2>3
<1> QED
  BY <1>2, <1>4 DEF OnceOK, Proper

LEMMA QuietOnce ==
  ASSUME TypeOK, OnceOK, Quiet, UNCHANGED <<opened, done, misled>>, form' = form \/ form' = NoForm
  PROVE  OnceOK'
<1>1. Offers' = Offers
  BY SamePage DEF Quiet
<1>2. ASSUME NEW n \in 1..Len(opened), Once(n) PROVE Once(n)'
  <2>1. \A d \in Slot :
          /\ Mine(d, n)' <=> Mine(d, n)
          /\ Mine(d, n) => calls'[d] = calls[d]
    BY DEF Quiet, Mine, Work
  <2>2. form'.nth = n => form.nth = n
    BY DEF NoForm
  <2> QED
    BY <1>2, <2>1, <2>2, OnceKept
<1> QED
  BY <1>1, <1>2 DEF OnceOK, Proper

LEMMA OpenOnce ==
  ASSUME TypeOK, CallsOK, OnceOK, at # "none",
         NEW o \in DOMAIN Offers, NEW i \in {0} \cup Row, OpenForm(o, i)
  PROVE  OnceOK'
<1>1. Offers' = Offers /\ calls' = calls /\ misled' = misled
  BY SamePage DEF OpenForm, who
<1>2. /\ form'.nth = Len(opened) + 1 /\ Len(opened') = Len(opened) + 1
      /\ \A n \in 1..Len(opened) : opened'[n] = opened[n]
      /\ Len(done) = Len(opened) /\ Len(opened) \in Nat
      /\ done'[Len(opened) + 1] = 0 /\ \A n \in 1..Len(opened) : done'[n] = done[n]
  <2>1. Len(done) = Len(opened) /\ Len(opened) \in Nat
    BY DEF TypeOK
  <2>2. /\ form'.nth = Len(opened) + 1 /\ Len(opened') = Len(opened) + 1
        /\ \A n \in 1..Len(opened) : opened'[n] = opened[n]
        /\ done'[Len(done) + 1] = 0 /\ \A n \in 1..Len(done) : done'[n] = done[n]
    BY OpenFormFields
  <2> QED
    BY <2>1, <2>2
<1>3. ASSUME NEW n \in 1..Len(opened), Once(n) PROVE Once(n)'
  <2>1. \A d \in Slot : Mine(d, n)' <=> Mine(d, n)
    BY <1>1 DEF Mine, Work
  <2>2. form'.nth # n /\ done'[n] = done[n]
    BY <1>2
  <2> QED
    BY <1>1, <1>3, <2>1, <2>2, OnceKept
<1>4. ASSUME NEW n, n = Len(opened) + 1 PROVE Once(n)'
  <2>1. \A d \in Slot : ~Mine(d, n)
    BY <1>2, <1>4 DEF CallsOK, CallOK, Mine
  <2>2. \A d \in Slot : ~Mine(d, n)'
    BY <1>1, <2>1 DEF Mine, Work
  <2> QED
    BY <1>2, <1>4, <2>2 DEF Once
<1>5. \A n \in 1..Len(opened') : n \in 1..Len(opened) \/ n = Len(opened) + 1
  BY <1>2
<1> QED
  BY <1>1, <1>2, <1>3, <1>4, <1>5 DEF OnceOK, Proper

\* The button is disabled while a request of the form is under way.
LEMMA SubmitOnce ==
  ASSUME TypeOK, CallsOK, FormOK, FlagsOK, OnceOK, Submit
  PROVE  OnceOK'
<1>1. PICK c \in Slot :
        /\ Issues(c) /\ calls'[c].kind = "write" /\ calls'[c].nth = form.nth
        /\ calls'[c].pc \in {"sent", "barred"}
  BY SubmitFields
<1>2. form # NoForm /\ at \in DOMAIN Pages /\ form.is \in DOMAIN Offers /\ ~Disabled
  BY SubmitFields DEF FormOK, TypeOK, Submit
<1>3. Offers' = Offers /\ UNCHANGED <<form, opened, done, misled>>
  BY SamePage DEF Submit, who
<1>4. calls'[c].alive /\ \A d \in Slot : d # c => calls'[d] = calls[d]
  BY <1>1 DEF Issues
<1>5. ASSUME NEW n \in 1..Len(opened), Once(n), n # form.nth PROVE Once(n)'
  <2>1. \A d \in Slot :
          /\ Mine(d, n)' <=> Mine(d, n)
          /\ Mine(d, n) => calls'[d] = calls[d]
    BY <1>1, <1>4, <1>5 DEF Mine, Work, Issues
  <2> QED
    BY <1>3, <1>5, <2>1, OnceKept
<1>6. ASSUME NEW n \in 1..Len(opened), Once(n), n = form.nth, Proper(Offers[opened[n]])
      PROVE Once(n)'
  <2>1. form.is = opened[n] /\ Sound(Offers[form.is])
    BY <1>2, <1>6, OfferFacts DEF FormOK
  <2>2. ASSUME NEW d \in Slot, Mine(d, n) PROVE FALSE
    <3>1. Working(d)
      BY <1>6, <2>2 DEF Once, Working, Mine
    <3>2. Of(d) = Offers[form.is]
      BY <2>1, <2>2 DEF CallsOK, CallOK, Mine, Of
    <3>3. <<Offers[form.is].flag, 0>> \in busy
      BY <1>6, <2>1, <3>1, <3>2 DEF FlagsOK
    <3> QED
      BY <1>2, <1>6, <2>1, <3>3 DEF Disabled, Sound, Proper
  <2>3. done[n] = 0
    BY <1>6, <2>2 DEF Once
  <2>4. \A d \in Slot : Mine(d, n)' => d = c
    BY <1>4, <2>2 DEF Mine, Work
  <2>5. Mine(c, n)'
    BY <1>1, <1>6 DEF Mine, Work
  <2> QED
    BY <1>1, <1>3, <1>4, <2>3, <2>4, <2>5 DEF Once
<1> QED
  BY <1>3, <1>5, <1>6 DEF OnceOK, Proper

LEMMA ComeOnce ==
  ASSUME TypeOK, OpenedOK, OnceOK, NEW p \in DOMAIN Pages, NEW how, Come(p, how)
  PROVE  OnceOK'
<1>1. Comes /\ UNCHANGED <<opened, done, misled>> /\ form' = NoForm
  BY ComeFields DEF Come
<1>2. ASSUME NEW n \in 1..Len(opened), Once(n) PROVE Once(n)'
  <2>1. \A d \in Slot :
          Mine(d, n)' =>
            Mine(d, n) /\ calls'[d].kind = calls[d].kind /\ calls'[d].pc = calls[d].pc
    BY <1>1 DEF Comes, Mine, Work
  <2>2. form'.nth # n
    BY <1>1 DEF NoForm
  <2> QED
    BY <1>1, <1>2, <2>1, <2>2, OnceKept
<1>3. ASSUME NEW n \in 1..Len(opened) PROVE Offers' = Offers
  BY <1>3, ComeStays, SamePage DEF OpenedOK
<1> QED
  BY <1>1, <1>2, <1>3 DEF OnceOK, Proper

LEMMA OnceStays ==
  ASSUME TypeOK, CallsOK, FormOK, OpenedOK, FlagsOK, OnceOK, Next
  PROVE  OnceOK'
<1>1. ASSUME \/ \E r \in Roles : ChangeRole(r)
             \/ \E q \in Query : AskFor(q)
             \/ \E i \in Row : OpenDetail(i)
             \/ CloseDetail \/ CloseForm
      PROVE  OnceOK'
  <2>1. Quiet
    BY <1>1, QuietSteps
  <2>2. UNCHANGED <<opened, done, misled>> /\ (form' = form \/ form' = NoForm)
    BY <1>1 DEF ChangeRole, AskFor, OpenDetail, CloseDetail, CloseForm, choice, work
  <2> QED
    BY <2>1, <2>2, QuietOnce
<1> QED
  BY <1>1, ProceedOnce, OpenOnce, SubmitOnce, ComeOnce DEF Next

-----------------------------------------------------------------------------
(* Forms act on what was chosen. *)

\* Calls that move the choice are known to the machine as such.
LEMMA MovesKnown ==
  ASSUME CallsOK, NEW c \in Slot, Moves(c)
  PROVE  c \in Moving
BY DEF CallsOK, CallOK, Moves, Moving, UnderWay, Working, Work

\* What a step of a request does to the choice.
LEMMA ProceedChosen ==
  ASSUME TypeOK, CallsOK, FormOK, Chosen, NEW c \in Slot, Proceeds(c)
  PROVE  Chosen'
<1> SUFFICES ASSUME form' # NoForm, ~form'.moved
             PROVE  /\ Offers'[form'.is].picks \in {"select", "shown"} => selected' = form'.item
                    /\ \A d \in Slot :
                         Moves(d)' => calls'[d].kind = "write" /\ calls'[d].is = form'.is
  BY DEF Chosen
<1>1. Proceeding(c) /\ CallOK(c)
  BY ProceedFields DEF CallsOK
<1>2. Offers' = Offers
  BY <1>1, SamePage DEF Proceeding, who
<1>3. form' = form /\ (Succeeds(c) => form.is # calls[c].is)
  BY ProceedForm
<1>4. /\ Offers[form.is].picks \in {"select", "shown"} => selected = form.item
      /\ \A d \in Slot : Moves(d) => calls[d].kind = "write" /\ calls[d].is = form.is
  BY <1>3 DEF Chosen
<1>5. ASSUME NEW d \in Slot, Moves(d)'
      PROVE  calls'[d].kind = "write" /\ calls'[d].is = form.is
  <2>1. CASE d # c
    <3>1. Same(d)
      BY <1>1, <2>1 DEF Proceeding
    <3>2. Moves(d)
      BY <1>2, <1>5, <3>1 DEF Same, Moves, Working, Work, Of
    <3> QED
      BY <1>4, <3>1, <3>2 DEF Same
  <2>2. CASE d = c
    <3>1. Performs(c) \/ Turns(c)
      BY <1>1, <1>5, <2>2 DEF Proceeding, Ends, Loads, Moves, Working, Work
    <3>2. CASE Performs(c)
      <4>1. Moves(c)
        BY <1>2, <1>5, <2>2, <3>2 DEF Performs, Moves, Working, Work, Of
      <4> QED
        BY <1>4, <2>2, <3>2, <4>1 DEF Performs
    <3>3. CASE Turns(c)
      <4>1. Moves(c)
        BY <1>2, <1>5, <2>2, <3>3 DEF Turns, Moves, Working, Work, Of
      <4>2. calls[c].is = form.is
        BY <1>4, <4>1
      <4>3. Succeeds(c)
        <5>1. /\ calls[c].kind = "write" /\ calls[c].pc = "done" /\ calls[c].alive
              /\ calls'[c].kind = "again"
          BY <3>3 DEF Turns
        <5>2. ~Over(c)
          BY <5>1, OverFields DEF NoCall
        <5> QED
          BY <5>1, <5>2 DEF Proceeds, ListArrives, ListFails, DetailArrives, DetailFails,
             Perform, Fails, AgainArrives, AgainFails, Forgotten
      <4> QED
        BY <1>3, <4>2, <4>3
    <3> QED
      BY <3>1, <3>2, <3>3
  <2> QED
    BY <2>1, <2>2
<1>6. ASSUME Offers[form.is].picks \in {"select", "shown"} PROVE selected' = selected
  <2>1. Moves(c) => calls[c].kind = "write" /\ calls[c].is = form.is
    BY <1>4
  <2>2. ~DetailArrives(c) /\ ~DetailFails(c)
    BY <2>1 DEF DetailArrives, DetailFails, Moves
  <2>3. ASSUME AgainArrives(c) PROVE selected' = selected
    <3>1. Of(c).then # "detail"
      BY <2>1, <2>3 DEF AgainArrives, Moves
    <3> QED
      BY <2>3, <3>1 DEF AgainArrives
  <2>4. ASSUME Succeeds(c) PROVE selected' = selected
    <3>1. Work(c) /\ Working(c)
      BY <2>4 DEF Succeeds, Work, Working
    <3>2. Of(c).then # "next"
      BY <1>3, <2>1, <2>4, <3>1 DEF Moves
    <3>3. Of(c).then # "step"
      <4>1. form.is \in DOMAIN Offers
        BY <1>3 DEF FormOK
      <4> QED
        BY <1>1, <1>6, <3>1, <4>1, WorkFacts
    <3>4. Of(c).then \in Thens
      BY <1>1, <3>1, WorkFacts DEF Sound
    <3> QED
      BY <2>4, <3>2, <3>3, <3>4 DEF Succeeds, Thens
  <2>5. ASSUME \/ ListArrives(c) \/ ListFails(c) \/ Perform(c)
               \/ Fails(c) \/ AgainFails(c) \/ Forgotten(c)
        PROVE  selected' = selected
    BY <2>5 DEF ListArrives, ListFails, Perform, Fails, AgainFails, Forgotten, choice
  <2> QED
    BY <2>2, <2>3, <2>4, <2>5 DEF Proceeds
<1> QED
  BY <1>2, <1>3, <1>4, <1>5, <1>6

LEMMA UserChosen ==
  ASSUME TypeOK, CallsOK, FormOK, Chosen, UserStep
  PROVE  Chosen'
<1>1. ASSUME form' = NoForm PROVE Chosen'
  BY <1>1 DEF Chosen
<1>2. ASSUME \/ \E p \in DOMAIN Pages, how \in {"menu", "home", "quick", "address"} : Come(p, how)
             \/ \E q \in Query : AskFor(q)
             \/ \E i \in Row : OpenDetail(i)
             \/ CloseDetail \/ CloseForm
      PROVE  form' = NoForm
  BY <1>2 DEF Come, AskFor, OpenDetail, CloseDetail, CloseForm, choice
<1>3. ASSUME NEW r \in Roles, ChangeRole(r) PROVE Chosen'
  <2>1. at' = at /\ form' = form /\ calls' = calls /\ selected' = selected
    BY <1>3 DEF ChangeRole, choice, work
  <2> QED
    BY <2>1, SamePage DEF Chosen, Moves, Working, Work, Of
<1>4. ASSUME at # "none", NEW o \in DOMAIN Offers, NEW i \in {0} \cup Row, OpenForm(o, i)
      PROVE  Chosen'
  <2>1. form'.is = o /\ form'.item = i /\ form'.moved = (Moving # {})
    BY <1>4, OpenFormFields
  <2>2. calls' = calls /\ Offers' = Offers
    BY <1>4, SamePage DEF OpenForm, who
  <2>3. Offers[o].picks \in {"select", "shown"} => selected' = i
    BY <1>4 DEF OpenForm, Reaches
  <2>4. Moving = {} => \A c \in Slot : ~Moves(c)'
    <3>1. \A c \in Slot : Moves(c)' <=> Moves(c)
      BY <2>2 DEF Moves, Working, Work, Of
    <3> QED
      BY <3>1, MovesKnown
  <2> QED
    BY <2>1, <2>2, <2>3, <2>4 DEF Chosen
<1>5. ASSUME Submit PROVE Chosen'
  <2>1. PICK c \in Slot : Issues(c) /\ calls'[c].kind = "write" /\ calls'[c].is = form.is
    BY <1>5, SubmitFields
  <2>2. Offers' = Offers /\ form' = form /\ selected' = selected
    BY <1>5, SamePage DEF Submit, who
  <2>3. \A d \in Slot : d # c => calls'[d] = calls[d]
    BY <2>1 DEF Issues
  <2>4. \A d \in Slot : d # c => (Moves(d)' <=> Moves(d))
    BY <2>2, <2>3 DEF Moves, Working, Work, Of
  <2> QED
    BY <2>1, <2>2, <2>3, <2>4 DEF Chosen
<1> QED
  BY <1>1, <1>2, <1>3, <1>4, <1>5 DEF UserStep

\* Nothing but a request to a row that was not chosen makes a user stray.
LEMMA ActsStays ==
  ASSUME TypeOK, CallsOK, Chosen, ActsOnChosen, Next
  PROVE  ActsOnChosen'
<1>1. ASSUME Submit PROVE ~strayed'
  <2>1. Offers[form.is].picks \in {"select", "shown"} /\ ~form.moved => selected = form.item
    BY <1>1 DEF Submit, Chosen
  <2>2. strayed' = (strayed \/ (Target # form.item /\ ~form.moved))
    BY <1>1 DEF Submit, Target
  <2>3. ~(Target # form.item /\ ~form.moved)
    BY <2>1 DEF Target
  <2> QED
    BY <2>2, <2>3 DEF ActsOnChosen
<1>2. ASSUME NEW c \in Slot, Proceeds(c) PROVE strayed' = strayed
  BY <1>2, ProceedFields DEF CallsOK, Proceeding
<1>3. ASSUME \/ \E p \in DOMAIN Pages, how \in {"menu", "home", "quick", "address"} : Come(p, how)
             \/ \E r \in Roles : ChangeRole(r)
             \/ \E q \in Query : AskFor(q)
             \/ \E i \in Row : OpenDetail(i)
             \/ CloseDetail \/ CloseForm
             \/ \E o \in DOMAIN Offers, i \in {0} \cup Row : OpenForm(o, i)
      PROVE  strayed' = strayed
  BY <1>3 DEF Come, ChangeRole, AskFor, OpenDetail, CloseDetail, CloseForm, OpenForm, choice
<1> QED
  BY <1>1, <1>2, <1>3 DEF Next, ActsOnChosen

-----------------------------------------------------------------------------
(* The list. *)

\* Nothing new excuses the list, and nothing makes it worse.
LEMMA ListKept ==
  ASSUME ListOK, UNCHANGED <<at, query, listing>>, ~excused' => ~excused,
         \A d \in Slot :
           /\ calls'[d].kind = "list" =>
                calls[d].kind = "list" /\ calls'[d].query = calls[d].query
           /\ calls'[d].kind \in {"list", "again"} /\ calls'[d].stale =>
                calls[d].kind \in {"list", "again"} /\ calls[d].stale
           /\ calls[d].kind = "list" => calls'[d].kind = "list"
           /\ Debt(d) => Debt(d)'
  PROVE  ListOK'
<1> SUFFICES ASSUME at # "none", ~excused PROVE ListOK'
  BY DEF ListOK
<1>1. ASSUME NEW c \in Slot, calls'[c].kind = "list"
      PROVE  calls'[c].query = query' /\ \A d \in Slot : calls'[d].kind = "list" => d = c
  BY <1>1 DEF ListOK
<1>2. ASSUME NEW c \in Slot, calls'[c].kind \in {"list", "again"}, calls'[c].stale
      PROVE  \E d \in Slot : d # c /\ Debt(d)'
  BY <1>2 DEF ListOK
<1>3. ASSUME \A c \in Slot : calls'[c].kind # "list"
      PROVE  /\ listing'.query \in {0, query'}
             /\ listing'.stale => \E d \in Slot : Debt(d)'
  BY <1>3 DEF ListOK
<1> QED
  BY <1>1, <1>2, <1>3 DEF ListOK

\* When nothing else is under way, nothing else will change the list.
LEMMA LoneCalls ==
  ASSUME CallsOK, NEW c \in Slot, UnderWay \subseteq {c}
  PROVE  \A d \in Slot : d # c => calls[d].kind \notin {"list", "detail", "again"}
BY DEF CallsOK, CallOK, UnderWay

\* The load of a lone request is as good as the list.
LEMMA ReloadList ==
  ASSUME TypeOK, CallsOK, NEW c \in Slot, Work(c), calls[c].alive, Page.list # {},
         Reload(c, calls[c].query), query' = query
  PROVE  ListOK'
<1>1. /\ \A d \in Slot : d # c => calls'[d] = calls[d]
      /\ Loads(c) /\ excused' = ~Lone(c, calls[c].query)
  <2>1. calls[c].query \in Query
    BY WorkFacts DEF CallsOK
  <2> QED
    BY <2>1, ReloadFields
<1> SUFFICES ASSUME Lone(c, calls[c].query) PROVE ListOK'
  BY <1>1 DEF ListOK
<1>2. \A d \in Slot : d # c => calls'[d].kind \notin {"list", "again"}
  BY <1>1, LoneCalls DEF Lone
<1>3. calls'[c].kind = "list" /\ calls'[c].query = query' /\ ~calls'[c].stale
  BY <1>1 DEF Loads, Lone
<1> QED
  BY <1>2, <1>3 DEF ListOK

\* A request that leaves no debt ends.
LEMMA OverList ==
  ASSUME TypeOK, CallsOK, ListOK, NEW c \in Slot, Over(c), UNCHANGED <<at, query, listing>>,
         ~excused' => ~excused /\ ~Debt(c), calls[c].kind # "list"
  PROVE  ListOK'
<1> SUFFICES ASSUME ~Debt(c) PROVE ListOK'
  BY DEF ListOK
<1>1. \A d \in Slot : d # c => calls'[d] = calls[d]
  BY OverFields
<1>2. calls'[c].kind = "none" /\ ~calls'[c].stale
  BY OverFields, NoCallFields
<1>3. Offers' = Offers
  BY SamePage
<1>4. \A d \in Slot : Debt(d) => Debt(d)'
  BY <1>1, <1>3 DEF Debt, Of
<1> QED
  BY <1>1, <1>2, <1>4, ListKept

LEMMA PerformList ==
  ASSUME TypeOK, CallsOK, ListOK, NEW c \in Slot, Perform(c)
  PROVE  ListOK'
<1>1. UNCHANGED <<at, query, excused>> /\ Offers' = Offers
  BY SamePage DEF Perform, who
<1>2. Performs(c) /\ \A d \in Slot : d # c => Same(d)
  BY PerformFields
<1>3. CASE Of(c).touches
  <2>1. Debt(c)'
    BY <1>1, <1>2, <1>3 DEF Performs, Debt, Of
  <2>2. listing'.query = listing.query
    BY <1>3 DEF Perform, TypeOK
  <2>3. \A d \in Slot : calls'[d].kind = "list" <=> calls[d].kind = "list"
    BY <1>2 DEF Same, Performs
  <2>4. \A d \in Slot : calls'[d].kind = "list" => calls'[d].query = calls[d].query
    BY <1>2 DEF Same, Performs
  <2>5. calls'[c].kind = "write"
    BY <1>2 DEF Performs
  <2> QED
    BY <1>1, <2>1, <2>2, <2>3, <2>4, <2>5 DEF ListOK
<1>4. CASE ~Of(c).touches
  <2>1. calls' = [calls EXCEPT ![c].pc = "done"] /\ listing' = listing
    BY <1>4 DEF Perform
  <2>2. \A d \in Slot : d # c => calls'[d] = calls[d]
    BY <2>1 DEF TypeOK
  <2>3. ~Debt(c) /\ calls[c].kind = "write" /\ calls'[c].kind = "write"
    BY <1>2, <1>4 DEF Debt, Performs
  <2>4. \A d \in Slot : Debt(d) => Debt(d)'
    BY <1>1, <2>2, <2>3 DEF Debt, Of
  <2> QED
    BY <1>1, <2>1, <2>2, <2>3, <2>4, ListKept
<1> QED
  BY <1>3, <1>4

LEMMA SucceedsList ==
  ASSUME TypeOK, CallsOK, ListOK, NEW c \in Slot, Succeeds(c)
  PROVE  ListOK'
<1> DEFINE h == Of(c)
           a == calls[c]
           again == Send([a EXCEPT !.kind = "again", !.stale = FALSE],
                         IF h.then = "detail" THEN Page.detail ELSE Page.list)
<1>1. /\ a \in Call /\ a.kind = "write" /\ a.pc = "done" /\ a.alive /\ Work(c)
      /\ UNCHANGED <<at, query>> /\ Offers' = Offers
  BY SamePage DEF Succeeds, TypeOK, Work, who
<1>2. h.then \in Thens /\ Sound(h) /\ (h.then \notin {"nothing", "step"} => Page.list # {})
  BY <1>1, WorkFacts DEF CallsOK, Sound
<1>3. CASE h.then \in {"nothing", "step"}
  <2>1. Over(c) /\ UNCHANGED <<listing, excused>>
    BY <1>3 DEF Succeeds
  <2>2. ~Debt(c)
    BY <1>1, <1>2, <1>3 DEF Debt, Sound
  <2> QED
    BY <1>1, <2>1, <2>2, OverList
<1>4. CASE h.then \in {"reload", "close"}
  <2>1. Reload(c, a.query)
    BY <1>4 DEF Succeeds
  <2> QED
    BY <1>1, <1>2, <1>4, <2>1, ReloadList
<1>5. CASE h.then = "next"
  <2>1. /\ Over(c) /\ listing' = [listing EXCEPT !.stale = FALSE]
        /\ excused' = (excused \/ UnderWay # {c} \/ a.query # query)
    BY <1>5 DEF Succeeds
  <2> SUFFICES ASSUME at # "none", ~excused, UnderWay = {c} PROVE ListOK'
    BY <1>1, <2>1 DEF ListOK
  <2>2. \A d \in Slot : calls[d].kind \notin {"list", "again"}
    BY <1>1, LoneCalls
  <2>3. \A d \in Slot : calls'[d].kind \notin {"list", "again"}
    BY <2>1, <2>2, OverFields, NoCallFields
  <2>4. listing'.query = listing.query /\ ~listing'.stale
    BY <2>1 DEF TypeOK
  <2>5. listing.query \in {0, query}
    BY <2>2 DEF ListOK
  <2> QED
    BY <1>1, <2>3, <2>4, <2>5 DEF ListOK
<1>6. CASE h.then \in {"detail", "within", "quietly"}
  <2>1. calls' = [calls EXCEPT ![c] = again] /\ UNCHANGED <<listing, excused>>
    BY <1>6 DEF Succeeds
  <2>2. again.kind = "again" /\ ~again.stale
    BY <1>1, AgainCallFields
  <2> HIDE DEF again
  <2>3. calls'[c] = again /\ \A d \in Slot : d # c => calls'[d] = calls[d]
    BY <2>1 DEF TypeOK
  <2>4. \A d \in Slot : Debt(d) => Debt(d)'
    BY <1>1, <2>2, <2>3 DEF Debt, Of
  <2>5. \A d \in Slot :
          /\ calls'[d].kind = "list" =>
               calls[d].kind = "list" /\ calls'[d].query = calls[d].query
          /\ calls'[d].kind \in {"list", "again"} /\ calls'[d].stale =>
               calls[d].kind \in {"list", "again"} /\ calls[d].stale
          /\ calls[d].kind = "list" => calls'[d].kind = "list"
    BY <1>1, <2>2, <2>3
  <2> QED
    BY <1>1, <2>1, <2>4, <2>5, ListKept
<1> QED
  BY <1>2, <1>3, <1>4, <1>5, <1>6 DEF Thens

\* What a handler loaded by itself is the list, unless something else was under way.
LEMMA AgainArrivesList ==
  ASSUME TypeOK, CallsOK, ListOK, NEW c \in Slot, AgainArrives(c)
  PROVE  ListOK'
<1>1. /\ calls[c].kind = "again" /\ calls[c].alive /\ Work(c)
      /\ UNCHANGED <<at, query>> /\ Offers' = Offers
  BY SamePage DEF AgainArrives, Work, CallsOK, CallOK, who
<1>2. Of(c).then \in {"detail", "within", "quietly"} /\ Page.list # {}
  BY <1>1, WorkFacts DEF CallsOK, CallOK
<1>3. CASE Of(c).then = "detail"
  BY <1>1, <1>2, <1>3, ReloadList DEF AgainArrives
<1>4. CASE Of(c).then # "detail"
  <2>1. /\ Over(c) /\ listing' = [query |-> calls[c].query, stale |-> calls[c].stale]
        /\ excused' = (excused \/ ~Lone(c, calls[c].query))
    BY <1>4 DEF AgainArrives
  <2> SUFFICES ASSUME at # "none", ~excused, Lone(c, calls[c].query) PROVE ListOK'
    BY <1>1, <2>1 DEF ListOK
  <2>2. \A d \in Slot : d # c => calls'[d] = calls[d]
    BY <2>1, OverFields
  <2>3. calls'[c].kind = "none"
    BY <2>1, OverFields, NoCallFields
  <2>4. \A d \in Slot : calls'[d].kind \notin {"list", "again"}
    BY <2>2, <2>3, LoneCalls DEF Lone
  <2>5. listing'.query = query' /\ listing'.stale = calls[c].stale
    BY <1>1, <2>1 DEF Lone
  <2>6. ASSUME calls[c].stale PROVE \E d \in Slot : Debt(d)'
    <3>1. PICK d \in Slot : d # c /\ Debt(d)
      BY <1>1, <2>6 DEF ListOK
    <3>2. Debt(d)'
      BY <1>1, <2>2, <3>1 DEF Debt, Of
    <3> QED
      BY <3>2
  <2> QED
    BY <2>4, <2>5, <2>6 DEF ListOK
<1> QED
  BY <1>3, <1>4

LEMMA ListArrivesList ==
  ASSUME TypeOK, CallsOK, ListOK, NEW c \in Slot, ListArrives(c)
  PROVE  ListOK'
<1>1. /\ calls[c].kind = "list" /\ Over(c) /\ UNCHANGED <<at, query, excused>> /\ Offers' = Offers
      /\ listing' = [query |-> calls[c].query, stale |-> calls[c].stale]
  BY SamePage DEF ListArrives, who
<1> SUFFICES ASSUME at # "none", ~excused PROVE ListOK'
  BY <1>1 DEF ListOK
<1>2. \A d \in Slot : d # c => calls'[d] = calls[d]
  BY <1>1, OverFields
<1>3. calls'[c].kind = "none"
  BY <1>1, OverFields, NoCallFields
<1>4. \A d \in Slot : calls'[d].kind # "list"
  BY <1>1, <1>2, <1>3 DEF ListOK
<1>5. listing'.query = query' /\ listing'.stale = calls[c].stale
  BY <1>1 DEF ListOK
<1>6. ~Debt(c)
  BY <1>1 DEF Debt
<1>7. \A d \in Slot : d # c /\ Debt(d) => Debt(d)'
  BY <1>1, <1>2 DEF Debt, Of
<1>8. ASSUME NEW e \in Slot, calls'[e].kind = "again", calls'[e].stale
      PROVE  \E d \in Slot : d # e /\ Debt(d)'
  <2>1. e # c /\ calls[e].kind = "again" /\ calls[e].stale
    BY <1>2, <1>3, <1>8
  <2>2. PICK d \in Slot : d # e /\ Debt(d)
    BY <2>1 DEF ListOK
  <2> QED
    BY <1>6, <1>7, <2>2
<1>9. ASSUME calls[c].stale PROVE \E d \in Slot : Debt(d)'
  BY <1>1, <1>7, <1>9 DEF ListOK
<1> QED
  BY <1>4, <1>5, <1>8, <1>9 DEF ListOK

LEMMA ProceedList ==
  ASSUME TypeOK, CallsOK, ListOK, NEW c \in Slot, Proceeds(c)
  PROVE  ListOK'
<1>1. ASSUME ListFails(c) \/ AgainFails(c) PROVE ListOK'
  BY <1>1 DEF ListFails, AgainFails, ListOK
<1>2. ASSUME DetailArrives(c) \/ DetailFails(c) PROVE ListOK'
  <2>1. /\ calls[c].kind = "detail" /\ Over(c)
        /\ UNCHANGED <<at, query, listing, excused>>
    BY <1>2 DEF DetailArrives, DetailFails, who, list
  <2>2. ~Debt(c)
    BY <2>1 DEF Debt
  <2> QED
    BY <2>1, <2>2, OverList
<1>3. ASSUME Fails(c) \/ Forgotten(c) PROVE ListOK'
  <2>1. /\ calls[c].kind = "write" /\ Over(c) /\ UNCHANGED <<at, query, listing>>
        /\ excused' = (excused \/ (calls[c].pc = "done" /\ Of(c).touches))
    BY <1>3 DEF Fails, Forgotten, who
  <2>2. ~excused' => ~excused /\ ~Debt(c)
    BY <2>1 DEF Debt
  <2> QED
    BY <2>1, <2>2, OverList
<1> QED
  BY <1>1, <1>2, <1>3, ListArrivesList, PerformList, SucceedsList, AgainArrivesList DEF Proceeds

LEMMA UserList ==
  ASSUME TypeOK, CallsOK, FormOK, ListOK, UserStep
  PROVE  ListOK'
<1>1. ASSUME NEW p \in DOMAIN Pages, NEW how, Come(p, how) PROVE ListOK'
  <2>1. Comes /\ query' = 1 /\ listing' = [query |-> 0, stale |-> FALSE]
    BY <1>1, ComeFields DEF Come
  <2>2. \A c \in Slot :
          calls'[c].kind \in {"list", "again"} =>
            calls'[c].kind = "list" /\ calls'[c].query = query' /\ ~calls'[c].stale
    BY <2>1 DEF Comes
  <2>3. \A c, d \in Slot : calls'[c].kind = "list" /\ calls'[d].kind = "list" => c = d
    BY <2>1 DEF Comes
  <2> QED
    BY <2>1, <2>2, <2>3 DEF ListOK
<1>2. ASSUME NEW r \in Roles, ChangeRole(r) PROVE ListOK'
  BY <1>2 DEF ChangeRole, ListOK
<1>3. ASSUME NEW q \in Query, AskFor(q) PROVE ListOK'
  <2>1. PICK c \in Slot :
          Issues(c) /\ calls'[c].kind = "list" /\ calls'[c].query = q /\ ~calls'[c].stale
    BY <1>3, AskFields
  <2>2. query' = q /\ excused' = (UnderWay # {})
    BY <1>3 DEF AskFor
  <2> SUFFICES ASSUME UnderWay = {} PROVE ListOK'
    BY <2>2 DEF ListOK
  <2>3. \A d \in Slot : d # c => calls'[d].kind \notin {"list", "again"}
    BY <2>1 DEF Issues, UnderWay, CallsOK, CallOK
  <2> QED
    BY <2>1, <2>2, <2>3 DEF ListOK
<1>4. ASSUME NEW c \in Slot, Issues(c), ~Debt(c)', calls'[c].kind \in {"detail", "write"},
             UNCHANGED <<at, query, listing, excused>>
      PROVE  ListOK'
  <2>1. /\ \A d \in Slot : d # c => calls'[d] = calls[d]
        /\ calls[c].kind = "none"
    BY <1>4 DEF Issues
  <2>2. Offers' = Offers
    BY <1>4, SamePage
  <2>3. \A d \in Slot : Debt(d) => Debt(d)'
    BY <2>1, <2>2 DEF Debt, Of
  <2> QED
    BY <1>4, <2>1, <2>3, ListKept
<1>5. ASSUME NEW i \in Row, OpenDetail(i) PROVE ListOK'
  <2>1. PICK c \in Slot : Issues(c) /\ calls'[c].kind = "detail"
    BY <1>5, OpenDetailFields
  <2>2. UNCHANGED <<at, query, listing, excused>>
    BY <1>5 DEF OpenDetail, who, list
  <2>3. ~Debt(c)'
    BY <2>1 DEF Debt
  <2> QED
    BY <1>4, <2>1, <2>2, <2>3
<1>6. ASSUME Submit PROVE ListOK'
  <2>1. PICK c \in Slot :
          Issues(c) /\ calls'[c].kind = "write" /\ calls'[c].pc \in {"sent", "barred"}
    BY <1>6, SubmitFields
  <2>2. UNCHANGED <<at, query, listing, excused>>
    BY <1>6 DEF Submit, who, list
  <2>3. ~Debt(c)'
    BY <2>1 DEF Debt
  <2> QED
    BY <1>4, <2>1, <2>2, <2>3
<1>7. ASSUME \/ CloseDetail \/ CloseForm
             \/ \E o \in DOMAIN Offers, i \in {0} \cup Row : OpenForm(o, i)
      PROVE  ListOK'
  <2>1. UNCHANGED <<at, query, listing, excused, calls>>
    BY <1>7 DEF CloseDetail, CloseForm, OpenForm, who, list, work
  <2>2. \A d \in Slot : Debt(d) => Debt(d)'
    BY <2>1, SamePage DEF Debt, Of
  <2> QED
    BY <2>1, <2>2, ListKept
<1> QED
  BY <1>1, <1>2, <1>3, <1>5, <1>6, <1>7 DEF UserStep

-----------------------------------------------------------------------------
(* Who is let in, and what the server refuses. *)

\* The pages of the menus, and whom they are for.
LEMMA MenuGuards ==
  /\ Pages["barrels"].page.guard = Roles /\ Pages["dashboard"].page.guard = Office
  /\ Pages["clients"].page.guard = Office /\ Pages["geofences"].page.guard = Office
  /\ Pages["disposal"].page.guard = Office /\ Pages["reports"].page.guard = Office
  /\ Pages["logistics"].page.guard = Yard
  /\ Pages["maintenance"].page.guard = Repairs /\ Pages["alerts"].page.guard = Repairs
  /\ Pages["users"].page.guard = Admin /\ Pages["components"].page.guard = Admin
  /\ Pages["tenants"].page.guard = SuperAdmin /\ Pages["newTenant"].page.guard = SuperAdmin
  /\ Pages["batches"].page.guard = SuperAdmin /\ Pages["transfer"].page.guard = SuperAdmin
  /\ Pages["audit"].page.guard = SuperAdmin
<1>1. /\ Pages["barrels"].page = BarrelsPage /\ Pages["dashboard"].page = DashboardPage
      /\ Pages["clients"].page = ClientsPage /\ Pages["geofences"].page = GeofencesPage
      /\ Pages["disposal"].page = DisposalPage /\ Pages["reports"].page = ReportsPage
      /\ Pages["logistics"].page = LogisticsPage /\ Pages["maintenance"].page = MaintenancePage
      /\ Pages["alerts"].page = AlertsPage /\ Pages["users"].page = UsersPage
      /\ Pages["components"].page = ComponentsPage /\ Pages["tenants"].page = TenantsPage
      /\ Pages["newTenant"].page = NewTenantPage /\ Pages["batches"].page = BatchesPage
      /\ Pages["transfer"].page = TransferPage /\ Pages["audit"].page = AuditPage
  <2>1. /\ Pages["barrels"].page = BarrelsPage /\ Pages["dashboard"].page = DashboardPage
        /\ Pages["clients"].page = ClientsPage /\ Pages["geofences"].page = GeofencesPage
    BY DEF Pages, With
  <2>2. /\ Pages["disposal"].page = DisposalPage /\ Pages["reports"].page = ReportsPage
        /\ Pages["logistics"].page = LogisticsPage /\ Pages["maintenance"].page = MaintenancePage
    BY DEF Pages, With
  <2>3. /\ Pages["alerts"].page = AlertsPage /\ Pages["users"].page = UsersPage
        /\ Pages["components"].page = ComponentsPage /\ Pages["tenants"].page = TenantsPage
    BY DEF Pages, With
  <2>4. /\ Pages["newTenant"].page = NewTenantPage /\ Pages["batches"].page = BatchesPage
        /\ Pages["transfer"].page = TransferPage /\ Pages["audit"].page = AuditPage
    BY DEF Pages, With
  <2> QED
    BY <2>1, <2>2, <2>3, <2>4
<1>2. BarrelsPage.guard = Roles
  BY DEF BarrelsPage, PageForAll, PageFor
<1>3. ClientsPage.guard = Office
  BY PageLooks DEF ClientsPage, Looks
<1>4. /\ DashboardPage.guard = Office /\ GeofencesPage.guard = Office
      /\ ReportsPage.guard = Office /\ LogisticsPage.guard = Yard
      /\ UsersPage.guard = Admin /\ ComponentsPage.guard = Admin
  BY DEF DashboardPage, GeofencesPage, ReportsPage, LogisticsPage, UsersPage, ComponentsPage,
         PageFor
<1>5. DisposalPage.guard = Office
  BY DetailLooks DEF DisposalPage, Looks
<1>6. MaintenancePage.guard = Repairs
  BY DetailLooks DEF MaintenancePage, Looks
<1>7. AlertsPage.guard = Repairs
  BY DetailLooks DEF AlertsPage, Looks
<1>8. ASSUME NEW load, NEW once PROVE PageUnder(load, once).guard = SuperAdmin
  <2>1. Looks(PageUnder(load, once), SuperAdmin, SuperAdmin, load, once, {})
    BY PageLooks
  <2> QED
    BY <2>1 DEF Looks
<1>9. /\ TenantsPage.guard = SuperAdmin /\ NewTenantPage.guard = SuperAdmin
      /\ BatchesPage.guard = SuperAdmin /\ TransferPage.guard = SuperAdmin
      /\ AuditPage.guard = SuperAdmin
  BY <1>8 DEF TenantsPage, NewTenantPage, BatchesPage, TransferPage, AuditPage
<1> QED
  BY <1>1, <1>2, <1>3, <1>4, <1>5, <1>6, <1>7, <1>9

\* The menu and the first page of a role lead nowhere it is denied.
LEMMA MenuLeads ==
  ASSUME NEW u \in Roles, NEW p, p \in Menu(u) \/ p = RoleHome(u)
  PROVE  u \in Pages[p].page.guard
<1>1. CASE u = "SUPER_ADMIN"
  <2>1. p \in SuperAdminSidebar
    <3>1. u \notin Office
      BY <1>1 DEF Office
    <3>2. RoleHome(u) = "tenants"
      BY <1>1, <3>1 DEF RoleHome
    <3> QED
      BY <1>1, <3>2 DEF Menu, SuperAdminSidebar
  <2>2. u \in SuperAdmin
    BY <1>1 DEF SuperAdmin
  <2> QED
    BY <2>1, <2>2, MenuGuards DEF SuperAdminSidebar
<1>2. CASE u # "SUPER_ADMIN" /\ p \in Menu(u)
  <2>1. p \in Sidebar(u)
    BY <1>2 DEF Menu
  <2>2. \/ p = "barrels"
        \/ u \in Office /\ p \in {"dashboard", "clients", "geofences", "disposal", "reports"}
        \/ u \in Yard /\ p = "logistics"
        \/ u \in Repairs /\ p \in {"maintenance", "alerts"}
        \/ u \in Admin /\ p \in {"users", "components"}
    BY <2>1 DEF Sidebar
  <2> QED
    BY <2>2, MenuGuards
<1>3. CASE u # "SUPER_ADMIN" /\ p = RoleHome(u)
  <2>1. (u \in Office /\ p = "dashboard") \/ p = "barrels"
    BY <1>3 DEF RoleHome
  <2> QED
    BY <2>1, MenuGuards
<1> QED
  BY <1>1, <1>2, <1>3

LEMMA DeniedStays ==
  ASSUME TypeOK, DeniedOK, Next
  PROVE  DeniedOK'
<1>1. ASSUME NEW p \in DOMAIN Pages, NEW how \in {"menu", "home", "quick", "address"}, Come(p, how)
      PROVE  DeniedOK'
  <2>1. CASE how \in {"menu", "home"}
    <3>1. p \in Menu(user) \/ p = RoleHome(user)
      BY <1>1, <2>1 DEF Come
    <3>2. user \in Pages[p].page.guard
      BY <3>1, MenuLeads DEF TypeOK
    <3>3. denied' = "no"
      BY <1>1, <2>1, <3>2 DEF Come
    <3> QED
      BY <3>3 DEF DeniedOK
  <2>2. CASE how \in {"quick", "address"}
    <3>1. denied' \in {"no", how}
      BY <1>1 DEF Come
    <3> QED
      BY <2>2, <3>1 DEF DeniedOK
  <2> QED
    BY <2>1, <2>2
<1>2. ASSUME \/ \E r \in Roles : ChangeRole(r)
             \/ \E q \in Query : AskFor(q)
             \/ \E i \in Row : OpenDetail(i)
             \/ CloseDetail \/ CloseForm \/ Submit
             \/ \E o \in DOMAIN Offers, i \in {0} \cup Row : OpenForm(o, i)
             \/ \E c \in Slot : Proceeds(c)
      PROVE  denied' = denied
  BY <1>2 DEF ChangeRole, AskFor, OpenDetail, CloseDetail, CloseForm, Submit, OpenForm, Proceeds,
              ListArrives, ListFails, DetailArrives, DetailFails, Perform, Succeeds, Fails,
              AgainArrives, AgainFails, Forgotten, who
<1> QED
  BY <1>1, <1>2 DEF Next, DeniedOK

\* What the page asked for is what it may ask for, or what the table knows.
LEMMA Explained ==
  ASSUME TypeOK, CallsOK, DeniedOK
  PROVE  RefusedExplained
<1> SUFFICES ASSUME at # "none", role = user, user \in Page.guard,
                    user = "SUPER_ADMIN" => Page.mounted # Roles,
                    NEW r \in Refused
             PROVE  <<user, r>> \in Overpromised[at]
  BY DEF RefusedExplained, DeniedOK
<1>1. Promises(at)
  BY Tables DEF TypeOK
<1>2. ~CanActivate(user, r)
  BY DEF Refused
<1>3. \/ r \in Page.once
      \/ \E c \in UnderWay :
           r \in CASE calls[c].kind = "list" -> Page.list
                   [] calls[c].kind = "detail" -> Page.detail
                   [] calls[c].kind = "again" -> Page.list \cup Page.detail
                   [] OTHER -> {Offers[calls[c].is].route}
  BY DEF Refused
<1>4. CASE r \in Page.once
  BY <1>1, <1>2, <1>4 DEF Promises, Page
<1>5. ASSUME NEW c \in UnderWay,
             r \in CASE calls[c].kind = "list" -> Page.list
                     [] calls[c].kind = "detail" -> Page.detail
                     [] calls[c].kind = "again" -> Page.list \cup Page.detail
                     [] OTHER -> {Offers[calls[c].is].route}
      PROVE  <<user, r>> \in Overpromised[at]
  <2>1. c \in Slot /\ CallOK(c) /\ calls[c].alive /\ calls[c] \in Call
    BY DEF UnderWay, CallsOK, TypeOK
  <2>2. calls[c].kind \in {"list", "detail", "write", "again"}
    BY <2>1 DEF CallOK, Call
  <2>3. CASE calls[c].kind \in {"list", "detail", "again"}
    <3>1. r \in Page.list \cup Page.detail
      BY <1>5, <2>3
    <3> QED
      BY <1>1, <1>2, <3>1 DEF Promises, Page
  <2>4. CASE calls[c].kind = "write"
    <3>1. r = Offers[calls[c].is].route
      BY <1>5, <2>4
    <3>2. calls[c].is \in DOMAIN Offers /\ user \in Offers[calls[c].is].seen
      BY <2>1, <2>4 DEF CallOK, Work, Of
    <3> QED
      BY <1>1, <1>2, <3>1, <3>2 DEF Promises, Page, Offers
  <2> QED
    BY <2>2, <2>3, <2>4
<1> QED
  BY <1>3, <1>4, <1>5

-----------------------------------------------------------------------------
(* The invariant, and what follows from it. *)

LEMMA InitInv == Init => IInv
<1> SUFFICES ASSUME Init PROVE IInv
  OBVIOUS
<1>1. /\ at = "none" /\ calls = [c \in Slot |-> NoCall] /\ opened = <<>> /\ done = <<>>
      /\ misled = {} /\ busy = {} /\ form = NoForm /\ denied = "no" /\ strayed = FALSE
  BY DEF Init
<1>2. \A c \in Slot : calls[c].kind = "none" /\ ~calls[c].alive
  BY <1>1, NoCallFields
<1>3. Len(opened) = 0 /\ 1..Len(opened) = {}
  BY <1>1
<1>4. TypeOK
  <2>1. calls \in [Slot -> Call] /\ form \in Form
    BY <1>1, NoCallFields DEF NoForm, Form
  <2>2. opened \in Seq(Name) /\ done \in Seq(0..2) /\ Len(done) = Len(opened)
    BY <1>1
  <2>3. /\ role \in Roles /\ user \in Roles /\ visits \in Nat /\ query \in Query
        /\ loading \in BOOLEAN /\ excused \in BOOLEAN
        /\ detail \in {"closed", "loading", "shown"} /\ selected \in {0} \cup Row
    BY DEF Init, Query
  <2>4. listing \in [query : {0} \cup Query, stale : BOOLEAN]
    BY DEF Init
  <2> QED
    BY <1>1, <2>1, <2>2, <2>3, <2>4 DEF TypeOK
<1>5. CallsOK
  BY <1>2 DEF CallsOK, CallOK, Work
<1>6. FormOK /\ OpenedOK /\ DeniedOK
  BY <1>1, <1>3 DEF FormOK, OpenedOK, DeniedOK
<1>7. LockHeld /\ FlagsOK /\ OnceOK
  BY <1>1, <1>2, <1>3 DEF LockHeld, FlagsOK, OnceOK, Working
<1>8. Chosen /\ ActsOnChosen /\ ListOK
  BY <1>1 DEF Chosen, ActsOnChosen, ListOK
<1> QED
  BY <1>4, <1>5, <1>6, <1>7, <1>8 DEF IInv

LEMMA StutterInv == IInv /\ UNCHANGED vars => IInv'
<1> SUFFICES ASSUME IInv, UNCHANGED vars PROVE IInv'
  OBVIOUS
<1>1. /\ UNCHANGED <<role, user, at, denied, visits, query, listing, loading, excused>>
      /\ UNCHANGED <<detail, selected, form, opened, strayed, busy, calls, done, misled>>
      /\ Offers' = Offers
  BY SamePage DEF vars, who, list, choice, work
<1>2. TypeOK' /\ CallsOK' /\ FormOK' /\ OpenedOK' /\ DeniedOK'
  BY <1>1 DEF IInv, TypeOK, CallsOK, CallOK, FormOK, OpenedOK, DeniedOK, Work, Of
<1>3. LockHeld' /\ FlagsOK' /\ OnceOK'
  BY <1>1 DEF IInv, LockHeld, FlagsOK, OnceOK, UnderWay, Working, Work, Of, Proper, Once, Mine
<1>4. Chosen' /\ ActsOnChosen' /\ ListOK'
  BY <1>1 DEF IInv, Chosen, ActsOnChosen, ListOK, Moves, Working, Work, Debt, Of
<1> QED
  BY <1>2, <1>3, <1>4 DEF IInv

LEMMA NextInv == IInv /\ Next => IInv'
<1> SUFFICES ASSUME IInv, Next PROVE IInv'
  OBVIOUS
<1>1. /\ TypeOK /\ CallsOK /\ FormOK /\ OpenedOK /\ DeniedOK
      /\ LockHeld /\ FlagsOK /\ OnceOK /\ Chosen /\ ActsOnChosen /\ ListOK
  BY DEF IInv
<1>2. UserStep \/ \E c \in Slot : Proceeds(c)
  BY NextSteps
<1>3. TypeOK' /\ CallsOK'
  <2>1. CASE UserStep
    BY <1>1, <2>1, UserTyped, UserCalls
  <2>2. ASSUME NEW c \in Slot, Proceeds(c) PROVE TypeOK' /\ CallsOK'
    <3>1. CallOK(c)
      BY <1>1 DEF CallsOK
    <3> QED
      BY <1>1, <2>2, <3>1, ProceedTyped, ProceedCalls
  <2> QED
    BY <1>2, <2>1, <2>2
<1>4. FormOK' /\ OpenedOK' /\ DeniedOK'
  BY <1>1, FormStays, OpenedStays, DeniedStays
<1>5. LockHeld' /\ FlagsOK' /\ OnceOK'
  BY <1>1, FlagsStay, OnceStays
<1>6. Chosen' /\ ActsOnChosen' /\ ListOK'
  BY <1>1, <1>2, UserChosen, ProceedChosen, ActsStays, UserList, ProceedList
<1> QED
  BY <1>3, <1>4, <1>5, <1>6 DEF IInv

LEMMA Invariance == Spec => []IInv
BY InitInv, NextInv, StutterInv, PTL DEF Spec

\* The user, his page and its requests keep their shape, on every page, however many
\* requests are under way.
THEOREM TypeCorrect == Spec => []TypeOK
<1>1. IInv => TypeOK
  BY DEF IInv
<1> QED
  BY <1>1, Invariance, PTL

\* The flag that disables a button is taken back whenever the request that set it
\* ends, by an answer, an error or because the page was left: no page stays locked.
THEOREM LocksHeld == Spec => []LockHeld
<1>1. IInv => LockHeld
  BY DEF IInv
<1> QED
  BY <1>1, Invariance, PTL

\* A form whose button has a flag of its own does its work twice only if the page
\* told an error of work that was done: no double click, no slow answer and no
\* way back to the page makes it so.
THEOREM DoneOnce == Spec => []OncePerOpening
<1>1. ASSUME IInv PROVE OncePerOpening
  <2> SUFFICES ASSUME NEW n \in 1..Len(opened), done[n] > 1, n \notin misled,
                      Proper(Offers[opened[n]])
               PROVE  FALSE
    BY DEF OncePerOpening, Proper
  <2>1. Once(n)
    BY <1>1 DEF IInv, OnceOK
  <2>2. done[n] \in Nat
    BY <1>1 DEF IInv, TypeOK
  <2> QED
    BY <2>1, <2>2 DEF Once
<1> QED
  BY <1>1, Invariance, PTL

\* What a form does it does to the row it was opened for, unless an answer that
\* moves the selection was under way when it was opened.
THEOREM ChoiceHolds == Spec => []ActsOnChosen
<1>1. IInv => ActsOnChosen
  BY DEF IInv
<1> QED
  BY <1>1, Invariance, PTL

\* When nothing is under way the list shows what was asked for last, as the server
\* has it, unless answers crossed or failed.
THEOREM ListsFollow == Spec => []ListFollows
<1>1. ASSUME IInv PROVE ListFollows
  <2> SUFFICES ASSUME at # "none", listing.query # 0, \A c \in Slot : Free(c), ~excused
               PROVE  listing.query = query /\ ~listing.stale
    BY DEF ListFollows
  <2>1. \A c \in Slot : calls[c].kind # "list" /\ ~Debt(c)
    BY DEF Free, Debt
  <2> QED
    BY <1>1, <2>1 DEF IInv, ListOK
<1> QED
  BY <1>1, Invariance, PTL

\* No menu and no first page leads where the user is denied, and what RolesGuard
\* refuses an honest page is what the table of over-promises lists, page by page.
THEOREM RefusalsExplained == Spec => []RefusedExplained
<1>1. IInv => RefusedExplained
  BY Explained DEF IInv
<1> QED
  BY <1>1, Invariance, PTL

=============================================================================
