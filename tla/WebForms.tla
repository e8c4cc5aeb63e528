------------------------------ MODULE WebForms ------------------------------
(***************************************************************************)
(* The pages of the web frontend, as far as their control goes: whom a     *)
(* page is for, what it asks the server when it opens, and for each thing  *)
(* a user can do on it the handler that sends the request and the button   *)
(* or dialog that calls the handler.                                       *)
(*                                                                         *)
(* A handler shows an error, and sends nothing, while a field it needs is  *)
(* missing; WebPages submits complete forms only.  Charts, wording and     *)
(* what depends on the state of one row are left out.                      *)
(***************************************************************************)
EXTENDS WebAccess

\* A page.  guard: the roles RoleGuard shows it to.  mounted: the roles for
\* which its effects run, guard or not.  list: what its list is loaded from,
\* all of it or nothing.  once: what else it asks when it opens.  hides: no
\* row is there while the list loads.  detail: where one row is loaded from.
\* falls: the row of the list stands in for a detail that cannot be loaded.
PageFor(guard, list, once) ==
  [guard |-> guard, mounted |-> Roles, list |-> list, once |-> once, hides |-> TRUE,
   detail |-> {}, falls |-> FALSE]

\* A page without a RoleGuard.
PageForAll(list, once) == PageFor(Roles, list, once)

\* A page under the layout of the super administrator: the guard is around it,
\* so nothing of it runs for others.
PageUnder(list, once) == [PageFor(SuperAdmin, list, once) EXCEPT !.mounted = SuperAdmin]

\* A handler.  route: what it calls.  picks: where its target comes from --
\* "new", nothing; "row", the row it was opened from; "select", the row too,
\* by way of what the page has selected; "shown", what the page has selected,
\* the detail on the screen; "held", the same, taken when the dialog opens.
\* flag: the state that says it is under way; "none", or the name of the row for
\* the flags of RowFlags.  then: what follows a success -- "nothing"; "reload" of
\* the list; "close" of the detail, and a reload; "detail", the detail is loaded
\* again before the handler ends, then the list; "within", the list is loaded
\* again before it ends; "quietly", the same, but a failure of it is not told;
\* "next", the row goes and the next one is selected; "step", the page goes on
\* to its second step.  touches: whether the list shows what it changes.
Handler(route, picks, flag, then) ==
  [route |-> route, picks |-> picks, flag |-> flag, then |-> then,
   touches |-> then \notin {"nothing", "step"}, seen |-> Roles, locked |-> FALSE]

RowFlags == {"togglingId", "unlockingUser"}

\* The button that calls it: whom it is shown to, and whether the flag disables it.
OpenButton(handler, roles) == [handler EXCEPT !.seen = roles]
Button(handler, roles) == [handler EXCEPT !.seen = roles, !.locked = (handler.flag # "none")]

-----------------------------------------------------------------------------
(***************************************************************************)
(* Maintenance                                                             *)
(***************************************************************************)

loadOrders == {<<"maintenance", "findAllOrders">>}
loadCalendar == {<<"maintenance", "getCalendar">>}
searchBarrels == {<<"barrelReads", "findAll">>}
openOrderDetail == {<<"maintenance", "findOrderById">>}

MaintenancePage ==
  [PageFor(Repairs, loadOrders, loadCalendar \cup searchBarrels)
     EXCEPT !.detail = openOrderDetail]

handleCreateOrder == Handler(<<"maintenance", "createOrder">>, "new", "creating", "reload")
CreateOrderDialog == Button(handleCreateOrder, Roles)

\* Triage and checklist load the detail again before they end.
handleTriage ==
  Handler(<<"maintenance", "registerTriage">>, "shown", "triageSubmitting", "detail")
TriageDialog == Button(handleTriage, Roles)

handleChecklist ==
  Handler(<<"maintenance", "registerChecklist">>, "shown", "checklistSubmitting", "detail")
ChecklistDialog == Button(handleChecklist, Roles)

-----------------------------------------------------------------------------
(***************************************************************************)
(* Disposal                                                                *)
(***************************************************************************)

fetchDisposals == {<<"disposals", "findAll">>, <<"disposals", "getSuggestions">>}
fetchAnalytics == {<<"disposals", "getAnalytics">>}

DisposalPage ==
  [PageFor(Office, fetchDisposals, fetchAnalytics \cup searchBarrels)
     EXCEPT !.detail = {<<"disposals", "findById">>}, !.falls = TRUE]

handleCreateDisposal == Handler(<<"disposals", "create">>, "new", "creating", "reload")
CreateDisposalDialog == Button(handleCreateDisposal, Roles)

\* The three that end a disposal close the detail as well.
handleApprove == Handler(<<"disposals", "approve">>, "shown", "approving", "close")
ApproveButton == Button(handleApprove, Roles)

handleComplete == Handler(<<"disposals", "complete">>, "shown", "completing", "close")
CompleteDialog == Button(handleComplete, Roles)

handleRevert == Handler(<<"disposals", "revert">>, "held", "reverting", "close")
RevertDialog == Button(handleRevert, Roles)

-----------------------------------------------------------------------------
(***************************************************************************)
(* Alerts                                                                  *)
(***************************************************************************)

fetchAlerts == {<<"alerts", "findAll">>}
fetchCounts == {<<"alerts", "getCounts">>}

AlertsPage ==
  [PageFor(Repairs, fetchAlerts, fetchCounts)
     EXCEPT !.detail = {<<"alerts", "findById">>}, !.falls = TRUE]

handleAcknowledge == Handler(<<"alerts", "acknowledge">>, "row", "none", "reload")
AcknowledgeButton == OpenButton(handleAcknowledge, Roles)

handleResolve == Handler(<<"alerts", "resolve">>, "select", "resolving", "close")
ResolveDialog == Button(handleResolve, Roles)

-----------------------------------------------------------------------------
(***************************************************************************)
(* Barrels                                                                 *)
(***************************************************************************)

fetchBarrels == {<<"barrelReads", "findAll">>}

BarrelsPage == PageForAll(fetchBarrels, {})

handleDownloadTemplate ==
  Handler(<<"barrelReads", "downloadTemplate">>, "new", "none", "nothing")
DownloadTemplateButton == OpenButton(handleDownloadTemplate, Office)

handleCreateBarrel == Handler(<<"barrels", "create">>, "new", "creating", "reload")
CreateBarrelDialog == Button(handleCreateBarrel, Office)

\* The bar of the selected barrels is shown to everybody.
handleBatchStatus == Handler(<<"barrels", "batchUpdateStatus">>, "row", "none", "reload")
BatchStatusBar == OpenButton(handleBatchStatus, Roles)

\* One barrel.  Its history of owners may fail without a word.
loadBarrel == {<<"barrelReads", "findById">>, <<"barrelReads", "getTimeline">>}
loadOwners == {<<"barrelReads", "getOwnershipHistory">>}

BarrelPage == PageForAll(loadBarrel, loadOwners)

\* Both load the barrel again before they end, the transfer without a word of
\* a failure.
handleTransfer == Handler(<<"barrels", "transferBarrel">>, "row", "transferring", "quietly")
TransferDialog == Button(handleTransfer, {"ADMIN", "SUPER_ADMIN"})

handleSendToMaintenance ==
  Handler(<<"maintenance", "createOrder">>, "row", "maintenanceSubmitting", "within")
SendToMaintenanceDialog == Button(handleSendToMaintenance, Repairs)

\* Labels for barrels that have none, one by one or from a spreadsheet.
fetchUnlinked == {<<"barrelReads", "findUnlinked">>}

LinkQrPage == PageForAll(fetchUnlinked, {})

\* The barrel goes from the list and the next one is selected.
handleLinkScan == Handler(<<"barrels", "linkQr">>, "select", "none", "next")
LinkScanner == OpenButton(handleLinkScan, Roles)

handleExportUnlinked ==
  Handler(<<"barrelReads", "exportUnlinked">>, "new", "none", "nothing")
ExportUnlinkedButton == OpenButton(handleExportUnlinked, Roles)

handleUploadLinkFile == Handler(<<"barrels", "batchLinkQr">>, "new", "uploading", "reload")
UploadLinkButton == Button(handleUploadLinkFile, Roles)

\* The page keeps its own list of what was scanned.
QuickRegisterPage == PageForAll({}, {})

handleQuickScan == Handler(<<"barrels", "scanOrCreate">>, "new", "none", "nothing")
QuickScanner == OpenButton(handleQuickScan, Roles)

-----------------------------------------------------------------------------
(***************************************************************************)
(* Clients, geofences, components, users                                   *)
(***************************************************************************)

fetchClients == {<<"clients", "findAll">>}

\* The clients stay on the screen while they are loaded again.
ClientsPage == [PageFor(Office, fetchClients, {}) EXCEPT !.hides = FALSE]

handleCreateClient == Handler(<<"clients", "create">>, "new", "creating", "reload")
CreateClientDialog == Button(handleCreateClient, Roles)

handleEditClient == Handler(<<"clients", "update">>, "row", "editing", "reload")
EditClientDialog == Button(handleEditClient, Roles)

handleDeleteClient == Handler(<<"clients", "delete">>, "row", "deleting", "reload")
DeleteClientDialog == Button(handleDeleteClient, Roles)

fetchGeofences == {<<"geofences", "findAll">>}

GeofencesPage == PageFor(Office, fetchGeofences, {})

handleCreateGeofence == Handler(<<"geofences", "create">>, "new", "creating", "reload")
CreateGeofenceDialog == Button(handleCreateGeofence, Roles)

handleEditGeofence == Handler(<<"geofences", "update">>, "row", "editing", "reload")
EditGeofenceDialog == Button(handleEditGeofence, Roles)

handleDeleteGeofence == Handler(<<"geofences", "delete">>, "row", "deleting", "reload")
DeleteGeofenceDialog == Button(handleDeleteGeofence, Roles)

fetchComponents == {<<"components", "findAll">>}

ComponentsPage == PageFor(Admin, fetchComponents, {})

handleCreateComponent == Handler(<<"components", "create">>, "new", "creating", "reload")
CreateComponentDialog == Button(handleCreateComponent, Roles)

handleEditComponent == Handler(<<"components", "update">>, "row", "editing", "reload")
EditComponentDialog == Button(handleEditComponent, Roles)

fetchUsers == {<<"users", "findAll">>}

UsersPage == PageFor(Admin, fetchUsers, {})

handleCreateUser == Handler(<<"users", "create">>, "new", "creating", "reload")
CreateUserDialog == Button(handleCreateUser, Roles)

\* Its flag names the user whose button is disabled.
toggleUserStatus == Handler(<<"users", "deactivate">>, "row", "togglingId", "reload")
ToggleUserButton == Button(toggleUserStatus, Roles)

-----------------------------------------------------------------------------
(***************************************************************************)
(* Dashboard, reports, logistics, the search of the layout                 *)
(***************************************************************************)

\* Five queries of their own; the page waits for the first.
DashboardPage ==
  PageFor(Office, {<<"dashboard", "getFleetHealth">>},
          {<<"dashboard", "getCostPerLiter">>, <<"dashboard", "getAssetTurnover">>,
           <<"alerts", "getCounts">>, <<"reports", "getBigNumbers">>})

\* The tab and the period choose the report.
ReportsPage ==
  PageFor(Office, {<<"reports", "getAssetReport">>, <<"reports", "getMaintenanceReport">>,
                   <<"reports", "getDisposalReport">>, <<"reports", "getComponentReport">>,
                   <<"reports", "getLossAnalysis">>},
          {<<"dashboard", "getCostPerLiter">>, <<"dashboard", "getAssetTurnover">>,
           <<"dashboard", "getLossReport">>})

\* It asks the server for nothing.
LogisticsPage == PageFor(Yard, {}, {})

\* Three searches, each of which may fail without a word.
GlobalSearch ==
  PageForAll(fetchBarrels, fetchClients \cup fetchGeofences)

-----------------------------------------------------------------------------
(***************************************************************************)
(* The pages of the super administrator                                    *)
(***************************************************************************)

fetchTenants == {<<"superAdmin", "listTenants">>}

TenantsPage == PageUnder(fetchTenants, {})

\* The users of a brewery; the brewery itself is loaded apart.
fetchTenant == {<<"superAdmin", "getTenant">>}
fetchTenantUsers == {<<"superAdmin", "listTenantUsers">>}

TenantPage == PageUnder(fetchTenantUsers, fetchTenant)

handleToggleStatus ==
  Handler(<<"superAdmin", "updateTenantStatus">>, "new", "togglingStatus", "nothing")
ToggleStatusButton == Button(handleToggleStatus, Roles)

handleUnlockUser == Handler(<<"superAdmin", "unlockUser">>, "row", "unlockingUser", "reload")
UnlockUserButton == Button(handleUnlockUser, Roles)

handleCreateTenantAdmin ==
  Handler(<<"superAdmin", "createTenantAdmin">>, "new", "creating", "reload")
CreateTenantAdminDialog == Button(handleCreateTenantAdmin, Roles)

handleResetPassword == Handler(<<"superAdmin", "resetPassword">>, "row", "resetting", "reload")
ResetPasswordDialog == Button(handleResetPassword, Roles)

\* Two steps: the brewery, then its administrator, who may be skipped.
NewTenantPage == PageUnder({}, {})

handleCreateTenant == Handler(<<"superAdmin", "createTenant">>, "new", "loading", "step")
CreateTenantForm == Button(handleCreateTenant, Roles)

handleCreateAdmin ==
  Handler(<<"superAdmin", "createTenantAdmin">>, "held", "loading", "nothing")
CreateAdminForm == Button(handleCreateAdmin, Roles)

fetchBatches == {<<"superAdmin", "listBatches">>}

\* The statistics may fail without a word.
BatchesPage ==
  PageUnder(fetchBatches, {<<"superAdmin", "getBatchStats">>} \cup fetchTenants)

handleGenerate == Handler(<<"barrels", "generateBatch">>, "new", "generating", "reload")
GenerateButton == Button(handleGenerate, Roles)

handleExport == Handler(<<"superAdmin", "exportBatch">>, "row", "none", "reload")
ExportButton == OpenButton(handleExport, Roles)

\* The export is part of it.
handlePrint == Handler(<<"superAdmin", "printBatch">>, "row", "none", "reload")
PrintDialog == OpenButton(handlePrint, Roles)

TransferPage == PageUnder({}, fetchTenants)

\* A barrel is looked for with the scan of the breweries.
handleSearch == Handler(<<"barrels", "scanOrCreate">>, "new", "searching", "nothing")
SearchButton == Button(handleSearch, Roles)

handleTransferBatch ==
  Handler(<<"superAdmin", "transferBatch">>, "new", "transferring", "nothing")
ConfirmTransferDialog == Button(handleTransferBatch, Roles)

AuditPage == PageUnder({<<"superAdmin", "getAuditLogs">>}, {})
=============================================================================
