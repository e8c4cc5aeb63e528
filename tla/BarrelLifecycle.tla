--------------------------- MODULE BarrelLifecycle ---------------------------
(***************************************************************************)
(* The working life of one registered barrel: its status, the cycles of    *)
(* the barrel and of one critical component, the maintenance orders, the   *)
(* disposals and the MAINTENANCE_DUE_ON_RETURN alerts that concern it.     *)
(* Translated from logistics.service.ts, maintenance.service.ts,           *)
(* disposal.service.ts, alert.service.ts, component.service.ts, the job    *)
(* checkLostBarrels of alert-jobs.service.ts and batchUpdateStatus of      *)
(* barrel.service.ts, all under backend/src.                               *)
(*                                                                         *)
(* No service locks the barrel and only a few of the reads and writes share *)
(* a transaction, so each await that reads or writes this state is one     *)
(* action, the requests of Proc interleave between any two of them and, if *)
(* "crash" is served, end between any two of them.  Every operation takes  *)
(* one barrelId or treats a list of them one by one: one barrel is enough. *)
(* Rows nothing reads back (logistics events, triages, maintenance logs)   *)
(* are left out.                                                           *)
(***************************************************************************)
EXTENDS Integers, FiniteSets

CONSTANTS
  Proc,        \* slots for requests and jobs being served at the same time
  Orders,      \* bound of the model: the maintenance orders of the barrel
  Disposals,   \* bound of the model: its disposals
  MaxCycles,   \* maxCycles of the component's config
  MaxReturns,  \* bound of the model: how often the barrel comes back and is cycled
  BlockMode,   \* the tenant's setting maintenanceBlockMode
  Serves       \* bound of the model: the kinds of request that arrive

Status == {"PRE_REGISTERED", "ACTIVE", "IN_TRANSIT", "AT_CLIENT", "IN_YARD",
           "IN_MAINTENANCE", "BLOCKED", "DISPOSED", "LOST"}
HealthScores == {"GREEN", "YELLOW", "RED"}
AlertStatus == {"ACTIVE", "ACKNOWLEDGED", "RESOLVED"}
Kinds == {"logistics", "yard", "status", "order", "cron", "checklist", "triage",
          "disposal", "lost", "alert", "crash"}

ASSUME LifecycleAssumption ==
  /\ IsFiniteSet(Proc)
  /\ MaxCycles \in Nat \ {0}
  /\ MaxReturns \in Nat
  /\ BlockMode \in {"ADVISORY", "MANDATORY"}
  /\ Serves \subseteq Kinds
  /\ "-" \notin Orders

VARIABLES
  status,       \* barrels.status
  totalCycles,  \* barrels.totalCycles
  cyclesSinceLastService,  \* of the component
  healthScore,  \* of the component, as stored
  orders,       \* maintenance_orders of the barrel, by id
  disposals,    \* disposals of the barrel, by id
  dueAlerts,    \* the statuses of its MAINTENANCE_DUE_ON_RETURN alerts
  req,          \* the requests being served
  returns,      \* how often the barrel was received     (history variable)
  approved,     \* the disposals ever approved           (history variable)
  byHand,       \* a user set DISPOSED in bulk           (history variable)
  cut           \* what a lost request left half done    (history variable)

barrelVars == <<status, totalCycles>>
componentVars == <<cyclesSinceLastService, healthScore>>
paperVars == <<orders, disposals, dueAlerts>>
historyVars == <<returns, approved, byHand, cut>>
vars == <<barrelVars, componentVars, paperVars, req, historyVars>>

\* SCHEDULED is PENDING with a date to come.  No code sets IN_PROGRESS and
\* CANCELLED of an order, nor SUGGESTED and REJECTED of a disposal.
OrderStatus == {"none", "PENDING", "SCHEDULED", "COMPLETED"}
DisposalStatus == {"none", "PENDING_APPROVAL", "APPROVED", "COMPLETED", "deleted"}

\* What the four logistics actions ask for and lead to.
Trip == [EXPEDITION |-> [from |-> "ACTIVE",     to |-> "IN_TRANSIT"],
         DELIVERY   |-> [from |-> "IN_TRANSIT", to |-> "AT_CLIENT"],
         COLLECTION |-> [from |-> "AT_CLIENT",  to |-> "IN_TRANSIT"],
         RECEPTION  |-> [from |-> "IN_TRANSIT", to |-> "IN_YARD"]]

Steps == {"idle", "move", "recalculate", "health", "due", "dueAlert", "orderRead",
          "orderStatus", "orderCreate", "yard", "components", "status", "cron", "reset",
          "finish", "commit", "approve", "dispose", "completed", "restore", "remove", "lost"}

\* A request: the await it runs next, for whom, what it has read or was
\* asked for, and the row it works on.
Request == [pc : Steps, by : {"-", "reception", "checklist"},
            arg : {"-"} \cup DOMAIN Trip \cup HealthScores \cup Status \cup {"SCHEDULED", "PENDING"},
            obj : {"-"} \cup Orders \cup Disposals]

Ask(pc, by, arg, obj) == [pc |-> pc, by |-> by, arg |-> arg, obj |-> obj]
Idle == Ask("idle", "-", "-", "-")

Begin(p, kind, r) ==
  /\ kind \in Serves
  /\ req[p].pc = "idle"
  /\ req' = [req EXCEPT ![p] = r]

Goto(p, pc, arg) == req' = [req EXCEPT ![p] = Ask(pc, req[p].by, arg, req[p].obj)]
Ends(p) == req' = [req EXCEPT ![p] = Idle]

\* The process stops or a connection drops: what was written stays.
Crash(p) ==
  /\ "crash" \in Serves
  /\ req[p].pc # "idle"
  /\ cut' = cut \cup (CASE req[p].pc \in {"orderRead", "orderStatus", "orderCreate"} -> {"order"}
                       [] req[p].pc \in {"recalculate", "health"} -> {"score"}
                       [] OTHER -> {})
  /\ Ends(p)
  /\ UNCHANGED <<barrelVars, componentVars, paperVars, returns, approved, byHand>>

-----------------------------------------------------------------------------
(***************************************************************************)
(* LogisticsService: expedition, delivery, collection, reception           *)
(***************************************************************************)

\* Faulty: an expedition that does not look at the components.
LogisticsCheckStatusOnly(p, action) ==
  /\ status = Trip[action].from
  /\ action = "RECEPTION" => returns < MaxReturns
  /\ Begin(p, "logistics", Ask("move", "-", action, "-"))
  /\ UNCHANGED <<barrelVars, componentVars, paperVars, historyVars>>

\* findById and the checks on what it returned.
LogisticsCheck(p, action) ==
  /\ status = Trip[action].from
  /\ action = "EXPEDITION" => healthScore # "RED"
  /\ action = "RECEPTION" => returns < MaxReturns
  /\ Begin(p, "logistics", Ask("move", "-", action, "-"))
  /\ UNCHANGED <<barrelVars, componentVars, paperVars, historyVars>>

\* barrel.update by id, whatever its status is by now.
LogisticsMove(p) ==
  /\ req[p].pc = "move"
  /\ status' = Trip[req[p].arg].to
  /\ IF req[p].arg = "RECEPTION"
     THEN /\ returns' = returns + 1
          /\ req' = [req EXCEPT ![p] = Ask("recalculate", "reception", "-", "-")]
     ELSE UNCHANGED returns /\ Ends(p)
  /\ UNCHANGED <<totalCycles, componentVars, paperVars, approved, byHand, cut>>

-----------------------------------------------------------------------------
(***************************************************************************)
(* ComponentService: recalculateBarrelHealth, for reception and checklist  *)
(***************************************************************************)

\* The scores calculateHealthScore can give after so many cycles: the days
\* since the last service, which are not modelled, only make it worse.
ScoresAfter(n) ==
  CASE n = 0 -> {"GREEN"}
    [] n > 0 /\ 100 * n < 80 * MaxCycles -> HealthScores
    [] n < MaxCycles /\ 100 * n >= 80 * MaxCycles -> {"YELLOW", "RED"}
    [] n >= MaxCycles -> {"RED"}

\* The cycles are read, the score is computed, and written later.
RecalculateRead(p) ==
  /\ req[p].pc = "recalculate"
  /\ \E score \in ScoresAfter(cyclesSinceLastService) : Goto(p, "health", score)
  /\ UNCHANGED <<barrelVars, componentVars, paperVars, historyVars>>

RecalculateWrite(p) ==
  /\ req[p].pc = "health"
  /\ healthScore' = req[p].arg
  /\ Goto(p, IF req[p].by = "reception" THEN "due" ELSE "finish", "-")
  /\ UNCHANGED <<barrelVars, cyclesSinceLastService, paperVars, historyVars>>

-----------------------------------------------------------------------------
(***************************************************************************)
(* MaintenanceService                                                      *)
(***************************************************************************)

\* The stored scores are read.
checkMaintenanceDueOnReturn(p) ==
  /\ req[p].pc = "due"
  /\ IF healthScore = "GREEN" THEN Ends(p) ELSE Goto(p, "dueAlert", healthScore)
  /\ UNCHANGED <<barrelVars, componentVars, paperVars, historyVars>>

\* alert.create; its unique index admits one alert of a type in a status, and
\* the request fails when there is one already.
DueAlert(p) ==
  /\ req[p].pc = "dueAlert"
  /\ dueAlerts' = dueAlerts \cup {"ACTIVE"}
  /\ IF "ACTIVE" \notin dueAlerts /\ BlockMode = "MANDATORY" /\ req[p].arg = "RED"
     THEN Goto(p, "orderRead", "PENDING") ELSE Ends(p)
  /\ UNCHANGED <<barrelVars, componentVars, orders, disposals, historyVars>>

\* createOrder by a user: at once or for a date more than an hour away.
createOrder(p, kind) ==
  /\ Begin(p, "order", Ask("orderRead", "-", kind, "-"))
  /\ UNCHANGED <<barrelVars, componentVars, paperVars, historyVars>>

OrderRead(p) ==
  /\ req[p].pc = "orderRead"
  /\ IF status \in {"DISPOSED", "LOST"} THEN Ends(p)
     ELSE Goto(p, IF req[p].arg = "SCHEDULED" THEN "orderCreate" ELSE "orderStatus", req[p].arg)
  /\ UNCHANGED <<barrelVars, componentVars, paperVars, historyVars>>

OrderStatusWrite(p) ==
  /\ req[p].pc = "orderStatus"
  /\ status' = "IN_MAINTENANCE"
  /\ Goto(p, "orderCreate", req[p].arg)
  /\ UNCHANGED <<totalCycles, componentVars, paperVars, historyVars>>

OrderCreate(p, o) ==
  /\ req[p].pc = "orderCreate"
  /\ orders[o] = "none"
  /\ orders' = [orders EXCEPT ![o] = req[p].arg]
  /\ Ends(p)
  /\ UNCHANGED <<barrelVars, componentVars, disposals, dueAlerts, historyVars>>

\* The orders whose date has come are selected, and then their barrels are
\* written; the orders stay PENDING and are selected again the next day.
activateScheduledOrders(p) ==
  /\ \E o \in Orders : orders[o] = "SCHEDULED"
  /\ Begin(p, "cron", Ask("cron", "-", "-", "-"))
  /\ UNCHANGED <<barrelVars, componentVars, paperVars, historyVars>>

CronWrite(p) ==
  /\ req[p].pc = "cron"
  /\ status' = "IN_MAINTENANCE"
  /\ Ends(p)
  /\ UNCHANGED <<totalCycles, componentVars, paperVars, historyVars>>

\* For an order or for none, with the component replaced or only inspected.
registerChecklist(p, obj, replaced) ==
  /\ obj \in Orders => orders[obj] # "none"
  /\ Begin(p, "checklist",
           Ask(IF replaced THEN "reset" ELSE "recalculate", "checklist", "-", obj))
  /\ UNCHANGED <<barrelVars, componentVars, paperVars, historyVars>>

ResetComponent(p) ==
  /\ req[p].pc = "reset"
  /\ cyclesSinceLastService' = 0
  /\ Goto(p, "recalculate", "-")
  /\ UNCHANGED <<barrelVars, healthScore, paperVars, historyVars>>

Open == {o \in Orders : orders[o] \in {"PENDING", "SCHEDULED"}}

\* Faulty: the open orders are counted before the order is completed.
FinishCountFirst(p) ==
  /\ req[p].pc = "finish"
  /\ \A q \in Proc : req[q].pc = "commit" => req[q].obj = "-" \/ req[q].obj # req[p].obj
  /\ Goto(p, "commit", IF Open = {} THEN "ACTIVE" ELSE "-")
  /\ UNCHANGED <<barrelVars, componentVars, paperVars, historyVars>>

\* The transaction completes its order, which locks the row, and counts the
\* orders that are open in what it can read: its own write and what others
\* have committed ...
FinishCount(p) ==
  /\ req[p].pc = "finish"
  /\ \A q \in Proc : req[q].pc = "commit" => req[q].obj = "-" \/ req[q].obj # req[p].obj
  /\ Goto(p, "commit", IF Open \subseteq {req[p].obj} THEN "ACTIVE" ELSE "-")
  /\ UNCHANGED <<barrelVars, componentVars, paperVars, historyVars>>

\* ... and commits: the barrel is ACTIVE again if it counted none.
FinishCommit(p) ==
  /\ req[p].pc = "commit"
  /\ orders' = [o \in Orders |-> IF o = req[p].obj THEN "COMPLETED" ELSE orders[o]]
  /\ status' = IF req[p].arg = "ACTIVE" THEN "ACTIVE" ELSE status
  /\ Ends(p)
  /\ UNCHANGED <<totalCycles, componentVars, disposals, dueAlerts, historyVars>>

\* Faulty: the result of the triage is written, not the status it stands for.
registerTriageResult(p, outcome) ==
  /\ "triage" \in Serves
  /\ req[p].pc = "idle"
  /\ status' = IF outcome = "IN_MAINTENANCE" THEN "SENT_TO_MAINTENANCE" ELSE outcome
  /\ req' = IF outcome = "IN_MAINTENANCE"
            THEN [req EXCEPT ![p] = Ask("orderRead", "-", "PENDING", "-")] ELSE req
  /\ UNCHANGED <<totalCycles, componentVars, paperVars, historyVars>>

\* registerTriage reads nothing before it writes.
registerTriage(p, outcome) ==
  /\ "triage" \in Serves
  /\ req[p].pc = "idle"
  /\ status' = outcome
  /\ req' = IF outcome = "IN_MAINTENANCE"
            THEN [req EXCEPT ![p] = Ask("orderRead", "-", "PENDING", "-")] ELSE req
  /\ UNCHANGED <<totalCycles, componentVars, paperVars, historyVars>>

-----------------------------------------------------------------------------
(***************************************************************************)
(* BarrelService: batchUpdateStatus                                        *)
(***************************************************************************)

\* Faulty: the barrels are not filtered by status IN_YARD.
batchUpdateAnyStatus(p) ==
  /\ totalCycles < MaxReturns
  /\ Begin(p, "yard", Ask("yard", "-", "-", "-"))
  /\ UNCHANGED <<barrelVars, componentVars, paperVars, historyVars>>

\* To ACTIVE: the barrels in the yard are looked up ...
batchUpdateStatus(p) ==
  /\ totalCycles < MaxReturns
  /\ Begin(p, "yard", Ask(IF status = "IN_YARD" THEN "yard" ELSE "status", "-", "-", "-"))
  /\ UNCHANGED <<barrelVars, componentVars, paperVars, historyVars>>

\* ... and updated by id, with one more cycle,
YardWrite(p) ==
  /\ req[p].pc = "yard"
  /\ status' = "ACTIVE"
  /\ totalCycles' = totalCycles + 1
  /\ Goto(p, "components", "-")
  /\ UNCHANGED <<componentVars, paperVars, historyVars>>

\* and then their components.
ComponentsWrite(p) ==
  /\ req[p].pc = "components"
  /\ cyclesSinceLastService' = cyclesSinceLastService + 1
  /\ Ends(p)
  /\ UNCHANGED <<barrelVars, healthScore, paperVars, historyVars>>

\* Faulty: the components of every barrel of the request are cycled.
StatusWriteAndComponents(p) ==
  /\ req[p].pc = "status"
  /\ status' = "ACTIVE"
  /\ Goto(p, "components", "-")
  /\ UNCHANGED <<totalCycles, componentVars, paperVars, historyVars>>

\* The barrels that were not in the yard only change their status.
StatusWrite(p) ==
  /\ req[p].pc = "status"
  /\ status' = "ACTIVE"
  /\ Ends(p)
  /\ UNCHANGED <<totalCycles, componentVars, paperVars, historyVars>>

\* To any other status of the enum, from any status, at once.
batchSetStatus(p, target) ==
  /\ "status" \in Serves
  /\ req[p].pc = "idle"
  /\ target # "ACTIVE"
  /\ status' = target
  /\ byHand' = (byHand \/ target = "DISPOSED")
  /\ UNCHANGED <<totalCycles, componentVars, paperVars, req, returns, approved, cut>>

-----------------------------------------------------------------------------
(***************************************************************************)
(* AlertService: acknowledge, resolve.  AlertJobsService: checkLostBarrels *)
(***************************************************************************)

\* One alert changes its status; the unique index refuses the status of
\* another one.
SetAlert(p, target) ==
  /\ "alert" \in Serves
  /\ req[p].pc = "idle"
  /\ \E s \in dueAlerts :
       /\ target \in dueAlerts => s = target
       /\ dueAlerts' = (dueAlerts \ {s}) \cup {target}
  /\ UNCHANGED <<barrelVars, componentVars, orders, disposals, req, historyVars>>

acknowledge(p) == SetAlert(p, "ACKNOWLEDGED")
resolve(p) == SetAlert(p, "RESOLVED")

\* The barrels with no event for 60 days are selected ...
checkLostBarrels(p) ==
  /\ status \in {"AT_CLIENT", "IN_TRANSIT"}
  /\ Begin(p, "lost", Ask("lost", "-", "-", "-"))
  /\ UNCHANGED <<barrelVars, componentVars, paperVars, historyVars>>

\* ... and written by id, wherever they are by now.
LostWrite(p) ==
  /\ req[p].pc = "lost"
  /\ status' = "LOST"
  /\ Ends(p)
  /\ UNCHANGED <<totalCycles, componentVars, paperVars, historyVars>>

-----------------------------------------------------------------------------
(***************************************************************************)
(* DisposalService                                                         *)
(***************************************************************************)

\* create looks at no status, neither of the barrel nor of other disposals.
disposalCreate(p, d) ==
  /\ "disposal" \in Serves
  /\ req[p].pc = "idle"
  /\ disposals[d] = "none"
  /\ disposals' = [disposals EXCEPT ![d] = "PENDING_APPROVAL"]
  /\ UNCHANGED <<barrelVars, componentVars, orders, dueAlerts, req, historyVars>>

\* Faulty: complete does not ask for the approval.
disposalCheckLax(p, d) ==
  /\ \/ disposals[d] = "PENDING_APPROVAL" /\ Begin(p, "disposal", Ask("approve", "-", "-", d))
     \/ disposals[d] \in {"PENDING_APPROVAL", "APPROVED"}
          /\ Begin(p, "disposal", Ask("dispose", "-", "-", d))
     \/ disposals[d] = "COMPLETED" /\ Begin(p, "disposal", Ask("restore", "-", "-", d))
  /\ UNCHANGED <<barrelVars, componentVars, paperVars, historyVars>>

\* approve, complete and revert check the status of the disposal first.
disposalCheck(p, d) ==
  /\ \/ disposals[d] = "PENDING_APPROVAL" /\ Begin(p, "disposal", Ask("approve", "-", "-", d))
     \/ disposals[d] = "APPROVED" /\ Begin(p, "disposal", Ask("dispose", "-", "-", d))
     \/ disposals[d] = "COMPLETED" /\ Begin(p, "disposal", Ask("restore", "-", "-", d))
  /\ UNCHANGED <<barrelVars, componentVars, paperVars, historyVars>>

\* disposal.update by id; it fails when revert has deleted the row.
SetDisposal(d, s) ==
  disposals' = IF disposals[d] = "deleted" THEN disposals ELSE [disposals EXCEPT ![d] = s]

approve(p) ==
  /\ req[p].pc = "approve"
  /\ SetDisposal(req[p].obj, "APPROVED")
  /\ approved' = approved \cup {req[p].obj}
  /\ Ends(p)
  /\ UNCHANGED <<barrelVars, componentVars, orders, dueAlerts, returns, byHand, cut>>

\* complete: the barrel first, then the disposal.
complete(p) ==
  /\ req[p].pc = "dispose"
  /\ status' = "DISPOSED"
  /\ Goto(p, "completed", "-")
  /\ UNCHANGED <<totalCycles, componentVars, paperVars, historyVars>>

CompleteWrite(p) ==
  /\ req[p].pc = "completed"
  /\ SetDisposal(req[p].obj, "COMPLETED")
  /\ Ends(p)
  /\ UNCHANGED <<barrelVars, componentVars, orders, dueAlerts, historyVars>>

\* Faulty: revert deletes the disposal and then restores the barrel.
revertDeleteFirst(p) ==
  /\ req[p].pc = "restore"
  /\ SetDisposal(req[p].obj, "deleted")
  /\ Goto(p, "status", "-")
  /\ UNCHANGED <<barrelVars, componentVars, orders, dueAlerts, historyVars>>

\* revert: the barrel first, then the disposal.
revert(p) ==
  /\ req[p].pc = "restore"
  /\ status' = "ACTIVE"
  /\ Goto(p, "remove", "-")
  /\ UNCHANGED <<totalCycles, componentVars, paperVars, historyVars>>

RevertDelete(p) ==
  /\ req[p].pc = "remove"
  /\ SetDisposal(req[p].obj, "deleted")
  /\ Ends(p)
  /\ UNCHANGED <<barrelVars, componentVars, orders, dueAlerts, historyVars>>

-----------------------------------------------------------------------------
\* A barrel that has just been registered.
Init ==
  /\ status = "ACTIVE"
  /\ totalCycles = 0
  /\ cyclesSinceLastService = 0
  /\ healthScore = "GREEN"
  /\ orders = [o \in Orders |-> "none"]
  /\ disposals = [d \in Disposals |-> "none"]
  /\ dueAlerts = {}
  /\ req = [p \in Proc |-> Idle]
  /\ returns = 0
  /\ approved = {}
  /\ byHand = FALSE
  /\ cut = {}

Arrives(p) ==
  \/ \E action \in DOMAIN Trip : LogisticsCheck(p, action)
  \/ \E kind \in {"PENDING", "SCHEDULED"} : createOrder(p, kind)
  \/ activateScheduledOrders(p)
  \/ \E obj \in Orders \cup {"-"}, replaced \in BOOLEAN : registerChecklist(p, obj, replaced)
  \/ \E outcome \in {"ACTIVE", "BLOCKED", "IN_MAINTENANCE"} : registerTriage(p, outcome)
  \/ batchUpdateStatus(p)
  \/ \E target \in Status : batchSetStatus(p, target)
  \/ acknowledge(p)
  \/ resolve(p)
  \/ checkLostBarrels(p)
  \/ \E d \in Disposals : disposalCreate(p, d) \/ disposalCheck(p, d)

Continues(p) ==
  \/ LogisticsMove(p)
  \/ RecalculateRead(p)
  \/ RecalculateWrite(p)
  \/ checkMaintenanceDueOnReturn(p)
  \/ DueAlert(p)
  \/ OrderRead(p)
  \/ OrderStatusWrite(p)
  \/ \E o \in Orders : OrderCreate(p, o)
  \/ CronWrite(p)
  \/ ResetComponent(p)
  \/ FinishCount(p)
  \/ FinishCommit(p)
  \/ YardWrite(p)
  \/ ComponentsWrite(p)
  \/ StatusWrite(p)
  \/ LostWrite(p)
  \/ approve(p)
  \/ complete(p)
  \/ CompleteWrite(p)
  \/ revert(p)
  \/ RevertDelete(p)

Next == \E p \in Proc : Arrives(p) \/ Continues(p) \/ Crash(p)

Spec == Init /\ [][Next]_vars

-----------------------------------------------------------------------------
(***************************************************************************)
(* Properties                                                              *)
(***************************************************************************)

\* Type invariant: the shape of the rows and of the requests.
TypeOK ==
  /\ status \in Status
  /\ totalCycles \in Nat
  /\ cyclesSinceLastService \in Nat
  /\ healthScore \in HealthScores
  /\ orders \in [Orders -> OrderStatus]
  /\ disposals \in [Disposals -> DisposalStatus]
  /\ dueAlerts \in SUBSET AlertStatus
  /\ req \in [Proc -> Request]
  /\ returns \in Nat
  /\ approved \in SUBSET Disposals
  /\ byHand \in BOOLEAN
  /\ cut \in SUBSET {"order", "score"}

\* A component is never older than its barrel: batchUpdateStatus and the
\* checklists race without a lock, yet no order of their writes, complete or
\* cut short, cycles a component more often than the barrel.
ComponentNeverAhead == cyclesSinceLastService <= totalCycles

\* Nobody disposes of a barrel without an approval (RULES.md, 7), however the
\* steps of approve, complete and revert interleave; batchUpdateStatus is the
\* only other way to DISPOSED.
DisposedOnlyApproved == status = "DISPOSED" => approved # {} \/ byHand

\* With requests served one after the other the barrel counts one cycle per
\* return at most, as logistics.service.ts says of reception.
OneCyclePerReturn == totalCycles <= returns

\* What the audit of the database (prisma/audit-db.ts) reports of the barrel's
\* status, in two queries.
auditDisposedNoDisposal ==
  status = "DISPOSED" /\ \A d \in Disposals : disposals[d] \notin {"APPROVED", "COMPLETED"}
auditMaintenanceNoOrder == status = "IN_MAINTENANCE" /\ Open = {}

\* With requests served one after the other, a barrel that complete disposed
\* of has a disposal that says so: complete and revert, cut short between their
\* two writes, never leave it without one.
DisposedHasPaper == ~auditDisposedNoDisposal

\* With requests served one after the other, a barrel is in maintenance for an
\* order that is open or about to be created, unless triage or createOrder was
\* cut short before it created the order: the audit's issue "IN_MAINTENANCE sem
\* OS ativa" has no other cause.
MaintenanceHasOrder ==
  auditMaintenanceNoOrder =>
    \/ \E p \in Proc : req[p].pc \in {"orderRead", "orderStatus", "orderCreate"}
    \/ "order" \in cut

\* expedition trusts the score that the last reception stored, before the cycle
\* of that return was counted.  With requests served one after the other that
\* lets a barrel out at most one cycle late, unless a reception was cut short
\* before it stored the score.
AtMostOneCycleLate ==
  status \in {"IN_TRANSIT", "AT_CLIENT"} =>
    cyclesSinceLastService <= MaxCycles \/ "score" \in cut

Quiet == \A p \in Proc : req[p].pc = "idle"

\* In MANDATORY mode, a barrel whose component was found RED on its return has
\* a maintenance order (maintenance.service.ts, above checkMaintenanceDueOnReturn).
MandatoryRedHasOrder ==
  Quiet /\ BlockMode = "MANDATORY" /\ status = "IN_YARD" /\ healthScore = "RED" => Open # {}

\* When nobody is at work, a barrel none of whose orders is open has gone back
\* from maintenance (maintenance.service.ts, the transaction of registerChecklist).
BackFromMaintenance == Quiet => ~auditMaintenanceNoOrder
=============================================================================
