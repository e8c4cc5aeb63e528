-------------------------------- MODULE Alerts --------------------------------
(***************************************************************************)
(* The alerts about barrels and what raises them: the scheduled jobs of    *)
(* alert-jobs.service.ts, the users of alert.service.ts, the checklist of  *)
(* maintenance.service.ts, and the clients and geofences they look at      *)
(* (client.service.ts, geofence.service.ts), all under backend/src.        *)
(*                                                                         *)
(* A job reads, in one query per tenant, the barrels that deserve an alert *)
(* and have none, and inserts the alerts in another; users, deliveries and *)
(* checklists come between.  Time is what the queries compare: the age of  *)
(* the last event of a barrel, of an order, of a delivery.                 *)
(***************************************************************************)
EXTENDS Integers, FiniteSets

CONSTANTS
  Barrel,
  Client,
  Elsewhere,   \* a place far from every client
  NoClient,    \* null
  Serves       \* bound of the model: the sets of kinds that are served together

Job == {"checkComponentHealth", "checkIdleBarrels", "checkMaintenanceOverdue",
        "checkLostBarrels", "checkGeofenceViolations"}

\* The type of the alerts that a job creates.
AlertType == [checkComponentHealth    |-> "COMPONENT_END_OF_LIFE",
              checkIdleBarrels        |-> "IDLE_AT_CLIENT",
              checkMaintenanceOverdue |-> "MANDATORY_INSPECTION",
              checkLostBarrels        |-> "DISPOSAL_SUGGESTED",
              checkGeofenceViolations |-> "GEOFENCE_VIOLATION"]
AlertTypes == {AlertType[j] : j \in Job}
AlertStatus == {"ACTIVE", "ACKNOWLEDGED", "RESOLVED"}
Kinds == Job \cup {"alert", "checklist", "client", "geofence", "delivery", "failure"}

ASSUME AlertsAssumption ==
  /\ Serves \subseteq SUBSET Kinds
  /\ Elsewhere \notin Client
  /\ NoClient \notin Client

Place == Client \cup {Elsewhere}

VARIABLES
  barrels,   \* what the queries look at, of each barrel
  alerts,    \* its alerts: by type and status, with or without resolvedAt
  jobs,      \* the jobs at work: the await each runs next, and what it has read
  closing,   \* barrels whose checklist is stored and whose alerts are not closed
  clients,   \* clients.isActive and deletedAt, and the request at work on each
  fences,    \* the geofences of each client: at its door or not, active or not
  told,      \* CLIENT_DEACTIVATED_WITH_BARRELS: the barrels of each alert
  served,    \* the kinds that are served
  stayed,    \* by client: barrels there since it was deactivated (history variable)
  cut        \* barrels marked LOST by a job that then failed (history variable)

yardVars == <<barrels, closing, stayed>>
clientVars == <<clients, fences, told>>
vars == <<yardVars, alerts, jobs, clientVars, served, cut>>

\* A delivery of the last hour: to whom, and where the driver was.
NoDelivery == [to |-> NoClient, at |-> Elsewhere]

\* Once a barrel has an alert of a type in a status it has no second one.
Rows == [AlertStatus -> {"none", "open", "closed"}]
NoRows == [s \in AlertStatus |-> "none"]

NoRequest == [pc |-> "none", barrels |-> {}]

Has(b, type, s) == alerts[b][type][s] # "none"
Unresolved(b, type) == Has(b, type, "ACTIVE") \/ Has(b, type, "ACKNOWLEDGED")

-----------------------------------------------------------------------------
(***************************************************************************)
(* The jobs                                                                *)
(***************************************************************************)

Worn(b)    == barrels[b].worn /\ barrels[b].status = "ACTIVE"
Idle(b)    == barrels[b].status = "AT_CLIENT" /\ barrels[b].age \in {"idle", "stale"}
Overdue(b) == barrels[b].order = "overdue"
Stale(b)   == barrels[b].status \in {"AT_CLIENT", "IN_TRANSIT"} /\ barrels[b].age = "stale"

\* The condition of each query but for the alerts that exist.
Due(j, b) ==
  CASE j = "checkComponentHealth"    -> Worn(b)
    [] j = "checkIdleBarrels"        -> Idle(b)
    [] j = "checkMaintenanceOverdue" -> Overdue(b)
    [] j = "checkLostBarrels"        -> Stale(b)
    [] OTHER                         -> FALSE

Reads(j, found) ==
  /\ j \in served
  /\ jobs[j].pc = "none"
  /\ found # {}
  /\ jobs' = [jobs EXCEPT ![j] = [pc |-> IF j = "checkLostBarrels" THEN "mark" ELSE "create",
                                  barrels |-> found]]
  /\ UNCHANGED <<yardVars, alerts, clientVars, served, cut>>

\* Faulty: the query does not ask for the status of the alerts.
CheckAnyAlert(j) ==
  /\ j \in {"checkComponentHealth", "checkIdleBarrels", "checkMaintenanceOverdue"}
  /\ Reads(j, {b \in Barrel : Due(j, b) /\ alerts[b][AlertType[j]] = NoRows})

\* checkComponentHealth, checkIdleBarrels and checkMaintenanceOverdue.
CheckDue(j) ==
  /\ j \in {"checkComponentHealth", "checkIdleBarrels", "checkMaintenanceOverdue"}
  /\ Reads(j, {b \in Barrel : Due(j, b) /\ ~Unresolved(b, AlertType[j])})

\* Faulty: barrels on the road are not looked for.
CheckLostAtClient ==
  Reads("checkLostBarrels", {b \in Barrel : Stale(b) /\ barrels[b].status = "AT_CLIENT"})

checkLostBarrels ==
  Reads("checkLostBarrels", {b \in Barrel : Stale(b)})

\* The deliveries of the last hour to a client with geofences; of several the
\* Map keeps one, whichever comes last, active or not.
checkGeofenceViolations ==
  \E fence \in [Client -> Place \cup {NoClient}] :
    LET outside == {b \in Barrel : /\ barrels[b].delivery.to # NoClient
                                   /\ fence[barrels[b].delivery.to] # NoClient
                                   /\ fence[barrels[b].delivery.to] # barrels[b].delivery.at} IN
    /\ \A c \in Client : IF fences[c] = {} THEN fence[c] = NoClient
                         ELSE \E f \in fences[c] : fence[c] = f.at
    /\ Reads("checkGeofenceViolations", outside)

\* barrel.updateMany takes the barrels by id.
MarkLost ==
  LET j == "checkLostBarrels" IN
  /\ jobs[j].pc = "mark"
  /\ barrels' = [b \in Barrel |->
       IF b \in jobs[j].barrels THEN [barrels[b] EXCEPT !.status = "LOST"] ELSE barrels[b]]
  /\ stayed' = [c \in Client |-> stayed[c] \ jobs[j].barrels]
  /\ jobs' = [jobs EXCEPT ![j].pc = "create"]
  /\ UNCHANGED <<alerts, closing, clientVars, served, cut>>

\* Faulty: the alerts are made for what a second query finds.
CreateAlertsOfDue(j) ==
  /\ jobs[j].pc = "create"
  /\ alerts' = [b \in Barrel |->
       IF b \in jobs[j].barrels /\ Due(j, b) /\ ~Has(b, AlertType[j], "ACTIVE")
       THEN [alerts[b] EXCEPT ![AlertType[j]]["ACTIVE"] = "open"] ELSE alerts[b]]
  /\ jobs' = [jobs EXCEPT ![j] = NoRequest]
  /\ UNCHANGED <<yardVars, clientVars, served, cut>>

\* alert.createMany with skipDuplicates.
CreateAlerts(j) ==
  /\ jobs[j].pc = "create"
  /\ alerts' = [b \in Barrel |->
       IF b \in jobs[j].barrels /\ ~Has(b, AlertType[j], "ACTIVE")
       THEN [alerts[b] EXCEPT ![AlertType[j]]["ACTIVE"] = "open"] ELSE alerts[b]]
  /\ jobs' = [jobs EXCEPT ![j] = NoRequest]
  /\ UNCHANGED <<yardVars, clientVars, served, cut>>

\* An error is logged and the tenant left for the next run; or the server stops.
JobFails(j) ==
  /\ "failure" \in served
  /\ jobs[j].pc # "none"
  /\ cut' = IF j = "checkLostBarrels" /\ jobs[j].pc = "create"
            THEN cut \cup jobs[j].barrels ELSE cut
  /\ jobs' = [jobs EXCEPT ![j] = NoRequest]
  /\ UNCHANGED <<yardVars, alerts, clientVars, served>>

-----------------------------------------------------------------------------
(***************************************************************************)
(* Users and checklists                                                    *)
(***************************************************************************)

\* The row moves to another status, if the unique index has room for it.
Moves(b, type, from, to, mark) ==
  alerts' = [alerts EXCEPT ![b][type] = [@ EXCEPT ![from] = "none", ![to] = mark]]

acknowledge(b, type, s) ==
  /\ "alert" \in served
  /\ Has(b, type, s)
  /\ s = "ACKNOWLEDGED" \/ ~Has(b, type, "ACKNOWLEDGED")
  /\ Moves(b, type, s, "ACKNOWLEDGED", alerts[b][type][s])
  /\ UNCHANGED <<yardVars, jobs, clientVars, served, cut>>

\* Faulty: the status is set, resolvedAt is not.
ResolveStatus(b, type, s) ==
  /\ "alert" \in served
  /\ Has(b, type, s)
  /\ s = "RESOLVED" \/ ~Has(b, type, "RESOLVED")
  /\ Moves(b, type, s, "RESOLVED", alerts[b][type][s])
  /\ UNCHANGED <<yardVars, jobs, clientVars, served, cut>>

resolve(b, type, s) ==
  /\ "alert" \in served
  /\ Has(b, type, s)
  /\ s = "RESOLVED" \/ ~Has(b, type, "RESOLVED")
  /\ Moves(b, type, s, "RESOLVED", "closed")
  /\ UNCHANGED <<yardVars, jobs, clientVars, served, cut>>

\* registerMaintenance, as far as it concerns alerts: the transaction completes
\* the order and renews the components, and the barrel goes back to work.
Checklist(b) ==
  /\ "checklist" \in served
  /\ barrels[b].order # "none"
  /\ barrels' = [barrels EXCEPT ![b].order = "none", ![b].worn = FALSE, ![b].status = "ACTIVE"]
  /\ stayed' = [c \in Client |-> stayed[c] \ {b}]
  /\ closing' = closing \cup {b}
  /\ UNCHANGED <<alerts, jobs, clientVars, served, cut>>

\* ... and alert.updateMany sets resolvedAt, not the status.
CloseAlerts(b) ==
  /\ b \in closing
  /\ alerts' = [alerts EXCEPT ![b] = [type \in AlertTypes |->
       IF type \in {"COMPONENT_END_OF_LIFE", "MANDATORY_INSPECTION", "DISPOSAL_SUGGESTED"}
       THEN [s \in AlertStatus |-> IF @[type][s] = "open" THEN "closed" ELSE @[type][s]]
       ELSE @[type]]]
  /\ closing' = closing \ {b}
  /\ UNCHANGED <<barrels, stayed, jobs, clientVars, served, cut>>

-----------------------------------------------------------------------------
(***************************************************************************)
(* ClientService and GeofenceService                                       *)
(***************************************************************************)

Calls(c, r) ==
  /\ "client" \in served
  /\ clients[c].request.pc = "none"
  /\ clients' = [clients EXCEPT ![c] = r]

\* create: the geofence at the door is a write of its own.
createClient(c, located) ==
  /\ clients[c].state = "none"
  /\ Calls(c, [state |-> "active", request |-> [NoRequest EXCEPT !.pc = IF located THEN "fence" ELSE "none"]])
  /\ UNCHANGED <<yardVars, alerts, jobs, fences, told, served, cut>>

CreateFence(c) ==
  /\ clients[c].request.pc = "fence"
  /\ fences' = [fences EXCEPT ![c] = @ \cup {[at |-> c, on |-> TRUE]}]
  /\ clients' = [clients EXCEPT ![c].request = NoRequest]
  /\ UNCHANGED <<yardVars, alerts, jobs, told, served, cut>>

\* activate, update with isActive, and delete: one write.
SetClient(c, from, to) ==
  /\ clients[c].state \in from
  /\ Calls(c, [clients[c] EXCEPT !.state = to])
  /\ UNCHANGED <<yardVars, alerts, jobs, fences, told, served, cut>>

activate(c) == SetClient(c, {"active", "inactive"}, "active")
update(c, isActive) ==
  SetClient(c, {"active", "inactive"}, IF isActive THEN "active" ELSE "inactive")
delete(c) == SetClient(c, {"active", "inactive"}, "deleted")

\* deactivate reads the barrels at the client, writes the client, then the alert.
deactivate(c) ==
  LET pending == {b \in Barrel : barrels[b].status = "AT_CLIENT" /\ barrels[b].lastClient = c} IN
  /\ clients[c].state \in {"active", "inactive"}
  /\ Calls(c, [clients[c] EXCEPT !.request = [pc |-> "deactivate", barrels |-> pending]])
  /\ stayed' = [stayed EXCEPT ![c] = pending]
  /\ UNCHANGED <<barrels, closing, alerts, jobs, fences, told, served, cut>>

\* Faulty: nothing more to do for a client that is inactive already.
DeactivateActive(c) ==
  /\ clients[c].request.pc = "deactivate"
  /\ clients' = [clients EXCEPT ![c].state = "inactive", ![c].request =
       IF @.barrels = {} \/ clients[c].state = "inactive" THEN NoRequest ELSE [@ EXCEPT !.pc = "tell"]]
  /\ UNCHANGED <<yardVars, alerts, jobs, fences, told, served, cut>>

DeactivateClient(c) ==
  /\ clients[c].request.pc = "deactivate"
  /\ clients' = [clients EXCEPT ![c].state = "inactive", ![c].request =
       IF @.barrels = {} THEN NoRequest ELSE [@ EXCEPT !.pc = "tell"]]
  /\ UNCHANGED <<yardVars, alerts, jobs, fences, told, served, cut>>

TellBarrels(c) ==
  /\ clients[c].request.pc = "tell"
  /\ told' = [told EXCEPT ![c] = @ \cup {clients[c].request.barrels}]
  /\ clients' = [clients EXCEPT ![c].request = NoRequest]
  /\ UNCHANGED <<yardVars, alerts, jobs, fences, served, cut>>

\* A request ends between two writes; of a deactivation the alert is lost.
RequestFails(c) ==
  /\ "failure" \in served
  /\ clients[c].request.pc # "none"
  /\ clients' = [clients EXCEPT ![c].request = NoRequest]
  /\ stayed' = [stayed EXCEPT ![c] = {}]
  /\ UNCHANGED <<barrels, closing, alerts, jobs, fences, told, served, cut>>

\* create, update and delete of a geofence.
createGeofence(c, place) ==
  /\ "geofence" \in served
  /\ fences' = [fences EXCEPT ![c] = @ \cup {[at |-> place, on |-> TRUE]}]
  /\ UNCHANGED <<yardVars, alerts, jobs, clients, told, served, cut>>

updateGeofence(c, f, to) ==
  /\ "geofence" \in served
  /\ fences' = [fences EXCEPT ![c] = (@ \ {f}) \cup {to}]
  /\ UNCHANGED <<yardVars, alerts, jobs, clients, told, served, cut>>

deleteGeofence(c, f) ==
  /\ "geofence" \in served
  /\ fences' = [fences EXCEPT ![c] = @ \ {f}]
  /\ UNCHANGED <<yardVars, alerts, jobs, clients, told, served, cut>>

-----------------------------------------------------------------------------
(***************************************************************************)
(* What happens to barrels                                                 *)
(***************************************************************************)

\* findNearestClient: an active geofence around the place.
Nearest(place) == {c \in Client : [at |-> place, on |-> TRUE] \in fences[c]}

\* delivery: to the client that is given, or the one inferred from the place.
delivery(b, given, place) ==
  /\ "delivery" \in served
  /\ barrels[b].status = "IN_TRANSIT"
  /\ \E to \in IF given # NoClient THEN {given}
               ELSE IF Nearest(place) = {} THEN {NoClient} ELSE Nearest(place) :
       barrels' = [barrels EXCEPT ![b] = [@ EXCEPT
         !.status = "AT_CLIENT", !.age = "fresh", !.lastClient = to,
         !.delivery = [to |-> to, at |-> place]]]
  /\ UNCHANGED <<closing, stayed, alerts, jobs, clientVars, served, cut>>

\* Collection, and the rest of the way until the barrel is on the road again.
Travels(b, from, to) ==
  /\ barrels[b].status = from
  /\ barrels' = [barrels EXCEPT ![b].status = to, ![b].age = "fresh"]
  /\ stayed' = [c \in Client |-> stayed[c] \ {b}]
  /\ UNCHANGED <<closing, alerts, jobs, clientVars, served, cut>>

\* Fifteen days pass, then sixty, without an event.
DaysPass(b) ==
  /\ barrels[b].status \in {"AT_CLIENT", "IN_TRANSIT"}
  /\ barrels[b].age # "stale"
  /\ barrels' = [barrels EXCEPT ![b].age = IF @ = "fresh" THEN "idle" ELSE "stale"]
  /\ UNCHANGED <<closing, stayed, alerts, jobs, clientVars, served, cut>>

HourPasses(b) ==
  /\ barrels[b].delivery # NoDelivery
  /\ barrels' = [barrels EXCEPT ![b].delivery = NoDelivery]
  /\ UNCHANGED <<closing, stayed, alerts, jobs, clientVars, served, cut>>

\* A component turns YELLOW.
WearsOut(b) ==
  /\ "checkComponentHealth" \in served
  /\ ~barrels[b].worn
  /\ barrels' = [barrels EXCEPT ![b].worn = TRUE]
  /\ UNCHANGED <<closing, stayed, alerts, jobs, clientVars, served, cut>>

\* A maintenance order is created and stays PENDING for a week.
OrderAges(b) ==
  /\ "checklist" \in served
  /\ barrels[b].order # "overdue"
  /\ barrels' = [barrels EXCEPT ![b].order = IF @ = "none" THEN "pending" ELSE "overdue"]
  /\ UNCHANGED <<closing, stayed, alerts, jobs, clientVars, served, cut>>

-----------------------------------------------------------------------------
Init ==
  /\ barrels = [b \in Barrel |-> [status |-> "ACTIVE", age |-> "fresh", worn |-> FALSE,
                                  order |-> "none", lastClient |-> NoClient, delivery |-> NoDelivery]]
  /\ alerts = [b \in Barrel |-> [type \in AlertTypes |-> NoRows]]
  /\ jobs = [j \in Job |-> NoRequest]
  /\ closing = {}
  /\ clients = [c \in Client |-> [state |-> "none", request |-> NoRequest]]
  /\ fences = [c \in Client |-> {}]
  /\ told = [c \in Client |-> {}]
  /\ served \in Serves
  /\ cut = {}
  /\ stayed = [c \in Client |-> {}]

Jobs ==
  \/ \E j \in Job : CheckDue(j) \/ CreateAlerts(j) \/ JobFails(j)
  \/ checkLostBarrels \/ checkGeofenceViolations \/ MarkLost

Users ==
  \/ \E b \in Barrel, type \in AlertTypes, s \in AlertStatus :
       acknowledge(b, type, s) \/ resolve(b, type, s)
  \/ \E b \in Barrel : Checklist(b) \/ CloseAlerts(b)
  \/ \E c \in Client : \/ \E located \in BOOLEAN : createClient(c, located)
                       \/ CreateFence(c)
                       \/ activate(c) \/ delete(c)
                       \/ \E isActive \in BOOLEAN : update(c, isActive)
                       \/ deactivate(c) \/ DeactivateClient(c) \/ TellBarrels(c)
                       \/ RequestFails(c)
                       \/ \E place \in Place : createGeofence(c, place)
                       \/ \E f \in fences[c] :
                            \/ deleteGeofence(c, f)
                            \/ \E to \in [at : Place, on : BOOLEAN] : updateGeofence(c, f, to)

World ==
  \E b \in Barrel :
    \/ \E given \in Client \cup {NoClient}, place \in Place : delivery(b, given, place)
    \/ \E from \in {"ACTIVE", "AT_CLIENT", "LOST"} : Travels(b, from, "IN_TRANSIT")
    \/ Travels(b, "IN_TRANSIT", "ACTIVE")
    \/ DaysPass(b) \/ HourPasses(b) \/ WearsOut(b) \/ OrderAges(b)

Next == Jobs \/ Users \/ World

\* The jobs run every day, and not every run fails at the same place; a request
\* once started goes on.
Fairness ==
  /\ \A j \in Job : WF_vars(CheckDue(j)) /\ SF_vars(CreateAlerts(j))
  /\ WF_vars(checkLostBarrels) /\ SF_vars(MarkLost)

Spec == Init /\ [][Next]_vars /\ Fairness

-----------------------------------------------------------------------------
(***************************************************************************)
(* Correctness                                                             *)
(***************************************************************************)

TypeOK ==
  /\ barrels \in [Barrel ->
       [status : {"ACTIVE", "IN_TRANSIT", "AT_CLIENT", "LOST"}, age : {"fresh", "idle", "stale"},
        worn : BOOLEAN, order : {"none", "pending", "overdue"}, lastClient : Client \cup {NoClient},
        delivery : [to : Client \cup {NoClient}, at : Place]]]
  /\ alerts \in [Barrel -> [AlertTypes -> Rows]]
  /\ \A b \in Barrel, type \in AlertTypes : alerts[b][type]["RESOLVED"] # "open"
  /\ jobs \in [Job -> [pc : {"none", "mark", "create"}, barrels : SUBSET Barrel]]
  /\ closing \subseteq Barrel
  /\ clients \in [Client -> [state : {"none", "active", "inactive", "deleted"},
       request : [pc : {"none", "fence", "deactivate", "tell"}, barrels : SUBSET Barrel]]]
  /\ fences \in [Client -> SUBSET [at : Place, on : BOOLEAN]]
  /\ told \in [Client -> SUBSET SUBSET Barrel]
  /\ served \in Serves
  /\ cut \subseteq Barrel
  /\ stayed \in [Client -> SUBSET Barrel]

\* A barrel is not lost silently: it has, or had, an alert DISPOSAL_SUGGESTED,
\* unless the job that marked it failed before it got there.
LostWithAlert ==
  \A b \in Barrel :
    barrels[b].status = "LOST" /\ b \notin cut /\ b \notin jobs["checkLostBarrels"].barrels =>
      \E s \in AlertStatus : Has(b, "DISPOSAL_SUGGESTED", s)

\* A barrel that was at a client when it was deactivated, and still is, is named
\* in an alert, also when the client was reactivated and deactivated again.
DeactivationTells ==
  \A c \in Client :
    clients[c].request.pc = "none" => \A b \in stayed[c] : \E bs \in told[c] : b \in bs

\* What the daily jobs look for does not go unnoticed: a barrel with a worn
\* component, idle at a client, or with an order overdue has an alert that
\* nobody has resolved, or is helped, sooner or later.
DueAlerted ==
  \A b \in Barrel, j \in {"checkComponentHealth", "checkIdleBarrels", "checkMaintenanceOverdue"} :
    (Due(j, b) /\ j \in served) ~> (Unresolved(b, AlertType[j]) \/ ~Due(j, b))

\* A barrel without an event for sixty days is given up or turns up.
StaleLost ==
  \A b \in Barrel : (Stale(b) /\ "checkLostBarrels" \in served) ~> ~Stale(b)
=============================================================================
