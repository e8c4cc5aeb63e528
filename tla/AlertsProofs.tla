---------------------------- MODULE AlertsProofs ----------------------------
(***************************************************************************)
(* Proofs about Alerts, for every set of barrels and of clients.           *)
(***************************************************************************)
EXTENDS Alerts, TLAPS

BarrelRow == [status : {"ACTIVE", "IN_TRANSIT", "AT_CLIENT", "LOST"}, age : {"fresh", "idle", "stale"},
              worn : BOOLEAN, order : {"none", "pending", "overdue"},
              lastClient : Client \cup {NoClient},
              delivery : [to : Client \cup {NoClient}, at : Place]]

JobRow == [pc : {"none", "mark", "create"}, barrels : SUBSET Barrel]

Call == [pc : {"none", "fence", "deactivate", "tell"}, barrels : SUBSET Barrel]

ClientRow == [state : {"none", "active", "inactive", "deleted"}, request : Call]

Fence == [at : Place, on : BOOLEAN]

Warned(b) == \E s \in AlertStatus : Has(b, "DISPOSAL_SUGGESTED", s)

\* The job has marked the barrel b and has not created its alert yet.
Marked(b) ==
  jobs["checkLostBarrels"].pc = "create" /\ b \in jobs["checkLostBarrels"].barrels

\* A barrel that is lost is warned about, or is about to be, or the job failed
\* in between.  A job that has not marked a barrel yet says nothing of it, which
\* is where LostWithAlert is too weak to be inductive.
LostOrWarned ==
  \A b \in Barrel : barrels[b].status = "LOST" /\ b \notin cut /\ ~Marked(b) => Warned(b)

\* A deactivation under way has in hand whoever is still at the client.
HeldOrTold ==
  \A c \in Client :
    LET r == clients[c].request IN
    /\ r.pc \in {"deactivate", "tell"} => stayed[c] \subseteq r.barrels
    /\ r.pc \in {"none", "fence"} => \A b \in stayed[c] : \E bs \in told[c] : b \in bs

IInv == TypeOK /\ LostOrWarned /\ HeldOrTold

-----------------------------------------------------------------------------
(***************************************************************************)
(* Types                                                                   *)
(***************************************************************************)

\* The parts of a well-typed state.
LEMMA Parts ==
  ASSUME TypeOK
  PROVE  /\ barrels \in [Barrel -> BarrelRow]
         /\ alerts \in [Barrel -> [AlertTypes -> Rows]]
         /\ \A b \in Barrel, type \in AlertTypes : alerts[b][type]["RESOLVED"] # "open"
         /\ jobs \in [Job -> JobRow]
         /\ closing \subseteq Barrel /\ cut \subseteq Barrel
         /\ clients \in [Client -> ClientRow]
         /\ fences \in [Client -> SUBSET Fence]
         /\ told \in [Client -> SUBSET SUBSET Barrel]
         /\ stayed \in [Client -> SUBSET Barrel]
BY DEF TypeOK, BarrelRow, JobRow, Call, ClientRow, Fence

\* ... and they are all of it.
LEMMA Whole ==
  ASSUME /\ barrels' \in [Barrel -> BarrelRow]
         /\ alerts' \in [Barrel -> [AlertTypes -> Rows]]
         /\ \A b \in Barrel, type \in AlertTypes : alerts'[b][type]["RESOLVED"] # "open"
         /\ jobs' \in [Job -> JobRow]
         /\ closing' \subseteq Barrel /\ cut' \subseteq Barrel
         /\ clients' \in [Client -> ClientRow]
         /\ fences' \in [Client -> SUBSET Fence]
         /\ told' \in [Client -> SUBSET SUBSET Barrel]
         /\ served' \in Serves
         /\ stayed' \in [Client -> SUBSET Barrel]
  PROVE  TypeOK'
BY DEF TypeOK, BarrelRow, JobRow, Call, ClientRow, Fence

LEMMA NoneType ==
  /\ NoRequest \in JobRow /\ NoRequest \in Call
  /\ NoRows \in Rows /\ NoRows["RESOLVED"] = "none"
  /\ NoDelivery \in [to : Client \cup {NoClient}, at : Place]
BY DEF NoRequest, JobRow, Call, NoRows, Rows, AlertStatus, NoDelivery, Place

\* The alert types by name.
LEMMA TypeNames ==
  /\ \A j \in Job : AlertType[j] \in AlertTypes
  /\ AlertType["checkLostBarrels"] = "DISPOSAL_SUGGESTED"
  /\ "DISPOSAL_SUGGESTED" \in AlertTypes
<1>1. \A j \in Job : AlertType[j] \in AlertTypes
  BY DEF AlertTypes
<1>2. AlertType["checkLostBarrels"] = "DISPOSAL_SUGGESTED"
  BY DEF AlertType
<1>3. "checkLostBarrels" \in Job
  BY DEF Job
<1>4. QED
  BY <1>1, <1>2, <1>3

\* A step writes the alerts of barrels in one of four ways.
CreatesFor(j) ==
  alerts' = [b \in Barrel |->
    IF b \in jobs[j].barrels /\ ~Has(b, AlertType[j], "ACTIVE")
    THEN [alerts[b] EXCEPT ![AlertType[j]]["ACTIVE"] = "open"] ELSE alerts[b]]

\* Whatever is written, the types stay and an alert goes only where another comes.
AlertsKept ==
  /\ alerts' \in [Barrel -> [AlertTypes -> Rows]]
  /\ \A b \in Barrel, type \in AlertTypes : alerts'[b][type]["RESOLVED"] # "open"
  /\ \A b \in Barrel : Warned(b) => Warned(b)'

LEMMA Same == ASSUME TypeOK, UNCHANGED alerts PROVE AlertsKept
BY DEF TypeOK, AlertsKept, Warned, Has

\* One set of rows for one type of one barrel.
LEMMA RowsWritten ==
  ASSUME TypeOK, NEW b \in Barrel, NEW type \in AlertTypes, NEW rows \in Rows,
         rows["RESOLVED"] # "open",
         (\E s \in AlertStatus : alerts[b][type][s] # "none")
            => \E s \in AlertStatus : rows[s] # "none",
         alerts' = [alerts EXCEPT ![b] = [@ EXCEPT ![type] = rows]]
  PROVE  AlertsKept
<1>1. alerts \in [Barrel -> [AlertTypes -> Rows]]
  BY Parts
<1>2. \A a \in Barrel, t \in AlertTypes :
        alerts'[a][t] = IF a = b /\ t = type THEN rows ELSE alerts[a][t]
  BY <1>1
<1>3. alerts' \in [Barrel -> [AlertTypes -> Rows]]
  BY <1>1
<1>4. \A a \in Barrel, t \in AlertTypes : alerts'[a][t]["RESOLVED"] # "open"
  BY <1>2, Parts
<1>5. \A a \in Barrel : Warned(a) => Warned(a)'
  BY <1>2, TypeNames DEF Warned, Has
<1>6. QED
  BY <1>3, <1>4, <1>5 DEF AlertsKept

\* A status moves: acknowledge and resolve.
LEMMA Moved ==
  ASSUME TypeOK, NEW b \in Barrel, NEW type \in AlertTypes, NEW from \in AlertStatus,
         NEW to \in {"ACKNOWLEDGED", "RESOLVED"}, NEW mark \in {"open", "closed"},
         to = "RESOLVED" => mark = "closed", Moves(b, type, from, to, mark)
  PROVE  AlertsKept
<1> DEFINE rows == [alerts[b][type] EXCEPT ![from] = "none", ![to] = mark]
<1>1. alerts[b][type] \in Rows /\ alerts[b][type]["RESOLVED"] # "open"
  BY Parts
<1>2. rows \in Rows /\ rows["RESOLVED"] # "open" /\ rows[to] # "none" /\ to \in AlertStatus
  BY <1>1 DEF Rows, AlertStatus
<1>3. alerts' = [alerts EXCEPT ![b] = [@ EXCEPT ![type] = rows]]
  BY Parts DEF Moves
<1> HIDE DEF rows
<1>4. QED
  BY <1>2, <1>3, RowsWritten

\* alert.createMany.
LEMMA Created ==
  ASSUME TypeOK, NEW j \in Job, CreatesFor(j)
  PROVE  /\ AlertsKept
         /\ j = "checkLostBarrels" => \A b \in jobs[j].barrels \cap Barrel : Warned(b)'
<1> DEFINE T == AlertType[j]
           rows(b) == [alerts[b][T] EXCEPT !["ACTIVE"] = "open"]
<1>1. alerts \in [Barrel -> [AlertTypes -> Rows]] /\ T \in AlertTypes
  BY Parts, TypeNames
<1>2. \A b \in Barrel : alerts[b][T] \in Rows /\ alerts[b][T]["RESOLVED"] # "open"
  BY <1>1, Parts
<1>3. \A b \in Barrel : rows(b) \in Rows /\ rows(b)["RESOLVED"] # "open" /\ rows(b)["ACTIVE"] = "open"
  BY <1>2 DEF Rows, AlertStatus
<1>4. ASSUME NEW b \in Barrel
      PROVE  \/ alerts'[b] = alerts[b] /\ (b \in jobs[j].barrels => Has(b, T, "ACTIVE"))
             \/ alerts'[b] = [alerts[b] EXCEPT ![T] = rows(b)]
  BY <1>1 DEF CreatesFor
<1>5. \A b \in Barrel : alerts[b] \in [AlertTypes -> Rows]
  BY <1>1
<1> HIDE DEF rows, T
<1>6. \A b \in Barrel : alerts'[b] \in [AlertTypes -> Rows]
  BY <1>1, <1>3, <1>4, <1>5
<1>7. alerts' \in [Barrel -> [AlertTypes -> Rows]]
  BY <1>6 DEF CreatesFor
<1>8. ASSUME NEW b \in Barrel, NEW t \in AlertTypes
      PROVE  alerts'[b][t] = alerts[b][t] \/ (t = T /\ alerts'[b][t] = rows(b))
  <2>1. CASE alerts'[b] = alerts[b]
    BY <2>1
  <2>2. CASE alerts'[b] = [alerts[b] EXCEPT ![T] = rows(b)]
    BY <1>5, <2>2
  <2>3. QED
    BY <1>4, <2>1, <2>2
<1>9. \A b \in Barrel, t \in AlertTypes : alerts'[b][t]["RESOLVED"] # "open"
  BY <1>3, <1>8, Parts
<1>10. \A b \in Barrel : Warned(b) => Warned(b)'
  BY <1>3, <1>8, TypeNames DEF Warned, Has, AlertStatus
<1>11. ASSUME j = "checkLostBarrels", NEW b \in jobs[j].barrels \cap Barrel PROVE Warned(b)'
  <2>1. T = "DISPOSAL_SUGGESTED"
    BY <1>11, TypeNames DEF T
  <2>2. CASE alerts'[b] = alerts[b] /\ Has(b, T, "ACTIVE")
    BY <2>1, <2>2 DEF Warned, Has, AlertStatus
  <2>3. CASE alerts'[b] = [alerts[b] EXCEPT ![T] = rows(b)]
    <3>1. alerts'[b][T]["ACTIVE"] = "open"
      BY <1>1, <1>3, <1>5, <2>3
    <3>2. QED
      BY <2>1, <3>1 DEF Warned, Has, AlertStatus
  <2>4. QED
    BY <1>4, <1>11, <2>2, <2>3
<1>12. QED
  BY <1>7, <1>9, <1>10, <1>11 DEF AlertsKept

\* The checklist closes alerts.
LEMMA ClosedAlerts ==
  ASSUME TypeOK, NEW b \in Barrel, CloseAlerts(b)
  PROVE  AlertsKept
<1> DEFINE shut(t) == [s \in AlertStatus |-> IF alerts[b][t][s] = "open" THEN "closed" ELSE alerts[b][t][s]]
<1>1. alerts \in [Barrel -> [AlertTypes -> Rows]]
  BY Parts
<1>2. \A t \in AlertTypes : /\ shut(t) \in Rows /\ shut(t)["RESOLVED"] # "open"
                            /\ \A s \in AlertStatus : alerts[b][t][s] # "none" => shut(t)[s] # "none"
  BY <1>1, Parts DEF Rows, AlertStatus
<1>3. alerts'[b] = [t \in AlertTypes |->
         IF t \in {"COMPONENT_END_OF_LIFE", "MANDATORY_INSPECTION", "DISPOSAL_SUGGESTED"}
         THEN shut(t) ELSE alerts[b][t]]
  BY <1>1 DEF CloseAlerts
<1>4. \A a \in Barrel : a # b => alerts'[a] = alerts[a]
  BY <1>1 DEF CloseAlerts
<1>5. DOMAIN alerts' = Barrel /\ alerts' = [a \in Barrel |-> alerts'[a]]
  BY <1>1 DEF CloseAlerts
<1> HIDE DEF shut
<1>6. \A t \in AlertTypes : alerts'[b][t] = shut(t) \/ alerts'[b][t] = alerts[b][t]
  BY <1>3
<1>7. alerts'[b] \in [AlertTypes -> Rows]
  BY <1>1, <1>2, <1>3
<1>8. alerts' \in [Barrel -> [AlertTypes -> Rows]]
  BY <1>1, <1>4, <1>5, <1>7
<1>9. \A a \in Barrel, t \in AlertTypes : alerts'[a][t]["RESOLVED"] # "open"
  BY <1>2, <1>4, <1>6, Parts
<1>10. \A a \in Barrel : Warned(a) => Warned(a)'
  BY <1>2, <1>4, <1>6, TypeNames DEF Warned, Has
<1>11. QED
  BY <1>8, <1>9, <1>10 DEF AlertsKept

-----------------------------------------------------------------------------
(***************************************************************************)
(* What each group of actions leaves alone                                 *)
(***************************************************************************)

\* Nothing of barrels, clients or the job that marks lost barrels.
Aside ==
  /\ jobs' = jobs /\ clients' = clients /\ told' = told /\ cut' = cut

\* Barrels leave clients, and a lost barrel is no other.
BarrelsMove ==
  /\ barrels' \in [Barrel -> BarrelRow]
  /\ stayed' \in [Client -> SUBSET Barrel]
  /\ \A c \in Client : stayed'[c] \subseteq stayed[c]
  /\ \A b \in Barrel : barrels'[b].status = "LOST" => barrels[b].status = "LOST"

\* A step of the world or a checklist keeps all parts of the invariant.
LEMMA MoveSafe ==
  ASSUME IInv, BarrelsMove, Aside, AlertsKept, fences' = fences, closing' \subseteq Barrel, served' = served
  PROVE  IInv'
<1>1. TypeOK'
  BY Whole, Parts DEF IInv, TypeOK, BarrelsMove, Aside, AlertsKept
<1>2. LostOrWarned'
  BY DEF IInv, LostOrWarned, BarrelsMove, Aside, AlertsKept, Marked
<1>3. HeldOrTold'
  <2> SUFFICES ASSUME NEW c \in Client
               PROVE  LET r == clients'[c].request IN
                      /\ r.pc \in {"deactivate", "tell"} => stayed'[c] \subseteq r.barrels
                      /\ r.pc \in {"none", "fence"} => \A b \in stayed'[c] : \E bs \in told'[c] : b \in bs
    BY DEF HeldOrTold
  <2>1. stayed'[c] \subseteq stayed[c] /\ clients'[c] = clients[c] /\ told'[c] = told[c]
    BY DEF BarrelsMove, Aside
  <2>2. QED
    BY <2>1 DEF IInv, HeldOrTold
<1>4. QED
  BY <1>1, <1>2, <1>3 DEF IInv

LEMMA StayedShrinks ==
  ASSUME TypeOK, NEW S, stayed' = [c \in Client |-> stayed[c] \ S]
  PROVE  stayed' \in [Client -> SUBSET Barrel] /\ \A c \in Client : stayed'[c] \subseteq stayed[c]
<1>1. stayed \in [Client -> SUBSET Barrel]
  BY Parts
<1>2. \A c \in Client : stayed[c] \in SUBSET Barrel
  BY <1>1
<1>3. QED
  BY <1>2

\* One barrel is written.
LEMMA BarrelWritten ==
  ASSUME TypeOK, NEW b \in Barrel, NEW row \in BarrelRow, barrels' = [barrels EXCEPT ![b] = row],
         row.status = "LOST" => barrels[b].status = "LOST",
         \/ stayed' = stayed
         \/ stayed' = [c \in Client |-> stayed[c] \ {b}]
  PROVE  BarrelsMove
<1>1. barrels \in [Barrel -> BarrelRow]
  BY Parts
<1>2. stayed' \in [Client -> SUBSET Barrel] /\ \A c \in Client : stayed'[c] \subseteq stayed[c]
  BY StayedShrinks, Parts
<1>3. barrels' \in [Barrel -> BarrelRow]
  BY <1>1
<1>4. \A a \in Barrel : barrels'[a].status = "LOST" => barrels[a].status = "LOST"
  BY <1>1
<1>5. QED
  BY <1>2, <1>3, <1>4 DEF BarrelsMove

LEMMA RowFields ==
  ASSUME TypeOK, NEW b \in Barrel
  PROVE  /\ barrels[b] \in BarrelRow
         /\ barrels[b].status \in {"ACTIVE", "IN_TRANSIT", "AT_CLIENT", "LOST"}
         /\ barrels[b].age \in {"fresh", "idle", "stale"}
         /\ barrels[b].worn \in BOOLEAN
         /\ barrels[b].order \in {"none", "pending", "overdue"}
         /\ barrels[b].lastClient \in Client \cup {NoClient}
         /\ barrels[b].delivery \in [to : Client \cup {NoClient}, at : Place]
BY Parts DEF BarrelRow

-----------------------------------------------------------------------------
(***************************************************************************)
(* The steps                                                               *)
(***************************************************************************)

LEMMA WorldStep == ASSUME IInv, World PROVE IInv'
<1> USE DEF clientVars, IInv
<1>1. PICK b \in Barrel :
        \/ \E given \in Client \cup {NoClient}, place \in Place : delivery(b, given, place)
        \/ \E from \in {"ACTIVE", "AT_CLIENT", "LOST"} : Travels(b, from, "IN_TRANSIT")
        \/ Travels(b, "IN_TRANSIT", "ACTIVE")
        \/ DaysPass(b) \/ HourPasses(b) \/ WearsOut(b) \/ OrderAges(b)
  BY DEF World
<1>2. /\ Aside /\ UNCHANGED <<alerts, fences, closing, served>>
  BY <1>1 DEF Aside, delivery, Travels, DaysPass, HourPasses, WearsOut, OrderAges
<1>3. ASSUME NEW given \in Client \cup {NoClient}, NEW place \in Place, delivery(b, given, place)
      PROVE  BarrelsMove
  <2>1. PICK to \in Client \cup {NoClient} :
          barrels' = [barrels EXCEPT ![b] = [barrels[b] EXCEPT
            !.status = "AT_CLIENT", !.age = "fresh", !.lastClient = to,
            !.delivery = [to |-> to, at |-> place]]]
    BY <1>3, Parts DEF delivery, Nearest
  <2> DEFINE row == [barrels[b] EXCEPT !.status = "AT_CLIENT", !.age = "fresh", !.lastClient = to,
                                       !.delivery = [to |-> to, at |-> place]]
  <2>2. row \in BarrelRow /\ row.status = "AT_CLIENT"
    BY RowFields DEF BarrelRow
  <2>3. barrels' = [barrels EXCEPT ![b] = row] /\ stayed' = stayed
    BY <1>3, <2>1 DEF delivery
  <2> HIDE DEF row
  <2>4. QED
    BY <2>2, <2>3, BarrelWritten
<1>4. ASSUME NEW from, NEW to \in {"IN_TRANSIT", "ACTIVE"}, Travels(b, from, to) PROVE BarrelsMove
  <2> DEFINE row == [barrels[b] EXCEPT !.status = to, !.age = "fresh"]
  <2>1. row \in BarrelRow /\ row.status # "LOST"
    BY RowFields DEF BarrelRow
  <2>2. barrels' = [barrels EXCEPT ![b] = row] /\ stayed' = [c \in Client |-> stayed[c] \ {b}]
    BY <1>4, Parts DEF Travels
  <2> HIDE DEF row
  <2>3. QED
    BY <2>1, <2>2, BarrelWritten
<1>5. CASE DaysPass(b)
  <2> DEFINE row == [barrels[b] EXCEPT !.age = IF barrels[b].age = "fresh" THEN "idle" ELSE "stale"]
  <2>1. row \in BarrelRow /\ row.status = barrels[b].status
    BY RowFields DEF BarrelRow
  <2>2. barrels' = [barrels EXCEPT ![b] = row] /\ stayed' = stayed
    BY <1>5, Parts DEF DaysPass
  <2> HIDE DEF row
  <2>3. BarrelsMove
    BY <2>1, <2>2, BarrelWritten
  <2>4. QED
    BY <1>2, <2>3, MoveSafe, Same, Parts
<1>6. CASE HourPasses(b)
  <2> DEFINE row == [barrels[b] EXCEPT !.delivery = NoDelivery]
  <2>1. row \in BarrelRow /\ row.status = barrels[b].status
    BY RowFields, NoneType DEF BarrelRow
  <2>2. barrels' = [barrels EXCEPT ![b] = row] /\ stayed' = stayed
    BY <1>6, Parts DEF HourPasses
  <2> HIDE DEF row
  <2>3. BarrelsMove
    BY <2>1, <2>2, BarrelWritten
  <2>4. QED
    BY <1>2, <2>3, MoveSafe, Same, Parts
<1>7. CASE WearsOut(b)
  <2> DEFINE row == [barrels[b] EXCEPT !.worn = TRUE]
  <2>1. row \in BarrelRow /\ row.status = barrels[b].status
    BY RowFields DEF BarrelRow
  <2>2. barrels' = [barrels EXCEPT ![b] = row] /\ stayed' = stayed
    BY <1>7, Parts DEF WearsOut
  <2> HIDE DEF row
  <2>3. BarrelsMove
    BY <2>1, <2>2, BarrelWritten
  <2>4. QED
    BY <1>2, <2>3, MoveSafe, Same, Parts
<1>8. CASE OrderAges(b)
  <2> DEFINE row == [barrels[b] EXCEPT !.order = IF barrels[b].order = "none" THEN "pending" ELSE "overdue"]
  <2>1. row \in BarrelRow /\ row.status = barrels[b].status
    BY RowFields DEF BarrelRow
  <2>2. barrels' = [barrels EXCEPT ![b] = row] /\ stayed' = stayed
    BY <1>8, Parts DEF OrderAges
  <2> HIDE DEF row
  <2>3. BarrelsMove
    BY <2>1, <2>2, BarrelWritten
  <2>4. QED
    BY <1>2, <2>3, MoveSafe, Same, Parts
<1>9. QED
  <2>1. CASE \E given \in Client \cup {NoClient}, place \in Place : delivery(b, given, place)
    BY <1>2, <1>3, <2>1, MoveSafe, Same, Parts
  <2>2. CASE \/ \E from \in {"ACTIVE", "AT_CLIENT", "LOST"} : Travels(b, from, "IN_TRANSIT")
             \/ Travels(b, "IN_TRANSIT", "ACTIVE")
    BY <1>2, <1>4, <2>2, MoveSafe, Same, Parts
  <2>3. QED
    BY <1>1, <1>5, <1>6, <1>7, <1>8, <2>1, <2>2

\* Users and their alerts, and checklists.
LEMMA AlertStep ==
  ASSUME IInv, NEW b \in Barrel,
         \/ \E type \in AlertTypes, s \in AlertStatus : acknowledge(b, type, s) \/ resolve(b, type, s)
         \/ CloseAlerts(b)
  PROVE  IInv'
<1> USE DEF IInv
<1>1. ASSUME NEW type \in AlertTypes, NEW s \in AlertStatus, acknowledge(b, type, s) PROVE AlertsKept
  <2>1. alerts[b][type][s] \in {"open", "closed"}
    BY <1>1, Parts DEF acknowledge, Has, Rows
  <2>2. QED
    BY <1>1, <2>1, Moved DEF acknowledge
<1>2. ASSUME NEW type \in AlertTypes, NEW s \in AlertStatus, resolve(b, type, s) PROVE AlertsKept
  BY <1>2, Moved DEF resolve
<1>3. AlertsKept
  BY <1>1, <1>2, ClosedAlerts
<1>4. Aside /\ UNCHANGED <<barrels, fences, stayed, served>> /\ closing' \subseteq Barrel
  BY Parts DEF acknowledge, resolve, CloseAlerts, Aside, yardVars, clientVars
<1>5. BarrelsMove
  BY <1>4, Parts DEF BarrelsMove
<1>6. QED
  BY <1>3, <1>4, <1>5, MoveSafe

LEMMA ChecklistStep == ASSUME IInv, NEW b \in Barrel, Checklist(b) PROVE IInv'
<1> USE DEF IInv
<1> DEFINE row == [barrels[b] EXCEPT !.order = "none", !.worn = FALSE, !.status = "ACTIVE"]
<1>1. row \in BarrelRow /\ row.status # "LOST"
  BY RowFields DEF BarrelRow
<1>2. barrels' = [barrels EXCEPT ![b] = row] /\ stayed' = [c \in Client |-> stayed[c] \ {b}]
  BY Parts DEF Checklist
<1> HIDE DEF row
<1>3. BarrelsMove
  BY <1>1, <1>2, BarrelWritten
<1>4. Aside /\ UNCHANGED <<alerts, fences, served>> /\ closing' \subseteq Barrel
  BY Parts DEF Checklist, Aside, clientVars
<1>5. QED
  BY <1>3, <1>4, MoveSafe, Same

\* What a job needs to keep the invariant, when it writes no alert.
LEMMA JobSafe ==
  ASSUME IInv, jobs' \in [Job -> JobRow], cut' \subseteq Barrel,
         barrels' \in [Barrel -> BarrelRow], stayed' \in [Client -> SUBSET Barrel],
         \A c \in Client : stayed'[c] \subseteq stayed[c],
         UNCHANGED <<alerts, closing, clientVars, served>>,
         LostOrWarned'
  PROVE  IInv'
<1> USE DEF IInv, clientVars
<1>1. TypeOK'
  BY Whole, Parts DEF TypeOK
<1>2. HeldOrTold'
  <2> SUFFICES ASSUME NEW c \in Client
               PROVE  LET r == clients'[c].request IN
                      /\ r.pc \in {"deactivate", "tell"} => stayed'[c] \subseteq r.barrels
                      /\ r.pc \in {"none", "fence"} => \A b \in stayed'[c] : \E bs \in told'[c] : b \in bs
    BY DEF HeldOrTold
  <2>1. stayed'[c] \subseteq stayed[c] /\ clients'[c] = clients[c] /\ told'[c] = told[c]
    OBVIOUS
  <2>2. QED
    BY <2>1 DEF HeldOrTold
<1>3. QED
  BY <1>1, <1>2

\* A job reads.  Only checkLostBarrels goes on to mark what it has found.
LEMMA ReadsStep ==
  ASSUME IInv, NEW j \in Job, NEW found \in SUBSET Barrel, Reads(j, found)
  PROVE  IInv'
<1> USE DEF IInv, yardVars
<1> DEFINE row == [pc |-> IF j = "checkLostBarrels" THEN "mark" ELSE "create", barrels |-> found]
<1>1. row \in JobRow /\ (j = "checkLostBarrels" => row.pc = "mark")
  BY DEF JobRow
<1>2. jobs' = [jobs EXCEPT ![j] = row] /\ jobs[j].pc = "none"
  BY DEF Reads
<1> HIDE DEF row
<1>3. jobs' \in [Job -> JobRow]
  BY <1>1, <1>2, Parts
<1>4. UNCHANGED <<yardVars, alerts, clientVars, served, cut>>
  BY DEF Reads
<1>5. \A b \in Barrel : Marked(b)' <=> Marked(b)
  BY <1>1, <1>2, Parts DEF Marked, Job
<1>6. LostOrWarned'
  BY <1>4, <1>5 DEF LostOrWarned, Warned, Has
<1>7. QED
  BY <1>3, <1>4, <1>6, Parts, JobSafe

LEMMA MarkStep == ASSUME IInv, MarkLost PROVE IInv'
<1> USE DEF IInv
<1> DEFINE L == "checkLostBarrels"
           row == [jobs[L] EXCEPT !.pc = "create"]
<1>1. jobs[L] \in JobRow /\ jobs[L].barrels \subseteq Barrel /\ L \in Job /\ jobs[L].pc = "mark"
  BY Parts DEF Job, JobRow, MarkLost
<1>2. row \in JobRow /\ row.pc = "create" /\ row.barrels = jobs[L].barrels
  BY <1>1 DEF JobRow
<1>3. jobs' = [jobs EXCEPT ![L] = row]
  BY Parts DEF MarkLost
<1> HIDE DEF row
<1>4. jobs' \in [Job -> JobRow] /\ jobs'[L].pc = "create" /\ jobs'[L].barrels = jobs[L].barrels
  BY <1>1, <1>2, <1>3, Parts
<1>5. ASSUME NEW b \in Barrel
      PROVE  /\ barrels'[b] \in BarrelRow
             /\ b \notin jobs[L].barrels => barrels'[b] = barrels[b]
  <2>1. barrels'[b] = IF b \in jobs[L].barrels THEN [barrels[b] EXCEPT !.status = "LOST"] ELSE barrels[b]
    BY DEF MarkLost
  <2>2. [barrels[b] EXCEPT !.status = "LOST"] \in BarrelRow
    BY RowFields DEF BarrelRow
  <2>3. QED
    BY <2>1, <2>2, RowFields
<1>6. barrels' \in [Barrel -> BarrelRow]
  BY <1>5 DEF MarkLost
<1>7. stayed' \in [Client -> SUBSET Barrel] /\ \A c \in Client : stayed'[c] \subseteq stayed[c]
  BY StayedShrinks DEF MarkLost
<1>8. UNCHANGED <<alerts, closing, clientVars, served, cut>>
  BY DEF MarkLost
<1>9. LostOrWarned'
  <2> SUFFICES ASSUME NEW b \in Barrel, barrels'[b].status = "LOST", b \notin cut, ~Marked(b)'
               PROVE  Warned(b)'
    BY <1>8 DEF LostOrWarned
  <2>1. b \notin jobs[L].barrels
    BY <1>4 DEF Marked
  <2>2. barrels[b].status = "LOST" /\ ~Marked(b)
    BY <1>5, <2>1 DEF Marked
  <2>3. QED
    BY <1>8, <2>2 DEF LostOrWarned, Warned, Has
<1>10. QED
  BY <1>4, <1>6, <1>7, <1>8, <1>9, Parts, JobSafe

LEMMA CreateStep == ASSUME IInv, NEW j \in Job, CreateAlerts(j) PROVE IInv'
<1> USE DEF IInv
<1>1. /\ AlertsKept
      /\ j = "checkLostBarrels" => \A b \in jobs[j].barrels \cap Barrel : Warned(b)'
  BY Created DEF CreateAlerts, CreatesFor
<1>2. jobs' = [jobs EXCEPT ![j] = NoRequest] /\ UNCHANGED <<yardVars, clientVars, served, cut>>
  BY DEF CreateAlerts
<1>3. jobs' \in [Job -> JobRow]
  BY <1>2, Parts, NoneType
<1>4. TypeOK'
  BY <1>1, <1>2, <1>3, Whole, Parts DEF AlertsKept, yardVars, clientVars, TypeOK
<1>5. LostOrWarned'
  <2> SUFFICES ASSUME NEW b \in Barrel, barrels'[b].status = "LOST", b \notin cut', ~Marked(b)'
               PROVE  Warned(b)'
    BY DEF LostOrWarned
  <2>1. CASE Marked(b) /\ j = "checkLostBarrels"
    BY <1>1, <2>1 DEF Marked
  <2>2. CASE Marked(b) /\ j # "checkLostBarrels"
    BY <1>2, <2>2, Parts DEF Marked
  <2>3. CASE ~Marked(b)
    BY <1>1, <1>2, <2>3 DEF LostOrWarned, AlertsKept, yardVars
  <2>4. QED
    BY <2>1, <2>2, <2>3
<1>6. HeldOrTold'
  BY <1>2 DEF HeldOrTold, yardVars, clientVars
<1>7. QED
  BY <1>4, <1>5, <1>6

LEMMA JobFailsStep == ASSUME IInv, NEW j \in Job, JobFails(j) PROVE IInv'
<1> USE DEF IInv, yardVars
<1>1. jobs' = [jobs EXCEPT ![j] = NoRequest] /\ UNCHANGED <<yardVars, alerts, clientVars, served>>
  BY DEF JobFails
<1>2. jobs' \in [Job -> JobRow]
  BY <1>1, Parts, NoneType
<1>3. cut \subseteq cut' /\ cut' \subseteq Barrel
  BY Parts DEF JobFails, JobRow
<1>4. LostOrWarned'
  <2> SUFFICES ASSUME NEW b \in Barrel, barrels'[b].status = "LOST", b \notin cut', ~Marked(b)'
               PROVE  Warned(b)'
    BY DEF LostOrWarned
  <2>1. ~Marked(b)
    BY <1>1, Parts DEF JobFails, Marked
  <2>2. QED
    BY <1>1, <1>3, <2>1 DEF LostOrWarned, Warned, Has
<1>5. QED
  BY <1>1, <1>2, <1>3, <1>4, Parts, JobSafe

LEMMA JobsStep == ASSUME IInv, Jobs PROVE IInv'
<1>1. ASSUME NEW j \in Job, CheckDue(j) PROVE IInv'
  BY <1>1, ReadsStep DEF CheckDue
<1>2. CASE checkLostBarrels
  BY <1>2, ReadsStep DEF checkLostBarrels, Job
<1>3. CASE checkGeofenceViolations
  BY <1>3, ReadsStep DEF checkGeofenceViolations, Job
<1>4. QED
  BY <1>1, <1>2, <1>3, MarkStep, CreateStep, JobFailsStep DEF Jobs

\* The invariant of one client.
ClientOK(c) ==
  LET r == clients[c].request IN
  /\ r.pc \in {"deactivate", "tell"} => stayed[c] \subseteq r.barrels
  /\ r.pc \in {"none", "fence"} => \A b \in stayed[c] : \E bs \in told[c] : b \in bs

LEMMA ClientFields ==
  ASSUME TypeOK, NEW c \in Client
  PROVE  /\ clients[c] \in ClientRow
         /\ clients[c].state \in {"none", "active", "inactive", "deleted"}
         /\ clients[c].request \in Call
         /\ clients[c].request.pc \in {"none", "fence", "deactivate", "tell"}
         /\ clients[c].request.barrels \in SUBSET Barrel
         /\ stayed[c] \in SUBSET Barrel /\ told[c] \in SUBSET SUBSET Barrel
         /\ fences[c] \in SUBSET Fence
BY Parts DEF ClientRow, Call

\* A step that writes what belongs to the client c, and what it may write.
Writes(c, row, st, tl, fc) ==
  /\ clients' = [clients EXCEPT ![c] = row] /\ stayed' = [stayed EXCEPT ![c] = st]
  /\ told' = [told EXCEPT ![c] = tl] /\ fences' = [fences EXCEPT ![c] = fc]
  /\ UNCHANGED <<barrels, closing, alerts, jobs, served, cut>>

Agree(row, st, tl) ==
  /\ row \in ClientRow /\ st \in SUBSET Barrel /\ tl \in SUBSET SUBSET Barrel
  /\ row.request.pc \in {"deactivate", "tell"} => st \subseteq row.request.barrels
  /\ row.request.pc \in {"none", "fence"} => \A b \in st : \E bs \in tl : b \in bs

LEMMA ClientSafe ==
  ASSUME IInv, NEW c \in Client, NEW row, NEW st, NEW tl, NEW fc \in SUBSET Fence,
         Writes(c, row, st, tl, fc), Agree(row, st, tl)
  PROVE  IInv'
<1> USE DEF IInv, Writes, Agree
<1>1. /\ clients' \in [Client -> ClientRow]
      /\ fences' \in [Client -> SUBSET Fence]
      /\ told' \in [Client -> SUBSET SUBSET Barrel]
      /\ stayed' \in [Client -> SUBSET Barrel]
  BY Parts
<1>2. TypeOK'
  BY <1>1, Whole, Parts DEF TypeOK
<1>3. LostOrWarned'
  BY DEF LostOrWarned, Warned, Has, Marked
<1>4. ASSUME NEW d \in Client PROVE ClientOK(d)'
  <2>1. CASE d = c
    <3>1. clients'[d] = row /\ stayed'[d] = st /\ told'[d] = tl
      BY <2>1, Parts
    <3>2. QED
      BY <3>1 DEF ClientOK
  <2>2. CASE d # c
    <3>1. clients'[d] = clients[d] /\ stayed'[d] = stayed[d] /\ told'[d] = told[d]
      BY <2>2, Parts
    <3>2. QED
      BY <3>1 DEF ClientOK, HeldOrTold
  <2>3. QED
    BY <2>1, <2>2
<1>5. QED
  BY <1>2, <1>3, <1>4 DEF HeldOrTold, ClientOK

\* What is not written is written as it was.
LEMMA Unwritten ==
  ASSUME TypeOK, NEW c \in Client
  PROVE  /\ stayed = [stayed EXCEPT ![c] = stayed[c]]
         /\ told = [told EXCEPT ![c] = told[c]]
         /\ fences = [fences EXCEPT ![c] = fences[c]]
         /\ clients = [clients EXCEPT ![c] = clients[c]]
BY Parts

\* Geofences concern no other part.
LEMMA FenceStep ==
  ASSUME IInv, NEW c \in Client,
         \/ \E place \in Place : createGeofence(c, place)
         \/ \E f \in fences[c] : \/ deleteGeofence(c, f)
                                 \/ \E to \in [at : Place, on : BOOLEAN] : updateGeofence(c, f, to)
  PROVE  IInv'
<1> USE DEF IInv
<1>1. PICK fc \in SUBSET Fence : fences' = [fences EXCEPT ![c] = fc]
  <2> DEFINE Written == \E fc \in SUBSET Fence : fences' = [fences EXCEPT ![c] = fc]
  <2>1. fences[c] \in SUBSET Fence
    BY ClientFields
  <2>2. ASSUME NEW place \in Place, createGeofence(c, place) PROVE Written
    <3>1. [at |-> place, on |-> TRUE] \in Fence
      BY DEF Fence
    <3>2. fences[c] \cup {[at |-> place, on |-> TRUE]} \in SUBSET Fence
      BY <2>1, <3>1
    <3>3. QED
      BY <2>2, <3>2 DEF createGeofence
  <2>3. ASSUME NEW f, deleteGeofence(c, f) PROVE Written
    <3>1. fences[c] \ {f} \in SUBSET Fence
      BY <2>1
    <3>2. QED
      BY <2>3, <3>1 DEF deleteGeofence
  <2>4. ASSUME NEW f, NEW to \in Fence, updateGeofence(c, f, to) PROVE Written
    <3>1. (fences[c] \ {f}) \cup {to} \in SUBSET Fence
      BY <2>1
    <3>2. QED
      BY <2>4, <3>1 DEF updateGeofence
  <2>5. QED
    BY <2>2, <2>3, <2>4 DEF Fence
<1>2. UNCHANGED <<yardVars, alerts, jobs, clients, told, served, cut>>
  BY DEF createGeofence, deleteGeofence, updateGeofence
<1>3. ClientOK(c)
  BY DEF HeldOrTold, ClientOK
<1>4. Writes(c, clients[c], stayed[c], told[c], fc)
  BY <1>1, <1>2, Unwritten DEF Writes, yardVars
<1>5. Agree(clients[c], stayed[c], told[c])
  BY <1>3, ClientFields DEF Agree, ClientOK
<1>6. QED
  BY <1>4, <1>5, ClientSafe

\* A call that is one write, or the first of several.
LEMMA CallStep ==
  ASSUME IInv, NEW c \in Client, NEW row \in ClientRow, Calls(c, row),
         row.request.pc \in {"none", "fence"},
         UNCHANGED <<yardVars, alerts, jobs, fences, told, served, cut>>
  PROVE  IInv'
<1> USE DEF IInv
<1>1. clients' = [clients EXCEPT ![c] = row] /\ clients[c].request.pc = "none"
  BY DEF Calls
<1>2. \A b \in stayed[c] : \E bs \in told[c] : b \in bs
  BY <1>1 DEF HeldOrTold
<1>3. Writes(c, row, stayed[c], told[c], fences[c])
  BY <1>1, Unwritten DEF Writes, yardVars
<1>4. Agree(row, stayed[c], told[c])
  BY <1>2, ClientFields DEF Agree
<1>5. QED
  BY <1>3, <1>4, ClientFields, ClientSafe

LEMMA ClientStep ==
  ASSUME IInv, NEW c \in Client,
         \/ \E located \in BOOLEAN : createClient(c, located)
         \/ activate(c) \/ delete(c) \/ \E isActive \in BOOLEAN : update(c, isActive)
  PROVE  IInv'
<1> USE DEF IInv
<1>1. ASSUME NEW located \in BOOLEAN, createClient(c, located) PROVE IInv'
  <2> DEFINE row == [state |-> "active",
                     request |-> [NoRequest EXCEPT !.pc = IF located THEN "fence" ELSE "none"]]
  <2>1. row \in ClientRow /\ row.request.pc \in {"none", "fence"}
    BY DEF NoRequest, ClientRow, Call
  <2>2. Calls(c, row) /\ UNCHANGED <<yardVars, alerts, jobs, fences, told, served, cut>>
    BY <1>1 DEF createClient
  <2> HIDE DEF row
  <2>3. QED
    BY <2>1, <2>2, CallStep
<1>2. ASSUME NEW from, NEW to \in {"active", "inactive", "deleted"}, SetClient(c, from, to) PROVE IInv'
  <2> DEFINE row == [clients[c] EXCEPT !.state = to]
  <2>1. Calls(c, row) /\ UNCHANGED <<yardVars, alerts, jobs, fences, told, served, cut>>
    BY <1>2 DEF SetClient
  <2>2. row \in ClientRow /\ row.request.pc = "none"
    BY <2>1, ClientFields DEF ClientRow, Calls
  <2> HIDE DEF row
  <2>3. QED
    BY <2>1, <2>2, CallStep
<1>3. QED
  BY <1>1, <1>2 DEF activate, delete, update

\* The three writes of a deactivation, the second write of a creation, and
\* what ends them early.
LEMMA RequestStep ==
  ASSUME IInv, NEW c \in Client,
         CreateFence(c) \/ deactivate(c) \/ DeactivateClient(c) \/ TellBarrels(c) \/ RequestFails(c)
  PROVE  IInv'
<1> USE DEF IInv, yardVars
<1> DEFINE r == clients[c].request
           rest == [clients[c] EXCEPT !.request = NoRequest]
<1>1. rest \in ClientRow /\ rest.request.pc = "none"
  BY ClientFields, NoneType DEF ClientRow, NoRequest
<1>2. ClientOK(c)
  BY DEF HeldOrTold, ClientOK
<1>3. CASE CreateFence(c)
  <2> DEFINE fc == fences[c] \cup {[at |-> c, on |-> TRUE]}
  <2>1. fc \in SUBSET Fence
    <3>1. [at |-> c, on |-> TRUE] \in Fence
      BY DEF Fence, Place
    <3>2. QED
      BY <3>1, ClientFields
  <2>2. clients' = [clients EXCEPT ![c] = rest] /\ fences' = [fences EXCEPT ![c] = fc]
        /\ r.pc = "fence" /\ UNCHANGED <<yardVars, alerts, jobs, told, served, cut>>
    BY <1>3, Parts DEF CreateFence
  <2>3. \A b \in stayed[c] : \E bs \in told[c] : b \in bs
    BY <1>2, <2>2 DEF ClientOK
  <2> HIDE DEF rest, fc
  <2>4. Writes(c, rest, stayed[c], told[c], fc)
    BY <2>2, Unwritten DEF Writes
  <2>5. Agree(rest, stayed[c], told[c])
    BY <1>1, <2>3, ClientFields DEF Agree
  <2>6. QED
    BY <2>1, <2>4, <2>5, ClientSafe
<1>4. CASE deactivate(c)
  <2> DEFINE pending == {b \in Barrel : barrels[b].status = "AT_CLIENT" /\ barrels[b].lastClient = c}
             row == [clients[c] EXCEPT !.request = [pc |-> "deactivate", barrels |-> pending]]
  <2>1. row \in ClientRow /\ row.request.pc = "deactivate" /\ row.request.barrels = pending
    BY ClientFields DEF ClientRow, Call
  <2>2. clients' = [clients EXCEPT ![c] = row] /\ stayed' = [stayed EXCEPT ![c] = pending]
        /\ UNCHANGED <<barrels, closing, alerts, jobs, fences, told, served, cut>>
    BY <1>4 DEF deactivate, Calls
  <2>3. pending \in SUBSET Barrel
    OBVIOUS
  <2> HIDE DEF row, pending
  <2>4. Writes(c, row, pending, told[c], fences[c])
    BY <2>2, Unwritten DEF Writes
  <2>5. Agree(row, pending, told[c])
    BY <2>1, <2>3, ClientFields DEF Agree
  <2>6. QED
    BY <2>4, <2>5, ClientFields, ClientSafe
<1>5. CASE DeactivateClient(c)
  <2> DEFINE next == IF r.barrels = {} THEN NoRequest ELSE [r EXCEPT !.pc = "tell"]
             row == [clients[c] EXCEPT !.state = "inactive", !.request = next]
  <2>1. next \in Call /\ (next.pc = "none" => r.barrels = {}) /\ next.pc \in {"none", "tell"}
        /\ next.barrels = r.barrels
    BY ClientFields, NoneType DEF Call, NoRequest
  <2>2. clients' = [clients EXCEPT ![c] = row] /\ UNCHANGED <<yardVars, alerts, jobs, fences, told, served, cut>>
    BY <1>5, Parts DEF DeactivateClient
  <2>3. stayed[c] \subseteq r.barrels
    BY <1>2, <1>5 DEF ClientOK, DeactivateClient
  <2> HIDE DEF next
  <2>4. row \in ClientRow /\ row.request = next
    BY <2>1, ClientFields DEF ClientRow
  <2> HIDE DEF row
  <2>5. Writes(c, row, stayed[c], told[c], fences[c])
    BY <2>2, Unwritten DEF Writes
  <2>6. Agree(row, stayed[c], told[c])
    BY <2>1, <2>3, <2>4, ClientFields DEF Agree
  <2>7. QED
    BY <2>5, <2>6, ClientFields, ClientSafe
<1>6. CASE TellBarrels(c)
  <2> DEFINE tl == told[c] \cup {r.barrels}
  <2>1. tl \in SUBSET SUBSET Barrel
    BY ClientFields
  <2>2. clients' = [clients EXCEPT ![c] = rest] /\ told' = [told EXCEPT ![c] = tl]
        /\ r.pc = "tell" /\ UNCHANGED <<yardVars, alerts, jobs, fences, served, cut>>
    BY <1>6, Parts DEF TellBarrels
  <2>3. \A b \in stayed[c] : \E bs \in tl : b \in bs
    BY <1>2, <2>2 DEF ClientOK
  <2> HIDE DEF rest, tl
  <2>4. Writes(c, rest, stayed[c], tl, fences[c])
    BY <2>2, Unwritten DEF Writes
  <2>5. Agree(rest, stayed[c], tl)
    BY <1>1, <2>1, <2>3, ClientFields DEF Agree
  <2>6. QED
    BY <2>4, <2>5, ClientFields, ClientSafe
<1>7. CASE RequestFails(c)
  <2>1. clients' = [clients EXCEPT ![c] = rest] /\ stayed' = [stayed EXCEPT ![c] = {}]
        /\ UNCHANGED <<barrels, closing, alerts, jobs, fences, told, served, cut>>
    BY <1>7, Parts DEF RequestFails
  <2> HIDE DEF rest
  <2>2. Writes(c, rest, {}, told[c], fences[c])
    BY <2>1, Unwritten DEF Writes
  <2>3. Agree(rest, {}, told[c])
    BY <1>1, ClientFields DEF Agree
  <2>4. QED
    BY <2>2, <2>3, ClientFields, ClientSafe
<1>8. QED
  BY <1>3, <1>4, <1>5, <1>6, <1>7

LEMMA UsersStep == ASSUME IInv, Users PROVE IInv'
<1>1. CASE \E b \in Barrel, type \in AlertTypes, s \in AlertStatus :
             acknowledge(b, type, s) \/ resolve(b, type, s)
  BY <1>1, AlertStep
<1>2. CASE \E b \in Barrel : Checklist(b) \/ CloseAlerts(b)
  BY <1>2, AlertStep, ChecklistStep
<1>3. ASSUME NEW c \in Client,
             \/ \E located \in BOOLEAN : createClient(c, located)
             \/ CreateFence(c)
             \/ activate(c) \/ delete(c)
             \/ \E isActive \in BOOLEAN : update(c, isActive)
             \/ deactivate(c) \/ DeactivateClient(c) \/ TellBarrels(c)
             \/ RequestFails(c)
             \/ \E place \in Place : createGeofence(c, place)
             \/ \E f \in fences[c] :
                  \/ deleteGeofence(c, f)
                  \/ \E to \in [at : Place, on : BOOLEAN] : updateGeofence(c, f, to)
      PROVE  IInv'
  BY <1>3, ClientStep, RequestStep, FenceStep
<1>4. QED
  BY <1>1, <1>2, <1>3 DEF Users

-----------------------------------------------------------------------------
LEMMA InvInit == Init => IInv
<1> SUFFICES ASSUME Init PROVE IInv
  OBVIOUS
<1>1. NoRows \in Rows /\ NoRows["RESOLVED"] # "open" /\ NoRequest \in JobRow /\ NoRequest \in Call
      /\ NoRequest.pc = "none"
  BY NoneType DEF NoRequest
<1>2. barrels \in [Barrel -> BarrelRow] /\ \A b \in Barrel : barrels[b].status = "ACTIVE"
  BY NoneType DEF Init, BarrelRow
<1>3. /\ alerts \in [Barrel -> [AlertTypes -> Rows]]
      /\ \A b \in Barrel, type \in AlertTypes : alerts[b][type]["RESOLVED"] # "open"
  BY <1>1 DEF Init
<1>4. jobs \in [Job -> JobRow]
  BY <1>1 DEF Init
<1>5. clients \in [Client -> ClientRow] /\ \A c \in Client : clients[c].request = NoRequest
  BY <1>1 DEF Init, ClientRow
<1>6. /\ fences \in [Client -> SUBSET Fence] /\ told \in [Client -> SUBSET SUBSET Barrel]
      /\ stayed \in [Client -> SUBSET Barrel] /\ \A c \in Client : stayed[c] = {}
  BY DEF Init
<1>7. closing \subseteq Barrel /\ cut \subseteq Barrel /\ served \in Serves
  BY DEF Init
<1>8. TypeOK
  BY <1>2, <1>3, <1>4, <1>5, <1>6, <1>7 DEF TypeOK, BarrelRow, JobRow, Call, ClientRow, Fence
<1>9. LostOrWarned
  BY <1>2 DEF LostOrWarned
<1>10. HeldOrTold
  BY <1>1, <1>5, <1>6 DEF HeldOrTold
<1>11. QED
  BY <1>8, <1>9, <1>10 DEF IInv

LEMMA InvNext == IInv /\ [Next]_vars => IInv'
<1> SUFFICES ASSUME IInv, [Next]_vars PROVE IInv'
  OBVIOUS
<1>1. CASE UNCHANGED vars
  <2>1. UNCHANGED <<barrels, alerts, jobs, closing, clients, fences, told, served, cut, stayed>>
    BY <1>1 DEF vars, yardVars, clientVars
  <2>2. QED
    BY <2>1 DEF IInv, TypeOK, LostOrWarned, HeldOrTold, Warned, Has, Marked
<1>2. QED
  BY <1>1, JobsStep, UsersStep, WorldStep DEF Next

LEMMA InvAlways == Spec => []IInv
BY InvInit, InvNext, PTL DEF Spec

\* Alerts, clients and jobs keep their types; in particular no resolved alert
\* is open.
THEOREM TypeCorrect == Spec => []TypeOK
<1>1. IInv => TypeOK
  BY DEF IInv
<1>2. QED
  BY <1>1, InvAlways, PTL

\* A job that marks barrels as lost leaves an alert about each, or it failed in
\* between: however jobs, users and checklists interleave.
THEOREM LostAreWarned == Spec => []LostWithAlert
<1>1. IInv => LostWithAlert
  BY DEF IInv, LostOrWarned, LostWithAlert, Warned, Marked
<1>2. QED
  BY <1>1, InvAlways, PTL

\* A deactivation that has come to its end names every barrel that is still at
\* the client, whatever happened to barrels and clients meanwhile.
THEOREM DeactivationsTell == Spec => []DeactivationTells
<1>1. IInv => DeactivationTells
  BY DEF IInv, HeldOrTold, DeactivationTells
<1>2. QED
  BY <1>1, InvAlways, PTL
=============================================================================
