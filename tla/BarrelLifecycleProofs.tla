------------------------ MODULE BarrelLifecycleProofs ------------------------
(***************************************************************************)
(* Proofs about BarrelLifecycle, for every number of requests, orders,     *)
(* disposals and cycles.                                                   *)
(***************************************************************************)
EXTENDS BarrelLifecycle, FiniteSetTheorems, TLAPS

Callers == {"-", "reception", "checklist"}
Arguments == {"-"} \cup DOMAIN Trip \cup HealthScores \cup Status \cup {"SCHEDULED", "PENDING"}
Objects == {"-"} \cup Orders \cup Disposals

(***************************************************************************)
(* What each step of a request knows about its own arguments.              *)
(***************************************************************************)

KnowsItsArguments(r) ==
  /\ r.pc = "move" => r.arg \in DOMAIN Trip
  /\ r.pc = "health" => r.arg \in HealthScores
  /\ r.pc \in {"orderRead", "orderStatus", "orderCreate"} => r.arg \in {"PENDING", "SCHEDULED"}
  /\ r.pc = "approve" => r.obj \in Disposals

RequestOK == \A p \in Proc : KnowsItsArguments(req[p])

-----------------------------------------------------------------------------
LEMMA AskType ==
  ASSUME NEW pc \in Steps, NEW by \in Callers, NEW arg \in Arguments, NEW obj \in Objects
  PROVE  Ask(pc, by, arg, obj) \in Request
BY DEF Ask, Request, Callers, Arguments, Objects

LEMMA IdleType == Idle \in Request /\ KnowsItsArguments(Idle)
BY AskType DEF Idle, Ask, Steps, Callers, Arguments, Objects, KnowsItsArguments

\* The fields of a request of a well-typed state.
LEMMA Fields ==
  ASSUME TypeOK, NEW p \in Proc
  PROVE  /\ req[p] \in Request
         /\ req[p].pc \in Steps
         /\ req[p].by \in Callers
         /\ req[p].arg \in Arguments
         /\ req[p].obj \in Objects
BY DEF TypeOK, Request, Callers, Arguments, Objects

\* Every trip leads to a status.
LEMMA TripType ==
  ASSUME NEW a \in DOMAIN Trip
  PROVE  Trip[a].from \in Status /\ Trip[a].to \in Status
BY DEF Trip, Status

\* The score that is computed is a score.
LEMMA ScoresType ==
  ASSUME NEW n \in Nat
  PROVE  /\ ScoresAfter(n) \subseteq HealthScores
         /\ n >= MaxCycles => ScoresAfter(n) = {"RED"}
BY LifecycleAssumption DEF ScoresAfter, HealthScores

\* A slot that is given a good request leaves all of them good.
LEMMA SlotKnows ==
  ASSUME TypeOK, RequestOK, NEW p \in Proc, NEW r \in Request, KnowsItsArguments(r),
         req' = [req EXCEPT ![p] = r]
  PROVE  req' \in [Proc -> Request] /\ RequestOK'
<1>1. req' \in [Proc -> Request]
  BY DEF TypeOK
<1>2. ASSUME NEW q \in Proc PROVE KnowsItsArguments(req'[q])
  BY DEF TypeOK, RequestOK
<1>3. QED
  BY <1>1, <1>2 DEF RequestOK

\* The request that follows in the slot of p.  Only YardWrite goes on to the
\* components.
Follows(p) ==
  \E r \in Request : /\ KnowsItsArguments(r)
                     /\ r.pc = "components" => YardWrite(p)
                     /\ req' = [req EXCEPT ![p] = r]

LEMMA EndsFollows == ASSUME NEW p \in Proc, Ends(p) PROVE Follows(p)
BY IdleType DEF Ends, Follows, Idle, Ask
\* Going to another step with an argument of its kind is a good request.
LEMMA GotoFollows ==
  ASSUME TypeOK, NEW p \in Proc, NEW pc \in Steps, NEW arg \in Arguments, Goto(p, pc, arg),
         pc = "move" => arg \in DOMAIN Trip,
         pc = "health" => arg \in HealthScores,
         pc \in {"orderRead", "orderStatus", "orderCreate"} => arg \in {"PENDING", "SCHEDULED"},
         pc # "approve",
         pc = "components" => YardWrite(p)
  PROVE  Follows(p)
<1>1. Ask(pc, req[p].by, arg, req[p].obj) \in Request
  BY Fields, AskType
<1>2. LET r == Ask(pc, req[p].by, arg, req[p].obj)
      IN  KnowsItsArguments(r) /\ r.pc = pc
  BY DEF KnowsItsArguments, Ask
<1>3. QED
  BY <1>1, <1>2 DEF Goto, Follows

\* So is asking for one.
LEMMA AskFollows ==
  ASSUME NEW p \in Proc, NEW pc \in Steps, NEW by \in Callers, NEW arg \in Arguments,
         NEW obj \in Objects, req' = [req EXCEPT ![p] = Ask(pc, by, arg, obj)],
         pc = "move" => arg \in DOMAIN Trip,
         pc = "health" => arg \in HealthScores,
         pc \in {"orderRead", "orderStatus", "orderCreate"} => arg \in {"PENDING", "SCHEDULED"},
         pc = "approve" => obj \in Disposals,
         pc # "components"
  PROVE  Follows(p)
<1>1. Ask(pc, by, arg, obj) \in Request
  BY AskType
<1>2. KnowsItsArguments(Ask(pc, by, arg, obj)) /\ Ask(pc, by, arg, obj).pc = pc
  BY DEF KnowsItsArguments, Ask
<1>3. QED
  BY <1>1, <1>2 DEF Follows

\* Every step of a request leaves the requests alone or good.
LEMMA StepFollows ==
  ASSUME TypeOK, RequestOK, NEW p \in Proc, Arrives(p) \/ Continues(p) \/ Crash(p)
  PROVE  Follows(p) \/ req' = req
<1>1. CASE Arrives(p)
  <2> USE AskFollows DEF Begin, Steps, Callers, Arguments, Objects
  <2>1. ASSUME NEW action \in DOMAIN Trip, LogisticsCheck(p, action) PROVE Follows(p)
    BY <2>1 DEF LogisticsCheck
  <2>2. ASSUME NEW kind \in {"PENDING", "SCHEDULED"}, createOrder(p, kind) PROVE Follows(p)
    BY <2>2 DEF createOrder
  <2>3. CASE activateScheduledOrders(p)
    BY <2>3 DEF activateScheduledOrders
  <2>4. ASSUME NEW obj \in Orders \cup {"-"}, NEW replaced \in BOOLEAN,
               registerChecklist(p, obj, replaced)
        PROVE  Follows(p)
    BY <2>4 DEF registerChecklist
  <2>5. ASSUME NEW outcome \in {"ACTIVE", "BLOCKED", "IN_MAINTENANCE"}, registerTriage(p, outcome)
        PROVE  Follows(p) \/ req' = req
    BY <2>5 DEF registerTriage
  <2>6. CASE batchUpdateStatus(p)
    BY <2>6 DEF batchUpdateStatus
  <2>7. ASSUME NEW target \in Status, batchSetStatus(p, target) PROVE req' = req
    BY <2>7 DEF batchSetStatus
  <2>8. CASE acknowledge(p) \/ resolve(p)
    BY <2>8 DEF acknowledge, resolve, SetAlert
  <2>9. CASE checkLostBarrels(p)
    BY <2>9 DEF checkLostBarrels
  <2>10. ASSUME NEW d \in Disposals, disposalCreate(p, d) PROVE req' = req
    BY <2>10 DEF disposalCreate
  <2>11. ASSUME NEW d \in Disposals, disposalCheck(p, d) PROVE Follows(p)
    BY <2>11 DEF disposalCheck
  <2>12. QED
    BY <1>1, <2>1, <2>2, <2>3, <2>4, <2>5, <2>6, <2>7, <2>8, <2>9, <2>10, <2>11 DEF Arrives
<1>2. CASE Continues(p)
  <2> USE DEF Steps, Callers, Arguments, Objects
  <2>1. KnowsItsArguments(req[p]) /\ req[p].by \in Callers /\ req[p].obj \in Objects
    BY Fields DEF RequestOK
  <2>2. CASE Ends(p)
    BY <2>2, EndsFollows
  <2>3. CASE LogisticsMove(p)
    BY <2>2, <2>3, AskFollows DEF LogisticsMove
  <2>4. CASE RecalculateRead(p)
    <3>1. PICK score \in HealthScores : Goto(p, "health", score)
      BY <2>4, ScoresType DEF RecalculateRead, TypeOK
    <3>2. QED
      BY <3>1, GotoFollows
  <2>5. CASE RecalculateWrite(p)
    BY <2>5, GotoFollows DEF RecalculateWrite
  <2>6. CASE checkMaintenanceDueOnReturn(p)
    BY <2>2, <2>6, GotoFollows DEF checkMaintenanceDueOnReturn, TypeOK
  <2>7. CASE DueAlert(p)
    BY <2>2, <2>7, GotoFollows DEF DueAlert
  <2>8. CASE OrderRead(p)
    BY <2>1, <2>2, <2>8, GotoFollows DEF OrderRead, KnowsItsArguments
  <2>9. CASE OrderStatusWrite(p)
    BY <2>1, <2>9, GotoFollows DEF OrderStatusWrite, KnowsItsArguments
  <2>10. CASE ResetComponent(p)
    BY <2>10, GotoFollows DEF ResetComponent
  <2>11. CASE FinishCount(p)
    BY <2>11, GotoFollows DEF FinishCount, Status
  <2>12. CASE YardWrite(p)
    BY <2>12, GotoFollows DEF YardWrite
  <2>13. CASE complete(p)
    BY <2>13, GotoFollows DEF complete
  <2>14. CASE revert(p)
    BY <2>14, GotoFollows DEF revert
  <2>15. QED
    BY <1>2, <2>2, <2>3, <2>4, <2>5, <2>6, <2>7, <2>8, <2>9, <2>10, <2>11, <2>12, <2>13, <2>14
       DEF Continues, OrderCreate, CronWrite, FinishCommit, ComponentsWrite, StatusWrite,
           LostWrite, approve, CompleteWrite, RevertDelete
<1>3. CASE Crash(p)
  BY <1>3, EndsFollows DEF Crash
<1>4. QED
  BY <1>1, <1>2, <1>3

LEMMA RequestStep ==
  ASSUME TypeOK, RequestOK, [Next]_vars
  PROVE  req' \in [Proc -> Request] /\ RequestOK'
<1>1. ASSUME NEW p \in Proc, Follows(p) PROVE req' \in [Proc -> Request] /\ RequestOK'
  BY <1>1, SlotKnows DEF Follows
<1>2. CASE req' = req
  BY <1>2 DEF TypeOK, RequestOK
<1>3. QED
  BY <1>1, <1>2, StepFollows DEF Next, vars

-----------------------------------------------------------------------------
(***************************************************************************)
(* Type correctness                                                        *)
(***************************************************************************)

LEMMA TypeInit == Init => TypeOK /\ RequestOK
<1> SUFFICES ASSUME Init PROVE TypeOK /\ RequestOK
  OBVIOUS
<1>1. req \in [Proc -> Request] /\ RequestOK
  BY IdleType DEF Init, RequestOK
<1>2. /\ orders \in [Orders -> OrderStatus]
      /\ disposals \in [Disposals -> DisposalStatus]
  BY DEF Init, OrderStatus, DisposalStatus
<1>3. QED
  BY <1>1, <1>2 DEF Init, TypeOK, Status, HealthScores

LEMMA TypeStep == TypeOK /\ RequestOK /\ [Next]_vars => TypeOK'
<1> SUFFICES ASSUME TypeOK, RequestOK, [Next]_vars PROVE TypeOK'
  OBVIOUS
<1> USE DEF barrelVars, componentVars, paperVars, historyVars
<1>1. req' \in [Proc -> Request]
  BY RequestStep
<1>2. ASSUME UNCHANGED vars PROVE TypeOK'
  BY <1>2 DEF TypeOK, vars
<1>3. ASSUME NEW p \in Proc, Arrives(p) PROVE TypeOK'
  <2>1. CASE UNCHANGED <<barrelVars, componentVars, paperVars, historyVars>>
    BY <1>1, <2>1 DEF TypeOK
  <2>2. ASSUME NEW outcome \in {"ACTIVE", "BLOCKED", "IN_MAINTENANCE"}, registerTriage(p, outcome)
        PROVE  TypeOK'
    BY <1>1, <2>2 DEF registerTriage, TypeOK, Status
  <2>3. ASSUME NEW target \in Status, batchSetStatus(p, target) PROVE TypeOK'
    BY <1>1, <2>3 DEF batchSetStatus, TypeOK
  <2>4. ASSUME acknowledge(p) \/ resolve(p) PROVE TypeOK'
    BY <1>1, <2>4 DEF acknowledge, resolve, SetAlert, TypeOK, AlertStatus
  <2>5. ASSUME NEW d \in Disposals, disposalCreate(p, d) PROVE TypeOK'
    BY <1>1, <2>5 DEF disposalCreate, TypeOK, DisposalStatus
  <2>6. QED
    BY <1>3, <2>1, <2>2, <2>3, <2>4, <2>5
       DEF Arrives, LogisticsCheck, createOrder, activateScheduledOrders, registerChecklist,
           batchUpdateStatus, checkLostBarrels, disposalCheck
<1>4. ASSUME NEW p \in Proc, Continues(p) PROVE TypeOK'
  <2>1. KnowsItsArguments(req[p])
    BY DEF RequestOK
  <2>2. CASE UNCHANGED <<barrelVars, componentVars, paperVars, historyVars>>
    BY <1>1, <2>2 DEF TypeOK
  <2>3. CASE LogisticsMove(p)
    BY <1>1, <2>1, <2>3, TripType DEF LogisticsMove, KnowsItsArguments, TypeOK
  <2>4. CASE RecalculateWrite(p)
    BY <1>1, <2>1, <2>4 DEF RecalculateWrite, KnowsItsArguments, TypeOK
  <2>5. CASE DueAlert(p)
    BY <1>1, <2>5 DEF DueAlert, TypeOK, AlertStatus
  <2>6. CASE OrderStatusWrite(p) \/ CronWrite(p) \/ LostWrite(p) \/ StatusWrite(p)
             \/ complete(p) \/ revert(p)
    BY <1>1, <2>6 DEF OrderStatusWrite, CronWrite, LostWrite, StatusWrite, complete, revert,
                      TypeOK, Status
  <2>7. ASSUME NEW o \in Orders, OrderCreate(p, o) PROVE TypeOK'
    BY <1>1, <2>1, <2>7 DEF OrderCreate, KnowsItsArguments, TypeOK, OrderStatus
  <2>8. ASSUME ResetComponent(p) \/ ComponentsWrite(p) PROVE TypeOK'
    <3>1. cyclesSinceLastService' \in Nat
      BY <2>8 DEF ResetComponent, ComponentsWrite, TypeOK
    <3>2. QED
      BY <1>1, <2>8, <3>1 DEF ResetComponent, ComponentsWrite, TypeOK
  <2>9. CASE FinishCommit(p)
    BY <1>1, <2>9 DEF FinishCommit, TypeOK, OrderStatus, Status
  <2>10. CASE YardWrite(p)
    BY <1>1, <2>10 DEF YardWrite, TypeOK, Status
  <2>11. CASE approve(p)
    BY <1>1, <2>1, <2>11 DEF approve, SetDisposal, KnowsItsArguments, TypeOK, DisposalStatus
  <2>12. CASE CompleteWrite(p) \/ RevertDelete(p)
    BY <1>1, <2>12 DEF CompleteWrite, RevertDelete, SetDisposal, TypeOK, DisposalStatus
  <2>13. QED
    BY <1>4, <2>2, <2>3, <2>4, <2>5, <2>6, <2>7, <2>8, <2>9, <2>10, <2>11, <2>12
       DEF Continues, RecalculateRead, checkMaintenanceDueOnReturn, OrderRead, FinishCount
<1>5. ASSUME NEW p \in Proc, Crash(p) PROVE TypeOK'
  BY <1>1, <1>5 DEF Crash, TypeOK
<1>6. QED
  BY <1>2, <1>3, <1>4, <1>5 DEF Next

\* Every row and every request has its type, whatever the interleaving.
THEOREM TypeCorrect == Spec => []TypeOK
<1>1. TypeOK /\ RequestOK /\ [Next]_vars => TypeOK' /\ RequestOK'
  BY TypeStep, RequestStep
<1>2. QED
  BY TypeInit, <1>1, PTL DEF Spec

-----------------------------------------------------------------------------
(***************************************************************************)
(* ComponentNeverAhead.  It is not inductive: a request that has counted   *)
(* the cycle of the barrel is about to count the one of the component, and *)
(* several requests may be.  What they are about to add must fit as well.  *)
(***************************************************************************)

Counting == {p \in Proc : req[p].pc = "components"}

NeverAheadWithPending == cyclesSinceLastService + Cardinality(Counting) <= totalCycles

LEMMA CountingFinite ==
  /\ IsFiniteSet(Counting)
  /\ Cardinality(Counting) \in Nat
<1>1. Counting \subseteq Proc
  BY DEF Counting
<1>2. QED
  BY <1>1, LifecycleAssumption, FS_Subset, FS_CardinalityType

\* A request that goes to a step other than "components" leaves the count.
LEMMA Uncounted ==
  ASSUME TypeOK, NEW p \in Proc, NEW r \in Request, req' = [req EXCEPT ![p] = r],
         r.pc # "components"
  PROVE  /\ Counting' = Counting \ {p}
         /\ Cardinality(Counting') <= Cardinality(Counting)
         /\ req[p].pc = "components" => Cardinality(Counting') = Cardinality(Counting) - 1
<1>1. Counting' = Counting \ {p}
  BY DEF Counting, TypeOK
<1>2. Cardinality(Counting \ {p}) = IF p \in Counting THEN Cardinality(Counting) - 1
                                    ELSE Cardinality(Counting)
  BY CountingFinite, FS_RemoveElement
<1>3. req[p].pc = "components" => p \in Counting
  BY DEF Counting
<1>4. QED
  BY <1>1, <1>2, <1>3, CountingFinite

\* One that goes there is one more at most.
LEMMA Counted ==
  ASSUME TypeOK, NEW p \in Proc, NEW r \in Request, req' = [req EXCEPT ![p] = r]
  PROVE  Cardinality(Counting') \in Nat /\ Cardinality(Counting') <= Cardinality(Counting) + 1
<1>1. CASE r.pc = "components"
  <2>1. Counting' = Counting \cup {p}
    BY <1>1 DEF Counting, TypeOK
  <2>2. Cardinality(Counting \cup {p}) = IF p \in Counting THEN Cardinality(Counting)
                                         ELSE Cardinality(Counting) + 1
    BY CountingFinite, FS_AddElement
  <2>3. QED
    BY <2>1, <2>2, CountingFinite
<1>2. CASE r.pc # "components"
  <2>1. Counting' = Counting \ {p} /\ Cardinality(Counting') <= Cardinality(Counting)
    BY <1>2, Uncounted
  <2>2. IsFiniteSet(Counting \ {p}) /\ Cardinality(Counting \ {p}) \in Nat
    BY CountingFinite, FS_Subset, FS_CardinalityType
  <2>3. QED
    BY <2>1, <2>2, CountingFinite
<1>3. QED
  BY <1>1, <1>2

\* Only three actions write the counters.
LEMMA CountersWritten ==
  ASSUME NEW p \in Proc, Arrives(p) \/ Continues(p) \/ Crash(p)
  PROVE  \/ YardWrite(p) \/ ComponentsWrite(p) \/ ResetComponent(p)
         \/ UNCHANGED <<totalCycles, cyclesSinceLastService>>
<1> USE DEF barrelVars, componentVars
<1>1. CASE Arrives(p)
  BY <1>1 DEF Arrives, LogisticsCheck, createOrder, activateScheduledOrders, registerChecklist,
       registerTriage, batchUpdateStatus, batchSetStatus, acknowledge, resolve, SetAlert,
       checkLostBarrels, disposalCreate, disposalCheck
<1>2. CASE Continues(p)
  BY <1>2 DEF Continues, LogisticsMove, RecalculateRead, RecalculateWrite,
       checkMaintenanceDueOnReturn, DueAlert, OrderRead, OrderStatusWrite, OrderCreate, CronWrite,
       FinishCount, FinishCommit, StatusWrite, LostWrite, approve, complete, CompleteWrite, revert,
       RevertDelete
<1>3. CASE Crash(p)
  BY <1>3 DEF Crash
<1>4. QED
  BY <1>1, <1>2, <1>3

LEMMA NeverAheadStep ==
  TypeOK /\ RequestOK /\ NeverAheadWithPending /\ [Next]_vars => NeverAheadWithPending'
<1> SUFFICES ASSUME TypeOK, RequestOK, NeverAheadWithPending, [Next]_vars
             PROVE  NeverAheadWithPending'
  OBVIOUS
<1> USE CountingFinite DEF NeverAheadWithPending, TypeOK, barrelVars, componentVars
<1>1. ASSUME UNCHANGED vars PROVE NeverAheadWithPending'
  BY <1>1 DEF vars, Counting
<1>2. ASSUME NEW p \in Proc, Arrives(p) \/ Continues(p) \/ Crash(p) PROVE NeverAheadWithPending'
  <2>1. CASE req' = req
    <3>1. Counting' = Counting
      BY <2>1 DEF Counting
    <3>2. ~YardWrite(p) /\ ~ComponentsWrite(p) /\ ~ResetComponent(p)
      BY <2>1 DEF YardWrite, ComponentsWrite, ResetComponent, Goto, Ends, Ask, Idle
    <3>3. QED
      BY <1>2, <3>1, <3>2, CountersWritten
  <2>2. ASSUME Follows(p) PROVE NeverAheadWithPending'
    <3>1. PICK r \in Request : /\ r.pc = "components" => YardWrite(p)
                               /\ req' = [req EXCEPT ![p] = r]
      BY <2>2 DEF Follows
    <3>2. CASE YardWrite(p)
      <4>1. totalCycles' = totalCycles + 1 /\ cyclesSinceLastService' = cyclesSinceLastService
        BY <3>2 DEF YardWrite
      <4>2. Cardinality(Counting') \in Nat /\ Cardinality(Counting') <= Cardinality(Counting) + 1
        BY <3>1, Counted
      <4>3. QED
        BY <4>1, <4>2
    <3>3. CASE ~YardWrite(p)
      <4>1. /\ Cardinality(Counting') \in Nat
            /\ Cardinality(Counting') <= Cardinality(Counting)
            /\ req[p].pc = "components" => Cardinality(Counting') = Cardinality(Counting) - 1
        BY <3>1, <3>3, Counted, Uncounted
      <4>2. CASE ComponentsWrite(p)
        BY <4>1, <4>2 DEF ComponentsWrite
      <4>3. CASE ResetComponent(p)
        BY <4>1, <4>3 DEF ResetComponent
      <4>4. CASE UNCHANGED <<totalCycles, cyclesSinceLastService>>
        BY <4>1, <4>4
      <4>5. QED
        BY <1>2, <3>3, <4>2, <4>3, <4>4, CountersWritten
    <3>4. QED
      BY <3>2, <3>3
  <2>3. QED
    BY <1>2, <2>1, <2>2, StepFollows
<1>3. QED
  BY <1>1, <1>2 DEF Next

\* No interleaving of cycles, resets and crashes takes a component ahead of
\* its barrel.
THEOREM ComponentsNeverAhead == Spec => []ComponentNeverAhead
<1>1. Init => NeverAheadWithPending
  <2> SUFFICES ASSUME Init PROVE NeverAheadWithPending
    OBVIOUS
  <2>1. Counting = {}
    BY DEF Init, Counting, Idle, Ask
  <2>2. QED
    BY <2>1, FS_EmptySet DEF Init, NeverAheadWithPending
<1>2. TypeOK /\ NeverAheadWithPending => ComponentNeverAhead
  BY CountingFinite DEF TypeOK, NeverAheadWithPending, ComponentNeverAhead
<1>3. TypeOK /\ RequestOK /\ [Next]_vars => TypeOK' /\ RequestOK'
  BY TypeStep, RequestStep
<1>4. QED
  BY TypeInit, NeverAheadStep, <1>1, <1>2, <1>3, PTL DEF Spec

-----------------------------------------------------------------------------
(***************************************************************************)
(* DisposedOnlyApproved.  Who is about to dispose of the barrel has read   *)
(* an APPROVED disposal, and a disposal is APPROVED only by approve.       *)
(***************************************************************************)

ApprovedFirst ==
  /\ DisposedOnlyApproved
  /\ \A d \in Disposals : disposals[d] = "APPROVED" => approved # {}
  /\ \A p \in Proc : req[p].pc = "dispose" => approved # {}

\* What the steps that write one of the three do to the other two.
LEMMA ApprovedFirstStep ==
  TypeOK /\ RequestOK /\ ApprovedFirst /\ [Next]_vars => ApprovedFirst'
<1> SUFFICES ASSUME TypeOK, RequestOK, ApprovedFirst, [Next]_vars PROVE ApprovedFirst'
  OBVIOUS
<1> USE DEF ApprovedFirst, DisposedOnlyApproved, barrelVars, componentVars, paperVars, historyVars
<1>1. CASE UNCHANGED vars
  BY <1>1 DEF vars
<1>2. ASSUME NEW p \in Proc, Arrives(p) PROVE ApprovedFirst'
  <2> USE DEF Begin, Ask, TypeOK
  <2>1. ASSUME NEW action \in DOMAIN Trip, LogisticsCheck(p, action) PROVE ApprovedFirst'
    BY <2>1 DEF LogisticsCheck
  <2>2. ASSUME NEW kind \in {"PENDING", "SCHEDULED"}, createOrder(p, kind) PROVE ApprovedFirst'
    BY <2>2 DEF createOrder
  <2>3. CASE activateScheduledOrders(p) \/ batchUpdateStatus(p) \/ checkLostBarrels(p)
    BY <2>3 DEF activateScheduledOrders, batchUpdateStatus, checkLostBarrels
  <2>4. ASSUME NEW obj \in Orders \cup {"-"}, NEW replaced \in BOOLEAN,
               registerChecklist(p, obj, replaced)
        PROVE  ApprovedFirst'
    BY <2>4 DEF registerChecklist
  <2>5. ASSUME NEW outcome \in {"ACTIVE", "BLOCKED", "IN_MAINTENANCE"}, registerTriage(p, outcome)
        PROVE  ApprovedFirst'
    BY <2>5 DEF registerTriage
  <2>6. ASSUME NEW target \in Status, batchSetStatus(p, target) PROVE ApprovedFirst'
    BY <2>6 DEF batchSetStatus
  <2>7. CASE acknowledge(p) \/ resolve(p)
    BY <2>7 DEF acknowledge, resolve, SetAlert
  <2>8. ASSUME NEW d \in Disposals, disposalCreate(p, d) PROVE ApprovedFirst'
    BY <2>8 DEF disposalCreate
  <2>9. ASSUME NEW d \in Disposals, disposalCheck(p, d) PROVE ApprovedFirst'
    BY <2>9 DEF disposalCheck
  <2>10. QED
    BY <1>2, <2>1, <2>2, <2>3, <2>4, <2>5, <2>6, <2>7, <2>8, <2>9 DEF Arrives
<1>3. ASSUME NEW p \in Proc, Continues(p) PROVE ApprovedFirst'
  <2> USE DEF Goto, Ends, Idle, Ask, TypeOK
  <2>1. CASE LogisticsMove(p)
    <3>1. Trip[req[p].arg].to # "DISPOSED"
      BY <2>1 DEF LogisticsMove, RequestOK, KnowsItsArguments, Trip
    <3>2. QED
      BY <2>1, <3>1 DEF LogisticsMove
  <2>2. CASE RecalculateRead(p) \/ RecalculateWrite(p) \/ checkMaintenanceDueOnReturn(p)
             \/ DueAlert(p)
    BY <2>2 DEF RecalculateRead, RecalculateWrite, checkMaintenanceDueOnReturn, DueAlert
  <2>3. CASE OrderRead(p) \/ OrderStatusWrite(p) \/ CronWrite(p) \/ ResetComponent(p)
    BY <2>3 DEF OrderRead, OrderStatusWrite, CronWrite, ResetComponent
  <2>4. ASSUME NEW o \in Orders, OrderCreate(p, o) PROVE ApprovedFirst'
    BY <2>4 DEF OrderCreate
  <2>5. CASE FinishCount(p) \/ FinishCommit(p)
    BY <2>5 DEF FinishCount, FinishCommit
  <2>6. CASE YardWrite(p) \/ ComponentsWrite(p) \/ StatusWrite(p) \/ LostWrite(p)
    BY <2>6 DEF YardWrite, ComponentsWrite, StatusWrite, LostWrite
  <2>7. CASE approve(p)
    <3>1. approved' # {}
      BY <2>7 DEF approve
    <3>2. QED
      BY <3>1
  <2>8. CASE complete(p) \/ revert(p)
    BY <2>8 DEF complete, revert
  <2>9. CASE CompleteWrite(p) \/ RevertDelete(p)
    BY <2>9 DEF CompleteWrite, RevertDelete, SetDisposal
  <2>10. QED
    BY <1>3, <2>1, <2>2, <2>3, <2>4, <2>5, <2>6, <2>7, <2>8, <2>9 DEF Continues
<1>4. ASSUME NEW p \in Proc, Crash(p) PROVE ApprovedFirst'
  BY <1>4 DEF Crash, Ends, Idle, Ask, TypeOK
<1>5. QED
  BY <1>1, <1>2, <1>3, <1>4 DEF Next

\* However approvals, completions and reverts interleave, only an approval or a
\* user's own choice of the status lets a barrel become DISPOSED.
THEOREM DisposalsApproved == Spec => []DisposedOnlyApproved
<1>1. Init => ApprovedFirst
  BY DEF Init, ApprovedFirst, DisposedOnlyApproved, Idle, Ask
<1>2. ApprovedFirst => DisposedOnlyApproved
  BY DEF ApprovedFirst
<1>3. TypeOK /\ RequestOK /\ [Next]_vars => TypeOK' /\ RequestOK'
  BY TypeStep, RequestStep
<1>4. QED
  BY TypeInit, ApprovedFirstStep, <1>1, <1>2, <1>3, PTL DEF Spec

-----------------------------------------------------------------------------
(***************************************************************************)
(* What holds when requests are served one after the other and nobody sets *)
(* a status by hand.  Each invariant adds to its property what the steps   *)
(* of the one request know of the tables: they stay as it has read them.   *)
(***************************************************************************)

OneByOne ==
  /\ \A p, q \in Proc : p = q
  /\ "status" \notin Serves

\* A barrel in the yard, or about to leave it, has a return not counted yet.
ReturnsAhead ==
  /\ OneCyclePerReturn
  /\ status = "IN_YARD" => totalCycles < returns
  /\ \A p \in Proc : req[p].pc = "yard" => status = "IN_YARD"

LEMMA ReturnsAheadStep ==
  ASSUME OneByOne
  PROVE  TypeOK /\ RequestOK /\ ReturnsAhead /\ [Next]_vars => ReturnsAhead'
<1> SUFFICES ASSUME TypeOK, RequestOK, ReturnsAhead, [Next]_vars PROVE ReturnsAhead'
  OBVIOUS
<1> USE DEF ReturnsAhead, OneCyclePerReturn, barrelVars, componentVars, paperVars, historyVars, TypeOK, Ask
<1>1. CASE UNCHANGED vars
  BY <1>1 DEF vars
<1>2. ASSUME NEW p \in Proc, \A q \in Proc : q = p, Arrives(p) PROVE ReturnsAhead'
  <2> USE <1>2 DEF Begin
  <2>1. ASSUME NEW action \in DOMAIN Trip, LogisticsCheck(p, action) PROVE  ReturnsAhead'
    BY <2>1 DEF LogisticsCheck
  <2>2. ASSUME NEW kind \in {"PENDING", "SCHEDULED"}, createOrder(p, kind) PROVE  ReturnsAhead'
    BY <2>2 DEF createOrder
  <2>3. CASE activateScheduledOrders(p) \/ batchUpdateStatus(p) \/ checkLostBarrels(p)
    BY <2>3 DEF activateScheduledOrders, batchUpdateStatus, checkLostBarrels
  <2>4. ASSUME NEW obj \in Orders \cup {"-"}, NEW replaced \in BOOLEAN,
               registerChecklist(p, obj, replaced)
        PROVE  ReturnsAhead'
    BY <2>4 DEF registerChecklist
  <2>5. ASSUME NEW outcome \in {"ACTIVE", "BLOCKED", "IN_MAINTENANCE"}, registerTriage(p, outcome)
        PROVE  ReturnsAhead'
    BY <2>5 DEF registerTriage
  <2>6. CASE acknowledge(p) \/ resolve(p)
    BY <2>6 DEF acknowledge, resolve, SetAlert
  <2>7. ASSUME NEW d \in Disposals, disposalCreate(p, d) PROVE  ReturnsAhead'
    BY <2>7 DEF disposalCreate
  <2>8. ASSUME NEW d \in Disposals, disposalCheck(p, d) PROVE  ReturnsAhead'
    BY <2>8 DEF disposalCheck
  <2>9. ASSUME NEW target \in Status PROVE ~batchSetStatus(p, target)
    BY DEF batchSetStatus, OneByOne
  <2>10. QED
    BY <2>1, <2>2, <2>3, <2>4, <2>5, <2>6, <2>7, <2>8, <2>9 DEF Arrives
<1>3. ASSUME NEW p \in Proc, \A q \in Proc : q = p, Continues(p) PROVE ReturnsAhead'
  <2> USE <1>3 DEF Goto, Ends, Idle
  <2>1. CASE LogisticsMove(p)
    <3>1. /\ Trip[req[p].arg].to \in {"IN_TRANSIT", "AT_CLIENT", "IN_YARD"}
          /\ req[p].arg # "RECEPTION" => Trip[req[p].arg].to # "IN_YARD"
      BY <2>1 DEF LogisticsMove, RequestOK, KnowsItsArguments, Trip
    <3>2. QED
      BY <2>1, <3>1 DEF LogisticsMove
  <2>2. CASE RecalculateRead(p)
    BY <2>2 DEF RecalculateRead
  <2>3. CASE RecalculateWrite(p)
    BY <2>3 DEF RecalculateWrite
  <2>4. CASE checkMaintenanceDueOnReturn(p) \/ DueAlert(p)
    BY <2>4 DEF checkMaintenanceDueOnReturn, DueAlert
  <2>5. CASE OrderRead(p) \/ OrderStatusWrite(p)
    BY <2>5 DEF OrderRead, OrderStatusWrite
  <2>6. ASSUME NEW o \in Orders, OrderCreate(p, o) PROVE  ReturnsAhead'
    BY <2>6 DEF OrderCreate
  <2>7. CASE CronWrite(p) \/ ResetComponent(p)
    BY <2>7 DEF CronWrite, ResetComponent
  <2>8. CASE FinishCount(p)
    BY <2>8 DEF FinishCount
  <2>9. CASE FinishCommit(p)
    BY <2>9 DEF FinishCommit
  <2>10. CASE YardWrite(p) \/ ComponentsWrite(p)
    BY <2>10 DEF YardWrite, ComponentsWrite
  <2>11. CASE StatusWrite(p) \/ LostWrite(p)
    BY <2>11 DEF StatusWrite, LostWrite
  <2>12. CASE approve(p)
    BY <2>12 DEF approve, SetDisposal
  <2>13. CASE complete(p) \/ revert(p)
    BY <2>13 DEF complete, revert
  <2>14. CASE CompleteWrite(p) \/ RevertDelete(p)
    BY <2>14 DEF CompleteWrite, RevertDelete, SetDisposal
  <2>15. QED
    BY <2>1, <2>2, <2>3, <2>4, <2>5, <2>6, <2>7, <2>8, <2>9, <2>10, <2>11, <2>12, <2>13, <2>14 DEF Continues
<1>4. ASSUME NEW p \in Proc, \A q \in Proc : q = p, Crash(p) PROVE ReturnsAhead'
  BY <1>4 DEF Crash, Ends, Idle
<1>5. QED
  BY <1>1, <1>2, <1>3, <1>4 DEF Next, OneByOne

\* Served one by one, requests never count more cycles than the barrel had returns.
THEOREM OneCycleForReturn ==
  ASSUME OneByOne
  PROVE  Spec => []OneCyclePerReturn
<1>1. Init => ReturnsAhead
  BY DEF Init, ReturnsAhead, OneCyclePerReturn, Idle, Ask
<1>2. ReturnsAhead => OneCyclePerReturn
  BY DEF ReturnsAhead
<1>3. TypeOK /\ RequestOK /\ [Next]_vars => TypeOK' /\ RequestOK'
  BY TypeStep, RequestStep
<1>4. TypeOK /\ RequestOK /\ ReturnsAhead /\ [Next]_vars => ReturnsAhead'
  BY ReturnsAheadStep
<1>5. QED
  BY TypeInit, <1>1, <1>2, <1>3, <1>4, PTL DEF Spec

-----------------------------------------------------------------------------
\* The disposal behind each step of complete and revert.
DisposalBehind ==
  /\ DisposedHasPaper
  /\ \A p \in Proc :
       /\ req[p].pc = "approve" => disposals[req[p].obj] = "PENDING_APPROVAL"
       /\ req[p].pc \in {"dispose", "completed"} =>
            req[p].obj \in Disposals /\ disposals[req[p].obj] = "APPROVED"
       /\ req[p].pc = "remove" => status # "DISPOSED"

LEMMA DisposalBehindStep ==
  ASSUME OneByOne
  PROVE  TypeOK /\ RequestOK /\ DisposalBehind /\ [Next]_vars => DisposalBehind'
<1> SUFFICES ASSUME TypeOK, RequestOK, DisposalBehind, [Next]_vars PROVE DisposalBehind'
  OBVIOUS
<1> USE DEF DisposalBehind, DisposedHasPaper, auditDisposedNoDisposal, barrelVars, componentVars, paperVars, historyVars, TypeOK, Ask
<1>1. CASE UNCHANGED vars
  BY <1>1 DEF vars
<1>2. ASSUME NEW p \in Proc, \A q \in Proc : q = p, Arrives(p) PROVE DisposalBehind'
  <2> USE <1>2 DEF Begin
  <2>1. ASSUME NEW action \in DOMAIN Trip, LogisticsCheck(p, action) PROVE  DisposalBehind'
    BY <2>1 DEF LogisticsCheck
  <2>2. ASSUME NEW kind \in {"PENDING", "SCHEDULED"}, createOrder(p, kind) PROVE  DisposalBehind'
    BY <2>2 DEF createOrder
  <2>3. CASE activateScheduledOrders(p) \/ batchUpdateStatus(p) \/ checkLostBarrels(p)
    BY <2>3 DEF activateScheduledOrders, batchUpdateStatus, checkLostBarrels
  <2>4. ASSUME NEW obj \in Orders \cup {"-"}, NEW replaced \in BOOLEAN,
               registerChecklist(p, obj, replaced)
        PROVE  DisposalBehind'
    BY <2>4 DEF registerChecklist
  <2>5. ASSUME NEW outcome \in {"ACTIVE", "BLOCKED", "IN_MAINTENANCE"}, registerTriage(p, outcome)
        PROVE  DisposalBehind'
    BY <2>5 DEF registerTriage
  <2>6. CASE acknowledge(p) \/ resolve(p)
    BY <2>6 DEF acknowledge, resolve, SetAlert
  <2>7. ASSUME NEW d \in Disposals, disposalCreate(p, d) PROVE  DisposalBehind'
    BY <2>7 DEF disposalCreate
  <2>8. ASSUME NEW d \in Disposals, disposalCheck(p, d) PROVE  DisposalBehind'
    BY <2>8 DEF disposalCheck
  <2>9. ASSUME NEW target \in Status PROVE ~batchSetStatus(p, target)
    BY DEF batchSetStatus, OneByOne
  <2>10. QED
    BY <2>1, <2>2, <2>3, <2>4, <2>5, <2>6, <2>7, <2>8, <2>9 DEF Arrives
<1>3. ASSUME NEW p \in Proc, \A q \in Proc : q = p, Continues(p) PROVE DisposalBehind'
  <2> USE <1>3 DEF Goto, Ends, Idle
  <2>1. CASE LogisticsMove(p)
    <3>1. /\ Trip[req[p].arg].to \in {"IN_TRANSIT", "AT_CLIENT", "IN_YARD"}
          /\ req[p].arg # "RECEPTION" => Trip[req[p].arg].to # "IN_YARD"
      BY <2>1 DEF LogisticsMove, RequestOK, KnowsItsArguments, Trip
    <3>2. QED
      BY <2>1, <3>1 DEF LogisticsMove
  <2>2. CASE RecalculateRead(p)
    BY <2>2 DEF RecalculateRead
  <2>3. CASE RecalculateWrite(p)
    BY <2>3 DEF RecalculateWrite
  <2>4. CASE checkMaintenanceDueOnReturn(p) \/ DueAlert(p)
    BY <2>4 DEF checkMaintenanceDueOnReturn, DueAlert
  <2>5. CASE OrderRead(p) \/ OrderStatusWrite(p)
    BY <2>5 DEF OrderRead, OrderStatusWrite
  <2>6. ASSUME NEW o \in Orders, OrderCreate(p, o) PROVE  DisposalBehind'
    BY <2>6 DEF OrderCreate
  <2>7. CASE CronWrite(p) \/ ResetComponent(p)
    BY <2>7 DEF CronWrite, ResetComponent
  <2>8. CASE FinishCount(p)
    BY <2>8 DEF FinishCount
  <2>9. CASE FinishCommit(p)
    BY <2>9 DEF FinishCommit
  <2>10. CASE YardWrite(p) \/ ComponentsWrite(p)
    BY <2>10 DEF YardWrite, ComponentsWrite
  <2>11. CASE StatusWrite(p) \/ LostWrite(p)
    BY <2>11 DEF StatusWrite, LostWrite
  <2>12. CASE approve(p)
    BY <2>12 DEF approve, SetDisposal
  <2>13. CASE complete(p) \/ revert(p)
    BY <2>13 DEF complete, revert
  <2>14. CASE CompleteWrite(p) \/ RevertDelete(p)
    BY <2>14 DEF CompleteWrite, RevertDelete, SetDisposal
  <2>15. QED
    BY <2>1, <2>2, <2>3, <2>4, <2>5, <2>6, <2>7, <2>8, <2>9, <2>10, <2>11, <2>12, <2>13, <2>14 DEF Continues
<1>4. ASSUME NEW p \in Proc, \A q \in Proc : q = p, Crash(p) PROVE DisposalBehind'
  BY <1>4 DEF Crash, Ends, Idle
<1>5. QED
  BY <1>1, <1>2, <1>3, <1>4 DEF Next, OneByOne

\* Served one by one, complete and revert never leave a DISPOSED barrel without
\* its disposal, wherever they are cut short.
THEOREM DisposedHasDisposal ==
  ASSUME OneByOne
  PROVE  Spec => []DisposedHasPaper
<1>1. Init => DisposalBehind
  BY DEF Init, DisposalBehind, DisposedHasPaper, auditDisposedNoDisposal, Idle, Ask
<1>2. DisposalBehind => DisposedHasPaper
  BY DEF DisposalBehind
<1>3. TypeOK /\ RequestOK /\ [Next]_vars => TypeOK' /\ RequestOK'
  BY TypeStep, RequestStep
<1>4. TypeOK /\ RequestOK /\ DisposalBehind /\ [Next]_vars => DisposalBehind'
  BY DisposalBehindStep
<1>5. QED
  BY TypeInit, <1>1, <1>2, <1>3, <1>4, PTL DEF Spec

-----------------------------------------------------------------------------
\* The order behind each step that puts a barrel in maintenance or leaves it there.
OrderBehind ==
  /\ MaintenanceHasOrder
  /\ \A p \in Proc :
       /\ req[p].pc = "cron" => Open # {}
       /\ req[p].pc = "commit" /\ req[p].arg # "ACTIVE" => \E o \in Open : o # req[p].obj

LEMMA OrderBehindStep ==
  ASSUME OneByOne
  PROVE  TypeOK /\ RequestOK /\ OrderBehind /\ [Next]_vars => OrderBehind'
<1> SUFFICES ASSUME TypeOK, RequestOK, OrderBehind, [Next]_vars PROVE OrderBehind'
  OBVIOUS
<1> USE DEF OrderBehind, MaintenanceHasOrder, auditMaintenanceNoOrder, Open, barrelVars, componentVars, paperVars, historyVars, TypeOK, Ask
<1>1. CASE UNCHANGED vars
  BY <1>1 DEF vars
<1>2. ASSUME NEW p \in Proc, \A q \in Proc : q = p, Arrives(p) PROVE OrderBehind'
  <2> USE <1>2 DEF Begin
  <2>1. ASSUME NEW action \in DOMAIN Trip, LogisticsCheck(p, action) PROVE  OrderBehind'
    BY <2>1 DEF LogisticsCheck
  <2>2. ASSUME NEW kind \in {"PENDING", "SCHEDULED"}, createOrder(p, kind) PROVE  OrderBehind'
    BY <2>2 DEF createOrder
  <2>3. CASE activateScheduledOrders(p) \/ batchUpdateStatus(p) \/ checkLostBarrels(p)
    BY <2>3 DEF activateScheduledOrders, batchUpdateStatus, checkLostBarrels
  <2>4. ASSUME NEW obj \in Orders \cup {"-"}, NEW replaced \in BOOLEAN,
               registerChecklist(p, obj, replaced)
        PROVE  OrderBehind'
    BY <2>4 DEF registerChecklist
  <2>5. ASSUME NEW outcome \in {"ACTIVE", "BLOCKED", "IN_MAINTENANCE"}, registerTriage(p, outcome)
        PROVE  OrderBehind'
    BY <2>5 DEF registerTriage
  <2>6. CASE acknowledge(p) \/ resolve(p)
    BY <2>6 DEF acknowledge, resolve, SetAlert
  <2>7. ASSUME NEW d \in Disposals, disposalCreate(p, d) PROVE  OrderBehind'
    BY <2>7 DEF disposalCreate
  <2>8. ASSUME NEW d \in Disposals, disposalCheck(p, d) PROVE  OrderBehind'
    BY <2>8 DEF disposalCheck
  <2>9. ASSUME NEW target \in Status PROVE ~batchSetStatus(p, target)
    BY DEF batchSetStatus, OneByOne
  <2>10. QED
    BY <2>1, <2>2, <2>3, <2>4, <2>5, <2>6, <2>7, <2>8, <2>9 DEF Arrives
<1>3. ASSUME NEW p \in Proc, \A q \in Proc : q = p, Continues(p) PROVE OrderBehind'
  <2> USE <1>3 DEF Goto, Ends, Idle
  <2>1. CASE LogisticsMove(p)
    <3>1. /\ Trip[req[p].arg].to \in {"IN_TRANSIT", "AT_CLIENT", "IN_YARD"}
          /\ req[p].arg # "RECEPTION" => Trip[req[p].arg].to # "IN_YARD"
      BY <2>1 DEF LogisticsMove, RequestOK, KnowsItsArguments, Trip
    <3>2. QED
      BY <2>1, <3>1 DEF LogisticsMove
  <2>2. CASE RecalculateRead(p)
    BY <2>2 DEF RecalculateRead
  <2>3. CASE RecalculateWrite(p)
    BY <2>3 DEF RecalculateWrite
  <2>4. CASE checkMaintenanceDueOnReturn(p) \/ DueAlert(p)
    BY <2>4 DEF checkMaintenanceDueOnReturn, DueAlert
  <2>5. CASE OrderRead(p) \/ OrderStatusWrite(p)
    BY <2>5 DEF OrderRead, OrderStatusWrite
  <2>6. ASSUME NEW o \in Orders, OrderCreate(p, o) PROVE  OrderBehind'
    <3>1. req[p].arg \in {"PENDING", "SCHEDULED"}
      BY <2>6 DEF OrderCreate, RequestOK, KnowsItsArguments
    <3>2. orders'[o] = req[p].arg
      BY <2>6 DEF OrderCreate
    <3>3. QED
      BY <2>6, <3>1, <3>2 DEF OrderCreate
  <2>7. CASE CronWrite(p) \/ ResetComponent(p)
    BY <2>7 DEF CronWrite, ResetComponent
  <2>8. CASE FinishCount(p)
    BY <2>8 DEF FinishCount
  <2>9. CASE FinishCommit(p)
    BY <2>9 DEF FinishCommit
  <2>10. CASE YardWrite(p) \/ ComponentsWrite(p)
    BY <2>10 DEF YardWrite, ComponentsWrite
  <2>11. CASE StatusWrite(p) \/ LostWrite(p)
    BY <2>11 DEF StatusWrite, LostWrite
  <2>12. CASE approve(p)
    BY <2>12 DEF approve, SetDisposal
  <2>13. CASE complete(p) \/ revert(p)
    BY <2>13 DEF complete, revert
  <2>14. CASE CompleteWrite(p) \/ RevertDelete(p)
    BY <2>14 DEF CompleteWrite, RevertDelete, SetDisposal
  <2>15. QED
    BY <2>1, <2>2, <2>3, <2>4, <2>5, <2>6, <2>7, <2>8, <2>9, <2>10, <2>11, <2>12, <2>13, <2>14 DEF Continues
<1>4. ASSUME NEW p \in Proc, \A q \in Proc : q = p, Crash(p) PROVE OrderBehind'
  BY <1>4 DEF Crash, Ends, Idle
<1>5. QED
  BY <1>1, <1>2, <1>3, <1>4 DEF Next, OneByOne

\* Served one by one, a barrel is in maintenance for an order, or the request that
\* was to create it was cut short.
THEOREM MaintenanceForOrder ==
  ASSUME OneByOne
  PROVE  Spec => []MaintenanceHasOrder
<1>1. Init => OrderBehind
  BY DEF Init, OrderBehind, MaintenanceHasOrder, auditMaintenanceNoOrder, Idle, Ask
<1>2. OrderBehind => MaintenanceHasOrder
  BY DEF OrderBehind
<1>3. TypeOK /\ RequestOK /\ [Next]_vars => TypeOK' /\ RequestOK'
  BY TypeStep, RequestStep
<1>4. TypeOK /\ RequestOK /\ OrderBehind /\ [Next]_vars => OrderBehind'
  BY OrderBehindStep
<1>5. QED
  BY TypeInit, <1>1, <1>2, <1>3, <1>4, PTL DEF Spec

-----------------------------------------------------------------------------
(***************************************************************************)
(* AtMostOneCycleLate.  A score that is not RED and not being computed     *)
(* leaves room for one more cycle while the barrel stands in the yard, and *)
(* none too many when it has left it.                                      *)
(***************************************************************************)

Recalculating == \E p \in Proc : req[p].pc \in {"recalculate", "health"}

BeforeCycle == status = "IN_YARD" \/ \E p \in Proc : req[p].pc \in {"yard", "components"}

ScoreBehind ==
  "score" \in cut \/
    /\ status \in {"IN_TRANSIT", "AT_CLIENT"} => cyclesSinceLastService <= MaxCycles
    /\ ~Recalculating /\ healthScore # "RED" => cyclesSinceLastService <= MaxCycles
    /\ ~Recalculating /\ healthScore # "RED" /\ BeforeCycle => cyclesSinceLastService < MaxCycles
    /\ \A p \in Proc :
         /\ req[p].pc = "health" /\ req[p].arg # "RED" => cyclesSinceLastService < MaxCycles
         /\ req[p].pc = "move" => cyclesSinceLastService <= MaxCycles
         /\ req[p].pc = "components" => status = "ACTIVE"

LEMMA ScoreBehindStep ==
  ASSUME OneByOne
  PROVE  TypeOK /\ RequestOK /\ ScoreBehind /\ [Next]_vars => ScoreBehind'
<1> SUFFICES ASSUME TypeOK, RequestOK, ScoreBehind, [Next]_vars PROVE ScoreBehind'
  OBVIOUS
<1> USE LifecycleAssumption DEF ScoreBehind, Recalculating, BeforeCycle, barrelVars, componentVars, paperVars, historyVars, TypeOK, Ask
<1>1. CASE UNCHANGED vars
  BY <1>1 DEF vars
<1>2. ASSUME NEW p \in Proc, \A q \in Proc : q = p, Arrives(p) PROVE ScoreBehind'
  <2> USE <1>2 DEF Begin
  <2>1. ASSUME NEW action \in DOMAIN Trip, LogisticsCheck(p, action) PROVE  ScoreBehind'
    <3>1. action # "EXPEDITION" => Trip[action].from \in {"IN_TRANSIT", "AT_CLIENT"}
      BY DEF Trip
    <3>2. ~Recalculating
      BY <2>1 DEF LogisticsCheck
    <3>3. "score" \in cut \/ cyclesSinceLastService <= MaxCycles
      BY <2>1, <3>1, <3>2 DEF LogisticsCheck
    <3>4. QED
      BY <2>1, <3>3 DEF LogisticsCheck
  <2>2. ASSUME NEW kind \in {"PENDING", "SCHEDULED"}, createOrder(p, kind) PROVE  ScoreBehind'
    BY <2>2 DEF createOrder
  <2>3. CASE activateScheduledOrders(p) \/ batchUpdateStatus(p) \/ checkLostBarrels(p)
    BY <2>3 DEF activateScheduledOrders, batchUpdateStatus, checkLostBarrels
  <2>4. ASSUME NEW obj \in Orders \cup {"-"}, NEW replaced \in BOOLEAN,
               registerChecklist(p, obj, replaced)
        PROVE  ScoreBehind'
    BY <2>4 DEF registerChecklist
  <2>5. ASSUME NEW outcome \in {"ACTIVE", "BLOCKED", "IN_MAINTENANCE"}, registerTriage(p, outcome)
        PROVE  ScoreBehind'
    BY <2>5 DEF registerTriage
  <2>6. CASE acknowledge(p) \/ resolve(p)
    BY <2>6 DEF acknowledge, resolve, SetAlert
  <2>7. ASSUME NEW d \in Disposals, disposalCreate(p, d) PROVE  ScoreBehind'
    BY <2>7 DEF disposalCreate
  <2>8. ASSUME NEW d \in Disposals, disposalCheck(p, d) PROVE  ScoreBehind'
    BY <2>8 DEF disposalCheck
  <2>9. ASSUME NEW target \in Status PROVE ~batchSetStatus(p, target)
    BY DEF batchSetStatus, OneByOne
  <2>10. QED
    BY <2>1, <2>2, <2>3, <2>4, <2>5, <2>6, <2>7, <2>8, <2>9 DEF Arrives
<1>3. ASSUME NEW p \in Proc, \A q \in Proc : q = p, Continues(p) PROVE ScoreBehind'
  <2> USE <1>3 DEF Goto, Ends, Idle
  <2>1. CASE LogisticsMove(p)
    <3>1. /\ Trip[req[p].arg].to \in {"IN_TRANSIT", "AT_CLIENT", "IN_YARD"}
          /\ req[p].arg # "RECEPTION" => Trip[req[p].arg].to # "IN_YARD"
      BY <2>1 DEF LogisticsMove, RequestOK, KnowsItsArguments, Trip
    <3>2. QED
      BY <2>1, <3>1 DEF LogisticsMove
  <2>2. CASE RecalculateRead(p)
    <3>1. PICK score \in ScoresAfter(cyclesSinceLastService) : Goto(p, "health", score)
      BY <2>2 DEF RecalculateRead
    <3>2. score # "RED" => cyclesSinceLastService < MaxCycles
      BY <3>1, ScoresType
    <3>3. Recalculating'
      BY <3>1
    <3>4. QED
      BY <2>2, <3>1, <3>2, <3>3 DEF RecalculateRead
  <2>3. CASE RecalculateWrite(p)
    BY <2>3 DEF RecalculateWrite
  <2>4. CASE checkMaintenanceDueOnReturn(p) \/ DueAlert(p)
    BY <2>4 DEF checkMaintenanceDueOnReturn, DueAlert
  <2>5. CASE OrderRead(p) \/ OrderStatusWrite(p)
    BY <2>5 DEF OrderRead, OrderStatusWrite
  <2>6. ASSUME NEW o \in Orders, OrderCreate(p, o) PROVE  ScoreBehind'
    BY <2>6 DEF OrderCreate
  <2>7. CASE CronWrite(p) \/ ResetComponent(p)
    BY <2>7 DEF CronWrite, ResetComponent
  <2>8. CASE FinishCount(p)
    BY <2>8 DEF FinishCount
  <2>9. CASE FinishCommit(p)
    BY <2>9 DEF FinishCommit
  <2>10. CASE YardWrite(p) \/ ComponentsWrite(p)
    BY <2>10 DEF YardWrite, ComponentsWrite
  <2>11. CASE StatusWrite(p) \/ LostWrite(p)
    BY <2>11 DEF StatusWrite, LostWrite
  <2>12. CASE approve(p)
    BY <2>12 DEF approve, SetDisposal
  <2>13. CASE complete(p) \/ revert(p)
    BY <2>13 DEF complete, revert
  <2>14. CASE CompleteWrite(p) \/ RevertDelete(p)
    BY <2>14 DEF CompleteWrite, RevertDelete, SetDisposal
  <2>15. QED
    BY <2>1, <2>2, <2>3, <2>4, <2>5, <2>6, <2>7, <2>8, <2>9, <2>10, <2>11, <2>12, <2>13, <2>14 DEF Continues
<1>4. ASSUME NEW p \in Proc, \A q \in Proc : q = p, Crash(p) PROVE ScoreBehind'
  BY <1>4 DEF Crash, Ends, Idle
<1>5. QED
  BY <1>1, <1>2, <1>3, <1>4 DEF Next, OneByOne

\* Served one by one, no barrel leaves with a component more than one cycle over its
\* limit, or a reception was cut short before it stored the score.
THEOREM OneCycleLate ==
  ASSUME OneByOne
  PROVE  Spec => []AtMostOneCycleLate
<1>1. Init => ScoreBehind
  BY LifecycleAssumption DEF Init, ScoreBehind, Recalculating, BeforeCycle, Idle, Ask
<1>2. ScoreBehind => AtMostOneCycleLate
  BY DEF ScoreBehind, AtMostOneCycleLate
<1>3. TypeOK /\ RequestOK /\ [Next]_vars => TypeOK' /\ RequestOK'
  BY TypeStep, RequestStep
<1>4. TypeOK /\ RequestOK /\ ScoreBehind /\ [Next]_vars => ScoreBehind'
  BY ScoreBehindStep
<1>5. QED
  BY TypeInit, <1>1, <1>2, <1>3, <1>4, PTL DEF Spec
=============================================================================
