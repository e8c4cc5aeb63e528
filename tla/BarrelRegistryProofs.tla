------------------------ MODULE BarrelRegistryProofs ------------------------
(***************************************************************************)
(* Proofs about BarrelRegistry, for every number of requests, tenants and  *)
(* codes.                                                                  *)
(***************************************************************************)
EXTENDS BarrelRegistry, FiniteSetTheorems, TLAPS

(***************************************************************************)
(* The inductive invariant.  RequestOK says what each step of a request    *)
(* knows about its own arguments; the other parts say where the codes of   *)
(* the requests, of the sequence and of the table stand to each other.     *)
(***************************************************************************)

KnowsItsArguments(r) ==
  /\ r.pc # "idle" => r.tenant \in Tenants
  /\ r.pc \in {"transfer", "transferBatch"} => r.to \in Tenants
  /\ r.pc = "importReserve" => r.labels # {}
  /\ r.pc \in {"activate", "scanInsert", "sync"} => \E c \in Codes : r.codes = {c}

RequestOK == \A p \in Proc : KnowsItsArguments(req[p])

Inserting == {p \in Proc : req[p].pc \in {"createInsert", "importInsert"}}

\* The sequence has handed out no code beyond lastNumber.
IssuedUpToLastNumber == \A c \in issued : c <= lastNumber

\* Requests insert codes that the sequence handed out, each to one of them.
ReservedApart ==
  /\ \A p \in Inserting : req[p].codes \subseteq issued
  /\ \A p, q \in Inserting : p # q => req[p].codes \cap req[q].codes = {}

\* Only scans put barrels beyond the sequence.
BeyondOnlyByScan == \A c \in Present : c <= lastNumber \/ c \in scanned

Numbers ==
  /\ IssuedUpToLastNumber
  /\ ReservedApart
  /\ BeyondOnlyByScan
  /\ CollisionOnlyWithScan
  /\ SequenceCoversTable

IInv ==
  /\ TypeOK
  /\ RequestOK
  /\ Numbers

-----------------------------------------------------------------------------
\* The number of labels of an import chunk is a positive number.
LEMMA LabelCount ==
  ASSUME NEW labels \in SUBSET Codes, labels # {}
  PROVE  Cardinality(labels) \in Nat \ {0}
<1>1. IsFiniteSet(Codes)
  BY FS_Interval, RegistryAssumption DEF Codes
<1>2. IsFiniteSet(labels)
  BY <1>1, FS_Subset
<1>3. QED
  BY <1>2, FS_CardinalityType, FS_EmptySet

\* A request built from well-typed parts is a request.
LEMMA AttemptType ==
  ASSUME NEW n \in 0..MAX_RETRIES - 1, NEW pc \in Steps, NEW t \in Tenants \cup {NoTenant},
         NEW to \in Tenants \cup {NoTenant}, NEW codes \in SUBSET Codes,
         NEW labels \in SUBSET Codes
  PROVE  Attempt(n, pc, t, to, codes, labels) \in Request
BY DEF Attempt, Request

LEMMA AsksType ==
  ASSUME NEW pc \in Steps, NEW t \in Tenants \cup {NoTenant}, NEW to \in Tenants \cup {NoTenant},
         NEW codes \in SUBSET Codes, NEW labels \in SUBSET Codes
  PROVE  Asks(pc, t, to, codes, labels) \in Request
BY AttemptType, RegistryAssumption DEF Asks

LEMMA IdleType == Idle \in Request
BY AsksType DEF Idle, Steps

\* The fields of a request of a well-typed state.
LEMMA Fields ==
  ASSUME TypeOK, NEW p \in Proc
  PROVE  /\ req[p] \in Request
         /\ req[p].pc \in Steps
         /\ req[p].tenant \in Tenants \cup {NoTenant}
         /\ req[p].to \in Tenants \cup {NoTenant}
         /\ req[p].codes \in SUBSET Codes
         /\ req[p].labels \in SUBSET Codes
         /\ req[p].tries \in 0..MAX_RETRIES - 1
BY DEF TypeOK, Request

LEMMA AtType ==
  ASSUME TypeOK, NEW p \in Proc, NEW pc \in Steps, NEW codes \in SUBSET Codes
  PROVE  At(p, pc, codes) \in Request
BY Fields, AsksType DEF At

\* Writing a request into a slot keeps the slots well typed.
LEMMA SlotType ==
  ASSUME TypeOK, NEW p \in Proc, NEW r \in Request, req' = [req EXCEPT ![p] = r]
  PROVE  req' \in [Proc -> Request]
BY DEF TypeOK

\* Rows added to the table are rows, under the codes asked for.
LEMMA WithRowsType ==
  ASSUME TypeOK, NEW codes \in SUBSET Codes, NEW t \in Tenants,
         NEW status \in {"PRE_REGISTERED", "ACTIVE"},
         NEW label \in [codes -> Codes \cup {NoQr}]
  PROVE  /\ DOMAIN WithRows(codes, t, status, label) = Present \cup codes
         /\ WithRows(codes, t, status, label) \in [Present \cup codes -> Row]
BY DEF WithRows, TypeOK, Present, Row

\* The row with another owner is a row.
LEMMA OwnedType ==
  ASSUME TypeOK, NEW c \in Present, NEW t \in Tenants, NEW status \in {"PRE_REGISTERED", "ACTIVE"}
  PROVE  Owned(barrels[c], t, status) \in Row
BY DEF Owned, TypeOK, Present, Row

-----------------------------------------------------------------------------
(***************************************************************************)
(* Type correctness                                                        *)
(***************************************************************************)

LEMMA TypeInit == Init => TypeOK
<1> SUFFICES ASSUME Init PROVE TypeOK
  OBVIOUS
<1>1. DOMAIN barrels = {}
  BY DEF Init
<1>2. DOMAIN barrels \in SUBSET Codes /\ barrels \in [DOMAIN barrels -> Row]
  BY <1>1 DEF Init
<1>3. req \in [Proc -> Request]
  BY IdleType DEF Init
<1>4. QED
  BY <1>2, <1>3, RegistryAssumption DEF Init, TypeOK, Transfer, NoTransfer

LEMMA TypeStep == TypeOK /\ RequestOK /\ [Next]_vars => TypeOK'
<1> SUFFICES ASSUME TypeOK, RequestOK, [Next]_vars PROVE TypeOK'
  OBVIOUS
<1> USE RegistryAssumption
<1>1. ASSUME NEW p \in Proc, Arrives(p) PROVE TypeOK'
  <2>1. PICK kind \in Kinds, r \in Request : Begin(p, kind, r)
    <3>1. PICK t \in Tenants : Arrives(p)!(t)
      BY <1>1 DEF Arrives
    <3>2. CASE create(p, t)
      BY <3>2, AsksType DEF create, Kinds, Steps
    <3>3. CASE validateNewRows(p, t)
      BY <3>3, AsksType DEF validateNewRows, Kinds, Steps
    <3>4. CASE validateUpdateRows(p, t)
      BY <3>4, AsksType DEF validateUpdateRows, Kinds, Steps, Live, Present, TypeOK
    <3>5. CASE generateBatch(p, t)
      BY <3>5, AsksType DEF generateBatch, Kinds, Steps
    <3>6. ASSUME NEW c \in Codes, scanOrCreate(p, t, c)
          PROVE  \E kind \in Kinds, r \in Request : Begin(p, kind, r)
      BY <3>6, AsksType DEF scanOrCreate, Kinds, Steps
    <3>7. ASSUME NEW c \in Codes, linkQr(p, t, c)
          PROVE  \E kind \in Kinds, r \in Request : Begin(p, kind, r)
      BY <3>7, AsksType DEF linkQr, Kinds, Steps
    <3>8. ASSUME NEW c \in Codes, delete(p, t, c)
          PROVE  \E kind \in Kinds, r \in Request : Begin(p, kind, r)
      BY <3>8, AsksType DEF delete, Kinds, Steps
    <3>9. ASSUME NEW c \in Codes, transferBarrel(p, t, c)
          PROVE  \E kind \in Kinds, r \in Request : Begin(p, kind, r)
      BY <3>9, AsksType DEF transferBarrel, Kinds, Steps
    <3>10. CASE batchLinkQr(p, t)
      BY <3>10, AsksType, RegistryAssumption DEF batchLinkQr, Kinds, Steps, Live, Present, TypeOK
    <3>11. QED
      BY <3>1, <3>2, <3>3, <3>4, <3>5, <3>6, <3>7, <3>8, <3>9, <3>10
  <2>2. QED
    BY <2>1, SlotType DEF Begin, TypeOK
<1>2. ASSUME NEW p \in Proc, req' = [req EXCEPT ![p] = Idle]
      PROVE  req' \in [Proc -> Request]
  BY <1>2, IdleType, SlotType
<1>3. ASSUME NEW p \in Proc, NEW pc \in Steps, NEW codes \in SUBSET Codes,
             req' = [req EXCEPT ![p] = At(p, pc, codes)]
      PROVE  req' \in [Proc -> Request]
  BY <1>3, AtType, SlotType
<1>4. ASSUME NEW p \in Proc, EndsWithoutWriting(p) PROVE TypeOK'
  BY <1>2, <1>4 DEF EndsWithoutWriting, TypeOK
<1>5. ASSUME NEW p \in Proc, Abort(p) PROVE TypeOK'
  <2>1. torn' \in SUBSET ({"sync", "cycles"} \X Codes)
    BY <1>5, Fields DEF Abort, TypeOK
  <2>2. QED
    BY <1>2, <1>5, <2>1 DEF Abort, TypeOK
<1>6. ASSUME NEW p \in Proc, NEW n \in Nat, NEW pc \in Steps, Reserve(p, n, pc) PROVE TypeOK'
  <2>1. NextBlock(n) \in SUBSET Codes
    BY <1>6 DEF Reserve, NextBlock, Codes, TypeOK
  <2>2. req' \in [Proc -> Request]
    BY <1>3, <1>6, <2>1 DEF Reserve
  <2>3. QED
    BY <1>6, <2>1, <2>2 DEF Reserve, TypeOK
<1>7. ASSUME NEW p \in Proc, generateInternalCode(p) PROVE TypeOK'
  BY <1>6, <1>7 DEF generateInternalCode, Steps
<1>8. ASSUME NEW p \in Proc, generateInternalCodes(p) PROVE TypeOK'
  <2>1. Cardinality(req[p].labels) \in Nat \ {0}
    BY <1>8, Fields, LabelCount DEF generateInternalCodes, RequestOK, KnowsItsArguments
  <2>2. QED
    BY <1>6, <1>8, <2>1 DEF generateInternalCodes, Steps
<1>9. ASSUME NEW p \in Proc, NEW codes \in SUBSET Codes, NEW t \in Tenants,
             NEW status \in {"PRE_REGISTERED", "ACTIVE"},
             NEW label \in [codes -> Codes \cup {NoQr}],
             barrels' = WithRows(codes, t, status, label)
      PROVE  DOMAIN barrels' \in SUBSET Codes /\ barrels' \in [DOMAIN barrels' -> Row]
  <2>1. /\ DOMAIN WithRows(codes, t, status, label) = Present \cup codes
        /\ WithRows(codes, t, status, label) \in [Present \cup codes -> Row]
    BY WithRowsType
  <2>2. DOMAIN barrels' = Present \cup codes /\ barrels' \in [Present \cup codes -> Row]
    BY <1>9, <2>1
  <2>3. Present \cup codes \in SUBSET Codes
    BY DEF TypeOK, Present
  <2>4. QED
    BY <2>2, <2>3
<1>10. ASSUME NEW p \in Proc, createInsert(p) PROVE TypeOK'
  <2>1. CASE EndsWithoutWriting(p)
    BY <2>1, <1>4
  <2>2. CASE InsertAllowed(req[p].codes, req[p].labels)
    <3>1. PICK label \in Labellings(req[p].codes, req[p].labels) :
            barrels' = WithRows(req[p].codes, req[p].tenant, "ACTIVE", label)
      BY <1>10, <2>2 DEF createInsert
    <3>2. req[p].tenant \in Tenants
      BY <1>10 DEF createInsert, RequestOK, KnowsItsArguments
    <3>3. label \in [req[p].codes -> Codes \cup {NoQr}]
      BY Fields DEF Labellings
    <3>4. DOMAIN barrels' \in SUBSET Codes /\ barrels' \in [DOMAIN barrels' -> Row]
      BY <1>9, <3>1, <3>2, <3>3, Fields
    <3>5. req' \in [Proc -> Request]
      BY <1>3, <1>10, <2>2, Fields DEF createInsert, Goto, Steps
    <3>6. QED
      BY <1>10, <2>2, <3>4, <3>5 DEF createInsert, TypeOK
  <2>3. QED
    BY <1>10, <2>1, <2>2 DEF createInsert
<1>11. ASSUME NEW p \in Proc, req[p].tenant \in Tenants,
              cycles' = [c \in Codes |-> IF c \in req[p].codes
                                         THEN cycles[c] \cup {req[p].tenant} ELSE cycles[c]]
       PROVE  cycles' \in [Codes -> SUBSET Tenants]
  BY <1>11 DEF TypeOK
<1>12. ASSUME NEW p \in Proc, importInsert(p) PROVE TypeOK'
  <2>1. CASE EndsWithoutWriting(p)
    BY <2>1, <1>4
  <2>2. CASE InsertAllowed(req[p].codes, req[p].labels)
    <3>1. PICK label \in Labellings(req[p].codes, req[p].labels) :
            barrels' = WithRows(req[p].codes, req[p].tenant, "ACTIVE", label)
      BY <1>12, <2>2 DEF importInsert
    <3>2. req[p].tenant \in Tenants
      BY <1>12 DEF importInsert, RequestOK, KnowsItsArguments
    <3>3. label \in [req[p].codes -> Codes \cup {NoQr}]
      BY Fields DEF Labellings
    <3>4. DOMAIN barrels' \in SUBSET Codes /\ barrels' \in [DOMAIN barrels' -> Row]
      BY <1>9, <3>1, <3>2, <3>3, Fields
    <3>5. req' \in [Proc -> Request] /\ cycles' \in [Codes -> SUBSET Tenants]
      BY <1>2, <1>11, <1>12, <2>2, <3>2 DEF importInsert
    <3>6. QED
      BY <1>12, <2>2, <3>4, <3>5 DEF importInsert, TypeOK
  <2>3. QED
    BY <1>12, <2>1, <2>2 DEF importInsert
<1>13. ASSUME NEW p \in Proc, importUpdate(p) PROVE TypeOK'
  <2>1. req[p].tenant \in Tenants
    BY <1>13 DEF importUpdate, RequestOK, KnowsItsArguments
  <2>2. DOMAIN barrels' = Present
    BY <1>13 DEF importUpdate
  <2>3. barrels' \in [Present -> Row]
    BY <1>13, <2>1, OwnedType DEF importUpdate, TypeOK, Present
  <2>4. req' \in [Proc -> Request] /\ cycles' \in [Codes -> SUBSET Tenants]
    BY <1>2, <1>11, <1>13, <2>1 DEF importUpdate
  <2>5. QED
    BY <1>13, <2>2, <2>3, <2>4 DEF importUpdate, TypeOK, Present
<1>14. ASSUME NEW p \in Proc, NEW n \in 1..MaxBlock, BatchCommit(p, n) PROVE TypeOK'
  <2>1. NextBlock(n) \in SUBSET Codes
    BY <1>14 DEF BatchCommit, NextBlock, Codes, TypeOK
  <2>2. req[p].tenant \in Tenants
    BY <1>14 DEF BatchCommit, RequestOK, KnowsItsArguments
  <2>3. DOMAIN barrels' \in SUBSET Codes /\ barrels' \in [DOMAIN barrels' -> Row]
    <3>1. [c \in NextBlock(n) |-> c] \in [NextBlock(n) -> Codes \cup {NoQr}]
      BY <2>1
    <3>2. barrels' = WithRows(NextBlock(n), req[p].tenant, "PRE_REGISTERED",
                              [c \in NextBlock(n) |-> c])
      BY <1>14 DEF BatchCommit
    <3>3. QED
      BY <1>9, <2>1, <2>2, <3>1, <3>2
  <2>4. req' \in [Proc -> Request]
    BY <1>2, <1>14 DEF BatchCommit
  <2>5. QED
    BY <1>14, <2>1, <2>3, <2>4 DEF BatchCommit, TypeOK
<1>15. ASSUME NEW p \in Proc, NEW n \in 1..MaxBlock, BatchConflict(p, n) PROVE TypeOK'
  <2>1. CASE req[p].tries + 1 < MAX_RETRIES
    <3>1. req[p].tries \in 0..MAX_RETRIES - 1 /\ req[p].tenant \in Tenants \cup {NoTenant}
      BY Fields
    <3>2. req[p].tries + 1 \in 0..MAX_RETRIES - 1
      BY <2>1, <3>1, RegistryAssumption
    <3>3. "batch" \in Steps /\ {} \in SUBSET Codes
      BY DEF Steps
    <3>4. Attempt(req[p].tries + 1, "batch", req[p].tenant, NoTenant, {}, {}) \in Request
      BY <3>1, <3>2, <3>3, AttemptType
    <3>5. QED
      BY <1>15, <2>1, <3>4, SlotType DEF BatchConflict, TypeOK
  <2>2. CASE ~(req[p].tries + 1 < MAX_RETRIES)
    BY <1>2, <1>15, <2>2 DEF BatchConflict, TypeOK
  <2>3. QED
    BY <2>1, <2>2
<1>16. ASSUME NEW p \in Proc, ScanActivate(p) PROVE TypeOK'
  <2>1. PICK c \in req[p].codes :
          IF HoldersOf({c}) \subseteq {c}
          THEN /\ barrels' = [barrels EXCEPT ![c] =
                                [tenant |-> req[p].tenant, status |-> "ACTIVE", qr |-> c,
                                 deleted |-> barrels[c].deleted]]
               /\ Goto(p, "cycles")
               /\ UNCHANGED <<lastNumber, cycles, history, issued, scanned, torn>>
          ELSE EndsWithoutWriting(p)
    BY <1>16 DEF ScanActivate
  <2>2. CASE EndsWithoutWriting(p)
    BY <2>2, <1>4
  <2>3. CASE HoldersOf({c}) \subseteq {c}
    <3>1. req[p].tenant \in Tenants /\ c \in Codes
      BY <1>16, Fields DEF ScanActivate, RequestOK, KnowsItsArguments
    <3>2. DOMAIN barrels' = Present
      BY <2>1, <2>3 DEF Present
    <3>3. barrels' \in [Present -> Row]
      BY <2>1, <2>3, <3>1 DEF TypeOK, Present, Row
    <3>4. req' \in [Proc -> Request]
      BY <1>3, <2>1, <2>3, Fields DEF Goto, Steps
    <3>5. QED
      BY <2>1, <2>3, <3>2, <3>3, <3>4 DEF TypeOK, Present
  <2>4. QED
    BY <2>1, <2>2, <2>3
<1>17. ASSUME NEW p \in Proc, ScanInsert(p) PROVE TypeOK'
  <2>1. CASE EndsWithoutWriting(p)
    BY <2>1, <1>4
  <2>2. CASE InsertAllowed(req[p].codes, req[p].codes)
    <3>1. req[p].tenant \in Tenants
      BY <1>17 DEF ScanInsert, RequestOK, KnowsItsArguments
    <3>2. DOMAIN barrels' \in SUBSET Codes /\ barrels' \in [DOMAIN barrels' -> Row]
      <4>1. req[p].codes \in SUBSET Codes
        BY Fields
      <4>2. [c \in req[p].codes |-> c] \in [req[p].codes -> Codes \cup {NoQr}]
        BY <4>1
      <4>3. barrels' = WithRows(req[p].codes, req[p].tenant, "ACTIVE", [c \in req[p].codes |-> c])
        BY <1>17, <2>2 DEF ScanInsert
      <4>4. QED
        BY <1>9, <3>1, <4>1, <4>2, <4>3
    <3>3. req' \in [Proc -> Request]
      BY <1>3, <1>17, <2>2, Fields DEF ScanInsert, Goto, Steps
    <3>4. QED
      BY <1>17, <2>2, <3>2, <3>3, Fields DEF ScanInsert, TypeOK
  <2>3. QED
    BY <1>17, <2>1, <2>2 DEF ScanInsert
<1>18. ASSUME NEW p \in Proc, ScanSync(p) PROVE TypeOK'
  <2>1. lastNumber' \in 0..MaxCode
    BY <1>18, Fields DEF ScanSync, Codes, TypeOK
  <2>2. req' \in [Proc -> Request]
    BY <1>3, <1>18, Fields DEF ScanSync, Goto, Steps
  <2>3. QED
    BY <1>18, <2>1, <2>2 DEF ScanSync, TypeOK
<1>19. ASSUME NEW p \in Proc, CreateCycles(p) PROVE TypeOK'
  <2>1. req[p].tenant \in Tenants
    BY <1>19 DEF CreateCycles, RequestOK, KnowsItsArguments
  <2>2. QED
    BY <1>2, <1>11, <1>19, <2>1 DEF CreateCycles, TypeOK
<1>20. ASSUME NEW p \in Proc, LinkWrite(p) PROVE TypeOK'
  <2>1. CASE EndsWithoutWriting(p)
    BY <2>1, <1>4
  <2>2. CASE HoldersOf(req[p].labels) \subseteq req[p].codes
    <3>1. PICK label \in OneEach(req[p].codes, req[p].labels) : barrels' = Labelled(label)
      BY <1>20, <2>2 DEF LinkWrite
    <3>2. /\ DOMAIN barrels' = Present
          /\ barrels' \in [Present -> Row]
      <4>1. DOMAIN label = req[p].codes /\ \A c \in req[p].codes : label[c] \in Codes
        BY Fields DEF OneEach
      <4>2. QED
        BY <3>1, <4>1 DEF Labelled, TypeOK, Present, Row
    <3>3. req' \in [Proc -> Request]
      BY <1>2, <1>20, <2>2 DEF LinkWrite
    <3>4. QED
      BY <1>20, <2>2, <3>2, <3>3 DEF LinkWrite, TypeOK, Present
  <2>3. QED
    BY <1>20, <2>1, <2>2 DEF LinkWrite
<1>21. ASSUME NEW p \in Proc, DeleteWrite(p) PROVE TypeOK'
  <2>1. DOMAIN barrels' = Present
    BY <1>21 DEF DeleteWrite
  <2>2. barrels' \in [Present -> Row]
    BY <1>21 DEF DeleteWrite, TypeOK, Present, Row
  <2>3. QED
    BY <1>2, <1>21, <2>1, <2>2 DEF DeleteWrite, TypeOK, Present
<1>22. ASSUME NEW p \in Proc, TransferWrite(p) PROVE TypeOK'
  <2>1. req[p].to \in Tenants
    BY <1>22 DEF TransferWrite, RequestOK, KnowsItsArguments
  <2>2. DOMAIN barrels' = Present
    BY <1>22 DEF TransferWrite
  <2>3. \A c \in Present : barrels[c].status \in {"PRE_REGISTERED", "ACTIVE"} /\ barrels[c] \in Row
    BY DEF TypeOK, Present, Row
  <2>4. barrels' \in [Present -> Row]
    BY <1>22, <2>1, <2>3, OwnedType DEF TransferWrite
  <2>5. history' \in [Codes -> Transfer]
    BY <1>22, <2>1, Fields DEF TransferWrite, Transfer, TypeOK
  <2>6. QED
    BY <1>2, <1>22, <2>2, <2>4, <2>5 DEF TransferWrite, TypeOK, Present
<1>23. CASE UNCHANGED vars
  BY <1>23 DEF vars, TypeOK
<1>24. QED
  BY <1>1, <1>5, <1>7, <1>8, <1>10, <1>12, <1>13, <1>14, <1>15, <1>16, <1>17, <1>18,
     <1>19, <1>20, <1>21, <1>22, <1>23 DEF Next, Continues

-----------------------------------------------------------------------------
(***************************************************************************)
(* What the steps of a request know about its arguments                    *)
(***************************************************************************)

LEMMA RequestInit == Init => RequestOK
BY DEF Init, RequestOK, KnowsItsArguments, Idle, Asks, Attempt

\* Only the slot that is written has to be looked at.
LEMMA RequestSlot ==
  ASSUME TypeOK, RequestOK, NEW p \in Proc, NEW r \in Request,
         req' = [req EXCEPT ![p] = r], KnowsItsArguments(r)
  PROVE  RequestOK'
BY DEF TypeOK, RequestOK, KnowsItsArguments

LEMMA RequestStep == TypeOK /\ RequestOK /\ [Next]_vars => RequestOK'
<1> SUFFICES ASSUME TypeOK, RequestOK, [Next]_vars PROVE RequestOK'
  OBVIOUS
<1> USE RegistryAssumption
<1>1. ASSUME NEW p \in Proc, Arrives(p) PROVE RequestOK'
  <2>1. PICK t \in Tenants : Arrives(p)!(t)
    BY <1>1 DEF Arrives
  <2>2. ASSUME NEW kind, NEW r \in Request, KnowsItsArguments(r), Begin(p, kind, r)
        PROVE  RequestOK'
    BY <2>2, RequestSlot DEF Begin
  <2>3. ASSUME NEW pc \in Steps \ {"importReserve", "activate", "scanInsert", "sync",
                                   "transfer", "transferBatch"},
               NEW kind, NEW codes \in SUBSET Codes, NEW labels \in SUBSET Codes,
               Begin(p, kind, Asks(pc, t, NoTenant, codes, labels))
        PROVE  RequestOK'
    BY <2>2, <2>3, AsksType DEF KnowsItsArguments, Asks, Attempt
  <2>4. CASE create(p, t)
    BY <2>3, <2>4 DEF create, Steps
  <2>5. CASE validateNewRows(p, t)
    <3>1. PICK labels \in SUBSET HandLabels :
            labels # {} /\ Begin(p, "import", Asks("importReserve", t, NoTenant, {}, labels))
      BY <2>5 DEF validateNewRows
    <3>2. Asks("importReserve", t, NoTenant, {}, labels) \in Request
      BY AsksType DEF Steps
    <3>3. KnowsItsArguments(Asks("importReserve", t, NoTenant, {}, labels))
      BY <3>1 DEF KnowsItsArguments, Asks, Attempt
    <3>4. QED
      BY <2>2, <3>1, <3>2, <3>3
  <2>6. CASE validateUpdateRows(p, t)
    BY <2>3, <2>6 DEF validateUpdateRows, Steps, Live, Present, TypeOK
  <2>7. CASE generateBatch(p, t)
    BY <2>3, <2>7 DEF generateBatch, Steps
  <2>8. ASSUME NEW c \in Codes, NEW pc \in {"activate", "scanInsert"},
               Begin(p, "scan", Asks(pc, t, NoTenant, {c}, {}))
        PROVE  RequestOK'
    <3>1. Asks(pc, t, NoTenant, {c}, {}) \in Request
      BY AsksType DEF Steps
    <3>2. KnowsItsArguments(Asks(pc, t, NoTenant, {c}, {}))
      BY DEF KnowsItsArguments, Asks, Attempt
    <3>3. QED
      BY <2>2, <2>8, <3>1, <3>2
  <2>9. ASSUME NEW c \in Codes, scanOrCreate(p, t, c) PROVE RequestOK'
    BY <2>8, <2>9 DEF scanOrCreate
  <2>10. ASSUME NEW c \in Codes, linkQr(p, t, c) PROVE RequestOK'
    BY <2>3, <2>10 DEF linkQr, Steps
  <2>11. ASSUME NEW c \in Codes, delete(p, t, c) PROVE RequestOK'
    BY <2>3, <2>11 DEF delete, Steps
  <2>12. ASSUME NEW c \in Codes, transferBarrel(p, t, c) PROVE RequestOK'
    <3>1. PICK to \in Tenants, step \in {"transfer", "transferBatch"} :
            Begin(p, "transfer", Asks(step, t, to, {c}, {}))
      BY <2>12 DEF transferBarrel
    <3>2. Asks(step, t, to, {c}, {}) \in Request
      BY AsksType DEF Steps
    <3>3. KnowsItsArguments(Asks(step, t, to, {c}, {}))
      BY DEF KnowsItsArguments, Asks, Attempt
    <3>4. QED
      BY <2>2, <3>1, <3>2, <3>3
  <2>13. CASE batchLinkQr(p, t)
    BY <2>3, <2>13, RegistryAssumption DEF batchLinkQr, Steps, Live, Present, TypeOK
  <2>14. QED
    BY <2>1, <2>4, <2>5, <2>6, <2>7, <2>9, <2>10, <2>11, <2>12, <2>13
<1>2. ASSUME NEW p \in Proc, req' = [req EXCEPT ![p] = Idle] PROVE RequestOK'
  BY <1>2, IdleType, RequestSlot DEF KnowsItsArguments, Idle, Asks, Attempt
<1>3. ASSUME NEW p \in Proc, NEW codes \in SUBSET Codes,
             NEW pc \in {"createInsert", "importInsert", "cycles"}, req[p].pc # "idle",
             req' = [req EXCEPT ![p] = At(p, pc, codes)]
      PROVE  RequestOK'
  <2>1. At(p, pc, codes) \in Request
    BY AtType DEF Steps
  <2>2. KnowsItsArguments(At(p, pc, codes))
    BY <1>3 DEF KnowsItsArguments, RequestOK, At, Asks, Attempt
  <2>3. QED
    BY <1>3, <2>1, <2>2, RequestSlot
<1>4. ASSUME NEW p \in Proc, NEW n \in Nat, NEW pc \in {"createInsert", "importInsert"},
             req[p].pc # "idle", Reserve(p, n, pc)
      PROVE  RequestOK'
  <2>1. NextBlock(n) \in SUBSET Codes
    BY <1>4 DEF Reserve, NextBlock, Codes, TypeOK
  <2>2. QED
    BY <1>3, <1>4, <2>1 DEF Reserve
<1>5. ASSUME NEW p \in Proc, generateInternalCode(p) PROVE RequestOK'
  BY <1>4, <1>5 DEF generateInternalCode
<1>6. ASSUME NEW p \in Proc, generateInternalCodes(p) PROVE RequestOK'
  <2>1. Cardinality(req[p].labels) \in Nat
    BY <1>6, Fields, LabelCount DEF generateInternalCodes, RequestOK, KnowsItsArguments
  <2>2. QED
    BY <1>4, <1>6, <2>1 DEF generateInternalCodes
<1>7. ASSUME NEW p \in Proc,
             \/ Abort(p) \/ importInsert(p) \/ importUpdate(p) \/ CreateCycles(p)
             \/ LinkWrite(p) \/ DeleteWrite(p) \/ TransferWrite(p)
             \/ \E n \in 1..MaxBlock : BatchCommit(p, n)
      PROVE  RequestOK'
  BY <1>2, <1>7 DEF Abort, importInsert, importUpdate, CreateCycles, LinkWrite, DeleteWrite,
                    TransferWrite, BatchCommit, EndsWithoutWriting
<1>8. ASSUME NEW p \in Proc, createInsert(p) \/ ScanActivate(p) \/ ScanSync(p)
      PROVE  RequestOK'
  BY <1>2, <1>3, <1>8, Fields DEF createInsert, ScanActivate, ScanSync, Goto, EndsWithoutWriting
<1>9. ASSUME NEW p \in Proc, ScanInsert(p) PROVE RequestOK'
  <2>1. CASE EndsWithoutWriting(p)
    BY <1>2, <2>1 DEF EndsWithoutWriting
  <2>2. CASE req' = [req EXCEPT ![p] = At(p, "sync", req[p].codes)]
    <3>1. At(p, "sync", req[p].codes) \in Request
      BY Fields, AtType DEF Steps
    <3>2. KnowsItsArguments(At(p, "sync", req[p].codes))
      BY <1>9 DEF ScanInsert, KnowsItsArguments, RequestOK, At, Asks, Attempt
    <3>3. QED
      BY <2>2, <3>1, <3>2, RequestSlot
  <2>3. QED
    BY <1>9, <2>1, <2>2 DEF ScanInsert, Goto
<1>10. ASSUME NEW p \in Proc, NEW n \in 1..MaxBlock, BatchConflict(p, n) PROVE RequestOK'
  <2>1. CASE req[p].tries + 1 < MAX_RETRIES
    <3> DEFINE again == Attempt(req[p].tries + 1, "batch", req[p].tenant, NoTenant, {}, {})
    <3>1. again \in Request
      <4>1. req[p].tries \in 0..MAX_RETRIES - 1 /\ req[p].tenant \in Tenants \cup {NoTenant}
        BY Fields
      <4>2. req[p].tries + 1 \in 0..MAX_RETRIES - 1
        BY <2>1, <4>1, RegistryAssumption
      <4>3. "batch" \in Steps /\ {} \in SUBSET Codes
        BY DEF Steps
      <4>4. QED
        BY <4>1, <4>2, <4>3, AttemptType
    <3>2. KnowsItsArguments(again)
      BY <1>10 DEF BatchConflict, KnowsItsArguments, RequestOK, Attempt
    <3>3. req' = [req EXCEPT ![p] = again]
      BY <1>10, <2>1 DEF BatchConflict
    <3> HIDE DEF again
    <3>4. QED
      BY <3>1, <3>2, <3>3, RequestSlot
  <2>2. CASE ~(req[p].tries + 1 < MAX_RETRIES)
    BY <1>2, <1>10, <2>2 DEF BatchConflict
  <2>3. QED
    BY <2>1, <2>2
<1>11. CASE UNCHANGED vars
  BY <1>11 DEF vars, RequestOK, KnowsItsArguments
<1>12. QED
  BY <1>1, <1>5, <1>6, <1>7, <1>8, <1>9, <1>10, <1>11 DEF Next, Continues

-----------------------------------------------------------------------------
(***************************************************************************)
(* Codes of the sequence, of the requests and of the table                 *)
(***************************************************************************)

LEMMA NumbersInit == Init => Numbers
BY DEF Init, Numbers, IssuedUpToLastNumber, ReservedApart, BeyondOnlyByScan,
       CollisionOnlyWithScan, SequenceCoversTable, Inserting, Present, Idle, Asks, Attempt

\* A step that writes no code and takes no code from the sequence, and that
\* leaves no scan without its UPDATE of the sequence.
LEMMA QuietStep ==
  ASSUME TypeOK, Numbers, NEW p \in Proc, NEW r \in Request,
         req' = [req EXCEPT ![p] = r],
         r.pc \notin {"createInsert", "importInsert"},
         Present' = Present,
         UNCHANGED <<lastNumber, issued, scanned>>,
         torn \subseteq torn',
         req[p].pc = "sync" =>
           \A c \in req[p].codes : c <= lastNumber \/ <<"sync", c>> \in torn'
  PROVE  Numbers'
<1>1. req'[p] = r /\ \A q \in Proc \ {p} : req'[q] = req[q]
  BY DEF TypeOK
<1>2. Inserting' \subseteq Inserting /\ p \notin Inserting'
  BY <1>1 DEF Inserting
<1>3. IssuedUpToLastNumber' /\ BeyondOnlyByScan'
  BY DEF Numbers, IssuedUpToLastNumber, BeyondOnlyByScan
<1>4. ReservedApart'
  BY <1>1, <1>2 DEF Numbers, ReservedApart, Inserting
<1>5. CollisionOnlyWithScan'
  BY <1>1 DEF Numbers, CollisionOnlyWithScan
<1>6. SequenceCoversTable'
  BY <1>1 DEF Numbers, SequenceCoversTable
<1>7. QED
  BY <1>3, <1>4, <1>5, <1>6 DEF Numbers

\* A block is taken from the sequence for the request of p.
LEMMA ReserveStep ==
  ASSUME TypeOK, Numbers, NEW p \in Proc, NEW n \in Nat \ {0},
         NEW pc \in {"createInsert", "importInsert"},
         req[p].pc # "sync", Reserve(p, n, pc)
  PROVE  Numbers'
<1>1. /\ req'[p].pc = pc /\ req'[p].codes = NextBlock(n)
      /\ \A q \in Proc \ {p} : req'[q] = req[q]
  BY DEF Reserve, TypeOK, At, Asks, Attempt
<1>2. lastNumber \in Nat /\ lastNumber' = lastNumber + n /\ issued' = issued \cup NextBlock(n)
  BY DEF Reserve, TypeOK
<1>3. \A c \in NextBlock(n) : c \in Int /\ c > lastNumber /\ c <= lastNumber'
  BY <1>2 DEF NextBlock
<1>4. \A c \in issued : c \in Int /\ c <= lastNumber
  BY DEF Numbers, IssuedUpToLastNumber, TypeOK, Codes
<1>5. Present' = Present /\ scanned' = scanned /\ torn' = torn
  BY DEF Reserve, Present
<1>6. \A c \in Present : c \in Int
  BY DEF TypeOK, Present, Codes
<1>7. IssuedUpToLastNumber'
  BY <1>2, <1>3, <1>4 DEF IssuedUpToLastNumber
<1>8. ReservedApart'
  <2>1. \A q \in Inserting' : q = p \/ q \in Inserting
    BY <1>1 DEF Inserting
  <2>2. \A q \in Inserting' : req'[q].codes \subseteq issued'
    BY <1>1, <1>2, <2>1 DEF Numbers, ReservedApart, Inserting
  <2>3. NextBlock(n) \cap issued = {}
    BY <1>2, <1>3, <1>4
  <2>4. \A q \in Inserting : req[q].codes \subseteq issued
    BY DEF Numbers, ReservedApart
  <2>5. \A q \in Inserting' \ {p} : q \in Inserting /\ req'[q].codes = req[q].codes
    BY <1>1, <2>1 DEF Inserting
  <2>6. \A q, u \in Inserting' : q # u => req'[q].codes \cap req'[u].codes = {}
    BY <1>1, <2>3, <2>4, <2>5 DEF Numbers, ReservedApart
  <2>7. QED
    BY <2>2, <2>6 DEF ReservedApart
<1>9. BeyondOnlyByScan'
  BY <1>2, <1>5, <1>6 DEF Numbers, BeyondOnlyByScan
<1>10. CollisionOnlyWithScan'
  <2>1. NextBlock(n) \cap Present \subseteq scanned
    BY <1>2, <1>3, <1>6 DEF Numbers, BeyondOnlyByScan
  <2>2. QED
    BY <1>1, <1>5, <2>1 DEF Numbers, CollisionOnlyWithScan
<1>11. SequenceCoversTable'
  <2>1. \A q \in Proc : req[q].pc = "sync" => req'[q] = req[q]
    BY <1>1
  <2>2. QED
    <3>1. SUFFICES ASSUME NEW c \in Present, ~(c <= lastNumber')
                   PROVE  \/ \E q \in Proc : req'[q].pc = "sync" /\ c \in req'[q].codes
                          \/ <<"sync", c>> \in torn'
      BY <1>5 DEF SequenceCoversTable
    <3>2. ~(c <= lastNumber)
      BY <1>2, <1>6, <3>1
    <3>3. \/ \E q \in Proc : req[q].pc = "sync" /\ c \in req[q].codes
          \/ <<"sync", c>> \in torn
      BY <3>2 DEF Numbers, SequenceCoversTable
    <3>4. QED
      BY <1>5, <2>1, <3>3
<1>12. QED
  BY <1>7, <1>8, <1>9, <1>10, <1>11 DEF Numbers

\* The request of p writes the codes it reserved.
LEMMA InsertStep ==
  ASSUME TypeOK, Numbers, NEW p \in Inserting, NEW r \in Request,
         req' = [req EXCEPT ![p] = r],
         r.pc \notin {"createInsert", "importInsert"},
         Present' = Present \cup req[p].codes,
         UNCHANGED <<lastNumber, issued, scanned, torn>>
  PROVE  Numbers'
<1>1. req'[p] = r /\ \A q \in Proc \ {p} : req'[q] = req[q]
  BY DEF TypeOK, Inserting
<1>2. Inserting' = Inserting \ {p}
  BY <1>1 DEF Inserting
<1>3. \A c \in req[p].codes : c <= lastNumber
  BY DEF Numbers, ReservedApart, IssuedUpToLastNumber
<1>4. IssuedUpToLastNumber'
  BY DEF Numbers, IssuedUpToLastNumber
<1>5. ReservedApart'
  BY <1>1, <1>2 DEF Numbers, ReservedApart, Inserting
<1>6. BeyondOnlyByScan'
  BY <1>3 DEF Numbers, BeyondOnlyByScan
<1>7. CollisionOnlyWithScan'
  <2>1. \A q \in Inserting' : req'[q].codes \cap req[p].codes = {}
    BY <1>1, <1>2 DEF Numbers, ReservedApart, Inserting
  <2>2. \A q \in Inserting' : req'[q].codes \cap Present \subseteq scanned
    BY <1>1, <1>2 DEF Numbers, CollisionOnlyWithScan, Inserting
  <2>3. QED
    BY <2>1, <2>2 DEF CollisionOnlyWithScan, Inserting
<1>8. SequenceCoversTable'
  BY <1>1, <1>3 DEF Numbers, SequenceCoversTable, Inserting
<1>9. QED
  BY <1>4, <1>5, <1>6, <1>7, <1>8 DEF Numbers

\* The table's codes after rows are added.
LEMMA PresentWithRows ==
  ASSUME NEW codes, NEW t, NEW status, NEW label, barrels' = WithRows(codes, t, status, label)
  PROVE  Present' = Present \cup codes
BY DEF Present, WithRows

LEMMA ScanInsertStep ==
  ASSUME TypeOK, RequestOK, Numbers, NEW p \in Proc, ScanInsert(p),
         req' = [req EXCEPT ![p] = At(p, "sync", req[p].codes)]
  PROVE  Numbers'
<1>1. /\ req'[p].pc = "sync" /\ req'[p].codes = req[p].codes
      /\ \A q \in Proc \ {p} : req'[q] = req[q]
  BY DEF TypeOK, At, Asks, Attempt
<1>2. req[p].pc = "scanInsert"
  BY DEF ScanInsert
<1>3. /\ Present' = Present \cup req[p].codes
      /\ scanned' = scanned \cup req[p].codes
      /\ UNCHANGED <<lastNumber, issued, torn>>
  <2>1. req' # [req EXCEPT ![p] = Idle]
    BY <1>1 DEF Idle, Asks, Attempt, TypeOK
  <2>2. QED
    BY <2>1, PresentWithRows DEF ScanInsert, EndsWithoutWriting
<1>4. Inserting' = Inserting
  BY <1>1, <1>2 DEF Inserting
<1>5. IssuedUpToLastNumber'
  BY <1>3 DEF Numbers, IssuedUpToLastNumber
<1>6. ReservedApart'
  BY <1>1, <1>2, <1>3, <1>4 DEF Numbers, ReservedApart, Inserting
<1>7. BeyondOnlyByScan'
  BY <1>3 DEF Numbers, BeyondOnlyByScan
<1>8. CollisionOnlyWithScan'
  BY <1>1, <1>3 DEF Numbers, CollisionOnlyWithScan
<1>9. SequenceCoversTable'
  BY <1>1, <1>2, <1>3 DEF Numbers, SequenceCoversTable
<1>10. QED
  BY <1>5, <1>6, <1>7, <1>8, <1>9 DEF Numbers

LEMMA ScanSyncStep ==
  ASSUME TypeOK, RequestOK, Numbers, NEW p \in Proc, ScanSync(p)
  PROVE  Numbers'
<1>1. PICK c \in Codes : req[p].codes = {c}
  BY DEF ScanSync, RequestOK, KnowsItsArguments
<1>2. /\ lastNumber \in Int /\ lastNumber' \in Int
      /\ lastNumber <= lastNumber' /\ c <= lastNumber'
  BY <1>1 DEF ScanSync, TypeOK, Codes
<1>3. req'[p].pc = "cycles" /\ \A q \in Proc \ {p} : req'[q] = req[q]
  BY DEF ScanSync, Goto, TypeOK, At, Asks, Attempt
<1>4. Present' = Present /\ UNCHANGED <<issued, scanned, torn>>
  BY DEF ScanSync, Present
<1>5. Inserting' = Inserting /\ p \notin Inserting
  BY <1>3 DEF ScanSync, Inserting
<1>6. Present \subseteq Int /\ issued \subseteq Int
  BY DEF TypeOK, Present, Codes
<1>7. IssuedUpToLastNumber'
  BY <1>2, <1>4, <1>6 DEF Numbers, IssuedUpToLastNumber
<1>8. ReservedApart'
  BY <1>3, <1>4, <1>5 DEF Numbers, ReservedApart, Inserting
<1>9. BeyondOnlyByScan'
  BY <1>2, <1>4, <1>6 DEF Numbers, BeyondOnlyByScan
<1>10. CollisionOnlyWithScan'
  BY <1>3, <1>4 DEF Numbers, CollisionOnlyWithScan
<1>11. SequenceCoversTable'
  <2>1. SUFFICES ASSUME NEW d \in Present, ~(d <= lastNumber')
                 PROVE  \/ \E q \in Proc : req'[q].pc = "sync" /\ d \in req'[q].codes
                        \/ <<"sync", d>> \in torn'
    BY <1>4 DEF SequenceCoversTable
  <2>2. d # c /\ ~(d <= lastNumber)
    BY <1>2, <1>6, <2>1
  <2>3. \/ \E q \in Proc \ {p} : req[q].pc = "sync" /\ d \in req[q].codes
        \/ <<"sync", d>> \in torn
    BY <1>1, <2>2 DEF Numbers, SequenceCoversTable
  <2>4. QED
    BY <1>3, <1>4, <2>3
<1>12. QED
  BY <1>7, <1>8, <1>9, <1>10, <1>11 DEF Numbers

LEMMA BatchStep ==
  ASSUME TypeOK, Numbers, NEW p \in Proc, NEW n \in 1..MaxBlock, BatchCommit(p, n)
  PROVE  Numbers'
<1>1. req'[p].pc = "idle" /\ \A q \in Proc \ {p} : req'[q] = req[q]
  BY DEF BatchCommit, TypeOK, Idle, Asks, Attempt
<1>2. /\ lastNumber \in Int /\ lastNumber' \in Int /\ lastNumber <= lastNumber'
      /\ issued' = issued \cup NextBlock(n) /\ UNCHANGED <<scanned, torn>>
  BY DEF BatchCommit, TypeOK
<1>3. Present' = Present \cup NextBlock(n)
  BY PresentWithRows DEF BatchCommit
<1>4. \A c \in NextBlock(n) : c \in Int /\ c > lastNumber /\ c <= lastNumber'
  BY DEF NextBlock, BatchCommit, TypeOK
<1>5. \A c \in issued : c \in Int /\ c <= lastNumber
  BY DEF Numbers, IssuedUpToLastNumber, TypeOK, Codes
<1>6. Present \subseteq Int
  BY DEF TypeOK, Present, Codes
<1>7. Inserting' = Inserting /\ p \notin Inserting
  BY <1>1 DEF BatchCommit, Inserting
<1>8. IssuedUpToLastNumber'
  BY <1>2, <1>4, <1>5 DEF IssuedUpToLastNumber
<1>9. ReservedApart'
  BY <1>1, <1>2, <1>7 DEF Numbers, ReservedApart, Inserting
<1>10. BeyondOnlyByScan'
  BY <1>2, <1>3, <1>4, <1>6 DEF Numbers, BeyondOnlyByScan
<1>11. CollisionOnlyWithScan'
  <2>1. \A q \in Inserting' : req'[q].codes \subseteq issued
    BY <1>1, <1>7 DEF Numbers, ReservedApart, Inserting
  <2>2. NextBlock(n) \cap issued = {}
    BY <1>2, <1>4, <1>5
  <2>3. \A q \in Inserting' : req'[q].codes \cap Present \subseteq scanned
    BY <1>1, <1>7 DEF Numbers, CollisionOnlyWithScan, Inserting
  <2>4. QED
    BY <1>2, <1>3, <2>1, <2>2, <2>3 DEF CollisionOnlyWithScan, Inserting
<1>12. SequenceCoversTable'
  <2>1. \A q \in Proc : req[q].pc = "sync" => req'[q] = req[q]
    BY <1>1 DEF BatchCommit
  <2>2. SUFFICES ASSUME NEW c \in Present', ~(c <= lastNumber')
                 PROVE  \/ \E q \in Proc : req'[q].pc = "sync" /\ c \in req'[q].codes
                        \/ <<"sync", c>> \in torn'
    BY DEF SequenceCoversTable
  <2>3. c \in Present /\ ~(c <= lastNumber)
    BY <1>2, <1>3, <1>4, <1>6, <2>2
  <2>4. \/ \E q \in Proc : req[q].pc = "sync" /\ c \in req[q].codes
        \/ <<"sync", c>> \in torn
    BY <2>3 DEF Numbers, SequenceCoversTable
  <2>5. QED
    BY <1>2, <2>1, <2>4
<1>13. QED
  BY <1>8, <1>9, <1>10, <1>11, <1>12 DEF Numbers

LEMMA NumbersStep == TypeOK /\ RequestOK /\ Numbers /\ [Next]_vars => Numbers'
<1> SUFFICES ASSUME TypeOK, RequestOK, Numbers, [Next]_vars PROVE Numbers'
  OBVIOUS
<1> USE RegistryAssumption
<1>1. ASSUME NEW p \in Proc, Arrives(p) PROVE Numbers'
  <2>1. PICK t \in Tenants : Arrives(p)!(t)
    BY <1>1 DEF Arrives
  <2>2. ASSUME NEW kind, NEW pc \in Steps \ {"createInsert", "importInsert"},
               NEW to \in Tenants \cup {NoTenant}, NEW codes \in SUBSET Codes,
               NEW labels \in SUBSET Codes, Begin(p, kind, Asks(pc, t, to, codes, labels))
        PROVE  Numbers'
    <3>1. Asks(pc, t, to, codes, labels) \in Request
      BY AsksType
    <3>2. Asks(pc, t, to, codes, labels).pc = pc
      BY DEF Asks, Attempt
    <3> DEFINE r == Asks(pc, t, to, codes, labels)
    <3>3. /\ r \in Request /\ r.pc \notin {"createInsert", "importInsert"}
          /\ req' = [req EXCEPT ![p] = r] /\ req[p].pc = "idle" /\ Present' = Present
          /\ UNCHANGED <<lastNumber, issued, scanned, torn>>
      BY <2>2, <3>1, <3>2 DEF Begin, Present
    <3> HIDE DEF r
    <3>4. QED
      BY <3>3, QuietStep
  <2>3. CASE create(p, t)
    BY <2>2, <2>3 DEF create, Steps
  <2>4. CASE validateNewRows(p, t)
    BY <2>2, <2>4 DEF validateNewRows, Steps
  <2>5. CASE validateUpdateRows(p, t)
    BY <2>2, <2>5 DEF validateUpdateRows, Steps, Live, Present, TypeOK
  <2>6. CASE generateBatch(p, t)
    BY <2>2, <2>6 DEF generateBatch, Steps
  <2>7. ASSUME NEW c \in Codes, scanOrCreate(p, t, c) PROVE Numbers'
    BY <2>2, <2>7 DEF scanOrCreate, Steps
  <2>8. ASSUME NEW c \in Codes, linkQr(p, t, c) PROVE Numbers'
    BY <2>2, <2>8 DEF linkQr, Steps
  <2>9. ASSUME NEW c \in Codes, delete(p, t, c) PROVE Numbers'
    BY <2>2, <2>9 DEF delete, Steps
  <2>10. ASSUME NEW c \in Codes, transferBarrel(p, t, c) PROVE Numbers'
    BY <2>2, <2>10 DEF transferBarrel, Steps
  <2>11. CASE batchLinkQr(p, t)
    BY <2>2, <2>11, RegistryAssumption DEF batchLinkQr, Steps, Live, Present, TypeOK
  <2>12. QED
    BY <2>1, <2>3, <2>4, <2>5, <2>6, <2>7, <2>8, <2>9, <2>10, <2>11
<1>2. ASSUME NEW p \in Proc, NEW pc \in Steps \ {"createInsert", "importInsert"},
             NEW codes \in SUBSET Codes, req' = [req EXCEPT ![p] = At(p, pc, codes)],
             req[p].pc # "sync", Present' = Present,
             UNCHANGED <<lastNumber, issued, scanned, torn>>
      PROVE  Numbers'
  <2>1. At(p, pc, codes) \in Request /\ At(p, pc, codes).pc = pc
    BY AtType DEF At, Asks, Attempt
  <2>2. QED
    BY <1>2, <2>1, QuietStep
<1>3. ASSUME NEW p \in Proc, req' = [req EXCEPT ![p] = Idle],
             req[p].pc # "sync", Present' = Present,
             UNCHANGED <<lastNumber, issued, scanned, torn>>
      PROVE  Numbers'
  <2>1. Idle.pc = "idle"
    BY DEF Idle, Asks, Attempt
  <2>2. QED
    BY <1>3, <2>1, IdleType, QuietStep
<1>4. ASSUME NEW p \in Proc, Abort(p) PROVE Numbers'
  <2>1. Idle.pc = "idle"
    BY DEF Idle, Asks, Attempt
  <2>2. torn \subseteq torn'
    BY <1>4 DEF Abort
  <2>3. req[p].pc = "sync" => \A c \in req[p].codes : <<"sync", c>> \in torn'
    BY <1>4 DEF Abort
  <2>4. Present' = Present
    BY <1>4 DEF Abort, Present
  <2>5. QED
    BY <1>4, <2>1, <2>2, <2>3, <2>4, IdleType, QuietStep DEF Abort
<1>5. ASSUME NEW p \in Proc, EndsWithoutWriting(p), req[p].pc # "sync" PROVE Numbers'
  BY <1>3, <1>5 DEF EndsWithoutWriting, Present
<1>6. ASSUME NEW p \in Proc, generateInternalCode(p) PROVE Numbers'
  BY <1>6, ReserveStep DEF generateInternalCode
<1>7. ASSUME NEW p \in Proc, generateInternalCodes(p) PROVE Numbers'
  <2>1. Cardinality(req[p].labels) \in Nat \ {0}
    BY <1>7, Fields, LabelCount DEF generateInternalCodes, RequestOK, KnowsItsArguments
  <2>2. QED
    BY <1>7, <2>1, ReserveStep DEF generateInternalCodes
<1>8. ASSUME NEW p \in Proc, createInsert(p) PROVE Numbers'
  <2>1. CASE InsertAllowed(req[p].codes, req[p].labels)
    <3>1. Present' = Present \cup req[p].codes
      BY <1>8, <2>1, PresentWithRows DEF createInsert
    <3>2. /\ At(p, "cycles", req[p].codes) \in Request
          /\ At(p, "cycles", req[p].codes).pc = "cycles"
      BY Fields, AtType DEF Steps, At, Asks, Attempt
    <3>3. QED
      BY <1>8, <2>1, <3>1, <3>2, InsertStep DEF createInsert, Goto, Inserting
  <2>2. CASE ~InsertAllowed(req[p].codes, req[p].labels)
    BY <1>5, <1>8, <2>2 DEF createInsert
  <2>3. QED
    BY <2>1, <2>2
<1>9. ASSUME NEW p \in Proc, importInsert(p) PROVE Numbers'
  <2>1. CASE InsertAllowed(req[p].codes, req[p].labels)
    <3>1. Present' = Present \cup req[p].codes
      BY <1>9, <2>1, PresentWithRows DEF importInsert
    <3>2. Idle.pc = "idle"
      BY DEF Idle, Asks, Attempt
    <3>3. QED
      BY <1>9, <2>1, <3>1, <3>2, IdleType, InsertStep DEF importInsert, Inserting
  <2>2. CASE ~InsertAllowed(req[p].codes, req[p].labels)
    BY <1>5, <1>9, <2>2 DEF importInsert
  <2>3. QED
    BY <2>1, <2>2
<1>10. ASSUME NEW p \in Proc,
              \/ importUpdate(p) \/ CreateCycles(p) \/ LinkWrite(p) \/ DeleteWrite(p)
              \/ TransferWrite(p)
       PROVE  Numbers'
  <2>1. CASE EndsWithoutWriting(p)
    BY <1>5, <1>10, <2>1 DEF importUpdate, CreateCycles, LinkWrite, DeleteWrite, TransferWrite
  <2>2. CASE ~EndsWithoutWriting(p)
    <3>1. Present' = Present
      BY <1>10, <2>2 DEF importUpdate, CreateCycles, LinkWrite, Labelled, DeleteWrite,
                           TransferWrite, Present
    <3>2. /\ req' = [req EXCEPT ![p] = Idle] /\ req[p].pc # "sync"
          /\ UNCHANGED <<lastNumber, issued, scanned, torn>>
      BY <1>10, <2>2 DEF importUpdate, CreateCycles, LinkWrite, DeleteWrite, TransferWrite
    <3>3. QED
      BY <1>3, <3>1, <3>2
  <2>3. QED
    BY <2>1, <2>2
<1>11. ASSUME NEW p \in Proc, NEW n \in 1..MaxBlock, BatchConflict(p, n) PROVE Numbers'
  <2>1. CASE req[p].tries + 1 < MAX_RETRIES
    <3> DEFINE again == Attempt(req[p].tries + 1, "batch", req[p].tenant, NoTenant, {}, {})
    <3>1. again \in Request
      <4>1. req[p].tries \in 0..MAX_RETRIES - 1 /\ req[p].tenant \in Tenants \cup {NoTenant}
        BY Fields
      <4>2. req[p].tries + 1 \in 0..MAX_RETRIES - 1
        BY <2>1, <4>1, RegistryAssumption
      <4>3. "batch" \in Steps /\ {} \in SUBSET Codes
        BY DEF Steps
      <4>4. QED
        BY <4>1, <4>2, <4>3, AttemptType
    <3>2. again.pc = "batch"
      BY DEF Attempt
    <3>3. /\ req' = [req EXCEPT ![p] = again] /\ req[p].pc # "sync" /\ Present' = Present
          /\ UNCHANGED <<lastNumber, issued, scanned, torn>>
      BY <1>11, <2>1 DEF BatchConflict, Present
    <3> HIDE DEF again
    <3>4. QED
      BY <3>1, <3>2, <3>3, QuietStep
  <2>2. CASE ~(req[p].tries + 1 < MAX_RETRIES)
    BY <1>3, <1>11, <2>2 DEF BatchConflict, Present
  <2>3. QED
    BY <2>1, <2>2
<1>12. ASSUME NEW p \in Proc, ScanActivate(p) PROVE Numbers'
  <2>1. CASE EndsWithoutWriting(p)
    BY <1>5, <1>12, <2>1 DEF ScanActivate
  <2>2. CASE ~EndsWithoutWriting(p)
    <3>1. Present' = Present
      BY <1>12, <2>2 DEF ScanActivate, Present
    <3>2. /\ req' = [req EXCEPT ![p] = At(p, "cycles", req[p].codes)]
          /\ req[p].pc # "sync"
          /\ UNCHANGED <<lastNumber, issued, scanned, torn>>
      BY <1>12, <2>2 DEF ScanActivate, Goto
    <3>3. QED
      BY <1>2, <3>1, <3>2, Fields DEF Steps
  <2>3. QED
    BY <2>1, <2>2
<1>13. ASSUME NEW p \in Proc, ScanInsert(p) PROVE Numbers'
  <2>1. CASE EndsWithoutWriting(p)
    BY <1>5, <1>13, <2>1 DEF ScanInsert
  <2>2. CASE ~EndsWithoutWriting(p)
    BY <1>13, <2>2, ScanInsertStep DEF ScanInsert, Goto
  <2>3. QED
    BY <2>1, <2>2
<1>14. CASE UNCHANGED vars
  BY <1>14 DEF vars, Numbers, IssuedUpToLastNumber, ReservedApart, BeyondOnlyByScan,
               CollisionOnlyWithScan, SequenceCoversTable, Inserting, Present
<1>15. QED
  BY <1>1, <1>4, <1>6, <1>7, <1>8, <1>9, <1>10, <1>11, <1>12, <1>13, <1>14, ScanSyncStep,
     BatchStep DEF Next, Continues

-----------------------------------------------------------------------------
(***************************************************************************)
(* Theorems                                                                *)
(***************************************************************************)

\* The strengthened invariant holds in every reachable state.
THEOREM Inductive == Spec => []IInv
<1>1. Init => IInv
  BY TypeInit, RequestInit, NumbersInit DEF IInv
<1>2. IInv /\ [Next]_vars => IInv'
  BY TypeStep, RequestStep, NumbersStep DEF IInv
<1>3. QED
  BY <1>1, <1>2, PTL DEF Spec

\* Tables and requests keep their shape, whatever the number of requests in
\* flight, of tenants and of codes.
THEOREM TypeCorrect == Spec => []TypeOK
<1>1. IInv => TypeOK
  BY DEF IInv
<1>2. QED
  BY <1>1, Inductive, PTL

\* A code that create or an import reserved is taken, when they insert it, at
\* most by a barrel that a scan created (create, generateInternalCode,
\* generateInternalCodes, processImportChunks, generateBatch).
THEOREM CollisionSafe == Spec => []CollisionOnlyWithScan
<1>1. IInv => CollisionOnlyWithScan
  BY DEF IInv, Numbers
<1>2. QED
  BY <1>1, Inductive, PTL

\* No barrel has a code beyond the sequence, but for the scans that have not
\* run the UPDATE of the sequence (scanOrCreate).
THEOREM SequenceSafe == Spec => []SequenceCoversTable
<1>1. IInv => SequenceCoversTable
  BY DEF IInv, Numbers
<1>2. QED
  BY <1>1, Inductive, PTL

\* The step of the registry is a step of the abstract allocator, or leaves
\* the codes handed out alone.
LEMMA AllocatorStep == IInv /\ [Next]_vars => [Allocator!Next]_issued
<1> SUFFICES ASSUME IInv, [Next]_vars PROVE Allocator!Next \/ UNCHANGED issued
  OBVIOUS
<1>1. TypeOK /\ RequestOK /\ IssuedUpToLastNumber
  BY DEF IInv, Numbers
<1>2. ASSUME NEW n \in Nat \ {0}, lastNumber + n <= MaxCode,
             issued' = issued \cup NextBlock(n)
      PROVE  Allocator!Next
  <2>1. NextBlock(n) \in SUBSET Codes /\ lastNumber + 1 \in NextBlock(n)
    BY <1>1, <1>2, RegistryAssumption DEF NextBlock, Codes, TypeOK
  <2>2. NextBlock(n) \cap issued = {}
    BY <1>1 DEF NextBlock, IssuedUpToLastNumber, TypeOK, Codes
  <2>3. Allocator!Issue(NextBlock(n))
    BY <1>2, <2>1, <2>2 DEF Allocator!Issue
  <2>4. QED
    BY <2>1, <2>3 DEF Allocator!Next
<1>3. ASSUME NEW p \in Proc, generateInternalCode(p) PROVE Allocator!Next
  BY <1>2, <1>3 DEF generateInternalCode, Reserve
<1>4. ASSUME NEW p \in Proc, generateInternalCodes(p) PROVE Allocator!Next
  <2>1. Cardinality(req[p].labels) \in Nat \ {0}
    BY <1>1, <1>4, Fields, LabelCount DEF generateInternalCodes, RequestOK, KnowsItsArguments
  <2>2. QED
    BY <1>2, <1>4, <2>1 DEF generateInternalCodes, Reserve
<1>5. ASSUME NEW p \in Proc, NEW n \in 1..MaxBlock, BatchCommit(p, n) PROVE Allocator!Next
  BY <1>2, <1>5 DEF BatchCommit
<1>6. ASSUME NEW p \in Proc, Arrives(p) PROVE UNCHANGED issued
  BY <1>6 DEF Arrives, create, validateNewRows, validateUpdateRows, generateBatch, scanOrCreate,
              linkQr, batchLinkQr, delete, transferBarrel, Begin
<1>7. ASSUME NEW p \in Proc,
             \/ Abort(p) \/ createInsert(p) \/ importInsert(p) \/ importUpdate(p)
             \/ ScanActivate(p) \/ ScanInsert(p) \/ ScanSync(p) \/ CreateCycles(p)
             \/ LinkWrite(p) \/ DeleteWrite(p) \/ TransferWrite(p)
             \/ \E n \in 1..MaxBlock : BatchConflict(p, n)
      PROVE  UNCHANGED issued
  BY <1>7 DEF Abort, createInsert, importInsert, importUpdate, ScanActivate, ScanInsert, ScanSync,
              CreateCycles, LinkWrite, DeleteWrite, TransferWrite, BatchConflict,
              EndsWithoutWriting
<1>8. QED
  BY <1>3, <1>4, <1>5, <1>6, <1>7 DEF Next, Continues, vars

\* The sequence of the registry implements the abstract allocator: it hands
\* no code out a second time.
THEOREM Refinement == Spec => AllocatorSpec
<1>1. Init => Allocator!Init
  BY DEF Init, Allocator!Init
<1>2. QED
  BY <1>1, AllocatorStep, Inductive, PTL DEF Spec, AllocatorSpec, Allocator!Spec

-----------------------------------------------------------------------------
(***************************************************************************)
(* OneBarrelPerLabel is inductive: every write checks the unique index.    *)
(***************************************************************************)

\* Rows added with labels that no row holds, one each, keep the labels apart.
LEMMA LabelsInserted ==
  ASSUME TypeOK, OneBarrelPerLabel, NEW codes \in SUBSET Codes, NEW labels \in SUBSET Codes,
         NEW t, NEW s, NEW label \in [codes -> labels \cup {NoQr}],
         \A c, d \in codes : label[c] = label[d] /\ c # d => label[c] = NoQr,
         InsertAllowed(codes, labels), barrels' = WithRows(codes, t, s, label)
  PROVE  OneBarrelPerLabel'
<1>1. DOMAIN barrels' = Present \cup codes
  BY DEF WithRows
<1>2. \A c \in codes : c \notin Present /\ barrels'[c].qr = label[c]
  BY DEF WithRows, InsertAllowed
<1>3. \A c \in Present : barrels'[c].qr = barrels[c].qr
  BY <1>2 DEF WithRows
<1>4. \A c \in Present, d \in codes : barrels[c].qr # label[d] \/ label[d] = NoQr
  BY DEF InsertAllowed, HoldersOf
<1>5. \A c, d \in Present \cup codes :
        barrels'[c].qr = barrels'[d].qr /\ c # d => barrels'[c].qr = NoQr
  BY <1>2, <1>3, <1>4 DEF OneBarrelPerLabel
<1>6. QED
  BY <1>1, <1>5 DEF OneBarrelPerLabel, Present

\* A step that writes no label keeps them apart.
LEMMA LabelsKept ==
  ASSUME OneBarrelPerLabel, Present' = Present, \A c \in Present : barrels'[c].qr = barrels[c].qr
  PROVE  OneBarrelPerLabel'
BY DEF OneBarrelPerLabel

LEMMA LabelsStep == TypeOK /\ RequestOK /\ OneBarrelPerLabel /\ [Next]_vars => OneBarrelPerLabel'
<1> SUFFICES ASSUME TypeOK, RequestOK, OneBarrelPerLabel, [Next]_vars PROVE OneBarrelPerLabel'
  OBVIOUS
<1>1. CASE UNCHANGED barrels
  BY <1>1 DEF OneBarrelPerLabel, Present
<1>2. ASSUME NEW p \in Proc, Arrives(p) PROVE UNCHANGED barrels
  BY <1>2 DEF Arrives, create, validateNewRows, validateUpdateRows, generateBatch, scanOrCreate,
              linkQr, batchLinkQr, delete, transferBarrel, Begin
<1>3. ASSUME NEW p \in Proc,
             \/ Abort(p) \/ generateInternalCode(p) \/ generateInternalCodes(p)
             \/ ScanSync(p) \/ CreateCycles(p) \/ EndsWithoutWriting(p)
             \/ \E n \in 1..MaxBlock : BatchConflict(p, n)
      PROVE  UNCHANGED barrels
  BY <1>3 DEF Abort, generateInternalCode, generateInternalCodes, Reserve, ScanSync, CreateCycles,
              EndsWithoutWriting, BatchConflict
<1>4. ASSUME NEW p \in Proc, NEW label \in Labellings(req[p].codes, req[p].labels),
             InsertAllowed(req[p].codes, req[p].labels),
             barrels' = WithRows(req[p].codes, req[p].tenant, "ACTIVE", label)
      PROVE  OneBarrelPerLabel'
  BY <1>4, Fields, LabelsInserted DEF Labellings
<1>5. ASSUME NEW p \in Proc, createInsert(p) \/ importInsert(p) PROVE OneBarrelPerLabel'
  BY <1>1, <1>3, <1>4, <1>5 DEF createInsert, importInsert
<1>6. ASSUME NEW p \in Proc, importUpdate(p) \/ DeleteWrite(p) \/ TransferWrite(p)
      PROVE  OneBarrelPerLabel'
  <2>1. Present' = Present /\ \A c \in Present : barrels'[c].qr = barrels[c].qr
    BY <1>6 DEF importUpdate, DeleteWrite, TransferWrite, Owned, Present
  <2>2. QED
    BY <2>1, LabelsKept
<1>7. ASSUME NEW p \in Proc, NEW n \in 1..MaxBlock, BatchCommit(p, n) PROVE OneBarrelPerLabel'
  <2>1. NextBlock(n) \in SUBSET Codes
    BY <1>7, RegistryAssumption DEF BatchCommit, NextBlock, Codes, TypeOK
  <2> DEFINE label == [c \in NextBlock(n) |-> c]
  <2>2. /\ label \in [NextBlock(n) -> NextBlock(n) \cup {NoQr}]
        /\ \A c, d \in NextBlock(n) : label[c] = label[d] /\ c # d => label[c] = NoQr
    OBVIOUS
  <2>3. /\ barrels' = WithRows(NextBlock(n), req[p].tenant, "PRE_REGISTERED", label)
        /\ InsertAllowed(NextBlock(n), NextBlock(n))
    BY <1>7 DEF BatchCommit
  <2> HIDE DEF label
  <2>4. QED
    BY <2>1, <2>2, <2>3, LabelsInserted
<1>8. ASSUME NEW p \in Proc, ScanInsert(p) PROVE OneBarrelPerLabel'
  <2>1. CASE EndsWithoutWriting(p)
    BY <1>1, <1>3, <2>1
  <2>2. CASE ~EndsWithoutWriting(p)
    <3> DEFINE label == [c \in req[p].codes |-> c]
    <3>1. /\ label \in [req[p].codes -> req[p].codes \cup {NoQr}]
          /\ \A c, d \in req[p].codes : label[c] = label[d] /\ c # d => label[c] = NoQr
      OBVIOUS
    <3>2. /\ barrels' = WithRows(req[p].codes, req[p].tenant, "ACTIVE", label)
          /\ InsertAllowed(req[p].codes, req[p].codes)
      BY <1>8, <2>2 DEF ScanInsert
    <3> HIDE DEF label
    <3>3. QED
      BY <3>1, <3>2, Fields, LabelsInserted
  <2>3. QED
    BY <2>1, <2>2
<1>9. ASSUME NEW p \in Proc, ScanActivate(p) PROVE OneBarrelPerLabel'
  <2>1. CASE EndsWithoutWriting(p)
    BY <1>1, <1>3, <2>1
  <2>2. CASE ~EndsWithoutWriting(p)
    <3>1. PICK c \in req[p].codes :
            /\ HoldersOf({c}) \subseteq {c}
            /\ barrels' = [barrels EXCEPT ![c] =
                             [tenant |-> req[p].tenant, status |-> "ACTIVE", qr |-> c,
                              deleted |-> barrels[c].deleted]]
      BY <1>9, <2>2 DEF ScanActivate
    <3>2. \A d \in Present : barrels[d].qr = c => d = c
      BY <3>1 DEF HoldersOf
    <3>3. Present' = Present
          /\ \A d \in Present : barrels'[d].qr = IF d = c THEN c ELSE barrels[d].qr
      BY <3>1 DEF Present
    <3>4. QED
      BY <3>2, <3>3 DEF OneBarrelPerLabel
  <2>3. QED
    BY <2>1, <2>2
<1>10. ASSUME NEW p \in Proc, LinkWrite(p) PROVE OneBarrelPerLabel'
  <2>1. CASE EndsWithoutWriting(p)
    BY <1>1, <1>3, <2>1
  <2>2. CASE ~EndsWithoutWriting(p)
    <3>1. PICK label \in OneEach(req[p].codes, req[p].labels) : barrels' = Labelled(label)
      BY <1>10, <2>2 DEF LinkWrite
    <3>2. /\ DOMAIN label = req[p].codes
          /\ \A c \in req[p].codes : label[c] \in req[p].labels
          /\ \A c, d \in req[p].codes : label[c] = label[d] => c = d
      BY DEF OneEach
    <3>3. \A d \in Present : barrels[d].qr \in req[p].labels => d \in req[p].codes
      BY <1>10, <2>2 DEF LinkWrite, HoldersOf
    <3>4. Present' = Present
          /\ \A d \in Present : barrels'[d].qr = IF d \in req[p].codes THEN label[d]
                                                 ELSE barrels[d].qr
      BY <3>1, <3>2 DEF Labelled, Present
    <3>5. QED
      BY <3>2, <3>3, <3>4 DEF OneBarrelPerLabel
  <2>3. QED
    BY <2>1, <2>2
<1>11. QED
  BY <1>1, <1>2, <1>3, <1>5, <1>6, <1>7, <1>8, <1>9, <1>10 DEF Next, Continues, vars

\* A label names one barrel at most, whoever links, scans, imports or deletes.
THEOREM LabelsApart == Spec => []OneBarrelPerLabel
<1>1. Init => OneBarrelPerLabel
  BY DEF Init, OneBarrelPerLabel, Present
<1>2. IInv => TypeOK /\ RequestOK
  BY DEF IInv
<1>3. QED
  BY <1>1, <1>2, LabelsStep, Inductive, PTL DEF Spec

-----------------------------------------------------------------------------
(***************************************************************************)
(* The owner of a barrel at work has cycles for it                         *)
(***************************************************************************)

\* The requests that stand before the cycles of their codes.
Owing == {p \in Proc : req[p].pc \in {"sync", "cycles"}}

\* The tenants whose cycles the barrel c has, or a request owes it, or owed it
\* when it ended.
Covered(c) ==
  {t \in Tenants :
     \/ t \in cycles[c]
     \/ \E p \in Owing : req[p].tenant = t /\ c \in req[p].codes
     \/ <<"sync", c>> \in torn
     \/ <<"cycles", c>> \in torn}

OwnerIsCovered ==
  \A c \in Present :
    barrels[c].status = "ACTIVE" /\ history[c] = NoTransfer => barrels[c].tenant \in Covered(c)

LEMMA OwnerCovered == TypeOK => (OwnerHasCycles <=> OwnerIsCovered)
<1> SUFFICES ASSUME TypeOK PROVE OwnerHasCycles <=> OwnerIsCovered
  OBVIOUS
<1>1. \A c \in Present : barrels[c].tenant \in Tenants
  BY DEF TypeOK, Present, Row
<1>2. QED
  BY <1>1 DEF OwnerHasCycles, OwnerIsCovered, Covered, Owing

\* A step of a request that owes no cycles takes none away.
LEMMA CoveredKept ==
  ASSUME TypeOK, NEW p \in Proc, p \notin Owing, \A q \in Proc \ {p} : req'[q] = req[q],
         torn' = torn, NEW c \in Codes, cycles[c] \subseteq cycles'[c]
  PROVE  Covered(c) \subseteq Covered(c)'
<1>1. ASSUME NEW q \in Owing PROVE q \in Owing' /\ req'[q] = req[q]
  BY <1>1 DEF Owing
<1>2. QED
  BY <1>1 DEF Covered

\* The steps of a request that owes cycles: it creates them, goes on, or ends.
LEMMA CoveredByOwing ==
  ASSUME TypeOK, RequestOK, NEW p \in Proc, NEW c \in Codes,
         ScanSync(p) \/ CreateCycles(p) \/ Abort(p)
  PROVE  Covered(c) \subseteq Covered(c)'
<1>1. \A q \in Proc \ {p} : req'[q] = req[q]
  BY DEF ScanSync, Goto, CreateCycles, Abort, TypeOK
<1>2. ASSUME NEW q \in Owing, q # p PROVE q \in Owing' /\ req'[q] = req[q]
  BY <1>1, <1>2 DEF Owing
<1>3. CASE ScanSync(p)
  <2>1. req'[p].pc = "cycles" /\ req'[p].tenant = req[p].tenant /\ req'[p].codes = req[p].codes
    BY <1>3 DEF ScanSync, Goto, At, Asks, Attempt, TypeOK
  <2>2. p \in Owing'
    BY <2>1 DEF Owing
  <2>3. torn' = torn /\ cycles' = cycles
    BY <1>3 DEF ScanSync
  <2>4. QED
    BY <1>2, <2>1, <2>2, <2>3 DEF Covered
<1>4. CASE CreateCycles(p)
  <2>1. torn' = torn
        /\ cycles'[c] = IF c \in req[p].codes THEN cycles[c] \cup {req[p].tenant} ELSE cycles[c]
    BY <1>4 DEF CreateCycles
  <2>2. QED
    BY <1>2, <2>1 DEF Covered
<1>5. CASE Abort(p)
  <2>1. /\ cycles' = cycles
        /\ torn \subseteq torn'
    BY <1>5 DEF Abort
  <2>2. p \in Owing /\ c \in req[p].codes => <<"sync", c>> \in torn' \/ <<"cycles", c>> \in torn'
    BY <1>5 DEF Abort, Owing
  <2>3. QED
    BY <1>2, <2>1, <2>2 DEF Covered
<1>6. QED
  BY <1>3, <1>4, <1>5

\* The owner stays covered when nobody gets a barrel and no barrel starts work.
LEMMA OwnersKept ==
  ASSUME TypeOK, OwnerIsCovered, \A c \in Codes : Covered(c) \subseteq Covered(c)',
         Present' = Present, history' = history,
         \A c \in Present : /\ barrels'[c].tenant = barrels[c].tenant
                            /\ barrels'[c].status = barrels[c].status
  PROVE  OwnerIsCovered'
<1>1. Present \subseteq Codes
  BY DEF TypeOK, Present
<1>2. QED
  BY <1>1 DEF OwnerIsCovered

\* The request that makes tenant t the owner of codes leaves them covered.
LEMMA OwnersChanged ==
  ASSUME TypeOK, OwnerIsCovered, NEW codes \in SUBSET Codes, NEW t \in Tenants,
         \A c \in Codes : Covered(c) \subseteq Covered(c)', history' = history,
         Present' = Present \cup codes,
         \A c \in codes : barrels'[c].tenant = t /\ t \in Covered(c)',
         \A c \in Present \ codes : barrels'[c] = barrels[c]
  PROVE  OwnerIsCovered'
<1>1. Present \subseteq Codes
  BY DEF TypeOK, Present
<1>2. QED
  BY <1>1 DEF OwnerIsCovered

LEMMA OwnerStep == TypeOK /\ RequestOK /\ OwnerIsCovered /\ [Next]_vars => OwnerIsCovered'
<1> SUFFICES ASSUME TypeOK, RequestOK, OwnerIsCovered, [Next]_vars PROVE OwnerIsCovered'
  OBVIOUS
<1>1. CASE UNCHANGED vars
  BY <1>1 DEF vars, OwnerIsCovered, Covered, Owing, Present
<1>2. ASSUME NEW p \in Proc, p \notin Owing, \A q \in Proc \ {p} : req'[q] = req[q],
             UNCHANGED <<barrels, cycles, history, torn>>
      PROVE  OwnerIsCovered'
  <2>1. \A c \in Codes : Covered(c) \subseteq Covered(c)'
    BY <1>2, CoveredKept
  <2>2. QED
    BY <1>2, <2>1, OwnersKept DEF Present
<1>3. ASSUME NEW p \in Proc, EndsWithoutWriting(p), p \notin Owing PROVE OwnerIsCovered'
  BY <1>2, <1>3 DEF EndsWithoutWriting, TypeOK
<1>4. ASSUME NEW p \in Proc, Arrives(p) PROVE OwnerIsCovered'
  <2>1. PICK kind, r : Begin(p, kind, r)
    BY <1>4 DEF Arrives, create, validateNewRows, validateUpdateRows, generateBatch, scanOrCreate,
                linkQr, batchLinkQr, delete, transferBarrel
  <2>2. QED
    BY <1>2, <2>1 DEF Begin, Owing, TypeOK
<1>5. ASSUME NEW p \in Proc, ScanSync(p) \/ CreateCycles(p) \/ Abort(p) PROVE OwnerIsCovered'
  <2>1. \A c \in Codes : Covered(c) \subseteq Covered(c)'
    BY <1>5, CoveredByOwing
  <2>2. UNCHANGED <<barrels, history>>
    BY <1>5 DEF ScanSync, CreateCycles, Abort
  <2>3. QED
    BY <2>1, <2>2, OwnersKept DEF Present
<1>6. ASSUME NEW p \in Proc, generateInternalCode(p) \/ generateInternalCodes(p)
      PROVE  OwnerIsCovered'
  BY <1>2, <1>6 DEF generateInternalCode, generateInternalCodes, Reserve, Owing, TypeOK
<1>7. ASSUME NEW p \in Proc, NEW n \in 1..MaxBlock, BatchConflict(p, n) PROVE OwnerIsCovered'
  BY <1>2, <1>7 DEF BatchConflict, Owing, TypeOK
<1>8. ASSUME NEW p \in Proc, LinkWrite(p) \/ DeleteWrite(p) PROVE OwnerIsCovered'
  <2>1. CASE EndsWithoutWriting(p)
    BY <1>3, <1>8, <2>1 DEF LinkWrite, DeleteWrite, Owing
  <2>2. CASE ~EndsWithoutWriting(p)
    <3>1. /\ p \notin Owing
          /\ \A q \in Proc \ {p} : req'[q] = req[q]
          /\ UNCHANGED <<cycles, history, torn>>
      BY <1>8, <2>2 DEF LinkWrite, DeleteWrite, Owing, TypeOK
    <3>2. Present' = Present
          /\ \A c \in Present : /\ barrels'[c].tenant = barrels[c].tenant
                                /\ barrels'[c].status = barrels[c].status
      BY <1>8, <2>2 DEF LinkWrite, Labelled, DeleteWrite, Present
    <3>3. \A c \in Codes : Covered(c) \subseteq Covered(c)'
      BY <3>1, CoveredKept
    <3>4. QED
      BY <3>1, <3>2, <3>3, OwnersKept
  <2>3. QED
    BY <2>1, <2>2
<1>9. ASSUME NEW p \in Proc, TransferWrite(p) PROVE OwnerIsCovered'
  <2>1. /\ p \notin Owing
        /\ \A q \in Proc \ {p} : req'[q] = req[q]
        /\ UNCHANGED <<cycles, torn>>
        /\ req[p].tenant \in Tenants
    BY <1>9 DEF TransferWrite, Owing, TypeOK, RequestOK, KnowsItsArguments
  <2>2. \A c \in Codes : Covered(c) \subseteq Covered(c)'
    BY <2>1, CoveredKept
  <2>3. Present \subseteq Codes /\ Present' = Present
    BY <1>9 DEF TransferWrite, TypeOK, Present
  <2>4. ASSUME NEW c \in Present, c \in req[p].codes PROVE history'[c] # NoTransfer
    BY <1>9, <2>1, <2>3, <2>4, RegistryAssumption DEF TransferWrite, NoTransfer
  <2>5. ASSUME NEW c \in Present, c \notin req[p].codes
        PROVE  barrels'[c] = barrels[c] /\ history'[c] = history[c]
    BY <1>9, <2>3, <2>5 DEF TransferWrite
  <2>6. QED
    BY <2>2, <2>3, <2>4, <2>5 DEF OwnerIsCovered
<1>10. ASSUME NEW p \in Proc, p \notin Owing, \A q \in Proc \ {p} : req'[q] = req[q],
              req[p].tenant \in Tenants, torn' = torn, history' = history,
              cycles' = [c \in Codes |-> IF c \in req[p].codes
                                         THEN cycles[c] \cup {req[p].tenant} ELSE cycles[c]],
              Present' = Present \cup req[p].codes,
              \A c \in req[p].codes : barrels'[c].tenant = req[p].tenant,
              \A c \in Present \ req[p].codes : barrels'[c] = barrels[c]
       PROVE  OwnerIsCovered'
  <2>1. \A c \in Codes : cycles[c] \subseteq cycles'[c]
    BY <1>10
  <2>2. \A c \in Codes : Covered(c) \subseteq Covered(c)'
    BY <1>10, <2>1, CoveredKept
  <2>3. req[p].codes \in SUBSET Codes
    BY Fields
  <2>4. \A c \in req[p].codes : req[p].tenant \in Covered(c)'
    BY <1>10, <2>3 DEF Covered
  <2>5. QED
    BY <1>10, <2>2, <2>3, <2>4, OwnersChanged
<1>11. ASSUME NEW p \in Proc, p \notin Owing, \A q \in Proc \ {p} : req'[q] = req[q],
              req'[p].pc \in {"sync", "cycles"}, req'[p].tenant = req[p].tenant,
              req'[p].codes = req[p].codes,
              req[p].tenant \in Tenants, torn' = torn, history' = history, cycles' = cycles,
              Present' = Present \cup req[p].codes,
              \A c \in req[p].codes : barrels'[c].tenant = req[p].tenant,
              \A c \in Present \ req[p].codes : barrels'[c] = barrels[c]
       PROVE  OwnerIsCovered'
  <2>1. \A c \in Codes : Covered(c) \subseteq Covered(c)'
    BY <1>11, CoveredKept
  <2>2. p \in Owing'
    BY <1>11 DEF Owing
  <2>3. \A c \in req[p].codes : req[p].tenant \in Covered(c)'
    BY <1>11, <2>2 DEF Covered
  <2>4. req[p].codes \in SUBSET Codes
    BY Fields
  <2>5. QED
    BY <1>11, <2>1, <2>3, <2>4, OwnersChanged
<1>12. ASSUME NEW p \in Proc, NEW label,
              barrels' = WithRows(req[p].codes, req[p].tenant, "ACTIVE", label)
       PROVE  /\ Present' = Present \cup req[p].codes
              /\ \A c \in req[p].codes : barrels'[c].tenant = req[p].tenant
              /\ \A c \in Present \ req[p].codes : barrels'[c] = barrels[c]
  BY <1>12 DEF WithRows, Present
<1>13. ASSUME NEW p \in Proc, NEW pc, Goto(p, pc)
       PROVE  /\ \A q \in Proc \ {p} : req'[q] = req[q]
              /\ req'[p].pc = pc
              /\ req'[p].tenant = req[p].tenant
              /\ req'[p].codes = req[p].codes
  BY <1>13 DEF Goto, At, Asks, Attempt, TypeOK
<1>14. ASSUME NEW p \in Proc, createInsert(p) PROVE OwnerIsCovered'
  <2>1. p \notin Owing /\ req[p].tenant \in Tenants
    BY <1>14 DEF createInsert, Owing, RequestOK, KnowsItsArguments
  <2>2. CASE EndsWithoutWriting(p)
    BY <1>3, <2>1, <2>2
  <2>3. CASE ~EndsWithoutWriting(p)
    <3>1. PICK label : barrels' = WithRows(req[p].codes, req[p].tenant, "ACTIVE", label)
      BY <1>14, <2>3 DEF createInsert
    <3>2. Goto(p, "cycles") /\ UNCHANGED <<cycles, history, torn>>
      BY <1>14, <2>3 DEF createInsert
    <3>3. QED
      BY <1>11, <1>12, <1>13, <2>1, <3>1, <3>2
  <2>4. QED
    BY <2>2, <2>3
<1>15. ASSUME NEW p \in Proc, ScanInsert(p) PROVE OwnerIsCovered'
  <2>1. p \notin Owing /\ req[p].tenant \in Tenants
    BY <1>15 DEF ScanInsert, Owing, RequestOK, KnowsItsArguments
  <2>2. CASE EndsWithoutWriting(p)
    BY <1>3, <2>1, <2>2
  <2>3. CASE ~EndsWithoutWriting(p)
    <3>1. PICK label : barrels' = WithRows(req[p].codes, req[p].tenant, "ACTIVE", label)
      BY <1>15, <2>3 DEF ScanInsert
    <3>2. Goto(p, "sync") /\ UNCHANGED <<cycles, history, torn>>
      BY <1>15, <2>3 DEF ScanInsert
    <3>3. QED
      BY <1>11, <1>12, <1>13, <2>1, <3>1, <3>2
  <2>4. QED
    BY <2>2, <2>3
<1>16. ASSUME NEW p \in Proc, importInsert(p) PROVE OwnerIsCovered'
  <2>1. p \notin Owing /\ req[p].tenant \in Tenants
    BY <1>16 DEF importInsert, Owing, RequestOK, KnowsItsArguments
  <2>2. CASE EndsWithoutWriting(p)
    BY <1>3, <2>1, <2>2
  <2>3. CASE ~EndsWithoutWriting(p)
    <3>1. PICK label : barrels' = WithRows(req[p].codes, req[p].tenant, "ACTIVE", label)
      BY <1>16, <2>3 DEF importInsert
    <3>2. /\ \A q \in Proc \ {p} : req'[q] = req[q]
          /\ UNCHANGED <<history, torn>>
          /\ cycles' = [c \in Codes |-> IF c \in req[p].codes
                                        THEN cycles[c] \cup {req[p].tenant} ELSE cycles[c]]
      BY <1>16, <2>3 DEF importInsert, TypeOK
    <3>3. QED
      BY <1>10, <1>12, <2>1, <3>1, <3>2
  <2>4. QED
    BY <2>2, <2>3
<1>17. ASSUME NEW p \in Proc, importUpdate(p) PROVE OwnerIsCovered'
  <2>1. p \notin Owing /\ req[p].tenant \in Tenants
    BY <1>17 DEF importUpdate, Owing, RequestOK, KnowsItsArguments
  <2>2. /\ \A q \in Proc \ {p} : req'[q] = req[q]
        /\ UNCHANGED <<history, torn>>
        /\ Present' = Present
        /\ \A c \in Present : barrels'[c] = IF c \in req[p].codes
                                            THEN Owned(barrels[c], req[p].tenant, "ACTIVE")
                                            ELSE barrels[c]
        /\ cycles' = [c \in Codes |-> IF c \in req[p].codes
                                      THEN cycles[c] \cup {req[p].tenant} ELSE cycles[c]]
    BY <1>17 DEF importUpdate, Present, TypeOK
  <2>3. \A c \in Codes : cycles[c] \subseteq cycles'[c]
    BY <2>2
  <2>4. \A c \in Codes : Covered(c) \subseteq Covered(c)'
    BY <2>1, <2>2, <2>3, CoveredKept
  <2>5. Present \subseteq Codes
    BY DEF TypeOK, Present
  <2>6. ASSUME NEW c \in Present, c \in req[p].codes
        PROVE  barrels'[c].tenant = req[p].tenant /\ req[p].tenant \in Covered(c)'
    <3>1. barrels'[c] = Owned(barrels[c], req[p].tenant, "ACTIVE")
      BY <2>2, <2>6
    <3>2. barrels'[c].tenant = req[p].tenant
      BY <3>1 DEF Owned
    <3>3. cycles'[c] = cycles[c] \cup {req[p].tenant}
      BY <2>2, <2>5, <2>6
    <3>4. QED
      BY <2>1, <3>2, <3>3 DEF Covered
  <2>7. QED
    BY <2>2, <2>4, <2>5, <2>6 DEF OwnerIsCovered
<1>18. ASSUME NEW p \in Proc, NEW n \in 1..MaxBlock, BatchCommit(p, n) PROVE OwnerIsCovered'
  <2>1. /\ p \notin Owing
        /\ \A q \in Proc \ {p} : req'[q] = req[q]
        /\ UNCHANGED <<cycles, history, torn>>
    BY <1>18 DEF BatchCommit, Owing, TypeOK
  <2>2. \A c \in Codes : Covered(c) \subseteq Covered(c)'
    BY <2>1, CoveredKept
  <2>3. /\ Present' = Present \cup NextBlock(n)
        /\ \A c \in NextBlock(n) : barrels'[c].status # "ACTIVE"
        /\ \A c \in Present \ NextBlock(n) : barrels'[c] = barrels[c]
    BY <1>18 DEF BatchCommit, WithRows, Present
  <2>4. Present \subseteq Codes
    BY DEF TypeOK, Present
  <2>5. QED
    BY <2>1, <2>2, <2>3, <2>4 DEF OwnerIsCovered
<1>19. ASSUME NEW p \in Proc, ScanActivate(p) PROVE OwnerIsCovered'
  <2>1. p \notin Owing /\ req[p].tenant \in Tenants
    BY <1>19 DEF ScanActivate, Owing, RequestOK, KnowsItsArguments
  <2>2. CASE EndsWithoutWriting(p)
    BY <1>3, <2>1, <2>2
  <2>3. CASE ~EndsWithoutWriting(p)
    <3>1. PICK c \in req[p].codes :
            /\ barrels' = [barrels EXCEPT ![c] =
                             [tenant |-> req[p].tenant, status |-> "ACTIVE", qr |-> c,
                              deleted |-> barrels[c].deleted]]
            /\ Goto(p, "cycles")
            /\ UNCHANGED <<cycles, history, torn>>
      BY <1>19, <2>3 DEF ScanActivate
    <3>2. /\ \A q \in Proc \ {p} : req'[q] = req[q]
          /\ req'[p].pc = "cycles"
          /\ req'[p].tenant = req[p].tenant
          /\ c \in req'[p].codes
      BY <1>13, <3>1
    <3>3. \A d \in Codes : Covered(d) \subseteq Covered(d)'
      BY <2>1, <3>1, <3>2, CoveredKept
    <3>4. p \in Owing'
      BY <3>2 DEF Owing
    <3>5. req[p].tenant \in Covered(c)'
      BY <2>1, <3>2, <3>4 DEF Covered
    <3>6. /\ Present' = Present
          /\ \A d \in Present : barrels'[d].tenant = IF d = c THEN req[p].tenant
                                                     ELSE barrels[d].tenant
          /\ \A d \in Present \ {c} : barrels'[d] = barrels[d]
      BY <3>1 DEF Present
    <3>7. Present \subseteq Codes
      BY DEF TypeOK, Present
    <3>8. QED
      BY <3>1, <3>3, <3>5, <3>6, <3>7 DEF OwnerIsCovered
  <2>4. QED
    BY <2>2, <2>3
<1>20. QED
  BY <1>1, <1>4, <1>5, <1>6, <1>7, <1>8, <1>9, <1>14, <1>15, <1>16, <1>17, <1>18, <1>19
     DEF Next, Continues

\* A barrel at work that was never transferred has the cycles of its owner, or a
\* request owes it them, or one ended before it created them.
THEOREM OwnerProvided == Spec => []OwnerHasCycles
<1>1. Init => OwnerIsCovered
  BY DEF Init, OwnerIsCovered, Present
<1>2. IInv => TypeOK /\ RequestOK
  BY DEF IInv
<1>3. IInv /\ OwnerIsCovered => OwnerHasCycles
  BY <1>2, OwnerCovered
<1>4. QED
  BY <1>1, <1>2, <1>3, OwnerStep, Inductive, PTL DEF Spec
=============================================================================
