--------------------------- MODULE BarrelRegistry ---------------------------
(***************************************************************************)
(* The registry of barrels: how a barrel gets its internal code, its QR    *)
(* label, its owner and its component cycles.  Translated from             *)
(* backend/src/barrel/barrel.service.ts (create, generateInternalCode(s),  *)
(* generateBatch, scanOrCreate, the two parts of processImportChunks,      *)
(* linkQr, batchLinkQr, transferBarrel, delete) and from transferBatch of  *)
(* super-admin.service.ts.                                                 *)
(*                                                                         *)
(* A request is a sequence of awaits on the database.  Each await is one   *)
(* action here, so the requests of Proc interleave between any two of      *)
(* them, and a request may end between any two of them (Abort).            *)
(*                                                                         *)
(* The code KS-BAR-nnnnnnnnn is the number n.  QR labels are free text,    *)
(* but the ones the program prints are the codes themselves, so a label is *)
(* a number too.                                                           *)
(***************************************************************************)
EXTENDS Integers, FiniteSets

CONSTANTS
  Proc,         \* slots for requests being served at the same time
  Tenants,      \* the breweries
  NoTenant,     \* the field of a request that names no tenant
  MaxCode,      \* bound of the model: the greatest code in play
  MaxBlock,     \* bound of the model: the most codes one request asks for
  HandLabels,   \* the labels users type or import by hand
  Serves,       \* bound of the model: the kinds of request that arrive
  MAX_RETRIES   \* attempts generateBatch makes

Codes == 1..MaxCode

Kinds == {"create", "import", "batch", "scan", "link", "transfer", "delete"}

ASSUME RegistryAssumption ==
  /\ NoTenant \notin Tenants
  /\ MaxCode \in Nat
  /\ MaxBlock \in Nat
  /\ HandLabels \subseteq Codes
  /\ Serves \subseteq Kinds
  /\ MAX_RETRIES \in Nat \ {0}

VARIABLES
  lastNumber,   \* barrel_sequences.lastNumber of the row 'global'
  barrels,      \* the table barrels, by internalCode
  cycles,       \* per code, the tenants whose configs its ComponentCycles use
  history,      \* per code, the newest row of ownership_history
  req,          \* the requests being served
  issued,       \* every code the sequence has handed out (history variable)
  scanned,      \* the codes whose row a scan inserted    (history variable)
  torn          \* requests that ended between two writes (history variable)

vars == <<lastNumber, barrels, cycles, history, req, issued, scanned, torn>>

NoQr == -1

Row == [tenant : Tenants, status : {"PRE_REGISTERED", "ACTIVE"},
        qr : Codes \cup {NoQr}, deleted : BOOLEAN]

Transfer == [from : Tenants \cup {NoTenant}, to : Tenants \cup {NoTenant}]
NoTransfer == [from |-> NoTenant, to |-> NoTenant]

\* Where a request stands: the await it will run next.
Steps == {"idle", "createReserve", "createInsert", "importReserve", "importInsert",
          "importUpdate", "batch", "activate", "scanInsert", "sync", "cycles",
          "link", "transfer", "transferBatch", "delete"}

Request == [pc : Steps, tenant : Tenants \cup {NoTenant}, to : Tenants \cup {NoTenant},
            codes : SUBSET Codes, labels : SUBSET Codes, tries : 0..MAX_RETRIES - 1]

\* A request of tenant t, on its way to tenant "to" if it is a transfer, that
\* runs step pc next with the codes and the labels it has at hand.
Attempt(n, pc, t, to, codes, labels) ==
  [pc |-> pc, tenant |-> t, to |-> to, codes |-> codes, labels |-> labels, tries |-> n]

Asks(pc, t, to, codes, labels) == Attempt(0, pc, t, to, codes, labels)

Idle == Asks("idle", NoTenant, NoTenant, {}, {})

-----------------------------------------------------------------------------
(***************************************************************************)
(* The table and its unique indexes.  They hold soft-deleted rows too,     *)
(* while every lookup of the services filters deletedAt: null.             *)
(***************************************************************************)

Present == DOMAIN barrels
Live == {c \in Present : ~barrels[c].deleted}

\* Faulty: a unique index that forgets soft-deleted rows.
HoldersOfLive(labels) == {c \in Live : barrels[c].qr \in labels}

\* The rows that hold one of the labels.
HoldersOf(labels) == {c \in Present : barrels[c].qr \in labels}

\* createMany / create does not run into barrels_internalCode_key or
\* barrels_qrCode_key.
InsertAllowed(codes, labels) ==
  /\ codes \cap Present = {}
  /\ HoldersOf(labels) = {}

\* The table with rows for codes added; label gives each row its qrCode.
WithRows(codes, t, status, label) ==
  [c \in Present \cup codes |->
     IF c \in codes
     THEN [tenant |-> t, status |-> status, qr |-> label[c], deleted |-> FALSE]
     ELSE barrels[c]]

\* The row with another owner and status.
Owned(row, t, status) ==
  [tenant |-> t, status |-> status, qr |-> row.qr, deleted |-> row.deleted]

\* The ways to spread the labels of a request over its codes, one each.
Labellings(codes, labels) ==
  {f \in [codes -> labels \cup {NoQr}] :
     /\ labels \subseteq {f[c] : c \in codes}
     /\ \A c, d \in codes : f[c] = f[d] /\ c # d => f[c] = NoQr}

\* Faulty: startNumber = lastNumber - quantity, without the + 1.
NextBlockOffByOne(n) == lastNumber .. lastNumber + n - 1

\* The block of n codes after lastNumber.
NextBlock(n) == lastNumber + 1 .. lastNumber + n

-----------------------------------------------------------------------------
(***************************************************************************)
(* Starting and ending a request                                           *)
(***************************************************************************)

Begin(p, kind, r) ==
  /\ kind \in Serves
  /\ req[p].pc = "idle"
  /\ req' = [req EXCEPT ![p] = r]
  /\ UNCHANGED <<lastNumber, barrels, cycles, history, issued, scanned, torn>>

\* The request returns, or an error it does not catch ends it, with no write.
EndsWithoutWriting(p) ==
  /\ req' = [req EXCEPT ![p] = Idle]
  /\ UNCHANGED <<lastNumber, barrels, cycles, history, issued, scanned, torn>>

\* The request of p at step pc, for codes.
At(p, pc, codes) == Asks(pc, req[p].tenant, req[p].to, codes, req[p].labels)

Goto(p, pc) == req' = [req EXCEPT ![p] = At(p, pc, req[p].codes)]

\* The process stops, the connection drops or a constraint that is not
\* modelled (chassis number, alert) rejects the next write: what the request
\* has committed stays, the rest never happens.
Abort(p) ==
  /\ req[p].pc # "idle"
  /\ torn' = IF req[p].pc \in {"sync", "cycles"}
             THEN torn \cup {<<req[p].pc, c>> : c \in req[p].codes} ELSE torn
  /\ req' = [req EXCEPT ![p] = Idle]
  /\ UNCHANGED <<lastNumber, barrels, cycles, history, issued, scanned>>

\* createMany of ComponentCycles for the tenant's configs, skipDuplicates.
CreateCycles(p) ==
  /\ req[p].pc = "cycles"
  /\ cycles' = [c \in Codes |-> IF c \in req[p].codes
                                THEN cycles[c] \cup {req[p].tenant} ELSE cycles[c]]
  /\ req' = [req EXCEPT ![p] = Idle]
  /\ UNCHANGED <<lastNumber, barrels, history, issued, scanned, torn>>

-----------------------------------------------------------------------------
(***************************************************************************)
(* The sequence: generateInternalCode and generateInternalCodes, one       *)
(* serializable transaction that commits before anything is inserted.      *)
(***************************************************************************)

\* Faulty: the sequence moves by one, whatever the size of the block.
ReserveByOne(p, n, next) ==
  /\ lastNumber + n <= MaxCode
  /\ lastNumber' = lastNumber + 1
  /\ issued' = issued \cup NextBlock(n)
  /\ req' = [req EXCEPT ![p] = At(p, next, NextBlock(n))]
  /\ UNCHANGED <<barrels, cycles, history, scanned, torn>>

Reserve(p, n, next) ==
  /\ lastNumber + n <= MaxCode
  /\ lastNumber' = lastNumber + n
  /\ issued' = issued \cup NextBlock(n)
  /\ req' = [req EXCEPT ![p] = At(p, next, NextBlock(n))]
  /\ UNCHANGED <<barrels, cycles, history, scanned, torn>>

generateInternalCode(p) ==
  /\ req[p].pc = "createReserve"
  /\ Reserve(p, 1, "createInsert")

generateInternalCodes(p) ==
  /\ req[p].pc = "importReserve"
  /\ Reserve(p, Cardinality(req[p].labels), "importInsert")

-----------------------------------------------------------------------------
(***************************************************************************)
(* create and quickRegister                                                *)
(***************************************************************************)

\* The QR check reads live rows of every tenant.
create(p, t) ==
  \E labels \in {{}} \cup {{q} : q \in HandLabels} :
    /\ HoldersOf(labels) \cap Live = {}
    /\ Begin(p, "create", Asks("createReserve", t, NoTenant, {}, labels))

createInsert(p) ==
  /\ req[p].pc = "createInsert"
  /\ IF InsertAllowed(req[p].codes, req[p].labels)
     THEN /\ \E label \in Labellings(req[p].codes, req[p].labels) :
               barrels' = WithRows(req[p].codes, req[p].tenant, "ACTIVE", label)
          /\ Goto(p, "cycles")
          /\ UNCHANGED <<lastNumber, cycles, history, issued, scanned, torn>>
     ELSE EndsWithoutWriting(p)

-----------------------------------------------------------------------------
(***************************************************************************)
(* Import of a spreadsheet: validateImport looks the labels up, and        *)
(* processImportChunks writes later from what was found.                   *)
(***************************************************************************)

\* Part 1: rows whose label no live barrel holds.
validateNewRows(p, t) ==
  \E labels \in SUBSET HandLabels :
    /\ labels # {}
    /\ Cardinality(labels) <= MaxBlock
    /\ HoldersOf(labels) \cap Live = {}
    /\ Begin(p, "import", Asks("importReserve", t, NoTenant, {}, labels))

\* Barrels and cycles of the chunk in one transaction.
importInsert(p) ==
  /\ req[p].pc = "importInsert"
  /\ IF InsertAllowed(req[p].codes, req[p].labels)
     THEN /\ \E label \in Labellings(req[p].codes, req[p].labels) :
               barrels' = WithRows(req[p].codes, req[p].tenant, "ACTIVE", label)
          /\ cycles' = [c \in Codes |-> IF c \in req[p].codes
                                        THEN cycles[c] \cup {req[p].tenant} ELSE cycles[c]]
          /\ req' = [req EXCEPT ![p] = Idle]
          /\ UNCHANGED <<lastNumber, history, issued, scanned, torn>>
     ELSE EndsWithoutWriting(p)

\* Part 2: rows whose label a PRE_REGISTERED barrel of the tenant holds.
validateUpdateRows(p, t) ==
  \E codes \in SUBSET {c \in Live : /\ barrels[c].tenant = t
                                    /\ barrels[c].status = "PRE_REGISTERED"
                                    /\ barrels[c].qr # NoQr} :
    /\ codes # {}
    /\ Cardinality(codes) <= MaxBlock
    /\ Begin(p, "import", Asks("importUpdate", t, NoTenant, codes, {}))

\* The rows are written by id, whatever has happened to them since.
importUpdate(p) ==
  /\ req[p].pc = "importUpdate"
  /\ barrels' = [c \in Present |->
                   IF c \in req[p].codes
                   THEN Owned(barrels[c], req[p].tenant, "ACTIVE")
                   ELSE barrels[c]]
  /\ cycles' = [c \in Codes |-> IF c \in req[p].codes
                                THEN cycles[c] \cup {req[p].tenant} ELSE cycles[c]]
  /\ req' = [req EXCEPT ![p] = Idle]
  /\ UNCHANGED <<lastNumber, history, issued, scanned, torn>>

-----------------------------------------------------------------------------
(***************************************************************************)
(* generateBatch: sequence, barrels and batch record in one serializable   *)
(* transaction, tried again when it conflicts.                             *)
(***************************************************************************)

generateBatch(p, t) ==
  Begin(p, "batch", Asks("batch", t, NoTenant, {}, {}))

BatchCommit(p, n) ==
  /\ req[p].pc = "batch"
  /\ lastNumber + n <= MaxCode
  /\ InsertAllowed(NextBlock(n), NextBlock(n))
  /\ lastNumber' = lastNumber + n
  /\ issued' = issued \cup NextBlock(n)
  /\ barrels' = WithRows(NextBlock(n), req[p].tenant, "PRE_REGISTERED",
                         [c \in NextBlock(n) |-> c])
  /\ req' = [req EXCEPT ![p] = Idle]
  /\ UNCHANGED <<cycles, history, scanned, torn>>

\* Faulty: one attempt too many.
BatchConflictOnceMore(p, n) ==
  /\ req[p].pc = "batch"
  /\ lastNumber + n <= MaxCode
  /\ \/ ~InsertAllowed(NextBlock(n), NextBlock(n))
     \/ \E q \in Proc \ {p} : req[q].pc # "idle"
  /\ req' = IF req[p].tries < MAX_RETRIES
            THEN [req EXCEPT ![p] =
                    Attempt(req[p].tries + 1, "batch", req[p].tenant, NoTenant, {}, {})]
            ELSE [req EXCEPT ![p] = Idle]
  /\ UNCHANGED <<lastNumber, barrels, cycles, history, issued, scanned, torn>>

\* P2002 (a code or a label of the block is taken) or P2034 (another
\* transaction got in the way): all of it is rolled back, lastNumber too.
BatchConflict(p, n) ==
  /\ req[p].pc = "batch"
  /\ lastNumber + n <= MaxCode
  /\ \/ ~InsertAllowed(NextBlock(n), NextBlock(n))
     \/ \E q \in Proc \ {p} : req[q].pc # "idle"
  /\ req' = IF req[p].tries + 1 < MAX_RETRIES
            THEN [req EXCEPT ![p] =
                    Attempt(req[p].tries + 1, "batch", req[p].tenant, NoTenant, {}, {})]
            ELSE [req EXCEPT ![p] = Idle]
  /\ UNCHANGED <<lastNumber, barrels, cycles, history, issued, scanned, torn>>

-----------------------------------------------------------------------------
(***************************************************************************)
(* scanOrCreate                                                            *)
(***************************************************************************)

\* The lookup.  A live registered barrel is returned or refused: no write.
scanOrCreate(p, t, c) ==
  \/ /\ c \in Live
     /\ barrels[c].status = "PRE_REGISTERED"
     /\ Begin(p, "scan", Asks("activate", t, NoTenant, {c}, {}))
  \/ /\ c \notin Live
     /\ Begin(p, "scan", Asks("scanInsert", t, NoTenant, {c}, {}))

\* Faulty: an activation that keeps the cycles of the old tenant's configs.
ScanActivateOnly(p) ==
  /\ req[p].pc = "activate"
  /\ \E c \in req[p].codes :
       IF HoldersOf({c}) \subseteq {c}
       THEN /\ barrels' = [barrels EXCEPT ![c] =
                             [tenant |-> req[p].tenant, status |-> "ACTIVE", qr |-> c,
                              deleted |-> barrels[c].deleted]]
            /\ req' = [req EXCEPT ![p] = Idle]
            /\ UNCHANGED <<lastNumber, cycles, history, issued, scanned, torn>>
       ELSE EndsWithoutWriting(p)

\* update where id: neither the status nor the version is looked at again.
ScanActivate(p) ==
  /\ req[p].pc = "activate"
  /\ \E c \in req[p].codes :
       IF HoldersOf({c}) \subseteq {c}
       THEN /\ barrels' = [barrels EXCEPT ![c] =
                             [tenant |-> req[p].tenant, status |-> "ACTIVE", qr |-> c,
                              deleted |-> barrels[c].deleted]]
            /\ Goto(p, "cycles")
            /\ UNCHANGED <<lastNumber, cycles, history, issued, scanned, torn>>
       ELSE EndsWithoutWriting(p)

ScanInsert(p) ==
  /\ req[p].pc = "scanInsert"
  /\ IF InsertAllowed(req[p].codes, req[p].codes)
     THEN /\ barrels' = WithRows(req[p].codes, req[p].tenant, "ACTIVE",
                                 [c \in req[p].codes |-> c])
          /\ scanned' = scanned \cup req[p].codes
          /\ Goto(p, "sync")
          /\ UNCHANGED <<lastNumber, cycles, history, issued, torn>>
     ELSE EndsWithoutWriting(p)

\* Faulty: SET lastNumber = code, without GREATEST.
ScanSyncLast(p) ==
  /\ req[p].pc = "sync"
  /\ \E c \in req[p].codes : lastNumber' = c
  /\ Goto(p, "cycles")
  /\ UNCHANGED <<barrels, cycles, history, issued, scanned, torn>>

\* UPDATE barrel_sequences SET lastNumber = GREATEST(lastNumber, code)
ScanSync(p) ==
  /\ req[p].pc = "sync"
  /\ \E c \in req[p].codes :
       lastNumber' = IF c > lastNumber THEN c ELSE lastNumber
  /\ Goto(p, "cycles")
  /\ UNCHANGED <<barrels, cycles, history, issued, scanned, torn>>

-----------------------------------------------------------------------------
(***************************************************************************)
(* linkQr, batchLinkQr, delete, transferBarrel and transferBatch: read,    *)
(* then write by id.                                                       *)
(***************************************************************************)

\* The label is looked for among the live rows of the tenant only.
linkQr(p, t, c) ==
  /\ c \in Live /\ barrels[c].tenant = t /\ barrels[c].qr = NoQr
  /\ \E q \in HandLabels :
       /\ \A d \in HoldersOf({q}) \cap Live : barrels[d].tenant # t
       /\ Begin(p, "link", Asks("link", t, NoTenant, {c}, {q}))

\* Rows of a spreadsheet, each with a label of its own, for barrels of the tenant
\* that have none: a barrel may be in several rows, and the last one counts.  They
\* are written together; a spreadsheet of several chunks is several requests.
batchLinkQr(p, t) ==
  \E codes \in SUBSET {c \in Live : barrels[c].tenant = t /\ barrels[c].qr = NoQr},
     labels \in SUBSET HandLabels :
    /\ codes # {}
    /\ Cardinality(codes) <= Cardinality(labels)
    /\ Cardinality(labels) <= MaxBlock
    /\ \A d \in HoldersOf(labels) \cap Live : barrels[d].tenant # t
    /\ Begin(p, "link", Asks("link", t, NoTenant, codes, labels))

\* The ways to give each of the codes a label of its own.
OneEach(codes, labels) ==
  {f \in [codes -> labels] : \A c, d \in codes : f[c] = f[d] => c = d}

\* The barrels with the labels they are given.
Labelled(label) ==
  [c \in Present |->
     IF c \in DOMAIN label
     THEN [tenant |-> barrels[c].tenant, status |-> barrels[c].status,
           qr |-> label[c], deleted |-> barrels[c].deleted]
     ELSE barrels[c]]

LinkWrite(p) ==
  /\ req[p].pc = "link"
  /\ IF HoldersOf(req[p].labels) \subseteq req[p].codes
     THEN /\ \E label \in OneEach(req[p].codes, req[p].labels) : barrels' = Labelled(label)
          /\ req' = [req EXCEPT ![p] = Idle]
          /\ UNCHANGED <<lastNumber, cycles, history, issued, scanned, torn>>
     ELSE EndsWithoutWriting(p)

delete(p, t, c) ==
  /\ c \in Live /\ barrels[c].tenant = t
  /\ Begin(p, "delete", Asks("delete", t, NoTenant, {c}, {}))

DeleteWrite(p) ==
  /\ req[p].pc = "delete"
  /\ barrels' = [c \in Present |->
                   IF c \in req[p].codes
                   THEN [tenant |-> barrels[c].tenant, status |-> barrels[c].status,
                         qr |-> barrels[c].qr, deleted |-> TRUE]
                   ELSE barrels[c]]
  /\ req' = [req EXCEPT ![p] = Idle]
  /\ UNCHANGED <<lastNumber, cycles, history, issued, scanned, torn>>

\* transferBarrel makes the barrel ACTIVE, transferBatch leaves its status.
transferBarrel(p, t, c) ==
  /\ c \in Live /\ barrels[c].tenant = t
  /\ \E to \in Tenants \ {t}, step \in {"transfer", "transferBatch"} :
       Begin(p, "transfer", Asks(step, t, to, {c}, {}))

\* Owner and ownership_history in one transaction; the from of the history
\* is the owner that was read.
TransferWrite(p) ==
  /\ req[p].pc \in {"transfer", "transferBatch"}
  /\ barrels' = [c \in Present |->
                   IF c \notin req[p].codes THEN barrels[c]
                   ELSE Owned(barrels[c], req[p].to,
                              IF req[p].pc = "transfer" THEN "ACTIVE" ELSE barrels[c].status)]
  /\ history' = [c \in Codes |-> IF c \in req[p].codes
                                 THEN [from |-> req[p].tenant, to |-> req[p].to]
                                 ELSE history[c]]
  /\ req' = [req EXCEPT ![p] = Idle]
  /\ UNCHANGED <<lastNumber, cycles, issued, scanned, torn>>

-----------------------------------------------------------------------------
Init ==
  /\ lastNumber = 0
  /\ barrels = [c \in {} |-> {}]
  /\ cycles = [c \in Codes |-> {}]
  /\ history = [c \in Codes |-> NoTransfer]
  /\ req = [p \in Proc |-> Idle]
  /\ issued = {}
  /\ scanned = {}
  /\ torn = {}

Arrives(p) ==
  \E t \in Tenants :
    \/ create(p, t)
    \/ validateNewRows(p, t)
    \/ validateUpdateRows(p, t)
    \/ generateBatch(p, t)
    \/ batchLinkQr(p, t)
    \/ \E c \in Codes : \/ scanOrCreate(p, t, c)
                        \/ linkQr(p, t, c)
                        \/ delete(p, t, c)
                        \/ transferBarrel(p, t, c)

Continues(p) ==
  \/ generateInternalCode(p)
  \/ createInsert(p)
  \/ generateInternalCodes(p)
  \/ importInsert(p)
  \/ importUpdate(p)
  \/ \E n \in 1..MaxBlock : BatchCommit(p, n) \/ BatchConflict(p, n)
  \/ ScanActivate(p)
  \/ ScanInsert(p)
  \/ ScanSync(p)
  \/ CreateCycles(p)
  \/ LinkWrite(p)
  \/ DeleteWrite(p)
  \/ TransferWrite(p)

Next == \E p \in Proc : Arrives(p) \/ Continues(p) \/ Abort(p)

Spec == Init /\ [][Next]_vars

-----------------------------------------------------------------------------
(***************************************************************************)
(* Properties                                                              *)
(***************************************************************************)

\* Type invariant: the shape of the tables and of the requests.
TypeOK ==
  /\ lastNumber \in 0..MaxCode
  /\ DOMAIN barrels \in SUBSET Codes
  /\ barrels \in [DOMAIN barrels -> Row]
  /\ cycles \in [Codes -> SUBSET Tenants]
  /\ history \in [Codes -> Transfer]
  /\ req \in [Proc -> Request]
  /\ issued \in SUBSET Codes
  /\ scanned \in SUBSET Codes
  /\ torn \in SUBSET ({"sync", "cycles"} \X Codes)

\* When create or an import chunk is about to insert the codes it reserved,
\* one of them can be taken only by a barrel that a scan inserted: a P2002 on
\* the code is never caused by another request of the sequence.
CollisionOnlyWithScan ==
  \A p \in Proc :
    req[p].pc \in {"createInsert", "importInsert"} =>
      req[p].codes \cap Present \subseteq scanned

\* The sequence is never behind a barrel, except for the code of a scan that
\* stands between its INSERT and its UPDATE of the sequence, or ended there:
\* the audit's CRITICAL issue "lastNumber menor que maior numero de barril
\* existente" has no other cause.
SequenceCoversTable ==
  \A c \in Present :
    \/ c <= lastNumber
    \/ \E p \in Proc : req[p].pc = "sync" /\ c \in req[p].codes
    \/ <<"sync", c>> \in torn

\* An ACTIVE barrel that was never transferred has component cycles for the
\* configs of the tenant that owns it, even after racing activations, unless
\* the request that made that tenant the owner is about to create them or
\* ended before it did.
OwnerHasCycles ==
  \A c \in Present :
    barrels[c].status = "ACTIVE" /\ history[c] = NoTransfer =>
      \/ barrels[c].tenant \in cycles[c]
      \/ \E p \in Proc : /\ req[p].pc \in {"sync", "cycles"}
                         /\ req[p].tenant = barrels[c].tenant
                         /\ c \in req[p].codes
      \/ <<"sync", c>> \in torn
      \/ <<"cycles", c>> \in torn

\* A printed label names one barrel at most, deleted barrels included,
\* although linkQr looks for it in one tenant and all checks precede the write.
OneBarrelPerLabel ==
  \A c, d \in Present : barrels[c].qr = barrels[d].qr /\ c # d => barrels[c].qr = NoQr

\* A barrel that is at work in a brewery moves to another one by a transfer
\* only, which writes ownership_history; a scan of another brewery is refused
\* (barrel.service.ts, the steps listed above scanOrCreate).
OwnerChangesOnlyByTransfer ==
  [][\A c \in Present :
       barrels[c].status = "ACTIVE" /\ barrels'[c].tenant # barrels[c].tenant =>
         history'[c] # history[c]]_vars

\* The sequence hands no code out twice (the specification CodeAllocator).
Allocator == INSTANCE CodeAllocator
AllocatorSpec == Allocator!Spec
=============================================================================
