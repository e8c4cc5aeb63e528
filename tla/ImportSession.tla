---------------------------- MODULE ImportSession ----------------------------
(***************************************************************************)
(* The bulk import of barrels from a spreadsheet: a file is validated into *)
(* a session, a Map in the memory of the server; the session is executed   *)
(* by a task in the background, chunk by chunk; its progress is polled.    *)
(* Translated from validateImport to cleanExpiredSessions of               *)
(* backend/src/barrel/barrel.service.ts, with the parser of                *)
(* shared/services/excel.service.ts.                                       *)
(*                                                                         *)
(* Handlers run to their first await without interruption, so validating   *)
(* (one lookup, then everything else), executing and asking for progress   *)
(* are one action each; the task is interrupted at every chunk.            *)
(***************************************************************************)
EXTENDS Integers, Sequences, FiniteSets

CONSTANTS
  Label,      \* the QR codes printed on barrels
  NoLabel,    \* an empty cell
  Printed,    \* labels of barrels that are PRE_REGISTERED at the start
  Worn,       \* parts of the barrel that the imported cycles wear out, by label
  Files,      \* the spreadsheets that are uploaded
  Upload,     \* bound of the model: ids of sessions
  Task,       \* bound of the model: tasks running in the background
  ChunkSize   \* IMPORT_CHUNK_SIZE

\* A row of the sheet, as far as its checks tell rows apart.  "zero" is a
\* number cell with 0 in it.
Row == [qrCode : Label \cup {NoLabel}, chassis : {"", "A", "B"},
        capacity : {"good", "bad"}, model : {"good", "bad"},
        condition : {"NEW", "USED", "bad"}, made : {"", "date", "bad"},
        cycles : {"", "zero", "some", "bad"}]

ASSUME ImportAssumption ==
  /\ NoLabel \notin Label
  /\ "none" \notin Upload
  /\ Printed \subseteq Label
  /\ Worn \in [Label -> 0..2]
  /\ Files \subseteq Seq(Row)
  /\ ChunkSize \in Nat \ {0}

VARIABLES
  barrels,   \* by label: "none", PRE_REGISTERED, or ACTIVE and whatever follows
  alerts,    \* labels of barrels with an ACTIVE alert COMPONENT_END_OF_LIFE
  sessions,  \* importSessions
  tasks      \* processImportChunks, as far as it has come

importVars == <<barrels, alerts, sessions, tasks>>

States == {"none", "PRE_REGISTERED", "ACTIVE"}
Ended == {"completed", "failed"}

\* A session; it may be known no longer while its task still works on it.
Session == [known : BOOLEAN, status : {"none", "validated", "in_progress", "gone"} \cup Ended,
            rows : SUBSET Label, updateRows : SUBSET Label, processed : Nat, failed : Nat]

NoSession == [known |-> FALSE, status |-> "none", rows |-> {}, updateRows |-> {},
              processed |-> 0, failed |-> 0]

NoTask == [of |-> "none", rows |-> {}, updateRows |-> {}]

Total(s) == Cardinality(s.rows) + Cardinality(s.updateRows)

-----------------------------------------------------------------------------
(***************************************************************************)
(* validateImport                                                          *)
(***************************************************************************)

\* The first row with its label; a row that fails later keeps the label.
Named(file, i) ==
  /\ file[i].qrCode # NoLabel
  /\ \A j \in 1..(i - 1) : file[j].qrCode # file[i].qrCode

OwnChassis(file, i) ==
  \/ file[i].chassis = ""
  \/ \A j \in 1..(i - 1) : Named(file, j) => file[j].chassis # file[i].chassis

\* A number 0 counts as an empty cell.
GoodCondition(row) ==
  /\ row.condition # "bad" /\ row.made # "bad" /\ row.cycles # "bad"
  /\ row.condition = "USED" => row.made = "date" /\ row.cycles = "some"

\* The labels of the rows that pass.
ValidRows(file) ==
  {file[i].qrCode : i \in {j \in DOMAIN file :
     /\ Named(file, j) /\ OwnChassis(file, j)
     /\ file[j].capacity = "good" /\ file[j].model = "good"
     /\ GoodCondition(file[j])}}

\* New labels are created, pre-registered ones updated, all others are errors.
\* Sessions validated more than half an hour ago, any of them here, are
\* forgotten (cleanExpiredSessions).
validateImport(u, file) ==
  /\ sessions[u].status = "none"
  /\ \E forgotten \in SUBSET {v \in Upload : sessions[v].known} :
       sessions' = [v \in Upload |->
         IF v = u
         THEN [NoSession EXCEPT !.known = TRUE, !.status = "validated",
                 !.rows = {l \in ValidRows(file) : barrels[l] = "none"},
                 !.updateRows = {l \in ValidRows(file) : barrels[l] = "PRE_REGISTERED"}]
         ELSE [sessions[v] EXCEPT !.known = @ /\ v \notin forgotten]]
  /\ UNCHANGED <<barrels, alerts, tasks>>

-----------------------------------------------------------------------------
(***************************************************************************)
(* executeImport and processImportChunks                                   *)
(***************************************************************************)

Free(t) == tasks[t] = NoTask

\* Faulty: a session in progress is started again.
executeAgain(u) ==
  /\ sessions[u].known
  /\ \E t \in Task :
       /\ Free(t)
       /\ tasks' = [tasks EXCEPT ![t] = [of |-> u, rows |-> sessions[u].rows,
                                         updateRows |-> sessions[u].updateRows]]
  /\ sessions' = [sessions EXCEPT ![u].status = "in_progress", ![u].processed = 0, ![u].failed = 0]
  /\ UNCHANGED <<barrels, alerts>>

\* A session that has ended may be executed again.
executeImport(u) ==
  /\ sessions[u].known
  /\ sessions[u].status # "in_progress"
  /\ \E t \in Task :
       /\ Free(t)
       /\ tasks' = [tasks EXCEPT ![t] = [of |-> u, rows |-> sessions[u].rows,
                                         updateRows |-> sessions[u].updateRows]]
  /\ sessions' = [sessions EXCEPT ![u].status = "in_progress", ![u].processed = 0, ![u].failed = 0]
  /\ UNCHANGED <<barrels, alerts>>

\* Slices of ChunkSize rows, the last one shorter.
Chunk(chunk, rows) ==
  /\ chunk \subseteq rows
  /\ Cardinality(chunk) = IF Cardinality(rows) < ChunkSize THEN Cardinality(rows) ELSE ChunkSize

CreateWorks(chunk) == \A l \in chunk : barrels[l] = "none"

\* Alerts are unique per barrel, type and status.
UpdateWorks(chunk) == \A l \in chunk : Worn[l] = 0 \/ (Worn[l] = 1 /\ l \notin alerts)

\* The transaction of a chunk of new barrels; it fails on a label that is
\* taken by now, or for reasons of its own, and the next chunk is tried.
CreateChunk(t, works) ==
  LET u == tasks[t].of IN
  \E chunk \in SUBSET tasks[t].rows :
    /\ ~Free(t) /\ tasks[t].rows # {}
    /\ Chunk(chunk, tasks[t].rows)
    /\ works => CreateWorks(chunk)
    /\ IF works
       THEN /\ barrels' = [l \in Label |-> IF l \in chunk THEN "ACTIVE" ELSE barrels[l]]
            /\ alerts' = alerts \cup {l \in chunk : Worn[l] > 0}
            /\ sessions' = [sessions EXCEPT ![u].processed = @ + Cardinality(chunk)]
       ELSE /\ sessions' = [sessions EXCEPT ![u].failed = @ + Cardinality(chunk)]
            /\ UNCHANGED <<barrels, alerts>>
    /\ tasks' = [tasks EXCEPT ![t].rows = @ \ chunk]

\* Faulty: rows are counted before the transaction.
UpdateChunkCounted(t, works) ==
  LET u == tasks[t].of IN
  \E chunk \in SUBSET tasks[t].updateRows :
    /\ ~Free(t) /\ tasks[t].rows = {} /\ tasks[t].updateRows # {}
    /\ Chunk(chunk, tasks[t].updateRows)
    /\ works => UpdateWorks(chunk)
    /\ IF works
       THEN /\ barrels' = [l \in Label |-> IF l \in chunk THEN "ACTIVE" ELSE barrels[l]]
            /\ alerts' = alerts \cup {l \in chunk : Worn[l] > 0}
       ELSE UNCHANGED <<barrels, alerts>>
    /\ sessions' = [sessions EXCEPT ![u].processed = @ + Cardinality(chunk)]
    /\ tasks' = [tasks EXCEPT ![t].updateRows = @ \ chunk]

\* The barrels found at the validation are updated by id, as they are by now.
UpdateChunk(t, works) ==
  LET u == tasks[t].of IN
  \E chunk \in SUBSET tasks[t].updateRows :
    /\ ~Free(t) /\ tasks[t].rows = {} /\ tasks[t].updateRows # {}
    /\ Chunk(chunk, tasks[t].updateRows)
    /\ works => UpdateWorks(chunk)
    /\ IF works
       THEN /\ barrels' = [l \in Label |-> IF l \in chunk THEN "ACTIVE" ELSE barrels[l]]
            /\ alerts' = alerts \cup {l \in chunk : Worn[l] > 0}
            /\ sessions' = [sessions EXCEPT ![u].processed = @ + Cardinality(chunk)]
       ELSE /\ sessions' = [sessions EXCEPT ![u].failed = @ + Cardinality(chunk)]
            /\ UNCHANGED <<barrels, alerts>>
    /\ tasks' = [tasks EXCEPT ![t].updateRows = @ \ chunk]

\* Faulty: a task whose chunks have all failed just ends.
FinishWorked(t) ==
  LET u == tasks[t].of IN
  /\ ~Free(t) /\ tasks[t].rows = {} /\ tasks[t].updateRows = {}
  /\ sessions' = IF sessions[u].processed > 0
                 THEN [sessions EXCEPT ![u].status = "completed"] ELSE sessions
  /\ tasks' = [tasks EXCEPT ![t] = NoTask]
  /\ UNCHANGED <<barrels, alerts>>

Finish(t) ==
  LET u == tasks[t].of IN
  /\ ~Free(t) /\ tasks[t].rows = {} /\ tasks[t].updateRows = {}
  /\ sessions' = [sessions EXCEPT ![u].status =
       IF sessions[u].failed > 0 /\ sessions[u].processed = 0 THEN "failed" ELSE "completed"]
  /\ tasks' = [tasks EXCEPT ![t] = NoTask]
  /\ UNCHANGED <<barrels, alerts>>

\* The server stops and starts anew, with an empty Map.  So it does when the
\* first query of a task fails: nothing handles the rejected promise.
Restart ==
  /\ sessions' = [u \in Upload |->
       IF sessions[u].status = "none" THEN NoSession
       ELSE [sessions[u] EXCEPT !.known = FALSE, !.status = "gone"]]
  /\ tasks' = [t \in Task |-> NoTask]
  /\ UNCHANGED <<barrels, alerts>>

-----------------------------------------------------------------------------
\* getImportProgress: what it answers about u, or that there is no such session.
NotFound(u) == [of |-> u, status |-> "not found", processed |-> 0, failed |-> 0, total |-> 0]

getImportProgress(u) ==
  IF sessions[u].known
  THEN [of |-> u, status |-> sessions[u].status, processed |-> sessions[u].processed,
        failed |-> sessions[u].failed, total |-> Total(sessions[u])]
  ELSE NotFound(u)

\* The rest of the system: a pre-registered barrel is scanned, a label is
\* registered by hand.
OthersUse(l) ==
  /\ barrels[l] # "ACTIVE"
  /\ barrels' = [barrels EXCEPT ![l] = "ACTIVE"]
  /\ UNCHANGED <<alerts, sessions, tasks>>

ImportInit ==
  /\ barrels = [l \in Label |-> IF l \in Printed THEN "PRE_REGISTERED" ELSE "none"]
  /\ alerts = {}
  /\ sessions = [u \in Upload |-> NoSession]
  /\ tasks = [t \in Task |-> NoTask]

TaskStep(t) ==
  \/ \E works \in BOOLEAN : CreateChunk(t, works) \/ UpdateChunk(t, works)
  \/ Finish(t)

-----------------------------------------------------------------------------
(***************************************************************************)
(* Correctness                                                             *)
(***************************************************************************)

ImportTypeOK ==
  /\ barrels \in [Label -> States]
  /\ alerts \subseteq Label
  /\ sessions \in [Upload -> Session]
  /\ tasks \in [Task -> [of : Upload \cup {"none"}, rows : SUBSET Label, updateRows : SUBSET Label]]

\* The rows of a session are counted once each, as processed or as failed,
\* and all of them when it has ended, also when it is executed again.
RowsCountedOnce ==
  \A u \in Upload :
    LET s == sessions[u]
        left == UNION {tasks[t].rows \cup tasks[t].updateRows : t \in {t \in Task : tasks[t].of = u}} IN
    s.status \in Ended \cup {"in_progress"} => s.processed + s.failed + Cardinality(left) = Total(s)

\* A row that is counted as processed is a barrel that came into use.
ProcessedExist ==
  \A u \in Upload :
    LET s == sessions[u] IN
    s.processed <= Cardinality({l \in s.rows \cup s.updateRows : barrels[l] = "ACTIVE"})

\* An import that has begun ends, or the server has been started anew.
ImportEnds ==
  \A u \in Upload : sessions[u].status = "in_progress" ~> sessions[u].status # "in_progress"
=============================================================================
