-------------------------- MODULE ImportPageProofs --------------------------
(***************************************************************************)
(* Proofs about ImportSession and ImportPage, for any sheets, sessions,    *)
(* tasks and size of a chunk.                                              *)
(***************************************************************************)
EXTENDS ImportPage, FiniteSetTheorems, TLAPS

(***************************************************************************)
(* The server.                                                             *)
(***************************************************************************)

Counts == Ended \cup {"in_progress"}

TaskRow == [of : Upload \cup {"none"}, rows : SUBSET Label, updateRows : SUBSET Label]

\* The rows of the session u that a task still has to do.
Left(ts, u) == UNION {ts[t].rows \cup ts[t].updateRows : t \in {t \in Task : ts[t].of = u}}

\* The rows of the session s that are done and whose barrels are in use.
InUse(s, left, bs) == {l \in (s.rows \cup s.updateRows) \ left : bs[l] = "ACTIVE"}

\* A session has the rows of a sheet, each once, and is known until it is gone.
SessionOK(s) ==
  /\ IsFiniteSet(s.rows) /\ IsFiniteSet(s.updateRows)
  /\ s.rows \cap s.updateRows = {}
  /\ s.known => s.status \in Counts \cup {"validated"}

\* A task works on the rows of a session in progress, and no other task does.
TaskOK(t) ==
  LET u == tasks[t].of IN
  IF u = "none" THEN Free(t)
  ELSE /\ sessions[u].status = "in_progress"
       /\ tasks[t].rows \subseteq sessions[u].rows
       /\ tasks[t].updateRows \subseteq sessions[u].updateRows
       /\ \A other \in Task : tasks[other].of = u => other = t

\* Every row is counted or left, and a row counted as processed is in use.
Sums(s, left) == s.status \in Counts => s.processed + s.failed + Cardinality(left) = Total(s)

Used(s, left, bs) == s.processed <= Cardinality(InUse(s, left, bs))

ImportOK ==
  /\ \A u \in Upload :
       /\ SessionOK(sessions[u])
       /\ Sums(sessions[u], Left(tasks, u))
       /\ Used(sessions[u], Left(tasks, u), barrels)
  /\ \A t \in Task : TaskOK(t)

(***************************************************************************)
(* The page.                                                               *)
(***************************************************************************)

Answer == [of : Upload \cup {NoUpload}, status : Ended \cup {"-", "validated", "in_progress"},
           processed : Nat, failed : Nat, total : Nat]

Asked == [pc : {"none", "sent", "ok", "error"}, of : Upload \cup {NoUpload}, answer : Answer]

\* An answer that says the import has ended has all rows counted.
Truthful(a) == a.status \in Ended => a.processed + a.failed = a.total

CallsOK ==
  /\ upload \in Asked /\ execute \in Asked /\ polls \in [Poll -> Asked]
  /\ upload.pc = "ok" => upload.of \in Upload
  /\ execute.pc # "none" => execute.of \in Upload
  /\ \A i \in Poll :
       /\ polls[i].pc # "none" => polls[i].of \in Upload
       /\ polls[i].pc = "ok" => polls[i].answer.of = polls[i].of
       /\ Truthful(polls[i].answer)
  /\ progress \in Answer /\ Truthful(progress)

IInv == TypeOK /\ ImportOK /\ CallsOK

\* With one poll under way at a time: what is under way belongs to the import
\* that the page shows, and to no other step than "importing".
Quiet == intervals = {} /\ \A i \in Poll : polls[i].pc = "none"

OneImport ==
  /\ upload.pc # "none" => step = "upload"
  /\ execute.pc # "none" => step = "importing" /\ execute.of = validation /\ Quiet
  /\ step # "importing" => Quiet
  /\ intervals # {} => intervals = {validation} /\ pollingRef = validation
  /\ \A i \in Poll : polls[i].pc # "none" => polls[i].of = validation /\ intervals # {}
  /\ step = "done" => progress.status \in Ended /\ progress.of = validation

-----------------------------------------------------------------------------
(***************************************************************************)
(* Counting                                                                *)
(***************************************************************************)

\* The labels of a sheet are finitely many.
LEMMA SheetFinite ==
  ASSUME NEW file \in Files
  PROVE  /\ ValidRows(file) \subseteq Label
         /\ IsFiniteSet(ValidRows(file))
<1>1. file \in Seq(Row)
  BY ImportAssumption DEF ImportAssumption
<1> DEFINE n == Len(file)
           D == {j \in DOMAIN file :
                  /\ Named(file, j) /\ OwnChassis(file, j)
                  /\ file[j].capacity = "good" /\ file[j].model = "good"
                  /\ GoodCondition(file[j])}
           f == [i \in D |-> file[i].qrCode]
<1>2. n \in Nat /\ DOMAIN file = 1..n /\ \A i \in 1..n : file[i] \in Row
  BY <1>1
<1>3. D \subseteq 1..n
  BY <1>2
<1>4. IsFiniteSet(D)
  <2>1. IsFiniteSet(1..n)
    BY <1>2, FS_Interval
  <2> QED
    BY <2>1, <1>3, FS_Subset
<1>5. ValidRows(file) = {file[i].qrCode : i \in D}
  BY DEF ValidRows
<1>6. f \in Surjection(D, ValidRows(file))
  <2> HIDE DEF D
  <2> QED
    BY <1>5 DEF Surjection
<1>7. IsFiniteSet(ValidRows(file))
  BY <1>4, <1>6, FS_Surjection
<1>8. \A i \in D : file[i].qrCode \in Label
  BY <1>2, <1>3 DEF Row, Named
<1> HIDE DEF D
<1> QED
  BY <1>5, <1>7, <1>8

\* What is left of a session is what its task has left, ...
LEMMA LeftOfTask ==
  ASSUME NEW ts, NEW t \in Task, NEW u, ts[t].of = u,
         \A other \in Task : ts[other].of = u => other = t
  PROVE  Left(ts, u) = ts[t].rows \cup ts[t].updateRows
<1>1. {other \in Task : ts[other].of = u} = {t}
  OBVIOUS
<1> QED
  BY <1>1 DEF Left

\* ... nothing without a task, ...
LEMMA LeftNothing ==
  ASSUME NEW ts, NEW u, \A t \in Task : ts[t].of # u
  PROVE  Left(ts, u) = {}
BY DEF Left

\* ... and the same when the task of another session changes.
LEMMA LeftSame ==
  ASSUME NEW ts, NEW new, NEW u,
         \A t \in Task : ts[t].of = u \/ new[t].of = u => new[t] = ts[t]
  PROVE  Left(new, u) = Left(ts, u)
<1>1. {t \in Task : new[t].of = u} = {t \in Task : ts[t].of = u}
  OBVIOUS
<1>2. \A t \in {t \in Task : ts[t].of = u} : new[t] = ts[t]
  OBVIOUS
<1> QED
  BY <1>1, <1>2 DEF Left

\* Barrels that are in use stay in use.
StaysUsed(bs, new) == \A l \in Label : bs[l] = "ACTIVE" => new[l] = "ACTIVE"

\* The rows of the session s are those of old, and no more are counted as processed.
NoMoreThan(s, old) ==
  s.rows = old.rows /\ s.updateRows = old.updateRows /\ s.processed <= old.processed

LEMMA InUseFinite ==
  ASSUME NEW s, NEW left, NEW bs, IsFiniteSet(s.rows), IsFiniteSet(s.updateRows)
  PROVE  /\ IsFiniteSet(InUse(s, left, bs))
         /\ Cardinality(InUse(s, left, bs)) \in Nat
<1>1. IsFiniteSet(s.rows \cup s.updateRows)
  BY FS_Union
<1>2. InUse(s, left, bs) \subseteq s.rows \cup s.updateRows
  BY DEF InUse
<1>3. IsFiniteSet(InUse(s, left, bs))
  BY <1>1, <1>2, FS_Subset
<1> QED
  BY <1>3, FS_CardinalityType

LEMMA UsedStays ==
  ASSUME NEW s \in Session, NEW old \in Session, NEW left, NEW more, NEW bs, NEW new,
         SessionOK(old), NoMoreThan(s, old), more \subseteq left, StaysUsed(bs, new),
         Used(old, left, bs)
  PROVE  Used(s, more, new)
<1>1. IsFiniteSet(s.rows) /\ IsFiniteSet(s.updateRows)
  BY DEF SessionOK, NoMoreThan
<1>2. /\ IsFiniteSet(InUse(s, more, new)) /\ Cardinality(InUse(s, more, new)) \in Nat
      /\ Cardinality(InUse(old, left, bs)) \in Nat
  BY <1>1, InUseFinite DEF SessionOK
<1>3. InUse(old, left, bs) \subseteq InUse(s, more, new)
  BY DEF InUse, NoMoreThan, StaysUsed, Session
<1>4. Cardinality(InUse(old, left, bs)) <= Cardinality(InUse(s, more, new))
  BY <1>2, <1>3, FS_Subset
<1>5. s.processed \in Nat /\ old.processed \in Nat
  BY DEF Session
<1> QED
  BY <1>2, <1>4, <1>5 DEF Used, NoMoreThan

\* A chunk counts for as many rows as it takes away.
LEMMA ChunkSums ==
  ASSUME NEW s \in Session, NEW n \in Session, NEW left, NEW chunk,
         SessionOK(s), left \subseteq s.rows \cup s.updateRows, chunk \subseteq left,
         n.rows = s.rows, n.updateRows = s.updateRows, n.status = s.status,
         n.processed + n.failed = s.processed + s.failed + Cardinality(chunk),
         Sums(s, left)
  PROVE  Sums(n, left \ chunk)
<1>1. IsFiniteSet(s.rows \cup s.updateRows)
  BY FS_Union DEF SessionOK
<1>2. IsFiniteSet(left)
  BY <1>1, FS_Subset
<1>3. IsFiniteSet(chunk) /\ IsFiniteSet(left \ chunk)
  BY <1>2, FS_Subset
<1>4. Cardinality(left) = Cardinality(left \ chunk) + Cardinality(chunk)
  <2> DEFINE rest == left \ chunk
  <2>1. left = rest \cup chunk /\ rest \cap chunk = {} /\ IsFiniteSet(rest)
    BY <1>3
  <2> HIDE DEF rest
  <2>2. Cardinality(rest \cup chunk) =
          Cardinality(rest) + Cardinality(chunk) - Cardinality(rest \cap chunk)
    BY <1>3, <2>1, FS_Union
  <2>3. Cardinality(rest \cap chunk) = 0
    BY <2>1, FS_EmptySet
  <2>4. Cardinality(rest) \in Nat /\ Cardinality(chunk) \in Nat
    BY <1>3, <2>1, FS_CardinalityType
  <2>5. Cardinality(left) = Cardinality(rest \cup chunk)
    BY <2>1
  <2>6. Cardinality(left) = Cardinality(rest) + Cardinality(chunk)
    BY <2>2, <2>3, <2>4, <2>5
  <2> QED
    BY <2>6 DEF rest
<1>5. Cardinality(left \ chunk) \in Nat /\ Cardinality(chunk) \in Nat
  BY <1>3, FS_CardinalityType
<1>6. s.processed \in Nat /\ s.failed \in Nat /\ n.processed \in Nat /\ n.failed \in Nat
  BY DEF Session
<1>7. Total(n) = Total(s)
  BY DEF Total
<1> QED
  BY <1>4, <1>5, <1>6, <1>7 DEF Sums

\* ... and all its rows are in use when it worked.
LEMMA ChunkUsed ==
  ASSUME NEW s \in Session, NEW n \in Session, NEW left, NEW chunk, NEW bs, NEW new,
         SessionOK(s), left \subseteq s.rows \cup s.updateRows, chunk \subseteq left,
         n.rows = s.rows, n.updateRows = s.updateRows,
         n.processed = s.processed + Cardinality(chunk),
         StaysUsed(bs, new), \A l \in chunk : new[l] = "ACTIVE",
         Used(s, left, bs)
  PROVE  Used(n, left \ chunk, new)
<1>1. IsFiniteSet(s.rows \cup s.updateRows)
  BY FS_Union DEF SessionOK
<1>2. IsFiniteSet(chunk)
  BY <1>1, FS_Subset
<1> DEFINE before == InUse(s, left, bs)
           after == InUse(n, left \ chunk, new)
<1>3. /\ IsFiniteSet(before) /\ IsFiniteSet(after)
      /\ Cardinality(before) \in Nat /\ Cardinality(after) \in Nat
      /\ Cardinality(chunk) \in Nat
  BY <1>2, InUseFinite, FS_CardinalityType DEF SessionOK
<1>4. before \cup chunk \subseteq after /\ before \cap chunk = {}
  BY DEF InUse, StaysUsed, Session
<1> HIDE DEF before, after
<1>5. Cardinality(before \cup chunk) = Cardinality(before) + Cardinality(chunk)
  <2>1. Cardinality(before \cup chunk) =
          Cardinality(before) + Cardinality(chunk) - Cardinality(before \cap chunk)
    BY <1>2, <1>3, FS_Union
  <2>2. Cardinality(before \cap chunk) = 0
    BY <1>4, FS_EmptySet
  <2> QED
    BY <2>1, <2>2, <1>3
<1>6. Cardinality(before \cup chunk) <= Cardinality(after)
  BY <1>3, <1>4, FS_Subset
<1>7. s.processed \in Nat /\ s.processed <= Cardinality(before)
  BY DEF Session, Used, before
<1>8. n.processed <= Cardinality(after)
  BY <1>3, <1>5, <1>6, <1>7
<1> QED
  BY <1>8 DEF Used, after

-----------------------------------------------------------------------------
(***************************************************************************)
(* The steps of the server                                                 *)
(***************************************************************************)

ServerOK == ImportTypeOK /\ ImportOK

\* A session whose task is at work is in progress; of the others nothing is left.
LEMMA LeftRows ==
  ASSUME ServerOK, NEW u \in Upload
  PROVE  /\ Left(tasks, u) \subseteq sessions[u].rows \cup sessions[u].updateRows
         /\ sessions[u].status # "in_progress" =>
              /\ Left(tasks, u) = {}
              /\ \A t \in Task : tasks[t].of # u
<1>1. \A t \in Task : tasks[t].of = u =>
        /\ sessions[u].status = "in_progress"
        /\ tasks[t].rows \cup tasks[t].updateRows \subseteq sessions[u].rows \cup sessions[u].updateRows
  BY ImportAssumption DEF ImportAssumption, ServerOK, ImportOK, TaskOK
<1> QED
  BY <1>1, LeftNothing DEF Left

\* What a step owes to a session.
Kept(u) ==
  /\ SessionOK(sessions'[u])
  /\ Sums(sessions'[u], Left(tasks', u))
  /\ Used(sessions'[u], Left(tasks', u), barrels')

LEMMA AllKept ==
  ASSUME ImportTypeOK', \A u \in Upload : Kept(u), \A t \in Task : TaskOK(t)'
  PROVE  ServerOK'
BY DEF ServerOK, ImportOK, Kept

\* The row of a session and of a task.
LEMMA Rowed ==
  ASSUME ImportTypeOK
  PROVE  /\ \A u \in Upload : sessions[u] \in Session
         /\ \A t \in Task : tasks[t] \in TaskRow
         /\ barrels \in [Label -> States] /\ alerts \subseteq Label
         /\ sessions \in [Upload -> Session] /\ tasks \in [Task -> TaskRow]
BY DEF ImportTypeOK, TaskRow

LEMMA ValidateKeeps ==
  ASSUME ServerOK, NEW u \in Upload, NEW file \in Files, validateImport(u, file)
  PROVE  ServerOK'
<1> USE DEF ServerOK
<1> DEFINE new == [NoSession EXCEPT !.known = TRUE, !.status = "validated",
                     !.rows = {l \in ValidRows(file) : barrels[l] = "none"},
                     !.updateRows = {l \in ValidRows(file) : barrels[l] = "PRE_REGISTERED"}]
<1>1. /\ sessions[u].status = "none" /\ UNCHANGED <<barrels, alerts, tasks>>
      /\ sessions'[u] = new
      /\ \E forgotten \in SUBSET {v \in Upload : sessions[v].known} :
           sessions' = [v \in Upload |->
             IF v = u THEN new ELSE [sessions[v] EXCEPT !.known = @ /\ v \notin forgotten]]
  BY DEF validateImport
<1>2. PICK forgotten \in SUBSET {v \in Upload : sessions[v].known} :
        sessions' = [v \in Upload |->
          IF v = u THEN new ELSE [sessions[v] EXCEPT !.known = @ /\ v \notin forgotten]]
  BY <1>1
<1>3. /\ new \in Session
      /\ IsFiniteSet(new.rows) /\ IsFiniteSet(new.updateRows)
      /\ new.rows \cap new.updateRows = {}
      /\ new.status = "validated" /\ new.processed = 0
  <2>1. /\ new.rows \subseteq ValidRows(file) /\ new.updateRows \subseteq ValidRows(file)
        /\ new.rows \cap new.updateRows = {}
        /\ new.status = "validated" /\ new.processed = 0 /\ new.failed = 0 /\ new.known = TRUE
    BY DEF NoSession
  <2>2. new \in Session
    BY SheetFinite DEF NoSession, Session
  <2> QED
    BY <2>1, <2>2, SheetFinite, FS_Subset
<1> HIDE DEF new
<1>4. \A v \in Upload : sessions[v] \in Session
  BY Rowed
<1>5. \A v \in Upload \ {u} :
        /\ sessions'[v] \in Session
        /\ sessions'[v].rows = sessions[v].rows /\ sessions'[v].updateRows = sessions[v].updateRows
        /\ sessions'[v].status = sessions[v].status
        /\ sessions'[v].processed = sessions[v].processed /\ sessions'[v].failed = sessions[v].failed
        /\ sessions'[v].known => sessions[v].known
  BY <1>2, <1>4 DEF Session
<1>6. sessions' \in [Upload -> Session]
  BY <1>1, <1>2, <1>3, <1>5
<1>7. ImportTypeOK'
  BY <1>1, <1>6 DEF ImportTypeOK
<1>8. Kept(u)
  <2>1. Left(tasks', u) = {}
    BY <1>1, LeftRows
  <2>2. SessionOK(new) /\ Sums(new, {})
    BY <1>3 DEF SessionOK, Sums, Counts, Ended
  <2>3. Used(new, {}, barrels')
    BY <1>3, InUseFinite DEF Used
  <2> QED
    BY <1>1, <2>1, <2>2, <2>3 DEF Kept
<1>9. ASSUME NEW v \in Upload, v # u
      PROVE  Kept(v)
  <2>1. /\ SessionOK(sessions[v]) /\ Sums(sessions[v], Left(tasks, v))
        /\ Used(sessions[v], Left(tasks, v), barrels)
    BY DEF ImportOK
  <2>2. SessionOK(sessions'[v])
    BY <1>5, <1>9, <2>1 DEF SessionOK
  <2>3. Sums(sessions'[v], Left(tasks, v)) /\ Used(sessions'[v], Left(tasks, v), barrels)
    BY <1>5, <1>9, <2>1 DEF Sums, Used, InUse, Total
  <2> QED
    BY <1>1, <2>2, <2>3 DEF Kept
<1>10. ASSUME NEW t \in Task
       PROVE  TaskOK(t)'
  <2>1. TaskOK(t)
    BY DEF ImportOK
  <2>2. tasks[t].of # u
    BY <1>1, LeftRows
  <2>3. tasks[t] \in TaskRow
    BY Rowed
  <2> QED
    BY <1>1, <1>5, <2>1, <2>2, <2>3 DEF TaskOK, Free, TaskRow
<1> QED
  BY <1>7, <1>8, <1>9, <1>10, AllKept

LEMMA ExecuteKeeps ==
  ASSUME ServerOK, NEW u \in Upload, executeImport(u)
  PROVE  ServerOK'
<1> USE DEF ServerOK
<1> DEFINE new == [of |-> u, rows |-> sessions[u].rows, updateRows |-> sessions[u].updateRows]
           session == [sessions[u] EXCEPT !.status = "in_progress", !.processed = 0, !.failed = 0]
<1>1. PICK t \in Task : Free(t) /\ tasks' = [tasks EXCEPT ![t] = new]
  BY DEF executeImport
<1>2. /\ sessions[u] \in Session /\ sessions \in [Upload -> Session] /\ tasks \in [Task -> TaskRow]
      /\ \A v \in Task : tasks[v] \in TaskRow
  BY Rowed
<1>3. /\ sessions[u].known /\ sessions[u].status # "in_progress"
      /\ sessions' = [sessions EXCEPT ![u] = session]
      /\ UNCHANGED <<barrels, alerts>>
  BY <1>2 DEF executeImport
<1>4. /\ session \in Session
      /\ session.rows = sessions[u].rows /\ session.updateRows = sessions[u].updateRows
      /\ session.status = "in_progress" /\ session.processed = 0 /\ session.failed = 0
  BY <1>2 DEF Session
<1>5. /\ new \in TaskRow /\ new.of = u
      /\ new.rows = sessions[u].rows /\ new.updateRows = sessions[u].updateRows
  BY <1>2 DEF Session, TaskRow
<1> HIDE DEF new, session
<1>6. ImportTypeOK'
  <2>1. sessions' \in [Upload -> Session] /\ tasks' \in [Task -> TaskRow]
    BY <1>1, <1>2, <1>3, <1>4, <1>5
  <2> QED
    BY <1>3, <2>1 DEF ImportTypeOK, TaskRow
<1>7. /\ tasks[t].of = "none" /\ tasks'[t] = new /\ sessions'[u] = session
      /\ \A v \in Upload \ {u} : sessions'[v] = sessions[v]
      /\ \A other \in Task \ {t} : tasks'[other] = tasks[other] /\ tasks[other].of # u
      /\ u # "none"
  <2>1. \A other \in Task : tasks[other].of # u
    BY <1>3, LeftRows
  <2> QED
    BY <1>1, <1>2, <1>3, <2>1, ImportAssumption DEF Free, NoTask, ImportAssumption
<1>8. Kept(u)
  <2>1. SessionOK(sessions[u])
    BY DEF ImportOK
  <2>2. SessionOK(session)
    BY <1>4, <2>1 DEF SessionOK, Counts
  <2>3. Left(tasks', u) = session.rows \cup session.updateRows
    BY <1>4, <1>5, <1>7, LeftOfTask
  <2>4. Sums(session, session.rows \cup session.updateRows)
    <3>1. Cardinality(session.rows \cup session.updateRows) =
            Cardinality(session.rows) + Cardinality(session.updateRows)
              - Cardinality(session.rows \cap session.updateRows)
      BY <2>2, FS_Union DEF SessionOK
    <3>2. Cardinality(session.rows \cap session.updateRows) = 0
      BY <2>2, FS_EmptySet DEF SessionOK
    <3>3. Cardinality(session.rows) \in Nat /\ Cardinality(session.updateRows) \in Nat
      BY <2>2, FS_CardinalityType DEF SessionOK
    <3>4. session.processed = 0 /\ session.failed = 0
      BY <1>4
    <3>5. 0 + 0 + Cardinality(session.rows \cup session.updateRows)
            = Cardinality(session.rows) + Cardinality(session.updateRows)
      BY <3>1, <3>2, <3>3
    <3> QED
      BY <3>4, <3>5 DEF Sums, Total
  <2>5. Used(session, session.rows \cup session.updateRows, barrels')
    BY <1>4, <2>2, InUseFinite DEF Used, SessionOK
  <2> QED
    BY <1>7, <2>2, <2>3, <2>4, <2>5 DEF Kept
<1>9. ASSUME NEW v \in Upload, v # u
      PROVE  Kept(v)
  <2>1. Left(tasks', v) = Left(tasks, v)
    <3>1. \A s \in Task : tasks[s].of = v \/ tasks'[s].of = v => tasks'[s] = tasks[s]
      BY <1>5, <1>7, <1>9, ImportAssumption DEF ImportAssumption
    <3> QED
      BY <3>1, LeftSame
  <2> QED
    BY <1>3, <1>7, <1>9, <2>1 DEF Kept, ImportOK
<1>10. ASSUME NEW s \in Task
       PROVE  TaskOK(s)'
  <2>1. TaskOK(s)
    BY DEF ImportOK
  <2>2. CASE s = t
    BY <1>4, <1>5, <1>7, <2>2 DEF TaskOK
  <2>3. CASE s # t
    <3>1. tasks'[s] = tasks[s] /\ tasks[s].of # u /\ tasks[s] \in TaskRow
      BY <1>2, <1>7, <2>3
    <3>2. CASE tasks[s].of = "none"
      BY <2>1, <3>1, <3>2 DEF TaskOK, Free
    <3>3. CASE tasks[s].of # "none"
      <4>1. tasks[s].of \in Upload /\ sessions'[tasks[s].of] = sessions[tasks[s].of]
        BY <1>7, <3>1, <3>3 DEF TaskRow
      <4>2. \A other \in Task : tasks'[other].of = tasks[s].of => other = s
        BY <1>5, <1>7, <2>1, <3>1, <3>3 DEF TaskOK
      <4> QED
        BY <2>1, <3>1, <3>3, <4>1, <4>2 DEF TaskOK
    <3> QED
      BY <3>2, <3>3
  <2> QED
    BY <2>2, <2>3
<1> QED
  BY <1>6, <1>8, <1>9, <1>10, AllKept

\* A step of the task t changes t, its session and barrels that come into use.
TaskMoves(t, u, new, session) ==
  /\ tasks' = [tasks EXCEPT ![t] = new] /\ new \in TaskRow /\ new.of \in {u, "none"}
  /\ sessions' = [sessions EXCEPT ![u] = session] /\ session \in Session
  /\ barrels' \in [Label -> States] /\ StaysUsed(barrels, barrels')
  /\ alerts' \subseteq Label

\* Then it keeps everything if it does right by its session.
LEMMA TaskKeeps ==
  ASSUME ServerOK, NEW t \in Task, tasks[t].of # "none",
         NEW new, NEW session, TaskMoves(t, tasks[t].of, new, session),
         Kept(tasks[t].of), TaskOK(t)'
  PROVE  ServerOK'
<1> USE DEF ServerOK
<1> DEFINE u == tasks[t].of
<1>1. /\ sessions \in [Upload -> Session] /\ tasks \in [Task -> TaskRow] /\ barrels \in [Label -> States]
      /\ \A v \in Task : tasks[v] \in TaskRow
      /\ \A v \in Upload : sessions[v] \in Session
  BY Rowed
<1>2. /\ u \in Upload /\ u # "none"
      /\ \A other \in Task : tasks[other].of = u => other = t
  <2>1. TaskOK(t)
    BY DEF ImportOK
  <2> QED
    BY <1>1, <2>1, ImportAssumption DEF TaskOK, TaskRow, ImportAssumption
<1> HIDE DEF u
<1>3. TaskMoves(t, u, new, session) /\ Kept(u)
  BY DEF u
<1>4. /\ tasks'[t] = new /\ new.of \in {u, "none"}
      /\ \A other \in Task \ {t} : tasks'[other] = tasks[other] /\ tasks[other].of # u
      /\ \A v \in Upload \ {u} : sessions'[v] = sessions[v]
  BY <1>1, <1>2, <1>3 DEF TaskMoves
<1>5. ImportTypeOK'
  <2>1. sessions' \in [Upload -> Session]
    <3>1. sessions' = [sessions EXCEPT ![u] = session] /\ session \in Session
      BY <1>3 DEF TaskMoves
    <3> QED
      BY <1>1, <3>1
  <2>2. tasks' \in [Task -> TaskRow]
    <3>1. tasks' = [tasks EXCEPT ![t] = new] /\ new \in TaskRow
      BY <1>3 DEF TaskMoves
    <3> QED
      BY <1>1, <3>1
  <2> QED
    BY <1>3, <2>1, <2>2 DEF ImportTypeOK, TaskMoves, TaskRow
<1>6. ASSUME NEW v \in Upload
      PROVE  Kept(v)
  <2>1. CASE v = u
    BY <1>3, <2>1
  <2>2. CASE v # u
    <3>1. Left(tasks', v) = Left(tasks, v)
      <4>1. \A s \in Task : tasks[s].of = v \/ tasks'[s].of = v => tasks'[s] = tasks[s]
        BY <1>4, <2>2, ImportAssumption DEF ImportAssumption, u
      <4> QED
        BY <4>1, LeftSame
    <3>2. /\ SessionOK(sessions[v]) /\ Sums(sessions[v], Left(tasks, v))
          /\ Used(sessions[v], Left(tasks, v), barrels)
      BY DEF ImportOK
    <3>3. NoMoreThan(sessions[v], sessions[v]) /\ sessions[v] \in Session
      BY <1>1 DEF NoMoreThan, Session
    <3>4. Used(sessions[v], Left(tasks, v), barrels')
      BY <1>3, <3>2, <3>3, UsedStays DEF TaskMoves
    <3> QED
      BY <1>4, <2>2, <3>1, <3>2, <3>4 DEF Kept
  <2> QED
    BY <2>1, <2>2
<1>7. ASSUME NEW s \in Task
      PROVE  TaskOK(s)'
  <2>1. CASE s = t
    BY <2>1
  <2>2. CASE s # t
    <3>1. TaskOK(s) /\ tasks[s] \in TaskRow /\ tasks'[s] = tasks[s] /\ tasks[s].of # u
      BY <1>1, <1>4, <2>2 DEF ImportOK
    <3>2. CASE tasks[s].of = "none"
      BY <3>1, <3>2 DEF TaskOK, Free
    <3>3. CASE tasks[s].of # "none"
      <4>1. tasks[s].of \in Upload /\ sessions'[tasks[s].of] = sessions[tasks[s].of]
        BY <1>4, <3>1, <3>3 DEF TaskRow
      <4>2. \A other \in Task : tasks'[other].of = tasks[s].of => other = s
        BY <1>4, <3>1, <3>3 DEF TaskOK
      <4> QED
        BY <3>1, <3>3, <4>1, <4>2 DEF TaskOK
    <3> QED
      BY <3>2, <3>3
  <2> QED
    BY <2>1, <2>2
<1> QED
  BY <1>5, <1>6, <1>7, AllKept

\* A chunk of the rows or of the update rows of the task t of the session u,
\* which works or fails.
ChunkDone(t, u, new, session, chunk, works) ==
  /\ TaskMoves(t, u, new, session)
  /\ new.of = u /\ new.rows \subseteq tasks[t].rows /\ new.updateRows \subseteq tasks[t].updateRows
  /\ new.rows \cup new.updateRows = (tasks[t].rows \cup tasks[t].updateRows) \ chunk
  /\ chunk \subseteq tasks[t].rows \cup tasks[t].updateRows
  /\ session.known = sessions[u].known /\ session.status = sessions[u].status
  /\ session.rows = sessions[u].rows /\ session.updateRows = sessions[u].updateRows
  /\ IF works THEN /\ session.processed = sessions[u].processed + Cardinality(chunk)
                   /\ session.failed = sessions[u].failed
                   /\ \A l \in chunk : barrels'[l] = "ACTIVE"
     ELSE /\ session.failed = sessions[u].failed + Cardinality(chunk)
          /\ session.processed = sessions[u].processed

LEMMA ChunkKeeps ==
  ASSUME ServerOK, NEW t \in Task, tasks[t].of # "none",
         NEW new, NEW session, NEW chunk, NEW works \in BOOLEAN,
         ChunkDone(t, tasks[t].of, new, session, chunk, works)
  PROVE  ServerOK'
<1> USE DEF ServerOK
<1> DEFINE u == tasks[t].of
           left == tasks[t].rows \cup tasks[t].updateRows
<1>1. /\ sessions \in [Upload -> Session] /\ tasks \in [Task -> TaskRow]
      /\ \A v \in Upload : sessions[v] \in Session
  BY Rowed
<1>2. TaskOK(t)
  BY DEF ImportOK
<1>3. /\ u \in Upload /\ u # "none" /\ sessions[u] \in Session
      /\ sessions[u].status = "in_progress"
      /\ left \subseteq sessions[u].rows \cup sessions[u].updateRows
      /\ \A other \in Task : tasks[other].of = u => other = t
  BY <1>1, <1>2 DEF TaskOK, TaskRow
<1>4. Left(tasks, u) = left
  BY <1>3, LeftOfTask
<1>5. /\ SessionOK(sessions[u]) /\ Sums(sessions[u], left)
      /\ Used(sessions[u], left, barrels)
  BY <1>3, <1>4 DEF ImportOK
<1>6. ChunkDone(t, u, new, session, chunk, works)
  OBVIOUS
<1>7. chunk \subseteq left
  BY <1>6 DEF ChunkDone
<1>8. new.rows \cup new.updateRows = left \ chunk
  BY <1>6 DEF ChunkDone
<1>9. new.rows \subseteq tasks[t].rows /\ new.updateRows \subseteq tasks[t].updateRows
  BY <1>6 DEF ChunkDone
<1> HIDE DEF u, left
<1>10. /\ tasks'[t] = new /\ new.of = u /\ sessions'[u] = session /\ session \in Session
       /\ \A other \in Task \ {t} : tasks'[other] = tasks[other]
  BY <1>1, <1>3, <1>6 DEF ChunkDone, TaskMoves
<1>11. Left(tasks', u) = left \ chunk
  <2>1. \A other \in Task : tasks'[other].of = u => other = t
    BY <1>3, <1>10
  <2> QED
    BY <1>8, <1>10, <2>1, LeftOfTask
<1>12. session.processed + session.failed =
         sessions[u].processed + sessions[u].failed + Cardinality(chunk)
  <2>1. IsFiniteSet(chunk)
    <3>1. IsFiniteSet(sessions[u].rows \cup sessions[u].updateRows)
      BY <1>5, FS_Union DEF SessionOK
    <3> QED
      BY <1>3, <1>7, <3>1, FS_Subset
  <2>2. Cardinality(chunk) \in Nat
    BY <2>1, FS_CardinalityType
  <2>3. sessions[u].processed \in Nat /\ sessions[u].failed \in Nat
    BY <1>3 DEF Session
  <2> QED
    BY <1>6, <2>2, <2>3 DEF ChunkDone
<1>13. session.rows = sessions[u].rows /\ session.updateRows = sessions[u].updateRows
       /\ session.status = sessions[u].status /\ session.known = sessions[u].known
  BY <1>6 DEF ChunkDone
<1>14. SessionOK(session)
  BY <1>5, <1>13 DEF SessionOK
<1>15. Sums(session, left \ chunk)
  BY <1>3, <1>5, <1>7, <1>10, <1>12, <1>13, ChunkSums
<1>16. StaysUsed(barrels, barrels')
  BY <1>6 DEF ChunkDone, TaskMoves
<1>17. Used(session, left \ chunk, barrels')
  <2>1. CASE works
    <3>1. session.processed = sessions[u].processed + Cardinality(chunk)
          /\ \A l \in chunk : barrels'[l] = "ACTIVE"
      BY <1>6, <2>1 DEF ChunkDone
    <3> QED
      BY <1>3, <1>5, <1>7, <1>10, <1>13, <1>16, <3>1, ChunkUsed
  <2>2. CASE ~works
    <3>1. session.processed = sessions[u].processed
      BY <1>6, <2>2 DEF ChunkDone
    <3>2. NoMoreThan(session, sessions[u])
      BY <1>3, <1>13, <3>1 DEF NoMoreThan, Session
    <3>3. left \ chunk \subseteq left
      OBVIOUS
    <3> QED
      BY <1>3, <1>5, <1>10, <1>16, <3>2, <3>3, UsedStays
  <2> QED
    BY <2>1, <2>2
<1>18. Kept(u)
  BY <1>10, <1>11, <1>14, <1>15, <1>17 DEF Kept
<1>19. TaskOK(t)'
  BY <1>2, <1>3, <1>9, <1>10, <1>13 DEF TaskOK, u
<1>20. TaskMoves(t, u, new, session)
  BY <1>6 DEF ChunkDone
<1> QED
  BY <1>18, <1>19, <1>20, TaskKeeps DEF u

LEMMA CreateKeeps ==
  ASSUME ServerOK, NEW t \in Task, NEW works \in BOOLEAN, CreateChunk(t, works)
  PROVE  ServerOK'
<1> DEFINE u == tasks[t].of
<1>1. PICK chunk \in SUBSET tasks[t].rows :
        /\ ~Free(t)
        /\ IF works
           THEN /\ barrels' = [l \in Label |-> IF l \in chunk THEN "ACTIVE" ELSE barrels[l]]
                /\ alerts' = alerts \cup {l \in chunk : Worn[l] > 0}
                /\ sessions' = [sessions EXCEPT ![u].processed = @ + Cardinality(chunk)]
           ELSE /\ sessions' = [sessions EXCEPT ![u].failed = @ + Cardinality(chunk)]
                /\ UNCHANGED <<barrels, alerts>>
        /\ tasks' = [tasks EXCEPT ![t].rows = @ \ chunk]
  BY DEF CreateChunk
<1> DEFINE new == [tasks[t] EXCEPT !.rows = @ \ chunk]
           session == IF works
                      THEN [sessions[u] EXCEPT !.processed = @ + Cardinality(chunk)]
                      ELSE [sessions[u] EXCEPT !.failed = @ + Cardinality(chunk)]
<1>2. /\ sessions \in [Upload -> Session] /\ tasks \in [Task -> TaskRow] /\ barrels \in [Label -> States]
      /\ tasks[t] \in TaskRow /\ alerts \subseteq Label
  BY Rowed DEF ServerOK
<1>3. /\ u \in Upload /\ u # "none" /\ sessions[u] \in Session /\ IsFiniteSet(sessions[u].rows)
      /\ tasks[t].rows \subseteq sessions[u].rows
  BY <1>1, <1>2 DEF ServerOK, ImportOK, TaskOK, SessionOK, TaskRow
<1>4. IsFiniteSet(chunk) /\ Cardinality(chunk) \in Nat
  <2>1. chunk \subseteq sessions[u].rows
    BY <1>3
  <2> HIDE DEF u
  <2> QED
    BY <1>3, <2>1, FS_Subset, FS_CardinalityType
<1>5. /\ new \in TaskRow /\ new.of = u
      /\ new.rows = tasks[t].rows \ chunk /\ new.updateRows = tasks[t].updateRows
      /\ tasks' = [tasks EXCEPT ![t] = new]
  BY <1>1, <1>2 DEF TaskRow
<1>6. /\ session \in Session
      /\ session.known = sessions[u].known /\ session.status = sessions[u].status
      /\ session.rows = sessions[u].rows /\ session.updateRows = sessions[u].updateRows
      /\ IF works THEN /\ session.processed = sessions[u].processed + Cardinality(chunk)
                       /\ session.failed = sessions[u].failed
         ELSE /\ session.failed = sessions[u].failed + Cardinality(chunk)
              /\ session.processed = sessions[u].processed
  BY <1>3, <1>4 DEF Session
<1>7. sessions' = [sessions EXCEPT ![u] = session]
  BY <1>1, <1>2
<1>8. /\ barrels' \in [Label -> States] /\ StaysUsed(barrels, barrels') /\ alerts' \subseteq Label
      /\ works => \A l \in chunk : barrels'[l] = "ACTIVE"
  <2>1. chunk \subseteq Label
    BY <1>2 DEF TaskRow
  <2> QED
    BY <1>1, <1>2, <2>1 DEF States, StaysUsed
<1>9. tasks[t].of # "none"
  BY <1>3
<1> HIDE DEF new, session
<1>10. ASSUME tasks[t].rows \cap tasks[t].updateRows = {}
       PROVE  ChunkDone(t, u, new, session, chunk, works)
  BY <1>5, <1>6, <1>7, <1>8, <1>10 DEF ChunkDone, TaskMoves
<1>11. tasks[t].rows \cap tasks[t].updateRows = {}
  BY <1>1, <1>3 DEF ServerOK, ImportOK, TaskOK, SessionOK
<1>12. ChunkDone(t, tasks[t].of, new, session, chunk, works)
  BY <1>10, <1>11
<1> QED
  BY <1>9, <1>12, ChunkKeeps

LEMMA UpdateKeeps ==
  ASSUME ServerOK, NEW t \in Task, NEW works \in BOOLEAN, UpdateChunk(t, works)
  PROVE  ServerOK'
<1> DEFINE u == tasks[t].of
<1>1. PICK chunk \in SUBSET tasks[t].updateRows :
        /\ ~Free(t)
        /\ IF works
           THEN /\ barrels' = [l \in Label |-> IF l \in chunk THEN "ACTIVE" ELSE barrels[l]]
                /\ alerts' = alerts \cup {l \in chunk : Worn[l] > 0}
                /\ sessions' = [sessions EXCEPT ![u].processed = @ + Cardinality(chunk)]
           ELSE /\ sessions' = [sessions EXCEPT ![u].failed = @ + Cardinality(chunk)]
                /\ UNCHANGED <<barrels, alerts>>
        /\ tasks' = [tasks EXCEPT ![t].updateRows = @ \ chunk]
  BY DEF UpdateChunk
<1> DEFINE new == [tasks[t] EXCEPT !.updateRows = @ \ chunk]
           session == IF works
                      THEN [sessions[u] EXCEPT !.processed = @ + Cardinality(chunk)]
                      ELSE [sessions[u] EXCEPT !.failed = @ + Cardinality(chunk)]
<1>2. /\ sessions \in [Upload -> Session] /\ tasks \in [Task -> TaskRow] /\ barrels \in [Label -> States]
      /\ tasks[t] \in TaskRow /\ alerts \subseteq Label
  BY Rowed DEF ServerOK
<1>3. /\ u \in Upload /\ u # "none" /\ sessions[u] \in Session /\ IsFiniteSet(sessions[u].updateRows)
      /\ tasks[t].updateRows \subseteq sessions[u].updateRows
  BY <1>1, <1>2 DEF ServerOK, ImportOK, TaskOK, SessionOK, TaskRow
<1>4. IsFiniteSet(chunk) /\ Cardinality(chunk) \in Nat
  <2>1. chunk \subseteq sessions[u].updateRows
    BY <1>3
  <2> HIDE DEF u
  <2> QED
    BY <1>3, <2>1, FS_Subset, FS_CardinalityType
<1>5. /\ new \in TaskRow /\ new.of = u
      /\ new.rows = tasks[t].rows /\ new.updateRows = tasks[t].updateRows \ chunk
      /\ tasks' = [tasks EXCEPT ![t] = new]
  BY <1>1, <1>2 DEF TaskRow
<1>6. /\ session \in Session
      /\ session.known = sessions[u].known /\ session.status = sessions[u].status
      /\ session.rows = sessions[u].rows /\ session.updateRows = sessions[u].updateRows
      /\ IF works THEN /\ session.processed = sessions[u].processed + Cardinality(chunk)
                       /\ session.failed = sessions[u].failed
         ELSE /\ session.failed = sessions[u].failed + Cardinality(chunk)
              /\ session.processed = sessions[u].processed
  BY <1>3, <1>4 DEF Session
<1>7. sessions' = [sessions EXCEPT ![u] = session]
  BY <1>1, <1>2
<1>8. /\ barrels' \in [Label -> States] /\ StaysUsed(barrels, barrels') /\ alerts' \subseteq Label
      /\ works => \A l \in chunk : barrels'[l] = "ACTIVE"
  <2>1. chunk \subseteq Label
    BY <1>2 DEF TaskRow
  <2> QED
    BY <1>1, <1>2, <2>1 DEF States, StaysUsed
<1>9. tasks[t].of # "none"
  BY <1>3
<1> HIDE DEF new, session
<1>10. ASSUME tasks[t].rows \cap tasks[t].updateRows = {}
       PROVE  ChunkDone(t, u, new, session, chunk, works)
  BY <1>5, <1>6, <1>7, <1>8, <1>10 DEF ChunkDone, TaskMoves
<1>11. tasks[t].rows \cap tasks[t].updateRows = {}
  BY <1>1, <1>3 DEF ServerOK, ImportOK, TaskOK, SessionOK
<1>12. ChunkDone(t, tasks[t].of, new, session, chunk, works)
  BY <1>10, <1>11
<1> QED
  BY <1>9, <1>12, ChunkKeeps

LEMMA FinishKeeps ==
  ASSUME ServerOK, NEW t \in Task, Finish(t)
  PROVE  ServerOK'
<1> DEFINE u == tasks[t].of
           session == [sessions[u] EXCEPT !.status =
             IF sessions[u].failed > 0 /\ sessions[u].processed = 0 THEN "failed" ELSE "completed"]
<1>1. /\ ~Free(t) /\ tasks[t].rows = {} /\ tasks[t].updateRows = {}
      /\ tasks' = [tasks EXCEPT ![t] = NoTask]
      /\ sessions' = [sessions EXCEPT ![u].status =
           IF sessions[u].failed > 0 /\ sessions[u].processed = 0 THEN "failed" ELSE "completed"]
      /\ UNCHANGED <<barrels, alerts>>
  BY DEF Finish
<1>2. /\ sessions \in [Upload -> Session] /\ tasks \in [Task -> TaskRow] /\ barrels \in [Label -> States]
      /\ tasks[t] \in TaskRow /\ alerts \subseteq Label
  BY Rowed DEF ServerOK
<1>3. /\ u \in Upload /\ u # "none" /\ sessions[u] \in Session
      /\ sessions[u].status = "in_progress"
      /\ \A other \in Task : tasks[other].of = u => other = t
      /\ SessionOK(sessions[u])
      /\ Sums(sessions[u], Left(tasks, u)) /\ Used(sessions[u], Left(tasks, u), barrels)
  BY <1>1, <1>2 DEF ServerOK, ImportOK, TaskOK, TaskRow
<1>4. /\ session \in Session
      /\ session.rows = sessions[u].rows /\ session.updateRows = sessions[u].updateRows
      /\ session.processed = sessions[u].processed /\ session.failed = sessions[u].failed
      /\ session.status \in Ended
  BY <1>3 DEF Session, Ended
<1>5. sessions' = [sessions EXCEPT ![u] = session]
  BY <1>1, <1>2
<1> HIDE DEF session
<1>6. NoTask \in TaskRow /\ NoTask.of = "none" /\ NoTask.rows = {} /\ NoTask.updateRows = {}
  BY DEF NoTask, TaskRow
<1>7. TaskMoves(t, u, NoTask, session)
  BY <1>1, <1>2, <1>4, <1>5, <1>6 DEF TaskMoves, StaysUsed
<1>8. Left(tasks, u) = {}
  <2>1. Left(tasks, u) = tasks[t].rows \cup tasks[t].updateRows
    BY <1>3, LeftOfTask
  <2> QED
    BY <1>1, <2>1
<1>9. /\ tasks'[t] = NoTask /\ sessions'[u] = session
      /\ \A other \in Task \ {t} : tasks'[other] = tasks[other]
  BY <1>1, <1>2, <1>3, <1>5
<1>10. Left(tasks', u) = {}
  <2>1. \A other \in Task : tasks'[other].of # u
    BY <1>3, <1>6, <1>9
  <2> QED
    BY <2>1, LeftNothing
<1>11. Kept(u)
  <2>1. SessionOK(session)
    BY <1>3, <1>4 DEF SessionOK, Counts
  <2>2. Sums(session, {}) /\ Used(session, {}, barrels)
    BY <1>3, <1>4, <1>8 DEF Sums, Used, InUse, Counts, Total
  <2> QED
    BY <1>1, <1>9, <1>10, <2>1, <2>2 DEF Kept
<1>12. TaskOK(t)'
  BY <1>6, <1>9 DEF TaskOK, Free
<1> QED
  BY <1>3, <1>7, <1>11, <1>12, TaskKeeps

LEMMA OthersKeep ==
  ASSUME ServerOK, NEW l \in Label, OthersUse(l)
  PROVE  ServerOK'
<1>1. UNCHANGED <<alerts, sessions, tasks>> /\ barrels' = [barrels EXCEPT ![l] = "ACTIVE"]
  BY DEF OthersUse
<1>2. ImportTypeOK'
  BY <1>1 DEF ServerOK, ImportTypeOK, States
<1>3. StaysUsed(barrels, barrels')
  BY <1>1, Rowed DEF ServerOK, StaysUsed
<1>4. ASSUME NEW u \in Upload
      PROVE  Kept(u)
  <2>1. /\ SessionOK(sessions[u]) /\ Sums(sessions[u], Left(tasks, u))
        /\ Used(sessions[u], Left(tasks, u), barrels) /\ sessions[u] \in Session
    BY Rowed DEF ServerOK, ImportOK
  <2>2. NoMoreThan(sessions[u], sessions[u])
    BY <2>1 DEF NoMoreThan, Session
  <2>3. Used(sessions[u], Left(tasks, u), barrels')
    BY <1>3, <2>1, <2>2, UsedStays
  <2> QED
    BY <1>1, <2>1, <2>3 DEF Kept
<1>5. \A t \in Task : TaskOK(t)'
  BY <1>1 DEF ServerOK, ImportOK, TaskOK, Free
<1> QED
  BY <1>2, <1>4, <1>5, AllKept

\* A restart loses the tasks, with what they had left.
LEMMA RestartKeeps ==
  ASSUME ServerOK, Restart
  PROVE  ServerOK'
<1>1. /\ tasks' = [t \in Task |-> NoTask] /\ UNCHANGED <<barrels, alerts>>
      /\ sessions' = [u \in Upload |->
           IF sessions[u].status = "none" THEN NoSession
           ELSE [sessions[u] EXCEPT !.known = FALSE, !.status = "gone"]]
  BY DEF Restart
<1>2. \A u \in Upload : sessions[u] \in Session
  BY Rowed DEF ServerOK
<1>3. NoTask \in TaskRow /\ NoTask.of = "none"
  BY DEF NoTask, TaskRow
<1>4. /\ NoSession \in Session /\ NoSession.processed = 0 /\ ~NoSession.known
      /\ NoSession.status = "none" /\ NoSession.rows = {} /\ NoSession.updateRows = {}
  BY DEF NoSession, Session
<1>5. ASSUME NEW u \in Upload
      PROVE  /\ sessions'[u] \in Session /\ ~sessions'[u].known
             /\ sessions'[u].status \notin Counts
             /\ sessions'[u] = NoSession \/ NoMoreThan(sessions'[u], sessions[u])
  <2>1. CASE sessions[u].status = "none"
    BY <1>1, <1>4, <2>1 DEF Counts, Ended
  <2>2. CASE sessions[u].status # "none"
    <3>1. sessions[u] \in Session /\ sessions'[u] = [sessions[u] EXCEPT !.known = FALSE, !.status = "gone"]
      BY <1>1, <1>2, <2>2
    <3>2. sessions'[u] \in Session /\ ~sessions'[u].known /\ sessions'[u].status = "gone"
      BY <3>1 DEF Session
    <3>3. NoMoreThan(sessions'[u], sessions[u])
      <4>1. /\ sessions'[u].rows = sessions[u].rows /\ sessions'[u].updateRows = sessions[u].updateRows
            /\ sessions'[u].processed = sessions[u].processed /\ sessions[u].processed \in Nat
        BY <3>1 DEF Session
      <4> QED
        BY <4>1 DEF NoMoreThan
    <3> QED
      BY <3>2, <3>3 DEF Counts, Ended
  <2> QED
    BY <2>1, <2>2
<1>6. ImportTypeOK'
  <2>1. sessions' \in [Upload -> Session]
    BY <1>1, <1>5
  <2>2. tasks' \in [Task -> TaskRow]
    BY <1>1, <1>3
  <2> QED
    BY <1>1, <2>1, <2>2 DEF ServerOK, ImportTypeOK, TaskRow
<1>7. ASSUME NEW u \in Upload
      PROVE  Kept(u)
  <2>1. Left(tasks', u) = {}
    BY <1>1, <1>3, LeftNothing, ImportAssumption DEF ImportAssumption
  <2>2. CASE sessions'[u] = NoSession
    <3>1. SessionOK(NoSession)
      BY <1>4, FS_EmptySet DEF SessionOK
    <3>2. Used(NoSession, {}, barrels')
      BY <1>4, <3>1, InUseFinite DEF Used, SessionOK
    <3> QED
      BY <1>4, <1>5, <2>1, <2>2, <3>1, <3>2 DEF Kept, Sums
  <2>3. CASE NoMoreThan(sessions'[u], sessions[u])
    <3>1. SessionOK(sessions[u]) /\ Used(sessions[u], Left(tasks, u), barrels)
      BY DEF ServerOK, ImportOK
    <3>2. SessionOK(sessions'[u]) /\ Sums(sessions'[u], {})
      BY <1>5, <2>3, <3>1 DEF SessionOK, NoMoreThan, Sums
    <3>3. Used(sessions'[u], {}, barrels)
      <4>1. {} \subseteq Left(tasks, u) /\ StaysUsed(barrels, barrels)
        BY DEF StaysUsed
      <4> QED
        BY <1>2, <1>5, <2>3, <3>1, <4>1, UsedStays
    <3> QED
      BY <1>1, <2>1, <3>2, <3>3 DEF Kept
  <2> QED
    BY <1>5, <2>2, <2>3
<1>8. \A t \in Task : TaskOK(t)'
  BY <1>1, <1>3 DEF TaskOK, Free
<1> QED
  BY <1>6, <1>7, <1>8, AllKept

LEMMA ServerStarts ==
  ASSUME ImportInit
  PROVE  ServerOK
<1>1. /\ tasks = [t \in Task |-> NoTask] /\ alerts = {}
      /\ sessions = [u \in Upload |-> NoSession]
      /\ barrels = [l \in Label |-> IF l \in Printed THEN "PRE_REGISTERED" ELSE "none"]
  BY DEF ImportInit
<1>2. NoTask \in TaskRow /\ NoTask.of = "none"
  BY DEF NoTask, TaskRow
<1>3. /\ NoSession \in Session /\ NoSession.processed = 0 /\ ~NoSession.known
      /\ NoSession.status = "none" /\ NoSession.rows = {} /\ NoSession.updateRows = {}
  BY DEF NoSession, Session
<1>4. ImportTypeOK
  <2>1. sessions \in [Upload -> Session] /\ tasks \in [Task -> TaskRow]
    BY <1>1, <1>2, <1>3
  <2> QED
    BY <1>1, <2>1 DEF ImportTypeOK, TaskRow, States
<1>5. ASSUME NEW u \in Upload
      PROVE  /\ SessionOK(sessions[u]) /\ Sums(sessions[u], Left(tasks, u))
             /\ Used(sessions[u], Left(tasks, u), barrels)
  <2>1. SessionOK(NoSession) /\ Sums(NoSession, Left(tasks, u))
    BY <1>3, FS_EmptySet DEF SessionOK, Sums, Counts, Ended
  <2>2. Used(NoSession, Left(tasks, u), barrels)
    BY <1>3, <2>1, InUseFinite DEF Used, SessionOK
  <2> QED
    BY <1>1, <2>1, <2>2
<1>6. \A t \in Task : TaskOK(t)
  BY <1>1, <1>2 DEF TaskOK, Free
<1> QED
  BY <1>4, <1>5, <1>6 DEF ServerOK, ImportOK

LEMMA ServerKeeps ==
  ASSUME ServerOK, Server
  PROVE  ServerOK'
<1>1. ASSUME NEW t \in Task, TaskStep(t)
      PROVE  ServerOK'
  BY <1>1, CreateKeeps, UpdateKeeps, FinishKeeps DEF TaskStep
<1> QED
  BY <1>1, OthersKeep, RestartKeeps DEF Server

-----------------------------------------------------------------------------
(***************************************************************************)
(* The steps of the page                                                   *)
(***************************************************************************)

PageOK ==
  /\ step \in Steps /\ validation \in Upload \cup {NoUpload}
  /\ intervals \subseteq Upload /\ pollingRef \in Upload \cup {NoUpload}

LEMMA Parts == IInv <=> ServerOK /\ PageOK /\ CallsOK
BY DEF IInv, TypeOK, ServerOK, PageOK, CallsOK, Answer

LEMMA CallTypes ==
  /\ NoProgress \in Answer /\ Truthful(NoProgress) /\ NoProgress.status \notin Ended
  /\ None \in Asked /\ None.pc = "none" /\ None.answer = NoProgress
  /\ \A u \in Upload \cup {NoUpload} :
       Sent(u) \in Asked /\ Sent(u).pc = "sent" /\ Sent(u).of = u /\ Sent(u).answer = NoProgress
  /\ \A r \in Asked :
       /\ Error(r) \in Asked /\ Error(r).pc = "error" /\ Error(r).of = r.of
       /\ Error(r).answer = r.answer
<1>1. NoProgress \in Answer /\ Truthful(NoProgress) /\ NoProgress.status \notin Ended
  BY DEF NoProgress, Answer, Truthful, Ended
<1>2. None \in Asked /\ None.pc = "none" /\ None.answer = NoProgress
  BY <1>1 DEF None, Asked
<1>3. ASSUME NEW u \in Upload \cup {NoUpload}
      PROVE  Sent(u) \in Asked /\ Sent(u).pc = "sent" /\ Sent(u).of = u /\ Sent(u).answer = NoProgress
  BY <1>1 DEF Sent, Asked
<1>4. ASSUME NEW r \in Asked
      PROVE  /\ Error(r) \in Asked /\ Error(r).pc = "error" /\ Error(r).of = r.of
             /\ Error(r).answer = r.answer
  BY DEF Error, Asked
<1> QED
  BY <1>1, <1>2, <1>3, <1>4

\* What a request for progress is given is of its session, and true.
LEMMA AnswerTrue ==
  ASSUME ServerOK, NEW u \in Upload, getImportProgress(u) # NotFound(u)
  PROVE  /\ getImportProgress(u) \in Answer
         /\ Truthful(getImportProgress(u))
         /\ getImportProgress(u).of = u
<1> DEFINE s == sessions[u]
           a == getImportProgress(u)
<1>1. s.known
  BY DEF getImportProgress
<1>2. /\ a.of = u /\ a.status = s.status /\ a.processed = s.processed
      /\ a.failed = s.failed /\ a.total = Total(s)
      /\ a = [of |-> u, status |-> s.status, processed |-> s.processed,
              failed |-> s.failed, total |-> Total(s)]
  BY <1>1 DEF getImportProgress
<1>3. /\ s \in Session /\ SessionOK(s) /\ Sums(s, Left(tasks, u))
      /\ s.status # "in_progress" => Left(tasks, u) = {}
  BY Rowed, LeftRows DEF ServerOK, ImportOK
<1>4. Total(s) \in Nat /\ s.processed \in Nat /\ s.failed \in Nat
  <2>1. Cardinality(s.rows) \in Nat /\ Cardinality(s.updateRows) \in Nat
    BY <1>3, FS_CardinalityType DEF SessionOK
  <2> QED
    BY <1>3, <2>1 DEF Total, Session
<1>5. s.status \in Ended \cup {"-", "validated", "in_progress"}
  BY <1>1, <1>3 DEF SessionOK, Counts, Ended
<1>6. s.status \in Ended => s.processed + s.failed = Total(s)
  <2> SUFFICES ASSUME s.status \in Ended
               PROVE  s.processed + s.failed = Total(s)
    OBVIOUS
  <2>1. s.status # "in_progress" /\ s.status \in Counts
    BY DEF Ended, Counts
  <2>2. Left(tasks, u) = {}
    BY <1>3, <2>1
  <2>3. s.processed + s.failed + Cardinality({}) = Total(s)
    BY <1>3, <2>1, <2>2 DEF Sums
  <2> HIDE DEF s
  <2> QED
    BY <1>4, <2>3, FS_EmptySet
<1> HIDE DEF s, a
<1>7. a \in Answer
  BY <1>2, <1>4, <1>5 DEF Answer
<1>8. Truthful(a)
  BY <1>2, <1>6 DEF Truthful
<1> QED
  BY <1>2, <1>7, <1>8 DEF a

LEMMA SameServer ==
  ASSUME ServerOK, UNCHANGED importVars
  PROVE  ServerOK'
<1>1. UNCHANGED <<barrels, alerts, sessions, tasks>>
  BY DEF importVars
<1>2. ImportTypeOK'
  BY <1>1 DEF ServerOK, ImportTypeOK
<1>3. \A u \in Upload : Kept(u)
  BY <1>1 DEF ServerOK, ImportOK, Kept
<1>4. \A t \in Task : TaskOK(t)'
  BY <1>1 DEF ServerOK, ImportOK, TaskOK, Free
<1> QED
  BY <1>2, <1>3, <1>4, AllKept

\* The requests for progress, as far as CallsOK speaks of them.
PollOK(r) ==
  /\ r \in Asked
  /\ r.pc # "none" => r.of \in Upload
  /\ r.pc = "ok" => r.answer.of = r.of
  /\ Truthful(r.answer)

LEMMA CallParts ==
  CallsOK <=>
    /\ upload \in Asked /\ (upload.pc = "ok" => upload.of \in Upload)
    /\ execute \in Asked /\ (execute.pc # "none" => execute.of \in Upload)
    /\ polls \in [Poll -> Asked] /\ \A i \in Poll : PollOK(polls[i])
    /\ progress \in Answer /\ Truthful(progress)
BY DEF CallsOK, PollOK

LEMMA PollsStep ==
  ASSUME CallsOK, NEW i \in Poll, NEW r, PollOK(r), polls' = [polls EXCEPT ![i] = r]
  PROVE  polls' \in [Poll -> Asked] /\ \A j \in Poll : PollOK(polls'[j])
<1>1. polls \in [Poll -> Asked] /\ \A j \in Poll : PollOK(polls[j])
  BY CallParts
<1>2. r \in Asked
  BY DEF PollOK
<1> QED
  BY <1>1, <1>2

\* What a step owes.
Stepped ==
  /\ ServerOK' /\ PageOK'
  /\ upload' \in Asked /\ (upload'.pc = "ok" => upload'.of \in Upload)
  /\ execute' \in Asked /\ (execute'.pc # "none" => execute'.of \in Upload)
  /\ polls' \in [Poll -> Asked] /\ \A i \in Poll : PollOK(polls'[i])
  /\ progress' \in Answer /\ Truthful(progress')

LEMMA StepKeeps ==
  ASSUME IInv, [Next]_vars
  PROVE  IInv'
<1>1. ServerOK /\ PageOK /\ CallsOK
  BY Parts
<1>2. SUFFICES ServerOK' /\ PageOK' /\ CallsOK'
  BY Parts, PTL
<1>3. /\ upload \in Asked /\ (upload.pc = "ok" => upload.of \in Upload)
      /\ execute \in Asked /\ (execute.pc # "none" => execute.of \in Upload)
      /\ polls \in [Poll -> Asked] /\ \A i \in Poll : PollOK(polls[i])
      /\ progress \in Answer /\ Truthful(progress)
  BY <1>1, CallParts
<1>4. SUFFICES Stepped
  BY DEF CallsOK, PollOK, Stepped
<1> USE <1>1, <1>3 DEF Stepped
<1>5. CASE Server /\ UNCHANGED <<pageVars, callVars>>
  <2>1. ServerOK'
    BY <1>5, ServerKeeps
  <2> QED
    BY <1>5, <2>1 DEF pageVars, callVars, PageOK
<1>6. CASE UploadClick
  BY <1>6, SameServer, CallTypes DEF UploadClick, pageVars, PageOK
<1>7. CASE ExecuteClick
  <2>1. validation \in Upload
    BY <1>7 DEF ExecuteClick, PageOK
  <2> QED
    BY <1>7, <2>1, SameServer, CallTypes DEF ExecuteClick, PageOK, Steps
<1>8. CASE Reset
  <2>1. intervals' \subseteq intervals /\ UNCHANGED callVars /\ UNCHANGED importVars
    BY <1>8 DEF Reset, Cleared
  <2> QED
    BY <1>8, <2>1, SameServer, CallTypes DEF Reset, callVars, PageOK, Steps
<1>9. CASE UploadServed
  <2>1. PICK u \in Upload, file \in Files :
          validateImport(u, file) /\ upload' = [upload EXCEPT !.pc = "ok", !.of = u]
    BY <1>9 DEF UploadServed
  <2>2. ServerOK'
    BY <2>1, ValidateKeeps
  <2>3. upload' \in Asked /\ upload'.of = u
    BY <2>1 DEF Asked
  <2> QED
    BY <1>9, <2>2, <2>3 DEF UploadServed, pageVars, PageOK
<1>10. CASE ExecuteServed
  <2>1. execute.pc = "sent" /\ execute.of \in Upload /\ UNCHANGED <<pageVars, upload, polls>>
    BY <1>10 DEF ExecuteServed
  <2>2. CASE executeImport(execute.of) /\ execute' = [execute EXCEPT !.pc = "ok"]
    <3>1. ServerOK'
      BY <2>1, <2>2, ExecuteKeeps
    <3>2. execute' \in Asked /\ execute'.of = execute.of
      BY <2>2 DEF Asked
    <3> QED
      BY <2>1, <3>1, <3>2 DEF pageVars, PageOK
  <2>3. CASE execute' = Error(execute) /\ UNCHANGED importVars
    BY <2>1, <2>3, SameServer, CallTypes DEF pageVars, PageOK
  <2> QED
    BY <1>10, <2>2, <2>3 DEF ExecuteServed
<1>11. ASSUME NEW u \in Upload, PollTick(u)
       PROVE  Stepped
  <2>1. PICK i \in Poll : polls' = [polls EXCEPT ![i] = Sent(u)]
    BY <1>11 DEF PollTick
  <2>2. UNCHANGED <<importVars, pageVars, upload, execute>>
    BY <1>11 DEF PollTick
  <2>3. PollOK(Sent(u))
    BY CallTypes DEF PollOK
  <2>4. polls' \in [Poll -> Asked] /\ \A j \in Poll : PollOK(polls'[j])
    BY <2>1, <2>3, PollsStep
  <2> QED
    BY <2>2, <2>4, SameServer DEF pageVars, PageOK
<1>12. ASSUME NEW i \in Poll, PollServed(i)
       PROVE  Stepped
  <2> DEFINE a == getImportProgress(polls[i].of)
             r == IF a = NotFound(polls[i].of) THEN Error(polls[i])
                  ELSE [polls[i] EXCEPT !.pc = "ok", !.answer = a]
  <2>1. /\ polls[i].pc = "sent" /\ polls' = [polls EXCEPT ![i] = r]
        /\ UNCHANGED <<importVars, pageVars, upload, execute>>
    BY <1>12 DEF PollServed
  <2>2. polls[i] \in Asked /\ polls[i].of \in Upload /\ Truthful(polls[i].answer)
    BY <2>1 DEF PollOK
  <2>3. CASE a = NotFound(polls[i].of)
    <3>1. r = Error(polls[i])
      BY <2>3
    <3> HIDE DEF a, r
    <3>2. PollOK(r)
      BY <2>1, <2>2, <3>1, CallTypes DEF PollOK
    <3>3. polls' \in [Poll -> Asked] /\ \A j \in Poll : PollOK(polls'[j])
      BY <2>1, <3>2, PollsStep
    <3> QED
      BY <2>1, <3>3, SameServer DEF pageVars, PageOK
  <2>4. CASE a # NotFound(polls[i].of)
    <3>1. a \in Answer /\ Truthful(a) /\ a.of = polls[i].of
      BY <2>2, <2>4, AnswerTrue
    <3>2. r = [polls[i] EXCEPT !.pc = "ok", !.answer = a]
      BY <2>4
    <3> HIDE DEF a, r
    <3>3. r \in Asked /\ r.pc = "ok" /\ r.of = polls[i].of /\ r.answer = a
      BY <2>2, <3>1, <3>2 DEF Asked
    <3>4. PollOK(r)
      BY <2>2, <3>1, <3>3 DEF PollOK
    <3>5. polls' \in [Poll -> Asked] /\ \A j \in Poll : PollOK(polls'[j])
      BY <2>1, <3>4, PollsStep
    <3> QED
      BY <2>1, <3>5, SameServer DEF pageVars, PageOK
  <2> QED
    BY <2>3, <2>4
<1>13. ASSUME NEW answered \in BOOLEAN, UploadAnswered(answered)
       PROVE  Stepped
  <2>1. /\ UNCHANGED <<importVars, progress, intervals, pollingRef, execute, polls>>
        /\ upload' = None
        /\ IF answered THEN validation' = upload.of /\ step' = "validation" ELSE UNCHANGED <<validation, step>>
        /\ answered => upload.of \in Upload
    BY <1>13 DEF UploadAnswered
  <2>2. PageOK'
    BY <2>1 DEF PageOK, Steps
  <2> QED
    BY <2>1, <2>2, SameServer, CallTypes
<1>14. ASSUME NEW answered \in BOOLEAN, ExecuteAnswered(answered)
       PROVE  Stepped
  <2>1. /\ UNCHANGED <<importVars, validation, progress, upload, polls>>
        /\ execute' = None /\ execute.of \in Upload
        /\ IF answered
           THEN intervals' = intervals \cup {execute.of} /\ pollingRef' = execute.of /\ UNCHANGED step
           ELSE step' = "validation" /\ UNCHANGED <<intervals, pollingRef>>
    BY <1>14 DEF ExecuteAnswered
  <2>2. PageOK'
    BY <2>1 DEF PageOK, Steps
  <2> QED
    BY <2>1, <2>2, SameServer, CallTypes
<1>15. ASSUME NEW i \in Poll, NEW answered \in BOOLEAN, PollAnswered(i, answered)
       PROVE  Stepped
  <2>1. /\ polls' = [polls EXCEPT ![i] = None]
        /\ UNCHANGED <<importVars, validation, pollingRef, upload, execute>>
        /\ step' \in {step, "done"} /\ intervals' \in {intervals, Cleared}
        /\ progress' \in {progress, polls[i].answer}
    BY <1>15 DEF PollAnswered
  <2>2. PageOK'
    BY <2>1 DEF PageOK, Steps, Cleared
  <2>3. PollOK(None)
    BY CallTypes DEF PollOK
  <2>4. polls' \in [Poll -> Asked] /\ \A j \in Poll : PollOK(polls'[j])
    BY <2>1, <2>3, PollsStep
  <2>5. polls[i].answer \in Answer /\ Truthful(polls[i].answer)
    BY DEF PollOK, Asked
  <2> QED
    BY <2>1, <2>2, <2>4, <2>5, SameServer
<1>16. CASE UNCHANGED vars
  BY <1>16, SameServer DEF vars, pageVars, callVars, PageOK
<1> QED
  BY <1>5, <1>6, <1>7, <1>8, <1>9, <1>10, <1>11, <1>12, <1>13, <1>14, <1>15, <1>16
  DEF Next, Answers

LEMMA Starts ==
  ASSUME Init
  PROVE  IInv
<1>1. ServerOK
  BY ServerStarts DEF Init
<1>2. PageOK
  BY DEF Init, PageOK, Steps
<1>3. PollOK(None)
  BY CallTypes DEF PollOK
<1>4. CallsOK
  BY <1>3, CallTypes, CallParts DEF Init
<1> QED
  BY <1>1, <1>2, <1>4, Parts

LEMMA Invariant == Spec => []IInv
<1>1. Init => IInv
  BY Starts
<1>2. IInv /\ [Next]_vars => IInv'
  BY StepKeeps
<1> QED
  BY <1>1, <1>2, PTL DEF Spec

\* The state of the server and of the page is always of its type.
THEOREM TypeCorrect == Spec => []TypeOK
<1>1. IInv => TypeOK
  BY DEF IInv
<1> QED
  BY <1>1, Invariant, PTL

\* The rows of a session are counted once each, as processed or as failed
\* (processImportChunks), however often it is executed and whatever fails.
THEOREM RowsCounted == Spec => []RowsCountedOnce
<1>1. IInv => RowsCountedOnce
  BY DEF IInv, ImportOK, RowsCountedOnce, Sums, Left, Counts
<1> QED
  BY <1>1, Invariant, PTL

\* A row counted as processed is a barrel that came into use.
THEOREM ProcessedInUse == Spec => []ProcessedExist
<1>1. ASSUME IInv, NEW u \in Upload
      PROVE  sessions[u].processed <=
               Cardinality({l \in sessions[u].rows \cup sessions[u].updateRows : barrels[l] = "ACTIVE"})
  <2> DEFINE s == sessions[u]
  <2>1. /\ s \in Session /\ SessionOK(s) /\ Used(s, Left(tasks, u), barrels)
    BY <1>1, Parts, Rowed DEF ServerOK, ImportOK
  <2>2. {} \subseteq Left(tasks, u) /\ StaysUsed(barrels, barrels) /\ NoMoreThan(s, s)
    BY <2>1 DEF StaysUsed, NoMoreThan, Session
  <2>3. Used(s, {}, barrels)
    BY <2>1, <2>2, UsedStays
  <2>4. InUse(s, {}, barrels) = {l \in s.rows \cup s.updateRows : barrels[l] = "ACTIVE"}
    BY DEF InUse
  <2> QED
    BY <2>3, <2>4 DEF Used
<1>2. IInv => ProcessedExist
  BY <1>1 DEF ProcessedExist
<1> QED
  BY <1>2, Invariant, PTL

-----------------------------------------------------------------------------
(***************************************************************************)
(* One poll at a time                                                      *)
(***************************************************************************)

\* A poll is answered before the next one is sent.
OnePoll == \A i, j \in Poll : i = j

LEMMA OneStep ==
  ASSUME OnePoll, IInv, OneImport, [Next]_vars
  PROVE  OneImport'
<1>1. PageOK /\ CallsOK
  BY Parts
<1>2. /\ upload \in Asked /\ execute \in Asked /\ polls \in [Poll -> Asked]
      /\ \A i \in Poll : PollOK(polls[i])
  BY <1>1, CallParts
<1>3. None.pc = "none"
  BY CallTypes
<1> USE <1>1, <1>2, <1>3
<1>4. CASE Server /\ UNCHANGED <<pageVars, callVars>>
  BY <1>4 DEF OneImport, Quiet, pageVars, callVars
<1>5. CASE UploadClick
  BY <1>5 DEF UploadClick, OneImport, Quiet, pageVars
<1>6. CASE ExecuteClick
  <2>1. execute'.of = validation'
    BY <1>6 DEF ExecuteClick, Sent
  <2> QED
    BY <1>6, <2>1 DEF ExecuteClick, OneImport, Quiet
<1>7. CASE Reset
  <2>1. /\ step # "importing" /\ step' = "upload" /\ Quiet /\ execute.pc = "none"
        /\ UNCHANGED callVars /\ intervals' = {}
    BY <1>7 DEF Reset, OneImport, Quiet, Cleared
  <2> QED
    BY <2>1 DEF OneImport, Quiet, callVars
<1>8. CASE UploadServed
  BY <1>8 DEF UploadServed, OneImport, Quiet, pageVars
<1>9. CASE ExecuteServed
  <2>1. execute.pc = "sent" /\ execute'.of = execute.of /\ UNCHANGED <<pageVars, upload, polls>>
    <3>1. /\ execute.pc = "sent" /\ UNCHANGED <<pageVars, upload, polls>>
          /\ execute' = [execute EXCEPT !.pc = "ok"] \/ execute' = Error(execute)
      BY <1>9 DEF ExecuteServed
    <3>2. [execute EXCEPT !.pc = "ok"].of = execute.of /\ Error(execute).of = execute.of
      BY CallTypes DEF Asked
    <3> QED
      BY <3>1, <3>2
  <2> QED
    BY <2>1 DEF OneImport, Quiet, pageVars
<1>10. ASSUME NEW u \in Upload, PollTick(u)
       PROVE  OneImport'
  <2>1. PICK i \in Poll : polls[i].pc = "none" /\ polls' = [polls EXCEPT ![i] = Sent(u)]
    BY <1>10 DEF PollTick
  <2>2. UNCHANGED <<importVars, pageVars, upload, execute>> /\ u \in intervals
    BY <1>10 DEF PollTick
  <2>3. /\ u = validation /\ intervals # {} /\ step = "importing" /\ execute.pc = "none"
        /\ upload.pc = "none"
    BY <2>2 DEF OneImport, Quiet
  <2>4. \A j \in Poll : polls'[j].pc # "none" => polls'[j].of = validation
    BY <2>1, <2>3 DEF Sent, OneImport
  <2> QED
    BY <2>2, <2>3, <2>4 DEF OneImport, pageVars
<1>11. ASSUME NEW i \in Poll, PollServed(i)
       PROVE  OneImport'
  <2>1. /\ polls[i].pc = "sent" /\ UNCHANGED <<importVars, pageVars, upload, execute>>
        /\ polls'[i].of = polls[i].of
        /\ \A j \in Poll \ {i} : polls'[j] = polls[j]
    BY <1>11 DEF PollServed, Error
  <2>2. /\ polls[i].of = validation /\ intervals # {} /\ step = "importing" /\ execute.pc = "none"
        /\ upload.pc = "none"
    BY <2>1 DEF OneImport, Quiet
  <2>3. \A j \in Poll : polls'[j].pc # "none" => polls'[j].of = validation
    BY <2>1, <2>2 DEF OneImport
  <2> QED
    BY <2>1, <2>2, <2>3 DEF OneImport, pageVars
<1>12. ASSUME NEW answered \in BOOLEAN, UploadAnswered(answered)
       PROVE  OneImport'
  <2>1. step = "upload" /\ Quiet /\ execute.pc = "none"
    BY <1>12 DEF UploadAnswered, OneImport
  <2>2. /\ upload' = None /\ UNCHANGED <<intervals, execute, polls>>
        /\ step' \in {"upload", "validation"}
    BY <1>12, <2>1 DEF UploadAnswered
  <2> QED
    BY <2>1, <2>2 DEF OneImport, Quiet
<1>13. ASSUME NEW answered \in BOOLEAN, ExecuteAnswered(answered)
       PROVE  OneImport'
  <2>1. step = "importing" /\ Quiet /\ execute.of = validation /\ upload.pc = "none"
    BY <1>13 DEF ExecuteAnswered, OneImport
  <2>2. /\ execute' = None /\ UNCHANGED <<validation, upload, polls>>
        /\ \/ intervals' = {validation} /\ pollingRef' = validation /\ step' = "importing"
           \/ intervals' = {} /\ step' = "validation"
    BY <1>13, <2>1 DEF ExecuteAnswered, Quiet
  <2> QED
    BY <2>1, <2>2 DEF OneImport, Quiet
<1>14. ASSUME NEW i \in Poll, NEW answered \in BOOLEAN, PollAnswered(i, answered)
       PROVE  OneImport'
  <2>1. polls[i].pc # "none"
    BY <1>14 DEF PollAnswered
  <2>2. /\ polls[i].of = validation /\ intervals = {validation} /\ pollingRef = validation
        /\ step = "importing" /\ execute.pc = "none" /\ upload.pc = "none"
    BY <2>1 DEF OneImport, Quiet
  <2>3. /\ polls' = [polls EXCEPT ![i] = None]
        /\ UNCHANGED <<validation, pollingRef, upload, execute>>
        /\ \/ /\ polls[i].pc = "ok" /\ progress' = polls[i].answer
              /\ polls[i].answer.status \in Ended /\ step' = "done" /\ intervals' = Cleared
           \/ UNCHANGED <<step, intervals>>
           \/ intervals' = Cleared /\ UNCHANGED step
    BY <1>14 DEF PollAnswered
  <2>4. Cleared = {}
    BY <2>2 DEF Cleared
  <2>5. \A j \in Poll : polls'[j].pc = "none"
    BY <2>3 DEF OnePoll
  <2>6. polls[i].pc = "ok" => polls[i].answer.of = validation
    BY <2>2 DEF PollOK
  <2> QED
    BY <2>2, <2>3, <2>4, <2>5, <2>6 DEF OneImport, Quiet
<1>15. CASE UNCHANGED vars
  BY <1>15 DEF vars, pageVars, callVars, OneImport, Quiet
<1> QED
  BY <1>4, <1>5, <1>6, <1>7, <1>8, <1>9, <1>10, <1>11, <1>12, <1>13, <1>14, <1>15
  DEF Next, Answers

\* With one poll at a time, "done" is only shown of the import that was
\* executed, once it has ended and all its rows are counted (startPolling and
\* handleReset of the page, getImportProgress of the server).
THEOREM DoneTells ==
  ASSUME OnePoll
  PROVE  Spec => []DoneTellsTruth
<1>1. Init => OneImport
  BY CallTypes DEF Init, OneImport, Quiet
<1>2. IInv /\ OneImport /\ [Next]_vars => OneImport'
  BY OneStep
<1>3. IInv /\ OneImport => DoneTellsTruth
  BY DEF IInv, CallsOK, Truthful, OneImport, DoneTellsTruth
<1> QED
  BY <1>1, <1>2, <1>3, Invariant, PTL DEF Spec
=============================================================================
