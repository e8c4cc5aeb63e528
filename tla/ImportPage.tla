----------------------------- MODULE ImportPage -----------------------------
(***************************************************************************)
(* The page that imports barrels (frontend barrels/import/page.tsx) and    *)
(* the server behind it (ImportSession).  The page sends a file, shows     *)
(* what the validation said, has the session executed and asks for its     *)
(* progress once a second, whether or not the last answer has come.        *)
(*                                                                         *)
(* A request of the page is sent, served and answered; a request that is   *)
(* lost, before or after it was served, is an error to the page.           *)
(***************************************************************************)
EXTENDS ImportSession

CONSTANTS
  Poll,       \* bound of the model: requests for progress under way at once
  NoUpload    \* null

ASSUME PageAssumption == NoUpload \notin Upload

VARIABLES
  step,        \* what the page shows
  validation,  \* the session it shows, NoUpload before the validation
  progress,    \* the last answer to a poll, and of which session
  intervals,   \* sessions for which a timer runs
  pollingRef,  \* the timer that clearInterval stops
  upload,      \* the request to validate
  execute,     \* the request to execute
  polls        \* the requests for progress

pageVars == <<step, validation, progress, intervals, pollingRef>>
callVars == <<upload, execute, polls>>
vars == <<importVars, pageVars, callVars>>

Steps == {"upload", "validation", "importing", "done"}
NoProgress == [of |-> NoUpload, status |-> "-", processed |-> 0, failed |-> 0, total |-> 0]

\* A request of the page: how far it is, for which session, and the answer.
None == [pc |-> "none", of |-> NoUpload, answer |-> NoProgress]
Sent(u) == [pc |-> "sent", of |-> u, answer |-> NoProgress]
Error(r) == [r EXCEPT !.pc = "error"]

Cleared == intervals \ {pollingRef}

-----------------------------------------------------------------------------
\* handleUploadAndValidate: the button is disabled while a file is uploaded.
UploadClick ==
  /\ step = "upload"
  /\ upload.pc = "none"
  /\ upload' = Sent(NoUpload)
  /\ UNCHANGED <<importVars, pageVars, execute, polls>>

UploadServed ==
  /\ upload.pc = "sent"
  /\ \E u \in Upload, file \in Files :
       /\ validateImport(u, file)
       /\ upload' = [upload EXCEPT !.pc = "ok", !.of = u]
  /\ UNCHANGED <<pageVars, execute, polls>>

UploadAnswered(answered) ==
  /\ upload.pc # "none"
  /\ answered => upload.pc = "ok"
  /\ IF answered
     THEN validation' = upload.of /\ step' = "validation"
     ELSE UNCHANGED <<validation, step>>
  /\ upload' = None
  /\ UNCHANGED <<importVars, progress, intervals, pollingRef, execute, polls>>

\* handleExecuteImport: the button is there when there are rows to import.
ExecuteClick ==
  /\ step = "validation" /\ validation # NoUpload
  /\ Total(sessions[validation]) > 0
  /\ execute.pc = "none"
  /\ step' = "importing"
  /\ execute' = Sent(validation)
  /\ UNCHANGED <<importVars, validation, progress, intervals, pollingRef, upload, polls>>

ExecuteServed ==
  /\ execute.pc = "sent"
  /\ \/ executeImport(execute.of) /\ execute' = [execute EXCEPT !.pc = "ok"]
     \/ /\ ~sessions[execute.of].known \/ sessions[execute.of].status = "in_progress"
        /\ execute' = Error(execute)
        /\ UNCHANGED importVars
  /\ UNCHANGED <<pageVars, upload, polls>>

\* The timer starts, and pollingRef forgets an older one; after an error the
\* page goes back.
ExecuteAnswered(answered) ==
  /\ execute.pc # "none"
  /\ answered => execute.pc = "ok"
  /\ IF answered
     THEN /\ intervals' = intervals \cup {execute.of}
          /\ pollingRef' = execute.of
          /\ UNCHANGED step
     ELSE /\ step' = "validation"
          /\ UNCHANGED <<intervals, pollingRef>>
  /\ execute' = None
  /\ UNCHANGED <<importVars, validation, progress, upload, polls>>

\* The timer fires.
PollTick(u) ==
  /\ u \in intervals
  /\ \E i \in Poll : polls[i].pc = "none" /\ polls' = [polls EXCEPT ![i] = Sent(u)]
  /\ UNCHANGED <<importVars, pageVars, upload, execute>>

\* Faulty: a session that is not known is answered for all the same.
PollServedUnknown(i) ==
  /\ polls[i].pc = "sent"
  /\ polls' = [polls EXCEPT ![i].pc = "ok", ![i].answer = getImportProgress(polls[i].of)]
  /\ UNCHANGED <<importVars, pageVars, upload, execute>>

PollServed(i) ==
  LET a == getImportProgress(polls[i].of) IN
  /\ polls[i].pc = "sent"
  /\ polls' = [polls EXCEPT ![i] =
       IF a = NotFound(polls[i].of) THEN Error(@)
       ELSE [@ EXCEPT !.pc = "ok", !.answer = a]]
  /\ UNCHANGED <<importVars, pageVars, upload, execute>>

\* Faulty: the import is done when all rows are counted.
PollAnsweredFull(i, answered) ==
  LET a == polls[i].answer IN
  /\ polls[i].pc # "none"
  /\ answered => polls[i].pc = "ok"
  /\ IF answered
     THEN /\ progress' = a
          /\ IF a.processed + a.failed = a.total
             THEN step' = "done" /\ intervals' = Cleared
             ELSE UNCHANGED <<step, intervals>>
     ELSE intervals' = Cleared /\ UNCHANGED <<step, progress>>
  /\ polls' = [polls EXCEPT ![i] = None]
  /\ UNCHANGED <<importVars, validation, pollingRef, upload, execute>>

\* Faulty: only a completed import is done.
PollAnsweredCompleted(i, answered) ==
  LET a == polls[i].answer IN
  /\ polls[i].pc # "none"
  /\ answered => polls[i].pc = "ok"
  /\ IF answered
     THEN /\ progress' = a
          /\ IF a.status = "completed"
             THEN step' = "done" /\ intervals' = Cleared
             ELSE UNCHANGED <<step, intervals>>
     ELSE intervals' = Cleared /\ UNCHANGED <<step, progress>>
  /\ polls' = [polls EXCEPT ![i] = None]
  /\ UNCHANGED <<importVars, validation, pollingRef, upload, execute>>

\* Whatever the page shows by now, the answer is shown, and an answer that
\* says completed or failed brings the last step.
PollAnswered(i, answered) ==
  LET a == polls[i].answer IN
  /\ polls[i].pc # "none"
  /\ answered => polls[i].pc = "ok"
  /\ IF answered
     THEN /\ progress' = a
          /\ IF a.status \in Ended
             THEN step' = "done" /\ intervals' = Cleared
             ELSE UNCHANGED <<step, intervals>>
     ELSE intervals' = Cleared /\ UNCHANGED <<step, progress>>
  /\ polls' = [polls EXCEPT ![i] = None]
  /\ UNCHANGED <<importVars, validation, pollingRef, upload, execute>>

\* handleReset: back from the validation, or on to the next import.
Reset ==
  /\ step = "validation" \/ (step = "done" /\ progress # NoProgress)
  /\ step' = "upload"
  /\ validation' = NoUpload
  /\ progress' = NoProgress
  /\ intervals' = Cleared
  /\ UNCHANGED <<importVars, pollingRef, callVars>>

-----------------------------------------------------------------------------
Init ==
  /\ ImportInit
  /\ step = "upload"
  /\ validation = NoUpload
  /\ progress = NoProgress
  /\ intervals = {} /\ pollingRef = NoUpload
  /\ upload = None /\ execute = None
  /\ polls = [i \in Poll |-> None]

Server ==
  \/ \E t \in Task : TaskStep(t)
  \/ \E l \in Label : OthersUse(l)
  \/ Restart

\* An answer comes, or an error: a refusal, or the request or its answer is lost.
Answers ==
  \E answered \in BOOLEAN :
    \/ UploadAnswered(answered) \/ ExecuteAnswered(answered)
    \/ \E i \in Poll : PollAnswered(i, answered)

Next ==
  \/ Server /\ UNCHANGED <<pageVars, callVars>>
  \/ UploadClick \/ ExecuteClick \/ Reset
  \/ UploadServed \/ ExecuteServed
  \/ \E u \in Upload : PollTick(u)
  \/ \E i \in Poll : PollServed(i)
  \/ Answers

\* The event loops run: a task takes its next chunk, a timer fires, a request
\* is answered or fails in the end.  Users need do nothing.
Fairness ==
  /\ \A t \in Task : WF_vars(TaskStep(t) /\ UNCHANGED <<pageVars, callVars>>)
  /\ \A u \in Upload : WF_vars(PollTick(u))
  /\ WF_vars(\E answered \in BOOLEAN : UploadAnswered(answered))
  /\ WF_vars(\E answered \in BOOLEAN : ExecuteAnswered(answered))
  /\ \A i \in Poll : WF_vars(\E answered \in BOOLEAN : PollAnswered(i, answered))

Spec == Init /\ [][Next]_vars /\ Fairness

-----------------------------------------------------------------------------
(***************************************************************************)
(* Correctness                                                             *)
(***************************************************************************)

TypeOK ==
  /\ ImportTypeOK
  /\ step \in Steps
  /\ validation \in Upload \cup {NoUpload}
  /\ progress.of \in Upload \cup {NoUpload}
  /\ progress.status \in Ended \cup {"-", "validated", "in_progress"}
  /\ intervals \subseteq Upload
  /\ pollingRef \in Upload \cup {NoUpload}

\* When the page says that the import is done, it is, and the numbers shown
\* are those of the session that was executed.  With two polls under way at
\* once it is not so: a late answer ends whatever the page shows by then.
DoneTellsTruth ==
  step = "done" =>
    /\ progress.status \in Ended
    /\ progress.processed + progress.failed = progress.total
    /\ progress.of = validation

\* The page does not stay at "importing" for ever, unless it has stopped
\* asking, after one poll that failed.
ImportingLeft ==
  (step = "importing") ~> (step # "importing" \/ (execute.pc = "none" /\ intervals = {}))
=============================================================================
