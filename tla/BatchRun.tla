------------------------------ MODULE BatchRun ------------------------------
(***************************************************************************)
(* run_pipeline, reprocess_upload and _with_retry (app/pipeline.py): one   *)
(* session loads a list of files, one transaction and up to Retries + 1    *)
(* attempts per file, under one row of pipeline_runs.  FileLoad models     *)
(* what an attempt does to the data; here an attempt is one step, and what *)
(* matters is the session it leaves behind.                                *)
(*                                                                         *)
(* The row of the run is inserted before the first file and is not         *)
(* committed before the first commit of a file.  A session that met an     *)
(* error inside a transaction refuses everything until it is rolled back,  *)
(* and _with_retry does not roll back.  The process may die at any point   *)
(* and be started again (app/main.py runs the pipeline at startup).        *)
(***************************************************************************)
EXTENDS Integers, Sequences, FiniteSets

CONSTANTS File,        \* the .xlsm files of the data directory
          Files,       \* the order of their names, a sequence of File
          Unreadable,  \* the files that extract may fail to read (half copied, say)
          Retries,     \* retries of _with_retry, 4 in the code
          AckLoss,     \* may a commit take effect and yet raise?
          MaxRuns      \* bound on the runs

ASSUME RetriesAssumption == Retries \in Nat
\* A directory has every file under one name.
ASSUME FilesAssumption == /\ Files \in Seq(File)
                          /\ File = {Files[i] : i \in DOMAIN Files}
                          /\ \A i, j \in DOMAIN Files : Files[i] = Files[j] => i = j

VARIABLES
  uploads,  \* committed uploads: [file, run, status, again]
  rows,     \* committed rows of pipeline_runs: [run, kind, status, counts]
  run,      \* number of the last run
  kind,     \* "batch" (run_pipeline) or "reprocess" (reprocess_upload)
  pc,       \* "idle" or "files"
  todo,     \* files left; its head is being attempted
  session,  \* "clean", "open" (work is flushed) or "broken" (only a rollback helps)
  row,      \* the run's own row: "none", "flushed", "stored", "lost" (rolled back)
            \* or "detached" (stored, but the session has forgotten it)
  attempt,  \* attempt of _with_retry
  counts,   \* counts of run_pipeline
  hurt      \* history: the files that met an error of their own in this run

db == <<uploads, rows>>
call == <<run, kind, pc>>
vars == <<db, call, todo, session, row, attempt, counts, hurt>>

Result == {"processed", "skipped", "skipped_no_delta", "failed"}
NoCounts == [r \in Result |-> 0]

Init == /\ uploads = {} /\ rows = {} /\ run = 0 /\ kind = "batch"
        /\ pc = "idle" /\ todo = <<>>
        /\ session = "clean" /\ row = "none" /\ attempt = 0
        /\ counts = NoCounts /\ hurt = {}

-----------------------------------------------------------------------------
(* The start of a run: its row is flushed, not committed. *)

Begin(k, files) ==
  /\ pc = "idle" /\ run < MaxRuns
  /\ pc' = "files" /\ run' = run + 1 /\ kind' = k /\ todo' = files
  /\ session' = "open" /\ row' = "flushed" /\ attempt' = 0
  /\ counts' = NoCounts /\ hurt' = {}
  /\ UNCHANGED db

RunPipeline == Begin("batch", Files)

Reprocess == \E u \in uploads : Begin("reprocess", <<u.file>>)

-----------------------------------------------------------------------------
(* One attempt at the head of todo *)

Current == Head(todo)
Attempting == pc = "files" /\ todo # <<>> /\ session # "broken"

\* Mutant: the gate knows the uploads of this run only.
Gated_ThisRun == kind = "batch" /\ [file |-> Current, run |-> run, status |-> "processed", again |-> FALSE] \in uploads

\* The content-hash gate of a file that could be read; a reprocess skips it.
Gated == kind = "batch" /\ \E u \in uploads : u.file = Current /\ u.status = "processed"

\* What a commit in the middle of a run makes of the run's row.
Committed == IF row = "flushed" THEN "stored" ELSE row
StoreRow == rows' = IF row = "flushed"
                    THEN rows \cup {[run |-> run, kind |-> kind, status |-> "running", counts |-> NoCounts]}
                    ELSE rows

\* The file's upload is committed; it refers to the run's row.
StoreUpload(status) ==
  /\ row # "lost"
  /\ StoreRow
  /\ uploads' = uploads \cup {[file |-> Current, run |-> run, status |-> status,
                               again |-> kind = "reprocess"]}

\* The attempt returns r: it is counted, and the next file's turn comes.
Return(r) ==
  /\ counts' = [counts EXCEPT ![r] = @ + 1]
  /\ todo' = Tail(todo) /\ attempt' = 0
  /\ session' = "clean" /\ row' = Committed
  /\ UNCHANGED <<call, hurt>>

\* What _load_file may return; but for "skipped" it is its upload's status.
Outcomes == (IF Gated THEN {"skipped"} ELSE {"processed", "skipped_no_delta"})
              \cup (IF Current \in Unreadable THEN {"failed"} ELSE {})

\* What the commit after a load that returns r stores.
Store(r) == \/ r = "skipped" /\ StoreRow /\ UNCHANGED uploads
            \/ r # "skipped" /\ StoreUpload(r)

Load == /\ Attempting
        /\ \E r \in Outcomes : Store(r) /\ Return(r)

-----------------------------------------------------------------------------
(* Attempts that raise *)

Hit == hurt' = hurt \cup {Current}

\* Mutant: retried for ever.
Retry_Endless(s, r) ==
  /\ attempt' = (attempt + 1) % (Retries + 1) /\ session' = s /\ row' = r
  /\ UNCHANGED <<call, todo, counts>>

\* _with_retry after an OperationalError: again, in the session as it is now.
Retry(s, r) ==
  /\ attempt < Retries /\ attempt' = attempt + 1 /\ session' = s /\ row' = r
  /\ UNCHANGED <<call, todo, counts>>

\* Mutant: the except block does not roll back.
GiveUp_NoRollback(r) ==
  /\ attempt' = 0 /\ UNCHANGED <<run, kind, session>>
  /\ counts' = [counts EXCEPT !["failed"] = @ + 1]
  /\ row' = r
  /\ IF kind = "batch" THEN todo' = Tail(todo) /\ pc' = pc ELSE todo' = <<>> /\ pc' = "idle"

\* The error leaves _with_retry.  A batch rolls back, and with it the run's row
\* if no commit has stored it, counts the file as failed and goes on with the
\* next; a reprocess rolls back and raises.
GiveUp(r) ==
  /\ session' = "clean" /\ attempt' = 0 /\ UNCHANGED <<run, kind>>
  /\ counts' = [counts EXCEPT !["failed"] = @ + 1]
  /\ row' = IF r = "flushed" THEN "lost" ELSE r
  /\ IF kind = "batch" THEN todo' = Tail(todo) /\ pc' = pc ELSE todo' = <<>> /\ pc' = "idle"

\* An OperationalError after which the session is s and the run's row is r.
OperationalError(s, r) == \/ Retry(s, r)
                          \/ attempt = Retries /\ GiveUp(r)

\* The first statement of a transaction gets no connection.
NoConnection == /\ Attempting /\ session = "clean"
                /\ OperationalError("clean", row)
                /\ Hit /\ UNCHANGED db

\* A statement, a flush or the commit fails inside the transaction.
TransientError == /\ Attempting
                  /\ OperationalError("broken", row)
                  /\ Hit /\ UNCHANGED db

\* The commit takes effect, its answer is lost; the rollback that follows makes
\* the session forget a row it had flushed.
AckLost == /\ AckLoss /\ Attempting
           /\ \E r \in Outcomes : Store(r)
           /\ OperationalError("broken", IF row = "flushed" THEN "detached" ELSE row)
           /\ Hit

\* The attempt after an error inside the transaction: the session refuses its
\* first statement, and that is no OperationalError.
Refused == /\ pc = "files" /\ todo # <<>> /\ session = "broken"
           /\ GiveUp(row)
           /\ UNCHANGED <<db, hurt>>

\* The upload refers to a run whose row was rolled back.
NoSuchRun == /\ Attempting /\ row = "lost" /\ Outcomes # {"skipped"}
             /\ GiveUp(row)
             /\ UNCHANGED <<db, hurt>>

\* Any other error: a unique key, a field of the wrong type, ...
OtherError == /\ Attempting
              /\ GiveUp(row)
              /\ Hit /\ UNCHANGED db

-----------------------------------------------------------------------------
(* The end of a run *)

\* The call ends and its locals go with it.
Quit == /\ pc' = "idle" /\ session' = "clean" /\ todo' = <<>> /\ row' = "none" /\ attempt' = 0
        /\ counts' = NoCounts /\ hurt' = {}
        /\ UNCHANGED <<run, kind>>

Over(d) == /\ Quit
           /\ rows' = IF row \in {"lost", "detached"} THEN rows
                      ELSE {q \in rows : q.run # run} \cup {d}
           /\ UNCHANGED uploads

\* A batch with a failure is "partial"; a reprocess that failed is "failed", and
\* only records whether it processed.
Summary ==
  [run |-> run, kind |-> kind,
   counts |-> IF kind = "batch" THEN counts ELSE [NoCounts EXCEPT !["processed"] = counts["processed"]],
   status |-> IF counts["failed"] = 0 THEN "completed"
              ELSE IF kind = "batch" THEN "partial" ELSE "failed"]

\* The summary is committed, if the session still knows the row.
Finish == pc = "files" /\ todo = <<>> /\ Over(Summary)

\* That commit fails and the call raises.
FinishRaises == pc = "files" /\ todo = <<>> /\ Quit /\ UNCHANGED db

\* The process dies; what was not committed is gone.
Crash == pc = "files" /\ Quit /\ UNCHANGED db

-----------------------------------------------------------------------------

Step == \/ Load
        \/ NoConnection \/ TransientError \/ AckLost \/ Refused \/ NoSuchRun \/ OtherError
        \/ Finish \/ FinishRaises

Next == RunPipeline \/ Reprocess \/ Step \/ Crash

Spec == Init /\ [][Next]_vars

\* A call that has begun goes on.
FairSpec == Spec /\ WF_vars(Step)

-----------------------------------------------------------------------------
(* Properties *)

Stored(r, s) == Cardinality({u \in uploads : u.run = r /\ u.status = s})

\* The counts of a finished batch account for every file once, however often
\* it was attempted.  A file counted as loaded has its upload, and an upload
\* that is not counted so lost its acknowledgement and counts as failed.
CountsAreHonest ==
  \A q \in rows : q.kind = "batch" /\ q.status # "running" =>
    /\ q.counts["processed"] + q.counts["skipped"]
         + q.counts["skipped_no_delta"] + q.counts["failed"] = Len(Files)
    /\ \A s \in {"processed", "skipped_no_delta"} : q.counts[s] <= Stored(q.run, s)
    /\ Cardinality({u \in uploads : u.run = q.run}) <= Len(Files) - q.counts["skipped"]

\* A batch reported as completed has left every file of the directory loaded,
\* by itself or by a run before it.
CompletedMeansLoaded ==
  \A q \in rows : q.kind = "batch" /\ q.status = "completed" =>
    \A f \in File : \E u \in uploads : u.file = f /\ u.status # "failed" /\ u.run <= q.run

\* What the stored rows of the runs say is so.
ReportsAreHonest == CountsAreHonest /\ CompletedMeansLoaded

\* Across retries, lost acknowledgements, crashes and restarts no batch loads a
\* file a second time.
LoadedOnce ==
  \A u, v \in uploads :
    /\ u.file = v.file /\ u.status = "processed" /\ v.status = "processed"
    /\ ~u.again /\ ~v.again
    => u = v

\* What is reported of the runs and what they left behind fit together.
RunsAreReported == ReportsAreHonest /\ LoadedOnce

\* Every run that was begun ends: _with_retry gives up.
RunsEnd == pc = "files" ~> pc = "idle"

\* "Partial success is better than total failure": once the run's row is
\* stored, a readable file that met no error of its own is loaded, whatever
\* errors the files before it left in the session.
BadFilesAreAlone ==
  [][Finish /\ kind = "batch" /\ row # "lost" =>
       \A f \in File \ Unreadable : f \notin hurt => \E u \in uploads : u.file = f /\ u.status # "failed"]_vars
=============================================================================
