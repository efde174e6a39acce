---------------------------- MODULE Symbolication ----------------------------
(***************************************************************************)
(* Symbolication: the worker of src/symbols.rs and the handlers of         *)
(* src/api.rs that upload and delete debug files and reprocess an event.   *)
(*                                                                         *)
(* Nothing here is a transaction of several statements.  The worker claims *)
(* a job, reads the files of the event's release in two statements, writes *)
(* the result to the event and closes the job, each on its own; an upload  *)
(* stores the file and then resets the jobs of its release; reprocessing   *)
(* resets the job and then the mark of the event.  A claim is no lease:    *)
(* nothing selects a job that is 'processing'.                             *)
(*                                                                         *)
(* What a file does to a frame is abstracted to the files that fit an      *)
(* event; attempts and last_error are left out, as no query reads them.    *)
(***************************************************************************)
CONSTANTS
    Events,
    Files,          \* contents of debug files: a row is found by its checksum
    Releases,
    Workers,        \* server processes, each with one symbolication worker
    Admins,         \* requests to upload a file or to reprocess an event
    None,           \* no release, no event, no file
    ReleaseOf,      \* the release of each event, or None
    Maps,           \* the contents that are source maps; the others are native
    Fits            \* the files that match a frame of each event

ASSUME SymbolicationAssumption ==
    /\ ReleaseOf \in [Events -> Releases \cup {None}]
    /\ Fits \in [Events -> SUBSET Files]
    /\ None \notin Events \cup Releases \cup Files

VARIABLES
    \* rows
    events,     \* the events that exist
    mark,       \* symbolication_status
    result,     \* the fitting files its frames were looked up in the last time
    job,        \* status of the event's job, "none" without one
    resting,    \* the jobs whose available_at is still to come
    home,       \* release_id of each debug file, None without a row
    \* the workers
    pc, task, read,
    \* the requests
    step, file, target, subject,
    \* history: what weakens the guarantees of a job since it was last claimed
    \* by one worker alone, and the files whose upload was completed
    blame, announced

rows     == <<events, mark, result, job, resting, home>>
workers  == <<pc, task, read>>
requests == <<step, file, target, subject>>
history  == <<blame, announced>>
vars == <<rows, workers, requests, history>>

-----------------------------------------------------------------------------
\* A request reset the job, or retention deleted it, while it was processed; a
\* request set the mark after the job had been claimed; the worker or its
\* connection was lost.
Blames == {"overtaken", "crossed", "dropped"}

TypeOK ==
    /\ events \in SUBSET Events
    /\ mark \in [Events -> {"pending", "complete"}]
    /\ result \in [Events -> SUBSET Files]
    /\ job \in [Events -> {"none", "pending", "processing", "complete", "failed"}]
    /\ resting \in SUBSET Events
    /\ home \in [Files -> Releases \cup {None}]
    /\ pc \in [Workers -> {"poll", "maps", "native", "write", "close", "fail"}]
    /\ task \in [Workers -> Events \cup {None}]
    /\ read \in [Workers -> SUBSET Files]
    /\ step \in [Admins -> {"idle", "attach", "request", "job", "mark"}]
    /\ file \in [Admins -> Files \cup {None}]
    /\ target \in [Admins -> Releases \cup {None}]
    /\ subject \in [Admins -> Events \cup {None}]
    /\ blame \in [Events -> SUBSET Blames]
    /\ announced \in SUBSET Files

Init ==
    /\ events = {}
    /\ mark = [e \in Events |-> "pending"]
    /\ result = [e \in Events |-> {}]
    /\ job = [e \in Events |-> "none"]
    /\ resting = {}
    /\ home = [f \in Files |-> None]
    /\ pc = [w \in Workers |-> "poll"]
    /\ task = [w \in Workers |-> None]
    /\ read = [w \in Workers |-> {}]
    /\ step = [a \in Admins |-> "idle"]
    /\ file = [a \in Admins |-> None]
    /\ target = [a \in Admins |-> None]
    /\ subject = [a \in Admins |-> None]
    /\ blame = [e \in Events |-> {}]
    /\ announced = {}

-----------------------------------------------------------------------------
(* Events come from ingestion and go with retention. *)

WithJob == {e \in Events : job[e] # "none"}
Busy(e) == \E w \in Workers : task[w] = e

\* The blame of a statement that resets or deletes the jobs of S.
Overtaken(S) ==
    [e \in Events |-> IF e \in S /\ (job[e] = "processing" \/ Busy(e))
                      THEN blame[e] \cup {"overtaken"} ELSE blame[e]]

\* A client that sends an event again stores it again, once retention has
\* deleted it.
Store(e) ==
    /\ e \notin events
    /\ events' = events \cup {e}
    /\ job' = IF ReleaseOf[e] = None THEN job ELSE [job EXCEPT ![e] = "pending"]
    /\ UNCHANGED <<mark, result, resting, home, workers, requests, history>>

\* Retention deletes the event, and its job with it.
Delete(e) ==
    /\ e \in events
    /\ events' = events \ {e}
    /\ job' = [job EXCEPT ![e] = "none"]
    /\ resting' = resting \ {e}
    /\ mark' = [mark EXCEPT ![e] = "pending"]
    /\ result' = [result EXCEPT ![e] = {}]
    /\ blame' = Overtaken({e})
    /\ UNCHANGED <<home, workers, requests, announced>>

\* available_at passes.
Wake(e) ==
    /\ e \in resting
    /\ resting' = resting \ {e}
    /\ UNCHANGED <<events, mark, result, job, home, workers,
                   requests, history>>

-----------------------------------------------------------------------------
(* The worker. *)

\* Mutant of Due: whatever is not complete.
DueUnlessComplete(e) == job[e] \notin {"none", "complete"} /\ e \notin resting

Due(e) == job[e] \in {"pending", "failed"} /\ e \notin resting

\* UPDATE ... WHERE id = (SELECT ... ORDER BY created_at FOR UPDATE SKIP LOCKED
\* LIMIT 1): the oldest due job, unless another statement is at that row; and a
\* reset or a deletion may be at any row, so that it can be any due job.
Claim(w) ==
    /\ pc[w] = "poll"
    /\ \E e \in Events :
          /\ Due(e)
          /\ job' = [job EXCEPT ![e] = "processing"]
          /\ task' = [task EXCEPT ![w] = e]
          /\ blame' = IF Busy(e) THEN blame ELSE [blame EXCEPT ![e] = {}]
    /\ pc' = [pc EXCEPT ![w] = "maps"]
    /\ UNCHANGED <<events, mark, result, resting, home, read,
                   requests, announced>>

FilesFor(e) == {f \in Files : home[f] # None /\ home[f] = ReleaseOf[e]}

\* The event and the source maps of its release.
ReadMaps(w) ==
    /\ pc[w] = "maps"
    /\ LET e == task[w] IN
          IF e \in events /\ ReleaseOf[e] # None
          THEN /\ read' = [read EXCEPT ![w] = FilesFor(e) \cap Maps]
               /\ pc' = [pc EXCEPT ![w] = "native"]
          ELSE /\ pc' = [pc EXCEPT ![w] = "fail"]
               /\ UNCHANGED read
    /\ UNCHANGED <<rows, task, requests, history>>

\* The worker forgets its job.
Rest(w) ==
    /\ pc' = [pc EXCEPT ![w] = "poll"]
    /\ task' = [task EXCEPT ![w] = None]
    /\ read' = [read EXCEPT ![w] = {}]

\* Mutant of ReadNative: an event that nothing fits is left where it is.
ReadAndSkip(w) ==
    /\ pc[w] = "native"
    /\ LET used == (read[w] \cup (FilesFor(task[w]) \ Maps)) \cap Fits[task[w]] IN
          IF used = {} THEN Rest(w)
          ELSE /\ read' = [read EXCEPT ![w] = used]
               /\ pc' = [pc EXCEPT ![w] = "write"]
               /\ UNCHANGED task
    /\ UNCHANGED <<rows, requests, history>>

\* The native symbols, and the frames: no file, no frames and no match are all
\* errors.
ReadNative(w) ==
    /\ pc[w] = "native"
    /\ LET used == (read[w] \cup (FilesFor(task[w]) \ Maps)) \cap Fits[task[w]] IN
          /\ read' = [read EXCEPT ![w] = used]
          /\ pc' = [pc EXCEPT ![w] = IF used = {} THEN "fail" ELSE "write"]
    /\ UNCHANGED <<rows, task, requests, history>>

\* Mutant of WriteResult: the mark is left alone.
WriteUnmarked(w) ==
    /\ pc[w] = "write"
    /\ result' = [result EXCEPT ![task[w]] = read[w]]
    /\ pc' = [pc EXCEPT ![w] = "close"]
    /\ UNCHANGED <<events, mark, job, resting, home, task, read,
                   requests, history>>

\* UPDATE events, which finds no row once the event is deleted.
WriteResult(w) ==
    /\ pc[w] = "write"
    /\ LET e == task[w] IN
          IF e \in events
          THEN /\ result' = [result EXCEPT ![e] = read[w]]
               /\ mark' = [mark EXCEPT ![e] = "complete"]
          ELSE UNCHANGED <<result, mark>>
    /\ pc' = [pc EXCEPT ![w] = "close"]
    /\ UNCHANGED <<events, job, resting, home, task, read,
                   requests, history>>

\* UPDATE symbolication_jobs by event id alone, whatever its status has become.
SetJob(e, s) == job' = [job EXCEPT ![e] = IF @ = "none" THEN @ ELSE s]

\* Mutant of CloseJob: a status that the schema does not know.
CloseDone(w) ==
    /\ pc[w] = "close"
    /\ SetJob(task[w], "done")
    /\ Rest(w)
    /\ UNCHANGED <<events, mark, result, resting, home, requests,
                   history>>

CloseJob(w) ==
    /\ pc[w] = "close"
    /\ SetJob(task[w], "complete")
    /\ Rest(w)
    /\ UNCHANGED <<events, mark, result, resting, home, requests,
                   history>>

FailJob(w) ==
    /\ pc[w] = "fail"
    /\ SetJob(task[w], "failed")
    /\ resting' = IF job[task[w]] = "none" THEN resting ELSE resting \cup {task[w]}
    /\ Rest(w)
    /\ UNCHANGED <<events, mark, result, home, requests, history>>

\* A query of process_event fails.
ReadError(w) ==
    /\ pc[w] \in {"maps", "native", "write"}
    /\ pc' = [pc EXCEPT ![w] = "fail"]
    /\ UNCHANGED <<rows, task, read, requests, history>>

\* The process ends, or the statement that closes the job fails and its error
\* is ignored.
Lose(w) ==
    /\ pc[w] # "poll"
    /\ blame' = [blame EXCEPT ![task[w]] = @ \cup {"dropped"}]
    /\ Rest(w)
    /\ UNCHANGED <<rows, requests, announced>>

-----------------------------------------------------------------------------
(* Upload, deletion and reprocessing. *)

BeginUpload(a) ==
    /\ step[a] = "idle"
    /\ \E f \in Files : file' = [file EXCEPT ![a] = f]
    /\ \E r \in Releases : target' = [target EXCEPT ![a] = r]
    /\ step' = [step EXCEPT ![a] = "attach"]
    /\ UNCHANGED <<rows, workers, subject, history>>

\* ON CONFLICT (project_id, checksum) changes the name only: a file that is
\* already there keeps its release.
Attach(a) ==
    /\ step[a] = "attach"
    /\ home' = [home EXCEPT ![file[a]] = IF @ = None THEN target[a] ELSE @]
    /\ step' = [step EXCEPT ![a] = "request"]
    /\ UNCHANGED <<events, mark, result, job, resting, workers,
                   file, target, subject, history>>

\* What a request forgets when it ends.
Idle(a) ==
    /\ step' = [step EXCEPT ![a] = "idle"]
    /\ file' = [file EXCEPT ![a] = None]
    /\ target' = [target EXCEPT ![a] = None]
    /\ subject' = [subject EXCEPT ![a] = None]

\* Mutant of JobsOf: only those that failed.
FailedJobsOf(r) == {e \in Events : job[e] = "failed" /\ ReleaseOf[e] = r}

\* The jobs that an upload for release r resets.
JobsOf(r) == {e \in WithJob : ReleaseOf[e] = r}

Request(a) ==
    /\ step[a] = "request"
    /\ LET reset == JobsOf(target[a]) IN
          /\ job' = [e \in Events |-> IF e \in reset THEN "pending" ELSE job[e]]
          /\ resting' = resting \ reset
          /\ blame' = Overtaken(reset)
    /\ announced' = IF home[file[a]] = target[a]
                    THEN announced \cup {file[a]} ELSE announced
    /\ Idle(a)
    /\ UNCHANGED <<events, mark, result, home, workers>>

DeleteFile(f) ==
    /\ home[f] # None
    /\ home' = [home EXCEPT ![f] = None]
    /\ announced' = announced \ {f}
    /\ UNCHANGED <<events, mark, result, job, resting, workers,
                   requests, blame>>

BeginReprocess(a) ==
    /\ step[a] = "idle"
    /\ \E e \in events : subject' = [subject EXCEPT ![a] = e]
    /\ step' = [step EXCEPT ![a] = "job"]
    /\ UNCHANGED <<rows, workers, file, target, history>>

\* INSERT ... ON CONFLICT (event_id) DO UPDATE; without the event it is an error.
ResetJob(a) ==
    /\ step[a] = "job"
    /\ LET e == subject[a] IN
          IF e \in events
          THEN /\ job' = [job EXCEPT ![e] = "pending"]
               /\ resting' = resting \ {e}
               /\ blame' = Overtaken({e})
               /\ step' = [step EXCEPT ![a] = "mark"]
               /\ UNCHANGED <<file, target, subject>>
          ELSE Idle(a) /\ UNCHANGED <<job, resting, blame>>
    /\ UNCHANGED <<events, mark, result, home, workers, announced>>

ResetMark(a) ==
    /\ step[a] = "mark"
    /\ LET e == subject[a] IN
          IF e \in events
          THEN /\ mark' = [mark EXCEPT ![e] = "pending"]
               /\ blame' = IF job[e] = "pending" THEN blame
                           ELSE [blame EXCEPT ![e] = @ \cup {"crossed"}]
          ELSE UNCHANGED <<mark, blame>>
    /\ Idle(a)
    /\ UNCHANGED <<events, result, job, resting, home, workers,
                   announced>>

\* The request ends early: an error, a crash, a client that hangs up.
Abandon(a) ==
    /\ step[a] # "idle"
    /\ Idle(a)
    /\ UNCHANGED <<rows, workers, history>>

-----------------------------------------------------------------------------
WorkerStep(w) ==
    \/ Claim(w)
    \/ ReadMaps(w)
    \/ ReadNative(w)
    \/ WriteResult(w)
    \/ CloseJob(w)
    \/ FailJob(w)

Next ==
    \/ \E e \in Events : Store(e) \/ Delete(e) \/ Wake(e)
    \/ \E w \in Workers : WorkerStep(w) \/ ReadError(w) \/ Lose(w)
    \/ \E a \in Admins : \/ BeginUpload(a)
                         \/ Attach(a)
                         \/ Request(a)
                         \/ BeginReprocess(a)
                         \/ ResetJob(a)
                         \/ ResetMark(a)
                         \/ Abandon(a)
    \/ \E f \in Files : DeleteFile(f)

Spec == Init /\ [][Next]_vars

-----------------------------------------------------------------------------
(* Properties. *)

\* Two workers process the same event only if its job was reset or deleted
\* while one of them was at it.
SingleProcessor ==
    \A v, w \in Workers :
        task[v] = task[w] /\ task[v] # None /\ v # w =>
            "overtaken" \in blame[task[v]]

\* A job is 'processing', where nothing selects it, only while a worker is at
\* it, unless a worker was lost.
ProcessingIsHeld ==
    \A e \in Events : job[e] = "processing" => Busy(e) \/ "dropped" \in blame[e]

\* The event and its job agree that it is symbolicated, unless a request or
\* retention came between the worker's statements.
MarkAgrees ==
    \A e \in Events :
        job[e] = "complete" /\ blame[e] \cap {"overtaken", "crossed"} = {} =>
            mark[e] = "complete"

\* The frames of a completed event were looked up in every file that fits it and
\* whose upload for its release was completed, unless a request or retention
\* overtook the worker.
ResultsAreFresh ==
    \A e \in Events, f \in announced :
        /\ job[e] = "complete" /\ "overtaken" \notin blame[e]
        /\ home[f] = ReleaseOf[e] /\ f \in Fits[e]
        => f \in result[e]

=============================================================================
