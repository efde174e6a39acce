------------------------- MODULE SymbolicationProofs -------------------------
(***************************************************************************)
(* Proofs about Symbolication, for any number of events, files, releases,  *)
(* workers and requests.                                                   *)
(*                                                                         *)
(* The invariant says what a worker can rely on as long as no request has  *)
(* overtaken it: it is alone at its event, the job is still 'processing',  *)
(* and what it has read contains every file that has been announced.       *)
(***************************************************************************)
EXTENDS Symbolication, TLAPS

USE SymbolicationAssumption

\* A worker has a job exactly while it is not polling.
TaskInv ==
    \A w \in Workers : pc[w] = "poll" <=> task[w] = None

\* Jobs belong to events.
JobInv == \A e \in Events : job[e] # "none" => e \in events

\* A file that was announced has a release.
FileInv == \A f \in announced : home[f] # None

\* Nobody but its worker has touched the job of e.
Alone(e) == "overtaken" \notin blame[e]

\* A job that nobody has reset is 'processing' as long as a worker is at it.
ClaimInv ==
    \A w \in Workers : task[w] # None /\ Alone(task[w]) =>
        job[task[w]] = "processing"

\* A worker that is about to close a job has set the mark.
MarkInv ==
    \A w \in Workers :
        /\ pc[w] = "close"
        /\ blame[task[w]] \cap {"overtaken", "crossed"} = {}
        => mark[task[w]] = "complete"

\* The announced files that an event has to be looked up in.
Needed(e) == {f \in announced : home[f] = ReleaseOf[e]}

\* What a worker has read is up to date.
UpToDate(w) ==
    /\ pc[w] = "native" => Needed(task[w]) \cap Maps \subseteq read[w]
    /\ pc[w] = "write" => Needed(task[w]) \cap Fits[task[w]] \subseteq read[w]
    /\ pc[w] = "close" => Needed(task[w]) \cap Fits[task[w]] \subseteq result[task[w]]

ReadInv ==
    \A w \in Workers : task[w] # None /\ Alone(task[w]) => UpToDate(w)

-----------------------------------------------------------------------------
(* Types. *)

LEMMA TypeInit == Init => TypeOK
BY DEF Init, TypeOK

LEMMA RestType ==
    ASSUME TypeOK, NEW w \in Workers, Rest(w)
    PROVE  /\ pc' \in [Workers -> {"poll", "maps", "native", "write", "close", "fail"}]
           /\ task' \in [Workers -> Events \cup {None}]
           /\ read' \in [Workers -> SUBSET Files]
BY DEF TypeOK, Rest

LEMMA IdleType ==
    ASSUME TypeOK, NEW a \in Admins, Idle(a)
    PROVE  /\ step' \in [Admins -> {"idle", "attach", "request", "job", "mark"}]
           /\ file' \in [Admins -> Files \cup {None}]
           /\ target' \in [Admins -> Releases \cup {None}]
           /\ subject' \in [Admins -> Events \cup {None}]
BY DEF TypeOK, Idle

LEMMA OvertakenType ==
    ASSUME TypeOK, NEW S
    PROVE  Overtaken(S) \in [Events -> SUBSET Blames]
BY DEF TypeOK, Overtaken, Blames

LEMMA FilesForType == ASSUME NEW e PROVE FilesFor(e) \in SUBSET Files
BY DEF FilesFor

LEMMA WorkerType ==
    ASSUME TypeOK, TaskInv, NEW w \in Workers, WorkerStep(w) \/ ReadError(w) \/ Lose(w)
    PROVE  TypeOK'
<1>1. pc[w] # "poll" => task[w] \in Events
  BY DEF TaskInv, TypeOK
<1>2. CASE Claim(w)
  BY <1>2 DEF Claim, TypeOK, requests
<1>3. CASE ReadMaps(w)
  BY <1>3, <1>1, FilesForType DEF ReadMaps, TypeOK, requests, history, rows
<1>4. CASE ReadNative(w)
  BY <1>4, <1>1, FilesForType DEF ReadNative, TypeOK, requests, history, rows
<1>5. CASE WriteResult(w)
  BY <1>5, <1>1 DEF WriteResult, TypeOK, requests, history
<1>6. CASE CloseJob(w)
  BY <1>6, <1>1, RestType DEF CloseJob, SetJob, TypeOK, requests, history
<1>7. CASE FailJob(w)
  BY <1>7, <1>1, RestType DEF FailJob, SetJob, TypeOK, requests, history
<1>8. CASE ReadError(w)
  BY <1>8 DEF ReadError, TypeOK, requests, history, rows
<1>9. CASE Lose(w)
  BY <1>9, <1>1, RestType DEF Lose, TypeOK, Blames, requests, rows
<1>10. QED
  BY <1>2, <1>3, <1>4, <1>5, <1>6, <1>7, <1>8, <1>9 DEF WorkerStep

\* An upload in progress has a file and a release, a reprocessing has an event.
RequestInv ==
    \A a \in Admins :
        /\ step[a] \in {"attach", "request"} =>
              file[a] \in Files /\ target[a] \in Releases
        /\ step[a] \in {"job", "mark"} => subject[a] \in Events

AdminStep(a) ==
    \/ BeginUpload(a) \/ Attach(a) \/ Request(a)
    \/ BeginReprocess(a) \/ ResetJob(a) \/ ResetMark(a)
    \/ Abandon(a)

LEMMA AdminType ==
    ASSUME TypeOK, RequestInv, NEW a \in Admins, AdminStep(a)
    PROVE  TypeOK'
<1>1. CASE BeginUpload(a)
  BY <1>1 DEF BeginUpload, TypeOK, rows, workers, history
<1>2. CASE Attach(a)
  BY <1>2 DEF Attach, TypeOK, RequestInv, workers, history
<1>3. CASE Request(a)
  BY <1>3, IdleType, OvertakenType DEF Request, RequestInv, TypeOK, workers
<1>4. CASE BeginReprocess(a)
  BY <1>4 DEF BeginReprocess, TypeOK, rows, workers, history
<1>5. CASE ResetJob(a)
  <2>1. subject[a] \in Events
    BY <1>5 DEF ResetJob, RequestInv
  <2>3. CASE subject[a] \in events
    <3>1. blame' \in [Events -> SUBSET Blames]
      BY <1>5, <2>3, OvertakenType DEF ResetJob
    <3>2. QED
      BY <1>5, <2>1, <2>3, <3>1 DEF ResetJob, TypeOK, workers
  <2>4. CASE subject[a] \notin events
    BY <1>5, <2>1, <2>4, IdleType DEF ResetJob, TypeOK, workers
  <2>5. QED
    BY <2>3, <2>4
<1>6. CASE ResetMark(a)
  BY <1>6, IdleType DEF ResetMark, RequestInv, TypeOK, workers, Blames
<1>7. CASE Abandon(a)
  BY <1>7, IdleType DEF Abandon, TypeOK, rows, workers, history
<1>8. QED
  BY <1>1, <1>2, <1>3, <1>4, <1>5, <1>6, <1>7 DEF AdminStep

OutsideStep ==
    \/ \E e \in Events : Store(e) \/ Delete(e) \/ Wake(e)
    \/ \E f \in Files : DeleteFile(f)

LEMMA OutsideType == TypeOK /\ OutsideStep => TypeOK'
<1> SUFFICES ASSUME TypeOK, OutsideStep PROVE TypeOK'
  OBVIOUS
<1>1. CASE \E e \in Events : Store(e)
  BY <1>1 DEF Store, TypeOK, workers, requests, history
<1>2. CASE \E e \in Events : Delete(e)
  <2>1. PICK e \in Events : Delete(e)
    BY <1>2
  <2>2. blame' \in [Events -> SUBSET Blames]
    BY <2>1, OvertakenType DEF Delete
  <2>3. QED
    BY <2>1, <2>2 DEF Delete, TypeOK, workers, requests
<1>3. CASE \E e \in Events : Wake(e)
  BY <1>3 DEF Wake, TypeOK, workers, requests, history
<1>4. CASE \E f \in Files : DeleteFile(f)
  BY <1>4 DEF DeleteFile, TypeOK, workers, requests
<1>5. QED
  BY <1>1, <1>2, <1>3, <1>4 DEF OutsideStep

LEMMA NextSplit ==
    Next <=> \/ \E w \in Workers : WorkerStep(w) \/ ReadError(w) \/ Lose(w)
             \/ \E a \in Admins : AdminStep(a)
             \/ OutsideStep
BY DEF Next, AdminStep, OutsideStep

-----------------------------------------------------------------------------
(* Workers and requests have what they need. *)

LEMMA TaskStep ==
    ASSUME TypeOK, TaskInv, [Next]_vars
    PROVE  TaskInv'
<1>1. CASE \E w \in Workers : WorkerStep(w) \/ ReadError(w) \/ Lose(w)
  <2>1. PICK w \in Workers : WorkerStep(w) \/ ReadError(w) \/ Lose(w)
    BY <1>1
  <2>2. CASE Claim(w)
    BY <2>2 DEF Claim, TypeOK, TaskInv
  <2>3. CASE ReadMaps(w) \/ ReadNative(w) \/ WriteResult(w) \/ ReadError(w)
    BY <2>3 DEF ReadMaps, ReadNative, WriteResult, ReadError, TypeOK, TaskInv
  <2>4. CASE CloseJob(w) \/ FailJob(w) \/ Lose(w)
    BY <2>4 DEF CloseJob, FailJob, Lose, Rest, TypeOK, TaskInv
  <2>5. QED
    BY <2>1, <2>2, <2>3, <2>4 DEF WorkerStep
<1>2. CASE \E a \in Admins : AdminStep(a)
  BY <1>2 DEF AdminStep, BeginUpload, Attach, Request, BeginReprocess, ResetJob,
              ResetMark, Abandon, workers, TaskInv
<1>3. CASE OutsideStep
  BY <1>3 DEF OutsideStep, Store, Delete, Wake, DeleteFile, workers, TaskInv
<1>4. CASE UNCHANGED vars
  BY <1>4 DEF vars, workers, TaskInv
<1>5. QED
  BY <1>1, <1>2, <1>3, <1>4, NextSplit

LEMMA RequestStep ==
    ASSUME TypeOK, RequestInv, [Next]_vars
    PROVE  RequestInv'
<1>1. CASE \E w \in Workers : WorkerStep(w) \/ ReadError(w) \/ Lose(w)
  BY <1>1 DEF WorkerStep, Claim, ReadMaps, ReadNative, WriteResult, CloseJob, FailJob,
              ReadError, Lose, requests, RequestInv
<1>2. CASE \E a \in Admins : AdminStep(a)
  <2>1. PICK a \in Admins : AdminStep(a)
    BY <1>2
  <2>2. CASE BeginUpload(a)
    BY <2>2 DEF BeginUpload, TypeOK, RequestInv
  <2>3. CASE Attach(a)
    BY <2>3 DEF Attach, TypeOK, RequestInv
  <2>4. CASE BeginReprocess(a)
    BY <2>4 DEF BeginReprocess, TypeOK, RequestInv
  <2>5. CASE Request(a) \/ ResetMark(a) \/ Abandon(a)
    BY <2>5 DEF Request, ResetMark, Abandon, Idle, TypeOK, RequestInv
  <2>6. CASE ResetJob(a)
    BY <2>6 DEF ResetJob, Idle, TypeOK, RequestInv
  <2>7. QED
    BY <2>1, <2>2, <2>3, <2>4, <2>5, <2>6 DEF AdminStep
<1>3. CASE OutsideStep
  BY <1>3 DEF OutsideStep, Store, Delete, Wake, DeleteFile, requests, RequestInv
<1>4. CASE UNCHANGED vars
  BY <1>4 DEF vars, requests, RequestInv
<1>5. QED
  BY <1>1, <1>2, <1>3, <1>4, NextSplit

LEMMA TypeStep ==
    ASSUME TypeOK, TaskInv, RequestInv, [Next]_vars
    PROVE  TypeOK'
<1>1. CASE UNCHANGED vars
  BY <1>1 DEF vars, rows, workers, requests, history, TypeOK
<1>2. QED
  BY <1>1, NextSplit, WorkerType, AdminType, OutsideType

\* Every variable keeps its type, and a worker or a request always has the event,
\* file or release that its next statement names.
THEOREM SymbolicationTyped == Spec => [](TypeOK /\ TaskInv /\ RequestInv)
<1>1. Init => TypeOK /\ TaskInv /\ RequestInv
  BY TypeInit DEF Init, TaskInv, RequestInv
<1>2. TypeOK /\ TaskInv /\ RequestInv /\ [Next]_vars
      => (TypeOK /\ TaskInv /\ RequestInv)'
  BY TypeStep, TaskStep, RequestStep
<1>3. QED
  BY <1>1, <1>2, PTL DEF Spec

-----------------------------------------------------------------------------
(* Jobs and files. *)

LEMMA JobStep ==
    ASSUME TypeOK, TaskInv, RequestInv, JobInv, [Next]_vars
    PROVE  JobInv'
<1>1. CASE \E w \in Workers : WorkerStep(w) \/ ReadError(w) \/ Lose(w)
  <2>1. PICK w \in Workers : WorkerStep(w) \/ ReadError(w) \/ Lose(w)
    BY <1>1
  <2>2. CASE Claim(w)
    BY <2>2 DEF Claim, Due, TypeOK, JobInv
  <2>3. CASE CloseJob(w) \/ FailJob(w)
    BY <2>3 DEF CloseJob, FailJob, SetJob, Rest, TypeOK, JobInv
  <2>4. CASE ReadMaps(w) \/ ReadNative(w) \/ WriteResult(w) \/ ReadError(w)
    BY <2>4 DEF ReadMaps, ReadNative, WriteResult, ReadError, rows, JobInv
  <2>6. CASE Lose(w)
    BY <2>6 DEF Lose, Rest, rows, TypeOK, JobInv
  <2>5. QED
    BY <2>1, <2>2, <2>3, <2>4, <2>6 DEF WorkerStep
<1>2. CASE \E a \in Admins : AdminStep(a)
  <2>1. PICK a \in Admins : AdminStep(a)
    BY <1>2
  <2>2. CASE Request(a)
    BY <2>2 DEF Request, JobsOf, WithJob, workers, TypeOK, JobInv
  <2>3. CASE ResetJob(a)
    BY <2>3 DEF ResetJob, workers, TypeOK, JobInv
  <2>4. CASE BeginUpload(a) \/ Attach(a) \/ BeginReprocess(a) \/ ResetMark(a) \/ Abandon(a)
    BY <2>4 DEF BeginUpload, Attach, BeginReprocess, ResetMark, Abandon, rows, workers, JobInv
  <2>5. QED
    BY <2>1, <2>2, <2>3, <2>4 DEF AdminStep
<1>3. CASE OutsideStep
  <2>1. CASE \E e \in Events : Store(e)
    BY <2>1 DEF Store, workers, TypeOK, JobInv
  <2>2. CASE \E e \in Events : Delete(e)
    BY <2>2 DEF Delete, workers, TypeOK, JobInv
  <2>3. CASE (\E e \in Events : Wake(e)) \/ (\E f \in Files : DeleteFile(f))
    BY <2>3 DEF Wake, DeleteFile, workers, JobInv
  <2>4. QED
    BY <1>3, <2>1, <2>2, <2>3 DEF OutsideStep
<1>4. CASE UNCHANGED vars
  BY <1>4 DEF vars, rows, workers, JobInv
<1>5. QED
  BY <1>1, <1>2, <1>3, <1>4, NextSplit

LEMMA FileStep ==
    ASSUME TypeOK, RequestInv, FileInv, [Next]_vars
    PROVE  FileInv'
<1>1. CASE \E w \in Workers : WorkerStep(w) \/ ReadError(w) \/ Lose(w)
  BY <1>1 DEF WorkerStep, Claim, ReadMaps, ReadNative, WriteResult, CloseJob, FailJob,
              ReadError, Lose, rows, history, FileInv
<1>2. CASE \E a \in Admins : AdminStep(a)
  <2>1. PICK a \in Admins : AdminStep(a)
    BY <1>2
  <2>2. CASE Attach(a)
    BY <2>2 DEF Attach, history, TypeOK, RequestInv, FileInv
  <2>3. CASE Request(a)
    BY <2>3 DEF Request, TypeOK, RequestInv, FileInv
  <2>4. CASE BeginUpload(a) \/ BeginReprocess(a) \/ ResetJob(a) \/ ResetMark(a) \/ Abandon(a)
    BY <2>4 DEF BeginUpload, BeginReprocess, ResetJob, ResetMark, Abandon, rows, history,
                FileInv
  <2>5. QED
    BY <2>1, <2>2, <2>3, <2>4 DEF AdminStep
<1>3. CASE OutsideStep
  BY <1>3 DEF OutsideStep, Store, Delete, Wake, DeleteFile, history, TypeOK, FileInv
<1>4. CASE UNCHANGED vars
  BY <1>4 DEF vars, rows, history, FileInv
<1>5. QED
  BY <1>1, <1>2, <1>3, <1>4, NextSplit

-----------------------------------------------------------------------------
(* Who is at which job. *)

Base == TypeOK /\ TaskInv /\ RequestInv /\ JobInv /\ FileInv
Claims == ClaimInv /\ SingleProcessor /\ ProcessingIsHeld

LEMMA ClaimsOfWorker ==
    ASSUME Base, Claims, NEW w \in Workers, WorkerStep(w) \/ ReadError(w) \/ Lose(w)
    PROVE  Claims'
<1> USE DEF Base, Claims, TypeOK, Alone
<1>1. CASE Claim(w)
  <2>1. PICK e \in Events :
          /\ Due(e)
          /\ job' = [job EXCEPT ![e] = "processing"]
          /\ task' = [task EXCEPT ![w] = e]
          /\ blame' = IF Busy(e) THEN blame ELSE [blame EXCEPT ![e] = {}]
    BY <1>1 DEF Claim
  <2>2. e \in events /\ job[e] # "processing" /\ task[w] = None
    BY <1>1, <2>1 DEF Due, JobInv, Claim, TaskInv
  <2>3. Busy(e) => ~Alone(e)
    BY <2>2 DEF ClaimInv, Busy
  <2>4. events' = events
    BY <1>1 DEF Claim
  <2>5. ClaimInv'
    BY <2>1, <2>2, <2>3, <2>4 DEF ClaimInv, Busy
  <2>6. SingleProcessor'
    BY <2>1, <2>2, <2>3, <2>4 DEF SingleProcessor, Busy
  <2>7. ProcessingIsHeld'
    BY <2>1, <2>2, <2>3, <2>4 DEF ProcessingIsHeld, Busy
  <2>8. QED
    BY <2>5, <2>6, <2>7
<1>2. CASE ReadMaps(w) \/ ReadNative(w) \/ WriteResult(w) \/ ReadError(w)
  <2>1. UNCHANGED <<events, job, task, blame>>
    BY <1>2 DEF ReadMaps, ReadNative, WriteResult, ReadError, rows, history
  <2>2. QED
    BY <2>1 DEF ClaimInv, SingleProcessor, ProcessingIsHeld, Busy
<1>3. CASE CloseJob(w) \/ FailJob(w)
  <2>1. PICK s \in {"complete", "failed"} :
          job' = [job EXCEPT ![task[w]] = IF @ = "none" THEN @ ELSE s]
    BY <1>3 DEF CloseJob, FailJob, SetJob
  <2>2. task' = [task EXCEPT ![w] = None] /\ UNCHANGED <<events, blame>>
    BY <1>3 DEF CloseJob, FailJob, Rest, history
  <2>3. task[w] \in Events
    BY <1>3 DEF CloseJob, FailJob, TaskInv
  <2>4. ClaimInv'
    BY <2>1, <2>2, <2>3 DEF ClaimInv, SingleProcessor
  <2>5. SingleProcessor'
    BY <2>2 DEF SingleProcessor
  <2>6. ProcessingIsHeld'
    BY <2>1, <2>2, <2>3 DEF ProcessingIsHeld, Busy
  <2>7. QED
    BY <2>4, <2>5, <2>6
<1>4. CASE Lose(w)
  <2>1. /\ task' = [task EXCEPT ![w] = None]
        /\ blame' = [blame EXCEPT ![task[w]] = @ \cup {"dropped"}]
        /\ UNCHANGED <<events, job>>
    BY <1>4 DEF Lose, Rest, rows
  <2>2. task[w] \in Events
    BY <1>4 DEF Lose, TaskInv
  <2>3. QED
    BY <2>1, <2>2 DEF ClaimInv, SingleProcessor, ProcessingIsHeld, Busy
<1>5. QED
  BY <1>1, <1>2, <1>3, <1>4 DEF WorkerStep

\* A request or retention resets or deletes jobs, and blames those it overtakes.
LEMMA ClaimsOfReset ==
    ASSUME Base, Claims, NEW S \in SUBSET Events, NEW s \in {"pending", "none"},
           job' = [e \in Events |-> IF e \in S THEN s ELSE job[e]],
           blame' = Overtaken(S),
           UNCHANGED task
    PROVE  Claims'
<1> USE DEF Base, Claims, TypeOK, Alone
<1>1. \A e \in Events : e \in S /\ Busy(e) => "overtaken" \in blame'[e]
  BY DEF Overtaken
<1>2. \A e \in Events : blame[e] \subseteq blame'[e]
  BY DEF Overtaken
<1>3. \A e \in Events : job'[e] # job[e] => e \in S /\ job'[e] # "processing"
  OBVIOUS
<1>4. ClaimInv'
  BY <1>1, <1>2, <1>3 DEF ClaimInv, Busy
<1>5. SingleProcessor'
  BY <1>2 DEF SingleProcessor
<1>6. ProcessingIsHeld'
  BY <1>2, <1>3 DEF ProcessingIsHeld, Busy
<1>7. QED
  BY <1>4, <1>5, <1>6

LEMMA ClaimsStep ==
    ASSUME Base, Claims, [Next]_vars
    PROVE  Claims'
<1> USE DEF Base, Claims, TypeOK, Alone
<1>1. CASE \E a \in Admins : AdminStep(a)
  <2>1. PICK a \in Admins : AdminStep(a)
    BY <1>1
  <2>2. CASE Request(a)
    <3>1. JobsOf(target[a]) \in SUBSET Events
      BY DEF JobsOf, WithJob
    <3>2. QED
      BY <2>2, <3>1, ClaimsOfReset DEF Request, workers
  <2>3. CASE ResetJob(a)
    <3>1. CASE subject[a] \in events
      <4>1. subject[a] \in Events
        BY <3>1
      <4>2. job' = [e \in Events |-> IF e \in {subject[a]} THEN "pending" ELSE job[e]]
        BY <2>3, <3>1 DEF ResetJob
      <4>3. QED
        BY <2>3, <3>1, <4>1, <4>2, ClaimsOfReset DEF ResetJob, workers
    <3>2. CASE subject[a] \notin events
      BY <2>3, <3>2 DEF ResetJob, workers, ClaimInv, SingleProcessor, ProcessingIsHeld, Busy
    <3>3. QED
      BY <3>1, <3>2
  <2>4. CASE ResetMark(a)
    <3>1. UNCHANGED <<job, task>> /\ \A e \in Events :
            ("overtaken" \in blame'[e] <=> "overtaken" \in blame[e]) /\ blame[e] \subseteq blame'[e]
      BY <2>4 DEF ResetMark, workers, RequestInv
    <3>2. QED
      BY <3>1 DEF ClaimInv, SingleProcessor, ProcessingIsHeld, Busy
  <2>5. CASE BeginUpload(a) \/ Attach(a) \/ BeginReprocess(a) \/ Abandon(a)
    <3>1. UNCHANGED <<job, task, blame>>
      BY <2>5 DEF BeginUpload, Attach, BeginReprocess, Abandon, rows, workers, history
    <3>2. QED
      BY <3>1 DEF ClaimInv, SingleProcessor, ProcessingIsHeld, Busy
  <2>6. QED
    BY <2>1, <2>2, <2>3, <2>4, <2>5 DEF AdminStep
<1>2. CASE OutsideStep
  <2>1. CASE \E e \in Events : Store(e)
    <3>1. PICK e \in Events : Store(e)
      BY <2>1
    <3>2. /\ \A d \in Events : job'[d] # job[d] => job[d] = "none" /\ job'[d] = "pending"
          /\ UNCHANGED <<task, blame>>
      BY <3>1 DEF Store, workers, history, JobInv
    <3>3. QED
      BY <3>2 DEF ClaimInv, SingleProcessor, ProcessingIsHeld, Busy
  <2>2. CASE \E e \in Events : Delete(e)
    <3>1. PICK e \in Events : Delete(e)
      BY <2>2
    <3>2. job' = [d \in Events |-> IF d \in {e} THEN "none" ELSE job[d]]
      BY <3>1 DEF Delete
    <3>3. {e} \in SUBSET Events /\ blame' = Overtaken({e}) /\ UNCHANGED task
      BY <3>1 DEF Delete, workers
    <3>4. QED
      BY <3>2, <3>3, ClaimsOfReset
  <2>3. CASE (\E e \in Events : Wake(e)) \/ (\E f \in Files : DeleteFile(f))
    <3>1. UNCHANGED <<job, task, blame>>
      BY <2>3 DEF Wake, DeleteFile, workers, history
    <3>2. QED
      BY <3>1 DEF ClaimInv, SingleProcessor, ProcessingIsHeld, Busy
  <2>4. QED
    BY <1>2, <2>1, <2>2, <2>3 DEF OutsideStep
<1>3. CASE UNCHANGED vars
  BY <1>3 DEF vars, rows, workers, history, ClaimInv, SingleProcessor, ProcessingIsHeld, Busy
<1>4. QED
  BY <1>1, <1>2, <1>3, NextSplit, ClaimsOfWorker

-----------------------------------------------------------------------------
(* The mark of an event. *)

Marks == MarkInv /\ MarkAgrees

\* What leaves the marks alone, closes no job and forgives nothing.
MarksKept ==
    /\ mark' = mark
    /\ \A e \in Events : blame[e] \subseteq blame'[e]
    /\ \A e \in Events : job'[e] = "complete" => job[e] = "complete"
    /\ \A w \in Workers : pc'[w] = "close" => pc[w] = "close" /\ task'[w] = task[w]

LEMMA MarksFrame ==
    ASSUME Base, Marks, Base', MarksKept
    PROVE  Marks'
<1>1. \A w \in Workers : pc[w] = "close" => task[w] \in Events
  BY DEF Base, TypeOK, TaskInv
<1>2. MarkInv'
  BY <1>1 DEF Marks, MarkInv, MarksKept
<1>3. MarkAgrees'
  BY DEF Marks, MarkAgrees, MarksKept
<1>4. QED
  BY <1>2, <1>3 DEF Marks

LEMMA MarksOfWorker ==
    ASSUME Base, Claims, Marks, Base', NEW w \in Workers,
           WorkerStep(w) \/ ReadError(w) \/ Lose(w)
    PROVE  Marks'
<1> USE DEF Base, TypeOK
<1>1. CASE Claim(w)
  <2>1. PICK e \in Events :
          /\ job' = [job EXCEPT ![e] = "processing"]
          /\ task' = [task EXCEPT ![w] = e]
          /\ blame' = IF Busy(e) THEN blame ELSE [blame EXCEPT ![e] = {}]
    BY <1>1 DEF Claim
  <2>2. mark' = mark /\ pc' = [pc EXCEPT ![w] = "maps"]
    BY <1>1 DEF Claim
  <2>3. MarkInv'
    BY <2>1, <2>2 DEF Marks, MarkInv, Busy, TaskInv
  <2>4. MarkAgrees'
    BY <2>1, <2>2 DEF Marks, MarkAgrees
  <2>5. QED
    BY <2>3, <2>4 DEF Marks
<1>2. CASE ReadMaps(w) \/ ReadNative(w) \/ ReadError(w)
  <2>1. MarksKept
    BY <1>2 DEF ReadMaps, ReadNative, ReadError, rows, history, MarksKept
  <2>2. QED
    BY <2>1, MarksFrame
<1>3. CASE WriteResult(w)
  <2>1. UNCHANGED <<job, blame, task>> /\ pc' = [pc EXCEPT ![w] = "close"]
    BY <1>3 DEF WriteResult, history
  <2>2. task[w] \in Events
    BY <1>3 DEF WriteResult, TaskInv
  <2>3. Alone(task[w]) => task[w] \in events
    BY <2>2 DEF Claims, ClaimInv, JobInv
  <2>4. task[w] \in events => mark'[task[w]] = "complete"
    BY <1>3 DEF WriteResult
  <2>5. \A e \in Events : mark[e] = "complete" => mark'[e] = "complete"
    BY <1>3, <2>2 DEF WriteResult
  <2>6. MarkInv'
    <3> SUFFICES ASSUME NEW v \in Workers, pc'[v] = "close",
                        blame'[task'[v]] \cap {"overtaken", "crossed"} = {}
                 PROVE  mark'[task'[v]] = "complete"
      BY DEF MarkInv
    <3>1. CASE v = w
      BY <3>1, <2>1, <2>3, <2>4 DEF Alone
    <3>2. CASE v # w
      BY <3>2, <2>1, <2>5 DEF Marks, MarkInv, TaskInv
    <3>3. QED
      BY <3>1, <3>2
  <2>7. MarkAgrees'
    BY <2>1, <2>5 DEF Marks, MarkAgrees
  <2>8. QED
    BY <2>6, <2>7 DEF Marks
<1>4. CASE CloseJob(w)
  <2>1. /\ job' = [job EXCEPT ![task[w]] = IF @ = "none" THEN @ ELSE "complete"]
        /\ pc[w] = "close"
        /\ pc' = [pc EXCEPT ![w] = "poll"]
        /\ task' = [task EXCEPT ![w] = None]
        /\ UNCHANGED <<mark, blame>>
    BY <1>4 DEF CloseJob, SetJob, Rest, history
  <2>2. MarkInv'
    BY <2>1 DEF Marks, MarkInv
  <2>3. MarkAgrees'
    BY <2>1 DEF Marks, MarkInv, MarkAgrees
  <2>4. QED
    BY <2>2, <2>3 DEF Marks
<1>5. CASE FailJob(w)
  <2>1. MarksKept
    BY <1>5 DEF FailJob, SetJob, Rest, history, TaskInv, MarksKept
  <2>2. QED
    BY <2>1, MarksFrame
<1>6. CASE Lose(w)
  <2>1. MarksKept
    BY <1>6 DEF Lose, Rest, rows, TaskInv, MarksKept
  <2>2. QED
    BY <2>1, MarksFrame
<1>7. QED
  BY <1>1, <1>2, <1>3, <1>4, <1>5, <1>6 DEF WorkerStep

LEMMA OvertakenGrows ==
    ASSUME TypeOK, NEW S, NEW e \in Events
    PROVE  blame[e] \subseteq Overtaken(S)[e]
BY DEF TypeOK, Overtaken

LEMMA MarksOfAdmin ==
    ASSUME Base, Claims, Marks, Base', NEW a \in Admins, AdminStep(a)
    PROVE  Marks'
<1> USE DEF Base, TypeOK
<1>1. CASE Request(a)
  <2>1. MarksKept
    BY <1>1, OvertakenGrows DEF Request, workers, MarksKept
  <2>2. QED
    BY <2>1, MarksFrame
<1>2. CASE ResetJob(a)
  <2>1. MarksKept
    BY <1>2, OvertakenGrows DEF ResetJob, workers, MarksKept
  <2>2. QED
    BY <2>1, MarksFrame
<1>3. CASE ResetMark(a) /\ subject[a] \in events
  <2>1. PICK e \in Events : e = subject[a]
    BY <1>3
  <2>2. /\ mark' = [mark EXCEPT ![e] = "pending"]
        /\ blame' = IF job[e] = "pending" THEN blame
                    ELSE [blame EXCEPT ![e] = @ \cup {"crossed"}]
        /\ UNCHANGED <<job, pc, task>>
    BY <1>3, <2>1 DEF ResetMark, workers
  <2>3. \A v \in Workers : job[e] = "pending" /\ task[v] = e => ~Alone(e)
    BY DEF Claims, ClaimInv
  <2>4. MarkInv'
    <3>1. CASE job[e] = "pending"
      BY <2>2, <2>3, <3>1 DEF Marks, MarkInv, TaskInv, Alone
    <3>2. CASE job[e] # "pending"
      <4>1. "crossed" \in blame'[e] /\ \A d \in Events : d # e =>
              blame'[d] = blame[d] /\ mark'[d] = mark[d]
        BY <2>2, <3>2
      <4>2. \A v \in Workers : pc'[v] = "close" => task'[v] \in Events
        BY <2>2 DEF TaskInv
      <4>3. SUFFICES ASSUME NEW v \in Workers, pc'[v] = "close",
                            blame'[task'[v]] \cap {"overtaken", "crossed"} = {}
                     PROVE  mark'[task'[v]] = "complete"
        BY DEF MarkInv
      <4>4. task'[v] \in Events /\ task'[v] # e /\ task[v] = task'[v] /\ pc[v] = "close"
        BY <2>2, <4>1, <4>2, <4>3
      <4>5. QED
        BY <4>1, <4>3, <4>4 DEF Marks, MarkInv
    <3>3. QED
      BY <3>1, <3>2
  <2>5. MarkAgrees'
    <3>1. \A d \in Events : d # e => blame'[d] = blame[d] /\ mark'[d] = mark[d]
      BY <2>2
    <3>2. job[e] = "complete" => "crossed" \in blame'[e]
      BY <2>2
    <3>3. QED
      BY <2>2, <3>1, <3>2 DEF Marks, MarkAgrees
  <2>6. QED
    BY <2>4, <2>5 DEF Marks
<1>4. CASE \/ ResetMark(a) /\ subject[a] \notin events
           \/ BeginUpload(a) \/ Attach(a) \/ BeginReprocess(a) \/ Abandon(a)
  <2>1. MarksKept
    BY <1>4 DEF ResetMark, BeginUpload, Attach, BeginReprocess, Abandon, rows, workers,
                history, MarksKept
  <2>2. QED
    BY <2>1, MarksFrame
<1>5. QED
  BY <1>1, <1>2, <1>3, <1>4 DEF AdminStep

LEMMA MarksOfOutside ==
    ASSUME Base, Claims, Marks, Base', OutsideStep
    PROVE  Marks'
<1> USE DEF Base, TypeOK
<1>1. CASE \E e \in Events : Store(e)
  <2>1. MarksKept
    BY <1>1 DEF Store, workers, history, MarksKept
  <2>2. QED
    BY <2>1, MarksFrame
<1>2. CASE \E e \in Events : Delete(e)
  <2>1. PICK e \in Events : Delete(e)
    BY <1>2
  <2>2. /\ job' = [job EXCEPT ![e] = "none"]
        /\ mark' = [mark EXCEPT ![e] = "pending"]
        /\ blame' = Overtaken({e})
        /\ UNCHANGED <<pc, task>>
    BY <2>1 DEF Delete, workers
  <2>3. Busy(e) => "overtaken" \in blame'[e]
    BY <2>2 DEF Overtaken
  <2>4. \A d \in Events : blame[d] \subseteq blame'[d]
    BY <2>2, OvertakenGrows
  <2>5. MarkInv'
    <3>1. \A v \in Workers : pc'[v] = "close" =>
            task'[v] \in Events /\ (task'[v] = e => "overtaken" \in blame'[e])
      BY <2>2, <2>3 DEF TaskInv, Busy
    <3>2. \A d \in Events : d # e => mark'[d] = mark[d]
      BY <2>2
    <3>3. SUFFICES ASSUME NEW v \in Workers, pc'[v] = "close",
                          blame'[task'[v]] \cap {"overtaken", "crossed"} = {}
                   PROVE  mark'[task'[v]] = "complete"
      BY DEF MarkInv
    <3>4. task'[v] \in Events /\ task'[v] # e /\ task[v] = task'[v] /\ pc[v] = "close"
      BY <2>2, <3>1, <3>3
    <3>5. blame[task[v]] \cap {"overtaken", "crossed"} = {}
      BY <2>4, <3>3, <3>4
    <3>6. QED
      BY <3>2, <3>4, <3>5 DEF Marks, MarkInv
  <2>6. MarkAgrees'
    <3>1. \A d \in Events : job'[d] = "complete" => job[d] = "complete" /\ mark'[d] = mark[d]
      BY <2>2
    <3>2. QED
      BY <2>4, <3>1 DEF Marks, MarkAgrees
  <2>7. QED
    BY <2>5, <2>6 DEF Marks
<1>3. CASE (\E e \in Events : Wake(e)) \/ (\E f \in Files : DeleteFile(f))
  <2>1. MarksKept
    BY <1>3 DEF Wake, DeleteFile, workers, history, MarksKept
  <2>2. QED
    BY <2>1, MarksFrame
<1>4. QED
  BY <1>1, <1>2, <1>3 DEF OutsideStep

LEMMA MarksStep ==
    ASSUME Base, Claims, Marks, Base', [Next]_vars
    PROVE  Marks'
<1>1. CASE UNCHANGED vars
  <2>1. MarksKept
    BY <1>1 DEF vars, rows, workers, history, MarksKept
  <2>2. QED
    BY <2>1, MarksFrame
<1>2. QED
  BY <1>1, NextSplit, MarksOfWorker, MarksOfAdmin, MarksOfOutside

-----------------------------------------------------------------------------
(* The result of an event. *)

Reads == ReadInv /\ ResultsAreFresh

\* A worker goes on with the same event and what it has read for it, or is at a
\* point where it has read nothing.
Forgets(w) == pc'[w] \notin {"native", "write", "close"}
Keeps(w) == task'[w] = task[w] /\ pc'[w] = pc[w] /\ read'[w] = read[w]

\* No event needs a new file.
NothingNew ==
    \A e \in Events, f \in announced' :
        home'[f] = ReleaseOf[e] => f \in announced /\ home[f] = ReleaseOf[e]

\* What makes no file, job or result newer.
ReadsKept ==
    /\ NothingNew
    /\ result' = result
    /\ \A e \in Events : "overtaken" \in blame[e] => "overtaken" \in blame'[e]
    /\ \A e \in Events : job'[e] = "complete" => job[e] = "complete"
    /\ \A w \in Workers : Keeps(w) \/ Forgets(w)

LEMMA ReadsFrame ==
    ASSUME Base, Reads, Base', ReadsKept
    PROVE  Reads'
<1>1. ReadInv'
  <2> SUFFICES ASSUME NEW w \in Workers, task'[w] # None, Alone(task[w])',
                      pc'[w] \in {"native", "write", "close"}
               PROVE  UpToDate(w)'
    BY DEF ReadInv, UpToDate
  <2>1. Keeps(w) /\ task[w] \in Events
    BY DEF ReadsKept, Forgets, Base, TypeOK, Keeps
  <2>2. Alone(task[w])
    BY <2>1 DEF ReadsKept, Alone, Keeps
  <2>3. Needed(task[w])' \subseteq Needed(task[w])
    BY <2>1 DEF ReadsKept, NothingNew, Needed, Keeps
  <2>4. QED
    BY <2>1, <2>2, <2>3 DEF Reads, ReadInv, UpToDate, ReadsKept, Keeps
<1>2. ResultsAreFresh'
  BY DEF Reads, ResultsAreFresh, ReadsKept, NothingNew
<1>3. QED
  BY <1>1, <1>2 DEF Reads

\* A step of a worker that leaves the files, the announcements and the blame of
\* events in progress alone has only its own event to account for.
LEMMA ReadsOfWorker ==
    ASSUME Base, Claims, Reads, Base', NEW w \in Workers,
           WorkerStep(w) \/ ReadError(w) \/ Lose(w)
    PROVE  Reads'
<1> USE DEF Base, TypeOK
<1>1. UNCHANGED <<home, announced>>
  BY DEF WorkerStep, Claim, ReadMaps, ReadNative, WriteResult, CloseJob, FailJob,
         ReadError, Lose, rows, history
<1>2. \A e \in Events : Needed(e)' = Needed(e)
  BY <1>1 DEF Needed
<1>3. NothingNew
  BY <1>1 DEF NothingNew
<1>4. CASE Claim(w)
  <2>1. PICK e \in Events :
          /\ job' = [job EXCEPT ![e] = "processing"]
          /\ task' = [task EXCEPT ![w] = e]
          /\ blame' = IF Busy(e) THEN blame ELSE [blame EXCEPT ![e] = {}]
    BY <1>4 DEF Claim
  <2>2. UNCHANGED <<result, read>> /\ pc' = [pc EXCEPT ![w] = "maps"]
    BY <1>4 DEF Claim
  <2>3. ReadInv'
    <3> SUFFICES ASSUME NEW v \in Workers, task'[v] # None, Alone(task[v])',
                        pc'[v] \in {"native", "write", "close"}
                 PROVE  UpToDate(v)'
      BY DEF ReadInv, UpToDate
    <3>1. v # w /\ task'[v] = task[v] /\ pc'[v] = pc[v] /\ task[v] \in Events
      BY <2>1, <2>2
    <3>2. blame'[task[v]] = blame[task[v]]
      BY <2>1, <3>1 DEF Busy
    <3>3. Needed(task[v])' = Needed(task[v])
      BY <1>2, <3>1
    <3>4. QED
      BY <2>2, <3>1, <3>2, <3>3 DEF Reads, ReadInv, UpToDate, Alone
  <2>4. ResultsAreFresh'
    BY <1>1, <2>1, <2>2 DEF Reads, ResultsAreFresh
  <2>5. QED
    BY <2>3, <2>4 DEF Reads
<1>5. CASE ReadMaps(w) \/ ReadNative(w) \/ WriteResult(w)
  <2>1. PICK e \in Events : e = task[w]
    BY <1>5 DEF ReadMaps, ReadNative, WriteResult, TaskInv
  <2>2. UNCHANGED <<task, job, blame>>
    BY <1>5 DEF ReadMaps, ReadNative, WriteResult, rows, history
  <2>3. \A v \in Workers \ {w} : pc'[v] = pc[v] /\ read'[v] = read[v]
    BY <1>5 DEF ReadMaps, ReadNative, WriteResult
  <2>4. \A d \in Events : d # e => result'[d] = result[d]
    BY <1>5, <2>1 DEF ReadMaps, ReadNative, WriteResult, rows
  <2>5. \A v \in Workers \ {w} : task[v] = e => ~Alone(e)
    BY <2>1 DEF Claims, SingleProcessor, Alone
  <2>6. Alone(e) => job[e] = "processing" /\ e \in events
    BY <2>1 DEF Claims, ClaimInv, JobInv
  <2>7. Alone(e) => /\ pc'[w] = "native" => Needed(e) \cap Maps \subseteq read'[w]
                    /\ pc'[w] = "write" => Needed(e) \cap Fits[e] \subseteq read'[w]
                    /\ pc'[w] = "close" => Needed(e) \cap Fits[e] \subseteq result'[e]
    <3>1. CASE ReadMaps(w)
      BY <3>1, <2>1 DEF ReadMaps, FilesFor, Needed, FileInv
    <3>2. CASE ReadNative(w)
      <4>1. Needed(e) \subseteq FilesFor(e)
        BY DEF Needed, FilesFor, FileInv
      <4>2. Alone(e) => Needed(e) \cap Maps \subseteq read[w]
        BY <3>2, <2>1 DEF Reads, ReadInv, UpToDate, ReadNative
      <4>3. read'[w] = (read[w] \cup (FilesFor(e) \ Maps)) \cap Fits[e]
        BY <3>2, <2>1 DEF ReadNative
      <4>4. pc'[w] \in {"fail", "write"}
        BY <3>2 DEF ReadNative
      <4>5. QED
        BY <4>1, <4>2, <4>3, <4>4
    <3>3. CASE WriteResult(w)
      <4>1. Alone(e) => Needed(e) \cap Fits[e] \subseteq read[w]
        BY <3>3, <2>1 DEF Reads, ReadInv, UpToDate, WriteResult
      <4>2. Alone(e) => result'[e] = read[w]
        BY <3>3, <2>1, <2>6 DEF WriteResult
      <4>3. pc'[w] = "close"
        BY <3>3 DEF WriteResult
      <4>4. QED
        BY <4>1, <4>2, <4>3
    <3>4. QED
      BY <1>5, <3>1, <3>2, <3>3
  <2>8. ReadInv'
    <3> SUFFICES ASSUME NEW v \in Workers, task'[v] # None, Alone(task[v])'
                 PROVE  UpToDate(v)'
      BY DEF ReadInv
    <3>1. task'[v] = task[v] /\ task[v] \in Events /\ Alone(task[v])
      BY <2>2 DEF Alone
    <3>2. Needed(task[v])' = Needed(task[v])
      BY <1>2, <3>1
    <3>3. CASE v = w
      BY <2>1, <2>7, <3>1, <3>2, <3>3 DEF UpToDate
    <3>4. CASE v # w
      BY <2>3, <2>4, <2>5, <3>1, <3>2, <3>4 DEF Reads, ReadInv, UpToDate
    <3>5. QED
      BY <3>3, <3>4
  <2>9. ResultsAreFresh'
    BY <1>1, <2>2, <2>4, <2>6 DEF Reads, ResultsAreFresh, Alone
  <2>10. QED
    BY <2>8, <2>9 DEF Reads
<1>6. CASE CloseJob(w)
  <2>1. /\ job' = [job EXCEPT ![task[w]] = IF @ = "none" THEN @ ELSE "complete"]
        /\ pc[w] = "close"
        /\ pc' = [pc EXCEPT ![w] = "poll"]
        /\ task' = [task EXCEPT ![w] = None]
        /\ read' = [read EXCEPT ![w] = {}]
        /\ UNCHANGED <<result, blame>>
    BY <1>6 DEF CloseJob, SetJob, Rest, history
  <2>2. PICK e \in Events : e = task[w]
    BY <2>1 DEF TaskInv
  <2>3. Alone(e) => Needed(e) \cap Fits[e] \subseteq result[e]
    BY <2>1, <2>2 DEF Reads, ReadInv, UpToDate
  <2>4. ReadInv'
    <3> SUFFICES ASSUME NEW v \in Workers, task'[v] # None, Alone(task[v])'
                 PROVE  UpToDate(v)'
      BY DEF ReadInv
    <3>1. v # w /\ Keeps(v) /\ task[v] \in Events
      BY <2>1 DEF Keeps
    <3>2. Needed(task[v])' = Needed(task[v])
      BY <1>2, <3>1 DEF Keeps
    <3>3. QED
      BY <2>1, <3>1, <3>2 DEF Reads, ReadInv, UpToDate, Keeps, Alone
  <2>5. ResultsAreFresh'
    <3>1. \A d \in Events : d # e => job'[d] = job[d]
      BY <2>1, <2>2
    <3>2. QED
      BY <1>1, <2>1, <2>3, <3>1 DEF Reads, ResultsAreFresh, Alone, Needed
  <2>6. QED
    BY <2>4, <2>5 DEF Reads
<1>7. CASE FailJob(w) \/ ReadError(w) \/ Lose(w)
  <2>1. \A v \in Workers : Keeps(v) \/ Forgets(v)
    BY <1>7 DEF FailJob, ReadError, Lose, Rest, Keeps, Forgets
  <2>2. /\ result' = result
        /\ \A e \in Events : "overtaken" \in blame[e] => "overtaken" \in blame'[e]
        /\ \A e \in Events : job'[e] = "complete" => job[e] = "complete"
    BY <1>7 DEF FailJob, SetJob, ReadError, Lose, rows, history, TaskInv
  <2>3. QED
    BY <1>3, <2>1, <2>2, ReadsFrame DEF ReadsKept
<1>8. QED
  BY <1>4, <1>5, <1>6, <1>7 DEF WorkerStep

\* An upload that is completed announces a file, and resets the job of every
\* event of its release: whoever was at one is overtaken.
LEMMA ReadsOfUpload ==
    ASSUME Base, Claims, Reads, Base', NEW a \in Admins, Request(a)
    PROVE  Reads'
<1> USE DEF Base, TypeOK
<1> DEFINE reset == JobsOf(target[a])
<1>1. /\ job' = [e \in Events |-> IF e \in reset THEN "pending" ELSE job[e]]
      /\ blame' = Overtaken(reset)
      /\ UNCHANGED <<home, result, pc, task, read>>
  BY DEF Request, workers
<1>2. \A f \in announced' : f \in announced \/ home[f] = target[a]
  BY DEF Request
<1>3. \A e \in Events : blame[e] \subseteq blame'[e]
  BY <1>1, OvertakenGrows
<1>4. \A e \in Events : ReleaseOf[e] # target[a] => Needed(e)' \subseteq Needed(e)
  BY <1>1, <1>2 DEF Needed
<1>5. \A v \in Workers : task[v] # None /\ ReleaseOf[task[v]] = target[a] => ~Alone(task[v])'
  <2> SUFFICES ASSUME NEW v \in Workers, task[v] # None, ReleaseOf[task[v]] = target[a],
                      Alone(task[v])'
               PROVE  FALSE
    OBVIOUS
  <2>1. task[v] \in Events /\ Alone(task[v])
    BY <1>1, <1>3 DEF Alone
  <2>2. job[task[v]] = "processing"
    BY <2>1 DEF Claims, ClaimInv
  <2>3. task[v] \in reset
    BY <2>1, <2>2 DEF JobsOf, WithJob
  <2>4. "overtaken" \in blame'[task[v]]
    BY <1>1, <2>1, <2>2, <2>3 DEF Overtaken
  <2>5. QED
    BY <1>1, <2>4 DEF Alone
<1>6. ReadInv'
  <2> SUFFICES ASSUME NEW v \in Workers, task'[v] # None, Alone(task[v])'
               PROVE  UpToDate(v)'
    BY DEF ReadInv
  <2>1. task[v] \in Events /\ Alone(task[v]) /\ Keeps(v)
    BY <1>1, <1>3 DEF Alone, Keeps
  <2>2. Needed(task[v])' \subseteq Needed(task[v])
    BY <1>1, <1>4, <1>5, <2>1
  <2>3. QED
    BY <1>1, <2>1, <2>2 DEF Reads, ReadInv, UpToDate, Keeps
<1>7. ResultsAreFresh'
  <2> SUFFICES ASSUME NEW e \in Events, NEW f \in announced',
                      job'[e] = "complete", "overtaken" \notin blame'[e],
                      home'[f] = ReleaseOf[e], f \in Fits[e]
               PROVE  f \in result'[e]
    BY DEF ResultsAreFresh
  <2>1. job[e] = "complete" /\ e \notin reset /\ "overtaken" \notin blame[e]
    BY <1>1, <1>3
  <2>2. ReleaseOf[e] # target[a]
    BY <2>1 DEF JobsOf, WithJob
  <2>3. QED
    BY <1>1, <1>2, <2>1, <2>2 DEF Reads, ResultsAreFresh
<1>8. QED
  BY <1>6, <1>7 DEF Reads

LEMMA ReadsStep ==
    ASSUME Base, Claims, Reads, Base', [Next]_vars
    PROVE  Reads'
<1> USE DEF Base, TypeOK
<1>1. CASE \E a \in Admins : AdminStep(a)
  <2>1. PICK a \in Admins : AdminStep(a)
    BY <1>1
  <2>2. CASE Attach(a)
    <3>1. NothingNew
      BY <2>2 DEF Attach, history, FileInv, RequestInv, NothingNew
    <3>2. QED
      BY <2>2, <3>1, ReadsFrame DEF Attach, workers, history, ReadsKept, Keeps
  <2>3. CASE ResetJob(a)
    <3>1. /\ NothingNew
          /\ UNCHANGED <<result, pc, task, read>>
          /\ \A e \in Events : job'[e] = "complete" => job[e] = "complete"
      BY <2>3 DEF ResetJob, workers, NothingNew
    <3>2. \A e \in Events : blame[e] \subseteq blame'[e]
      BY <2>3, OvertakenGrows DEF ResetJob
    <3>3. QED
      BY <3>1, <3>2, ReadsFrame DEF ReadsKept, Keeps
  <2>4. CASE ResetMark(a)
    <3>1. \A e \in Events : blame[e] \subseteq blame'[e]
      BY <2>4 DEF ResetMark
    <3>2. NothingNew /\ UNCHANGED <<result, job, pc, task, read>>
      BY <2>4 DEF ResetMark, workers, NothingNew
    <3>3. QED
      BY <3>1, <3>2, ReadsFrame DEF ReadsKept, Keeps
  <2>5. CASE BeginUpload(a) \/ BeginReprocess(a) \/ Abandon(a)
    <3>1. UNCHANGED <<rows, workers, history>>
      BY <2>5 DEF BeginUpload, BeginReprocess, Abandon
    <3>2. QED
      BY <3>1, ReadsFrame DEF rows, workers, history, ReadsKept, NothingNew, Keeps
  <2>6. QED
    BY <2>1, <2>2, <2>3, <2>4, <2>5, ReadsOfUpload DEF AdminStep
<1>2. CASE \E e \in Events : Store(e) \/ Wake(e)
  <2>1. /\ NothingNew
        /\ UNCHANGED <<result, blame, pc, task, read>>
        /\ \A e \in Events : job'[e] = "complete" => job[e] = "complete"
    BY <1>2 DEF Store, Wake, workers, history, NothingNew
  <2>2. QED
    BY <2>1, ReadsFrame DEF ReadsKept, Keeps
<1>3. CASE \E f \in Files : DeleteFile(f)
  <2>1. NothingNew
    BY <1>3 DEF DeleteFile, NothingNew
  <2>2. UNCHANGED <<result, job, blame, pc, task, read>>
    BY <1>3 DEF DeleteFile, workers
  <2>3. QED
    BY <2>1, <2>2, ReadsFrame DEF ReadsKept, Keeps
<1>4. CASE \E e \in Events : Delete(e)
  <2>1. PICK e \in Events : Delete(e)
    BY <1>4
  <2>2. /\ job' = [job EXCEPT ![e] = "none"]
        /\ result' = [result EXCEPT ![e] = {}]
        /\ blame' = Overtaken({e})
        /\ UNCHANGED <<home, announced, pc, task, read>>
    BY <2>1 DEF Delete, workers
  <2>3. Busy(e) => "overtaken" \in blame'[e]
    BY <2>2 DEF Overtaken
  <2>4. \A d \in Events : blame[d] \subseteq blame'[d]
    BY <2>2, OvertakenGrows
  <2>5. ReadInv'
    <3> SUFFICES ASSUME NEW v \in Workers, task'[v] # None, Alone(task[v])'
                 PROVE  UpToDate(v)'
      BY DEF ReadInv
    <3>1. task[v] \in Events /\ task[v] # e /\ Keeps(v)
      BY <2>2, <2>3 DEF Keeps, Busy, Alone
    <3>2. result'[task[v]] = result[task[v]]
      BY <2>2, <3>1
    <3>5. Alone(task[v])
      BY <2>4, <3>1 DEF Alone, Keeps
    <3>3. Needed(task[v])' = Needed(task[v])
      BY <2>2 DEF Needed
    <3>4. QED
      BY <3>1, <3>2, <3>3, <3>5 DEF Reads, ReadInv, UpToDate, Keeps
  <2>6. ResultsAreFresh'
    <3>1. \A d \in Events : job'[d] = "complete" => job[d] = "complete" /\ result'[d] = result[d]
      BY <2>2
    <3>2. QED
      BY <2>2, <2>4, <3>1 DEF Reads, ResultsAreFresh
  <2>7. QED
    BY <2>5, <2>6 DEF Reads
<1>5. CASE UNCHANGED vars
  BY <1>5, ReadsFrame DEF vars, rows, workers, history, ReadsKept, NothingNew, Keeps
<1>6. QED
  BY <1>1, <1>2, <1>3, <1>4, <1>5, NextSplit, ReadsOfWorker DEF OutsideStep

-----------------------------------------------------------------------------
(* The theorems. *)

IInv == Base /\ Claims /\ Marks /\ Reads

LEMMA InvInit == Init => IInv
<1> SUFFICES ASSUME Init PROVE IInv
  OBVIOUS
<1>1. Base
  BY TypeInit DEF Init, Base, TaskInv, RequestInv, JobInv, FileInv
<1>2. Claims
  BY DEF Init, Claims, ClaimInv, SingleProcessor, ProcessingIsHeld
<1>3. Marks
  BY DEF Init, Marks, MarkInv, MarkAgrees
<1>4. Reads
  BY DEF Init, Reads, ReadInv, ResultsAreFresh
<1>5. QED
  BY <1>1, <1>2, <1>3, <1>4 DEF IInv

LEMMA InvNext == IInv /\ [Next]_vars => IInv'
<1> SUFFICES ASSUME Base, Claims, Marks, Reads, [Next]_vars PROVE IInv'
  BY DEF IInv
<1>1. Base'
  BY TypeStep, TaskStep, RequestStep, JobStep, FileStep DEF Base
<1>2. QED
  BY <1>1, ClaimsStep, MarksStep, ReadsStep DEF IInv

LEMMA Invariance == Spec => []IInv
BY InvInit, InvNext, PTL DEF Spec

\* Two workers are at the same event only after a request or retention has come
\* between the claim and the statement that closes the job.
THEOREM OneWorkerPerEvent == Spec => []SingleProcessor
<1>1. IInv => SingleProcessor
  BY DEF IInv, Claims
<1>2. QED
  BY <1>1, Invariance, PTL

\* A job is stuck in 'processing' only after a worker was lost.
THEOREM StuckOnlyWhenLost == Spec => []ProcessingIsHeld
<1>1. IInv => ProcessingIsHeld
  BY DEF IInv, Claims
<1>2. QED
  BY <1>1, Invariance, PTL

\* An event whose job is complete is marked as symbolicated, unless a request or
\* retention came between the worker's statements.
THEOREM MarksFollowJobs == Spec => []MarkAgrees
<1>1. IInv => MarkAgrees
  BY DEF IInv, Marks
<1>2. QED
  BY <1>1, Invariance, PTL

\* A completed event was looked up in every file that was uploaded for its release
\* before, unless a request or retention overtook the worker.
THEOREM NoFileMissed == Spec => []ResultsAreFresh
<1>1. IInv => ResultsAreFresh
  BY DEF IInv, Reads
<1>2. QED
  BY <1>1, Invariance, PTL

=============================================================================
