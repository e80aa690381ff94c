--------------------------- MODULE CloudJobsProofs ---------------------------
(***************************************************************************)
(* Proofs about CloudJobs for every set of jobs and clients and every TTL, *)
(* timeout, cleanup interval and pool size.                                *)
(***************************************************************************)
EXTENDS CloudJobs, TLAPS

CompilingJob == Job("compiling", FALSE, "none")
CompleteJob  == Job("complete", TRUE, "none")
FailedJob(e) == Job("failed", FALSE, e)
FailedJobs   == {FailedJob("compile"), FailedJob("panic"), FailedJob("timeout")}

\* The entry the store may hold for a job whose task stands at t.
EntryFor(j, t) ==
  \/ t = "spawned" /\ store[j] = NewJob
  \/ t \in {"waiting", "expiring"} /\ store[j] = CompilingJob
  \/ t = "completed" /\ store[j] = CompleteJob
  \/ t \in {"errored", "timedout"} /\ store[j] \in FailedJobs

\* The store agrees with the task.
StoreAgrees(j) == store[j] = Absent \/ EntryFor(j, task[j])

\* The closure agrees with the task.
WorkAgrees(j) ==
  /\ task[j] \in {"none", "spawned"} <=> work[j] = "none"
  /\ task[j] = "completed" => work[j] = "ok"
  /\ task[j] = "errored" => work[j] \in {"failed", "panicked"}
  /\ task[j] = "lost" => work[j] \in Finished

\* The library is there once linked, until the sweep deletes it, and the sweep
\* deletes only the library of a completed job it has removed; once it has tried,
\* the library is gone or could not be deleted.
LibraryKept(j) ==
  /\ "lib" \in files[j] => work[j] \in {"linked", "ok"}
  /\ work[j] \in {"linked", "ok"} =>
       "lib" \in files[j] \/ (task[j] = "completed" /\ store[j] = Absent)
  /\ victim = j => task[j] = "completed" /\ store[j] = Absent
  /\ task[j] = "completed" /\ store[j] = Absent /\ "lib" \in files[j] =>
       victim = j \/ "lib" \in kept[j]
  /\ "lib" \in kept[j] => task[j] = "completed" /\ store[j] = Absent

\* A compilation that succeeded has tried to remove its object file.
ObjectKept(j) == work[j] = "ok" /\ "obj" \in files[j] => "obj" \in kept[j]

\* The ids still to be removed are expired entries of the store.
SweepAgrees(j) == j \in expired => store[j] # Absent /\ age[j] > TTL /\ sweep = "removing"

\* A download in flight is of a completed job, and an unreadable one is gone.
ClientAgrees(c) ==
  /\ client[c].at = "reading" =>
       client[c].job \in Jobs /\ task[client[c].job] = "completed"
  /\ reply[c].op = "download" /\ reply[c].code = 500 =>
       /\ reply[c].said = "unreadable"
       /\ reply[c].job \in Jobs
       /\ task[reply[c].job] = "completed"
       /\ store[reply[c].job] = Absent

IInv ==
  /\ TypeOK
  /\ \A j \in Jobs :
       StoreAgrees(j) /\ WorkAgrees(j) /\ LibraryKept(j) /\ ObjectKept(j) /\ SweepAgrees(j)
  /\ \A c \in Clients : ClientAgrees(c)

JobInv(j) ==
  StoreAgrees(j) /\ WorkAgrees(j) /\ LibraryKept(j) /\ ObjectKept(j) /\ SweepAgrees(j)

-----------------------------------------------------------------------------
\* The cleanup loop's sleep is a number of ticks.
LEMMA IntervalNat == Interval \in Nat
  <1>1. TTL \div 4 \in Nat
    BY CloudAssumption, SMT
  <1> QED BY <1>1, CloudAssumption DEF Interval

\* The records the handlers write are entries.
LEMMA EntryTypes ==
  /\ Absent \in Entry /\ NewJob \in Entry /\ CompilingJob \in Entry /\ CompleteJob \in Entry
  /\ FailedJobs \subseteq Entry
  BY DEF Job, Entry, Absent, NewJob, CompilingJob, CompleteJob, FailedJobs, FailedJob

\* Entries that differ in their status differ.
LEMMA EntryStatus ==
  /\ Absent.status = "absent"
  /\ NewJob.status = "pending" /\ NewJob.artifact = FALSE
  /\ CompilingJob.status = "compiling" /\ CompilingJob.artifact = FALSE
  /\ CompleteJob.status = "complete" /\ CompleteJob.artifact = TRUE
  /\ \A e \in FailedJobs : e.status = "failed" /\ e.artifact = FALSE
  BY DEF Job, Absent, NewJob, CompilingJob, CompleteJob, FailedJobs, FailedJob

\* An entry has one of five statuses.
LEMMA EntryStatuses ==
  \A e \in Entry : e.status \in {"absent", "pending", "compiling", "complete", "failed"}
  <1>1. Absent.status = "absent"
    BY DEF Absent, Job
  <1> QED BY <1>1 DEF Entry

\* What the handlers answer is an answer.
LEMMA AnswerTypes ==
  \A j \in Jobs \cup {NoJob} :
    /\ \A k \in {202, 400, 413} : Answer("compile", j, k, "error") \in Reply
    /\ Answer("compile", j, 202, "pending") \in Reply
    /\ \A s \in {"pending", "compiling", "complete", "failed"} :
         Answer("status", j, 200, s) \in Reply
    /\ Answer("status", j, 404, "error") \in Reply
    /\ \A k \in {404, 409} : Answer("download", j, k, "error") \in Reply
    /\ Answer("download", j, 500, "no_path") \in Reply
    /\ Answer("download", j, 500, "unreadable") \in Reply
    /\ Answer("download", j, 200, "artifact") \in Reply
  BY DEF Answer, Reply

\* The invariant holds of the empty service.
LEMMA InitIInv == Init => IInv
  <1> SUFFICES ASSUME Init PROVE IInv
    OBVIOUS
  <1>1. TypeOK
    BY EntryTypes, IntervalNat, CloudAssumption
    DEF Init, TypeOK, Answer, Reply, TaskState, WorkState
  <1>2. \A j \in Jobs : JobInv(j)
    BY CloudAssumption
    DEF Init, JobInv, StoreAgrees, WorkAgrees, LibraryKept, ObjectKept, SweepAgrees
  <1>3. \A c \in Clients : ClientAgrees(c)
    BY DEF Init, ClientAgrees, Answer
  <1> QED BY <1>1, <1>2, <1>3 DEF IInv, JobInv

\* What each store operation does to an entry that agrees with the task.
LEMMA StoreOps ==
  ASSUME NEW j \in Jobs, store \in [Jobs -> Entry], StoreAgrees(j)
  PROVE  /\ task[j] = "spawned" =>
              UpdateStatus(j, "compiling")
                = IF Present(j) THEN [store EXCEPT ![j] = CompilingJob] ELSE store
         /\ task[j] \in {"waiting", "expiring"} =>
              /\ MarkComplete(j)
                   = IF Present(j) THEN [store EXCEPT ![j] = CompleteJob] ELSE store
              /\ \A e : MarkFailed(j, e)
                   = IF Present(j) THEN [store EXCEPT ![j] = FailedJob(e)] ELSE store
         /\ Present(j) <=> store[j] # Absent
  <1>a. \A e \in Entry : e = Absent \/ e.status # "absent"
    BY DEF Entry, Absent, Job
  <1>b. Absent.status = "absent"
    BY DEF Absent, Job
  <1>1. Present(j) <=> store[j] # Absent
    BY <1>a, <1>b DEF Present
  <1>2. ASSUME task[j] = "spawned"
        PROVE  UpdateStatus(j, "compiling")
                 = IF Present(j) THEN [store EXCEPT ![j] = CompilingJob] ELSE store
    <2>1. Present(j) => store[j] = NewJob
      BY <1>1, <1>2 DEF StoreAgrees, EntryFor
    <2>2. NewJob.artifact = FALSE /\ NewJob.error = "none"
      BY DEF NewJob, Job
    <2> QED BY <2>1, <2>2 DEF UpdateStatus, CompilingJob
  <1>3. ASSUME task[j] \in {"waiting", "expiring"}, Present(j)
        PROVE  store[j].artifact = FALSE /\ store[j].error = "none"
    <2>1. store[j] = CompilingJob
      BY <1>1, <1>3 DEF StoreAgrees, EntryFor
    <2> QED BY <2>1 DEF CompilingJob, Job
  <1>4. ASSUME task[j] \in {"waiting", "expiring"}
        PROVE  /\ MarkComplete(j)
                    = IF Present(j) THEN [store EXCEPT ![j] = CompleteJob] ELSE store
               /\ \A e : MarkFailed(j, e)
                    = IF Present(j) THEN [store EXCEPT ![j] = FailedJob(e)] ELSE store
    BY <1>3, <1>4 DEF MarkComplete, MarkFailed, CompleteJob, FailedJob
  <1> QED BY <1>1, <1>2, <1>4

-----------------------------------------------------------------------------
\* Every step keeps the types, given the agreement of store and task.
LEMMA TypeStep == IInv /\ [Next]_vars => TypeOK'
  <1> SUFFICES ASSUME IInv, [Next]_vars PROVE TypeOK'
    OBVIOUS
  <1> USE DEF IInv, TypeOK
  <1>t. Interval \in Nat /\ TTL \in Nat /\ Timeout \in Nat
    BY IntervalNat, CloudAssumption
  <1>1. ASSUME NEW c \in Submitters, RejectCompile(c) PROVE TypeOK'
    <2>1. PICK r \in Request :
             reply' = [reply EXCEPT ![c] = Answer("compile", NoJob, CompileCode(r), "error")]
      BY <1>1 DEF RejectCompile
    <2>2. CompileCode(r) \in {202, 400, 413}
      BY DEF CompileCode
    <2>3. Answer("compile", NoJob, CompileCode(r), "error") \in Reply
      BY <2>2, AnswerTypes
    <2>4. reply' \in [Clients -> Reply]
      BY <2>1, <2>3
    <2> QED BY <1>1, <2>4 DEF RejectCompile, taskVars, diskVars, sweepVars
  <1>2. ASSUME NEW c \in Submitters, NEW j \in Jobs, AcceptCompile(c, j) PROVE TypeOK'
    <2> QED BY <1>2, <1>t, AnswerTypes, EntryTypes
        DEF AcceptCompile, diskVars, sweepVars, Clients, TaskState
  <1>3. ASSUME NEW c \in Readers, NEW j \in Jobs, Status(c, j) PROVE TypeOK'
    <2>1. Present(j) => Answer("status", j, 200, store[j].status) \in Reply
      BY EntryStatuses, AnswerTypes DEF Present
    <2> QED BY <1>3, <2>1, AnswerTypes DEF Status, taskVars, diskVars, sweepVars, Clients
  <1>4. ASSUME NEW c \in Readers, NEW j \in Jobs, DownloadGet(c, j) PROVE TypeOK'
    <2>1. DownloadRefused(j) \in Reply
      BY AnswerTypes DEF DownloadRefused
    <2> QED BY <1>4, <2>1 DEF DownloadGet, taskVars, diskVars, sweepVars, Clients
  <1>5. ASSUME NEW c \in Readers, DownloadRead(c) PROVE TypeOK'
    <2>1. client[c].job \in Jobs \cup {NoJob}
      BY DEF Clients
    <2> QED BY <1>5, <2>1, AnswerTypes DEF DownloadRead, taskVars, diskVars, sweepVars, Clients
  <1>6. ASSUME NEW j \in Jobs, StartTask(j) PROVE TypeOK'
    BY <1>6, <1>t, StoreOps, EntryTypes
    DEF StartTask, sweepVars, httpVars, TaskState, WorkState
  <1>7. ASSUME NEW j \in Jobs, TaskResult(j) PROVE TypeOK'
    <2>1. FailedJob("compile") \in Entry /\ FailedJob("panic") \in Entry
      BY EntryTypes DEF FailedJobs
    <2>2. store' \in [Jobs -> Entry]
      BY <1>7, <2>1, StoreOps, EntryTypes DEF TaskResult, Finished
    <2> QED BY <1>7, <2>2 DEF TaskResult, diskVars, sweepVars, httpVars, TaskState
  <1>8. ASSUME NEW j \in Jobs, TimeoutElapses(j) PROVE TypeOK'
    BY <1>8 DEF TimeoutElapses, diskVars, sweepVars, httpVars, TaskState
  <1>9. ASSUME NEW j \in Jobs, MarkTimedOut(j) PROVE TypeOK'
    <2>1. FailedJob("timeout") \in Entry
      BY EntryTypes DEF FailedJobs
    <2> QED BY <1>9, <2>1, StoreOps DEF MarkTimedOut, diskVars, sweepVars, httpVars, TaskState
  <1>10. ASSUME NEW j \in Jobs, WorkStep(j) PROVE TypeOK'
    BY <1>10 DEF WorkStep, BeginWork, RejectSource, WriteObject, Link, RemoveObject, RemoveFile,
                 taskVars, sweepVars, httpVars, WorkState, Compiling, Finished
  <1>11. CASE SweepStep
    BY <1>11, <1>t, EntryTypes
    DEF SweepStep, Collect, RemoveExpired, DeleteArtifact, RemoveFile, FinishSweep,
        taskVars, diskVars, httpVars
  <1>12. CASE Tick
    BY <1>12, <1>t DEF Tick, Advance, diskVars, httpVars
  <1>13. CASE AcceptFails
    BY <1>13 DEF AcceptFails, taskVars, diskVars, sweepVars, httpVars
  <1>14. CASE UNCHANGED vars
    BY <1>14 DEF vars
  <1> QED BY <1>1, <1>2, <1>3, <1>4, <1>5, <1>6, <1>7, <1>8, <1>9, <1>10, <1>11, <1>12,
             <1>13, <1>14 DEF Next, Submit, Read, TaskStep

-----------------------------------------------------------------------------
\* The variables JobInv reads.
jobView == <<store, age, task, work, files, kept, sweep, expired, victim>>

\* Every step keeps what the invariant says of each job.
LEMMA JobStep == IInv /\ [Next]_vars => \A k \in Jobs : JobInv(k)'
  <1> SUFFICES ASSUME IInv, [Next]_vars, NEW k \in Jobs PROVE JobInv(k)'
    OBVIOUS
  <1> USE DEF JobInv
  <1>t. TypeOK /\ JobInv(k) /\ \A j \in Jobs : JobInv(j)
    BY DEF IInv
  <1>e. CompleteJob # Absent /\ CompilingJob # Absent /\ NewJob # Absent
    BY EntryStatus
  <1>f. /\ \A e \in FailedJobs : e # Absent
        /\ FailedJob("compile") \in FailedJobs
        /\ FailedJob("panic") \in FailedJobs
        /\ FailedJob("timeout") \in FailedJobs
    BY EntryStatus DEF FailedJobs
  <1>p. \A j \in Jobs : Present(j) <=> store[j] # Absent
    BY StoreOps DEF IInv, TypeOK
  <1>1. ASSUME UNCHANGED jobView PROVE JobInv(k)'
    BY <1>1, <1>t
    DEF jobView, StoreAgrees, EntryFor, WorkAgrees, LibraryKept, ObjectKept, SweepAgrees
  <1>2. ASSUME NEW c \in Submitters, NEW j \in Jobs, AcceptCompile(c, j) PROVE JobInv(k)'
    <2>1. CASE k = j
      BY <1>2, <1>t, <1>e, <2>1
      DEF AcceptCompile, diskVars, sweepVars, TypeOK, StoreAgrees, EntryFor, WorkAgrees,
          LibraryKept, ObjectKept, SweepAgrees
    <2>2. CASE k # j
      BY <1>2, <1>t, <2>2
      DEF AcceptCompile, diskVars, sweepVars, TypeOK, StoreAgrees, EntryFor, WorkAgrees,
          LibraryKept, ObjectKept, SweepAgrees
    <2> QED BY <2>1, <2>2
  <1>3. ASSUME NEW j \in Jobs, StartTask(j) PROVE JobInv(k)'
    <2>0. store' = IF Present(j) THEN [store EXCEPT ![j] = CompilingJob] ELSE store
      BY <1>3, <1>t, StoreOps DEF StartTask, TypeOK
    <2>1. CASE k = j
      BY <1>3, <1>t, <1>e, <1>p, <2>0, <2>1
      DEF StartTask, sweepVars, TypeOK, StoreAgrees, EntryFor, WorkAgrees,
          LibraryKept, ObjectKept, SweepAgrees
    <2>2. CASE k # j
      BY <1>3, <1>t, <2>0, <2>2
      DEF StartTask, sweepVars, TypeOK, StoreAgrees, EntryFor, WorkAgrees,
          LibraryKept, ObjectKept, SweepAgrees
    <2> QED BY <2>1, <2>2
  <1>4. ASSUME NEW j \in Jobs, TaskResult(j) PROVE JobInv(k)'
    <2>0. store' = IF Present(j)
                   THEN [store EXCEPT ![j] = CASE work[j] = "ok" -> CompleteJob
                                               [] work[j] = "failed" -> FailedJob("compile")
                                               [] work[j] = "panicked" -> FailedJob("panic")]
                   ELSE store
      BY <1>4, <1>t, StoreOps DEF TaskResult, TypeOK, Finished
    <2>1. CASE k = j
      BY <1>4, <1>t, <1>e, <1>f, <1>p, <2>0, <2>1
      DEF TaskResult, Finished, diskVars, sweepVars, TypeOK, StoreAgrees, EntryFor, WorkAgrees,
          LibraryKept, ObjectKept, SweepAgrees
    <2>2. CASE k # j
      BY <1>4, <1>t, <2>0, <2>2
      DEF TaskResult, diskVars, sweepVars, TypeOK, StoreAgrees, EntryFor, WorkAgrees,
          LibraryKept, ObjectKept, SweepAgrees
    <2> QED BY <2>1, <2>2
  <1>5. ASSUME NEW j \in Jobs, TimeoutElapses(j) PROVE JobInv(k)'
    BY <1>5, <1>t
    DEF TimeoutElapses, diskVars, sweepVars, TypeOK, StoreAgrees, EntryFor, WorkAgrees,
        LibraryKept, ObjectKept, SweepAgrees
  <1>6. ASSUME NEW j \in Jobs, MarkTimedOut(j) PROVE JobInv(k)'
    <2>0. store' = IF Present(j) THEN [store EXCEPT ![j] = FailedJob("timeout")] ELSE store
      BY <1>6, <1>t, StoreOps DEF MarkTimedOut, TypeOK
    <2>1. CASE k = j
      BY <1>6, <1>t, <1>f, <1>p, <2>0, <2>1
      DEF MarkTimedOut, diskVars, sweepVars, TypeOK, StoreAgrees, EntryFor, WorkAgrees,
          LibraryKept, ObjectKept, SweepAgrees
    <2>2. CASE k # j
      BY <1>6, <1>t, <2>0, <2>2
      DEF MarkTimedOut, diskVars, sweepVars, TypeOK, StoreAgrees, EntryFor, WorkAgrees,
          LibraryKept, ObjectKept, SweepAgrees
    <2> QED BY <2>1, <2>2
  <1>7. ASSUME NEW j \in Jobs, WorkStep(j) PROVE JobInv(k)'
    <2>1. UNCHANGED <<store, age, task, sweep, expired, victim>>
      BY <1>7 DEF WorkStep, BeginWork, RejectSource, WriteObject, Link, RemoveObject, RemoveFile,
                  taskVars, sweepVars
    <2>2. StoreAgrees(k)' /\ SweepAgrees(k)'
      BY <1>t, <2>1 DEF StoreAgrees, EntryFor, SweepAgrees
    <2>3. WorkAgrees(k)'
      BY <1>7, <1>t, <2>1 DEF WorkStep, BeginWork, RejectSource, WriteObject, Link,
                  RemoveObject, RemoveFile,
                  WorkAgrees, TypeOK, Finished
    <2>5. ObjectKept(k)'
      BY <1>7, <1>t DEF WorkStep, BeginWork, RejectSource, WriteObject, Link, RemoveObject,
                  RemoveFile, ObjectKept, Compiling, TypeOK
    <2>4. LibraryKept(k)'
      BY <1>7, <1>t, <2>1 DEF WorkStep, BeginWork, RejectSource, WriteObject, Link,
                  RemoveObject, RemoveFile,
                  WorkAgrees, LibraryKept, TypeOK
    <2> QED BY <2>2, <2>3, <2>4, <2>5
  <1>8. CASE Collect
    BY <1>8, <1>t, <1>p
    DEF Collect, IsExpired, taskVars, diskVars, TypeOK, StoreAgrees, EntryFor, WorkAgrees,
        LibraryKept, ObjectKept, SweepAgrees
  <1>9. ASSUME NEW j \in Jobs, RemoveExpired(j) PROVE JobInv(k)'
    <2>1. store[j].artifact = TRUE <=> store[j] = CompleteJob
      BY <1>9, <1>t, EntryStatus DEF RemoveExpired, StoreAgrees, EntryFor, SweepAgrees
    <2>2. store[j] = CompleteJob <=> task[j] = "completed"
      BY <1>9, <1>t, EntryStatus DEF RemoveExpired, StoreAgrees, EntryFor, SweepAgrees
    <2>3. CASE k = j
      BY <1>9, <1>t, <2>1, <2>2, <2>3, CloudAssumption
      DEF RemoveExpired, taskVars, diskVars, TypeOK, StoreAgrees, EntryFor, WorkAgrees,
          LibraryKept, ObjectKept, SweepAgrees
    <2>4. CASE k # j
      BY <1>9, <1>t, <2>4, CloudAssumption
      DEF RemoveExpired, taskVars, diskVars, TypeOK, StoreAgrees, EntryFor, WorkAgrees,
          LibraryKept, ObjectKept, SweepAgrees
    <2> QED BY <2>3, <2>4
  <1>10. CASE DeleteArtifact
    BY <1>10, <1>t, CloudAssumption
    DEF DeleteArtifact, RemoveFile, taskVars, TypeOK, StoreAgrees, EntryFor, WorkAgrees,
        LibraryKept, ObjectKept, SweepAgrees
  <1>11. CASE FinishSweep
    BY <1>11, <1>t
    DEF FinishSweep, taskVars, diskVars, TypeOK, StoreAgrees, EntryFor, WorkAgrees,
        LibraryKept, ObjectKept, SweepAgrees
  <1>12. CASE Tick
    <2>1. age[k] > TTL => age'[k] > TTL
      BY <1>12, <1>t, CloudAssumption DEF Tick, Advance, TypeOK
    <2> QED BY <1>12, <1>t, <2>1
        DEF Tick, diskVars, StoreAgrees, EntryFor, WorkAgrees, LibraryKept, ObjectKept, SweepAgrees
  <1>13. ASSUME NEW c \in Clients, NEW j \in Jobs,
                RejectCompile(c) \/ Status(c, j) \/ DownloadGet(c, j) \/ DownloadRead(c)
         PROVE  JobInv(k)'
    BY <1>1, <1>13 DEF RejectCompile, Status, DownloadGet, DownloadRead, jobView,
                       taskVars, diskVars, sweepVars
  <1>14. CASE AcceptFails
    BY <1>1, <1>14 DEF AcceptFails, jobView, taskVars, diskVars, sweepVars
  <1>15. CASE UNCHANGED vars
    BY <1>1, <1>15 DEF vars, jobView
  <1> QED
    BY <1>2, <1>3, <1>4, <1>5, <1>6, <1>7, <1>8, <1>9, <1>10, <1>11, <1>12, <1>13, <1>14, <1>15
    DEF Next, Submit, Read, TaskStep, SweepStep, Clients

-----------------------------------------------------------------------------
\* What a step may do to one job's entry: it is decided once, only an expired
\* entry is removed, and it never comes back.
JobFinal(k) ==
  /\ task[k] = "completed" => task'[k] = "completed"
  /\ task[k] # "none" => task'[k] # "none"
  /\ task[k] # "none" /\ store[k] = Absent => store'[k] = Absent
  /\ store[k] \in FailedJobs \cup {CompleteJob} => store'[k] \in {store[k], Absent}
  /\ store[k] # Absent /\ store'[k] = Absent => age[k] > TTL

\* Every step respects what was decided about each job.
LEMMA FinalStep == IInv /\ [Next]_vars => \A k \in Jobs : JobFinal(k)
  <1> SUFFICES ASSUME IInv, [Next]_vars, NEW k \in Jobs PROVE JobFinal(k)
    OBVIOUS
  <1> USE DEF JobFinal
  <1>t. TypeOK /\ JobInv(k) /\ \A j \in Jobs : JobInv(j)
    BY DEF IInv, JobInv
  <1>e. CompleteJob # Absent /\ CompilingJob # Absent /\ NewJob # Absent
    BY EntryStatus
  <1>g. CompilingJob \notin FailedJobs \cup {CompleteJob} /\ NewJob \notin FailedJobs \cup {CompleteJob}
    BY EntryStatus
  <1>f. /\ \A e \in FailedJobs : e # Absent
        /\ FailedJob("compile") \in FailedJobs
        /\ FailedJob("panic") \in FailedJobs
        /\ FailedJob("timeout") \in FailedJobs
    BY EntryStatus DEF FailedJobs
  <1>p. \A j \in Jobs : Present(j) <=> store[j] # Absent
    BY <1>t, StoreOps DEF TypeOK, JobInv
  <1>1. ASSUME UNCHANGED <<store, task>> PROVE JobFinal(k)
    BY <1>1
  <1>2. ASSUME NEW c \in Submitters, NEW j \in Jobs, AcceptCompile(c, j) PROVE JobFinal(k)
    <2>1. task[j] = "none" => store[j] = Absent
      BY <1>t DEF JobInv, StoreAgrees, EntryFor
    <2> QED BY <1>2, <1>t, <1>e, <1>f, <2>1 DEF AcceptCompile, TypeOK
  <1>3. ASSUME NEW j \in Jobs, StartTask(j) PROVE JobFinal(k)
    <2>0. store' = IF Present(j) THEN [store EXCEPT ![j] = CompilingJob] ELSE store
      BY <1>3, <1>t, StoreOps DEF StartTask, TypeOK, JobInv
    <2>1. Present(j) => store[j] = NewJob
      BY <1>3, <1>t, <1>p DEF StartTask, JobInv, StoreAgrees, EntryFor
    <2> QED BY <1>3, <1>t, <1>e, <1>g, <1>p, <2>0, <2>1 DEF StartTask, TypeOK
  <1>4. ASSUME NEW j \in Jobs, TaskResult(j) PROVE JobFinal(k)
    <2>0. store' = IF Present(j)
                   THEN [store EXCEPT ![j] = CASE work[j] = "ok" -> CompleteJob
                                               [] work[j] = "failed" -> FailedJob("compile")
                                               [] work[j] = "panicked" -> FailedJob("panic")]
                   ELSE store
      BY <1>4, <1>t, StoreOps DEF TaskResult, TypeOK, Finished, JobInv
    <2>1. Present(j) => store[j] = CompilingJob
      BY <1>4, <1>t, <1>p DEF TaskResult, JobInv, StoreAgrees, EntryFor
    <2>2. store'[k] = store[k] \/ (k = j /\ Present(j) /\ store'[k] \in FailedJobs \cup {CompleteJob})
      BY <1>4, <1>t, <1>f, <2>0 DEF TypeOK, TaskResult, Finished
    <2>3. task'[k] = task[k] \/ (k = j /\ task'[k] \in {"completed", "errored", "lost"})
      BY <1>4, <1>t DEF TaskResult, TypeOK
    <2> QED BY <1>4, <1>e, <1>f, <1>g, <1>p, <2>1, <2>2, <2>3 DEF TaskResult
  <1>5. ASSUME NEW j \in Jobs, TimeoutElapses(j) PROVE JobFinal(k)
    BY <1>5, <1>t DEF TimeoutElapses, TypeOK
  <1>6. ASSUME NEW j \in Jobs, MarkTimedOut(j) PROVE JobFinal(k)
    <2>0. store' = IF Present(j) THEN [store EXCEPT ![j] = FailedJob("timeout")] ELSE store
      BY <1>6, <1>t, StoreOps DEF MarkTimedOut, TypeOK, JobInv
    <2>1. Present(j) => store[j] = CompilingJob
      BY <1>6, <1>t, <1>p DEF MarkTimedOut, JobInv, StoreAgrees, EntryFor
    <2> QED BY <1>6, <1>t, <1>f, <1>g, <1>p, <2>0, <2>1 DEF MarkTimedOut, TypeOK
  <1>7. ASSUME NEW j \in Jobs, WorkStep(j) PROVE JobFinal(k)
    BY <1>1, <1>7 DEF WorkStep, BeginWork, RejectSource, WriteObject, Link, RemoveObject,
                      RemoveFile, taskVars
  <1>8. ASSUME NEW j \in Jobs, RemoveExpired(j) PROVE JobFinal(k)
    <2>1. age[j] > TTL
      BY <1>8, <1>t DEF RemoveExpired, JobInv, SweepAgrees
    <2> QED BY <1>8, <1>t, <2>1 DEF RemoveExpired, taskVars, TypeOK
  <1>9. CASE Collect \/ DeleteArtifact \/ FinishSweep \/ Tick \/ AcceptFails \/ UNCHANGED vars
    BY <1>1, <1>9 DEF Collect, DeleteArtifact, FinishSweep, Tick, AcceptFails, taskVars, vars
  <1>10. ASSUME NEW c \in Clients, NEW j \in Jobs,
                RejectCompile(c) \/ Status(c, j) \/ DownloadGet(c, j) \/ DownloadRead(c)
         PROVE  JobFinal(k)
    BY <1>1, <1>10 DEF RejectCompile, Status, DownloadGet, DownloadRead, taskVars
  <1> QED
    BY <1>2, <1>3, <1>4, <1>5, <1>6, <1>7, <1>8, <1>9, <1>10
    DEF Next, Submit, Read, TaskStep, SweepStep, Clients

\* Every step keeps what the invariant says of each client.
LEMMA ClientStep == IInv /\ [Next]_vars => \A c \in Clients : ClientAgrees(c)'
  <1> SUFFICES ASSUME IInv, [Next]_vars, NEW c \in Clients PROVE ClientAgrees(c)'
    OBVIOUS
  <1>t. TypeOK /\ ClientAgrees(c) /\ \A j \in Jobs : JobInv(j) /\ JobFinal(j)
    BY FinalStep DEF IInv, JobInv
  <1>p. \A j \in Jobs : Present(j) <=> store[j] # Absent
    BY <1>t, StoreOps DEF TypeOK, JobInv
  <1>0. ASSUME client'[c] = client[c] \/ client'[c].at = "idle",
               reply'[c] = reply[c] \/ ~(reply'[c].op = "download" /\ reply'[c].code = 500)
        PROVE  ClientAgrees(c)'
    BY <1>0, <1>t DEF ClientAgrees, JobFinal
  <1>1. ASSUME NEW d \in Submitters, RejectCompile(d) PROVE ClientAgrees(c)'
    BY <1>0, <1>1, <1>t DEF RejectCompile, TypeOK, Answer
  <1>2. ASSUME NEW d \in Submitters, NEW j \in Jobs, AcceptCompile(d, j) PROVE ClientAgrees(c)'
    BY <1>0, <1>2, <1>t DEF AcceptCompile, TypeOK, Answer
  <1>3. ASSUME NEW d \in Readers, NEW j \in Jobs, Status(d, j) PROVE ClientAgrees(c)'
    BY <1>0, <1>3, <1>t DEF Status, TypeOK, Answer
  <1>4. ASSUME NEW d \in Readers, NEW j \in Jobs, DownloadGet(d, j) PROVE ClientAgrees(c)'
    <2>1. store[j].status = "complete" => store[j] = CompleteJob /\ task[j] = "completed"
      BY <1>t, EntryStatus DEF JobInv, StoreAgrees, EntryFor
    <2>2. ASSUME store[j].status = "complete" PROVE ClientAgrees(c)'
      <3>1. client' = [client EXCEPT ![d] = [at |-> "reading", job |-> j]] /\ UNCHANGED <<reply, store, task>>
        BY <1>4, <2>1, <2>2, EntryStatus DEF DownloadGet, taskVars
      <3> QED BY <1>t, <2>1, <2>2, <3>1 DEF ClientAgrees, TypeOK, Clients
    <2>3. ASSUME store[j].status # "complete" PROVE ClientAgrees(c)'
      <3>1. DownloadRefused(j).code \in {404, 409}
        BY <2>3 DEF DownloadRefused, Answer
      <3> QED BY <1>0, <1>4, <1>t, <2>3, <3>1 DEF DownloadGet, TypeOK
    <2> QED BY <2>2, <2>3
  <1>5. ASSUME NEW d \in Readers, DownloadRead(d) PROVE ClientAgrees(c)'
    <2>1. CASE c # d
      BY <1>0, <1>5, <1>t, <2>1 DEF DownloadRead, TypeOK
    <2>2. CASE c = d
      <3> DEFINE j == client[c].job
      <3>1. j \in Jobs /\ task[j] = "completed"
        BY <1>5, <1>t, <2>2 DEF DownloadRead, ClientAgrees
      <3>2. "lib" \in files[j] \/ store[j] = Absent
        BY <1>t, <3>1 DEF JobInv, WorkAgrees, LibraryKept
      <3>3. /\ client'[c].at = "idle"
            /\ reply'[c] = IF "lib" \in files[j] THEN Answer("download", j, 200, "artifact")
                                                 ELSE Answer("download", j, 500, "unreadable")
            /\ UNCHANGED <<store, task>>
        BY <1>5, <1>t, <2>2 DEF DownloadRead, TypeOK, taskVars
      <3> QED BY <3>1, <3>2, <3>3 DEF ClientAgrees, Answer
    <2> QED BY <2>1, <2>2
  <1>6. ASSUME UNCHANGED httpVars PROVE ClientAgrees(c)'
    BY <1>0, <1>6 DEF httpVars
  <1>7. ASSUME NEW j \in Jobs, TaskStep(j) \/ WorkStep(j) PROVE ClientAgrees(c)'
    BY <1>6, <1>7 DEF TaskStep, WorkStep, StartTask, TaskResult, TimeoutElapses, MarkTimedOut,
                      BeginWork, RejectSource, WriteObject, Link, RemoveObject, RemoveFile
  <1>8. CASE SweepStep \/ Tick \/ AcceptFails \/ UNCHANGED vars
    BY <1>6, <1>8 DEF SweepStep, Collect, RemoveExpired, DeleteArtifact, RemoveFile,
                      FinishSweep, Tick,
                      AcceptFails, vars, httpVars
  <1> QED BY <1>1, <1>2, <1>3, <1>4, <1>5, <1>7, <1>8 DEF Next, Submit, Read

-----------------------------------------------------------------------------
\* What the invariant implies of one state.
LEMMA IInvImplies ==
  IInv => ServableWhileListed /\ DownloadFailsOnlyAfterRemoval /\ LeftoversAccounted
  <1> SUFFICES ASSUME IInv
               PROVE  ServableWhileListed /\ DownloadFailsOnlyAfterRemoval /\ LeftoversAccounted
    OBVIOUS
  <1>t. TypeOK /\ \A j \in Jobs : JobInv(j)
    BY DEF IInv, JobInv
  <1>c. \A j \in Jobs : store[j].status = "complete" => task[j] = "completed" /\ store[j] # Absent
    BY <1>t, EntryStatus DEF JobInv, StoreAgrees, EntryFor
  <1>1. ServableWhileListed
    BY <1>t, <1>c DEF ServableWhileListed, JobInv, WorkAgrees, LibraryKept
  <1>2. DownloadFailsOnlyAfterRemoval
    BY EntryStatus DEF IInv, ClientAgrees, DownloadFailsOnlyAfterRemoval, Present
  <1>3. ASSUME NEW j \in Jobs, "lib" \in files[j], work[j] # "linked"
        PROVE  \/ task[j] \in {"waiting", "expiring"}
               \/ store[j].status = "complete"
               \/ victim = j
               \/ task[j] \in {"timedout", "lost"}
               \/ "lib" \in kept[j]
    <2>1. work[j] = "ok" /\ task[j] \in TaskState \ {"none", "spawned", "errored"}
      BY <1>t, <1>3 DEF JobInv, WorkAgrees, LibraryKept, TypeOK
    <2>2. task[j] = "completed" => store[j] = CompleteJob \/ victim = j \/ "lib" \in kept[j]
      BY <1>t, <1>3 DEF JobInv, StoreAgrees, EntryFor, LibraryKept
    <2> QED BY <2>1, <2>2, EntryStatus DEF TaskState
  <1>4. \A j \in Jobs : "obj" \in files[j] => work[j] # "ok" \/ "obj" \in kept[j]
    BY <1>t DEF JobInv, ObjectKept
  <1>5. ASSUME NEW j \in Jobs, work[j] \in Compiling
        PROVE  task[j] \in {"waiting", "expiring", "timedout"}
    <2>1. task[j] \in TaskState /\ WorkAgrees(j)
      BY <1>t DEF JobInv, TypeOK
    <2> QED BY <1>5, <2>1 DEF WorkAgrees, TaskState, Compiling, Finished
  <1>6. LeftoversAccounted
    BY <1>3, <1>4, <1>5 DEF LeftoversAccounted
  <1> QED BY <1>1, <1>2, <1>6

\* IInv is an inductive invariant of the service, for every set of jobs and
\* clients and every setting of its clocks and of the pool.
THEOREM InvariantHolds == Spec => []IInv
  <1>1. Init => IInv
    BY InitIInv
  <1>2. IInv /\ [Next]_vars => IInv'
    BY TypeStep, JobStep, ClientStep DEF IInv, JobInv
  <1> QED BY <1>1, <1>2, PTL DEF Spec

\* The store only ever holds well-formed entries, and so on for every variable.
THEOREM TypeCorrect == Spec => []TypeOK
  <1>1. IInv => TypeOK
    BY DEF IInv
  <1> QED BY <1>1, InvariantHolds, PTL

\* A job listed as complete can be served: its library is on disk.
THEOREM ServableCorrect == Spec => []ServableWhileListed
  BY IInvImplies, InvariantHolds, PTL

\* handle_download answers 500 only for a job the sweep removed meanwhile.
THEOREM DownloadCorrect == Spec => []DownloadFailsOnlyAfterRemoval
  BY IInvImplies, InvariantHolds, PTL

\* Whatever a job keeps on disk and in the pool is in somebody's hands, or was
\* abandoned in one of the ways known: a library by a compilation that timed out
\* or whose job was removed, or because the sweep could not delete it; an object
\* file by a failed compilation, or because it could not be removed; and a thread
\* only by a timeout.
THEOREM LeftoversCorrect == Spec => []LeftoversAccounted
  BY IInvImplies, InvariantHolds, PTL

\* The late end of a compilation never changes a decided job, nor brings back a
\* removed one.
THEOREM OutcomeCorrect == Spec => OutcomeIsFinal
  <1>1. IInv /\ [Next]_vars
          => [\A j \in Jobs :
                /\ store[j].status \in {"complete", "failed"} => store'[j] \in {store[j], Absent}
                /\ task[j] # "none" /\ ~Present(j) => store'[j] = Absent]_vars
    <2> SUFFICES ASSUME IInv, [Next]_vars, NEW j \in Jobs
                 PROVE  /\ store[j].status \in {"complete", "failed"}
                             => store'[j] \in {store[j], Absent}
                        /\ task[j] # "none" /\ ~Present(j) => store'[j] = Absent
      OBVIOUS
    <2>1. StoreAgrees(j) /\ JobFinal(j) /\ TypeOK
      BY FinalStep DEF IInv
    <2>2. store[j].status \in {"complete", "failed"} => store[j] \in FailedJobs \cup {CompleteJob}
      BY <2>1, EntryStatus DEF StoreAgrees, EntryFor
    <2>3. Present(j) <=> store[j] # Absent
      BY <2>1, StoreOps DEF TypeOK
    <2> QED BY <2>1, <2>2, <2>3 DEF JobFinal
  <1> QED BY <1>1, InvariantHolds, PTL DEF Spec, OutcomeIsFinal

\* The sweep removes a job only when its time to live is over.
THEOREM ExpiryCorrect == Spec => OnlyExpiredRemoved
  <1>1. IInv /\ [Next]_vars
          => [\A j \in Jobs : Present(j) /\ store'[j] = Absent => age[j] > TTL]_vars
    <2> SUFFICES ASSUME IInv, [Next]_vars, NEW j \in Jobs
                 PROVE  Present(j) /\ store'[j] = Absent => age[j] > TTL
      OBVIOUS
    <2>1. StoreAgrees(j) /\ JobFinal(j) /\ TypeOK
      BY FinalStep DEF IInv
    <2>2. Present(j) <=> store[j] # Absent
      BY <2>1, StoreOps DEF TypeOK
    <2> QED BY <2>1, <2>2 DEF JobFinal
  <1> QED BY <1>1, InvariantHolds, PTL DEF Spec, OnlyExpiredRemoved

-----------------------------------------------------------------------------
(***************************************************************************)
(* The service implements the safety part of JobLifecycle.                 *)
(***************************************************************************)
lifePhase == [j \in Jobs |-> PhaseOf(j)]
lifeAvailable == {j \in Jobs : task[j] = "completed" /\ "lib" \in files[j] \ kept[j]}

\* A step that only touches job j's entry moves j's phase alone.
LEMMA PhaseMoves ==
  ASSUME NEW j \in Jobs, \A k \in Jobs \ {j} : PhaseOf(k)' = PhaseOf(k)
  PROVE  lifePhase' = [lifePhase EXCEPT ![j] = PhaseOf(j)']
  BY DEF lifePhase

\* A step that changes no job's phase changes nothing of the life cycle's.
LEMMA PhaseStutters ==
  ASSUME \A k \in Jobs : PhaseOf(k)' = PhaseOf(k) PROVE lifePhase' = lifePhase
  BY DEF lifePhase

\* The phase of a job whose task stands at task[j], in the terms of the invariant.
LEMMA PhaseFacts ==
  ASSUME TypeOK, NEW j \in Jobs, StoreAgrees(j)
  PROVE  /\ store[j] = Absent => PhaseOf(j) = IF task[j] = "none" THEN "unknown" ELSE "gone"
         /\ store[j] = NewJob => PhaseOf(j) = "pending"
         /\ store[j] = CompilingJob => PhaseOf(j) = "compiling"
         /\ store[j] = CompleteJob => PhaseOf(j) = "complete"
         /\ store[j] \in FailedJobs => PhaseOf(j) = "failed"
  BY EntryStatus DEF PhaseOf, Present

\* Every step of the service is a step of the life cycle, or none of its business.
LEMMA LifeStep ==
  IInv /\ IInv' /\ [Next]_vars => [Life!Next]_(Life!vars)
  <1> SUFFICES ASSUME IInv, IInv', [Next]_vars PROVE [Life!Next]_(Life!vars)
    OBVIOUS
  <1> DEFINE L(j) == Life!Accept(j) \/ Life!Settle(j) \/ Life!Discard(j) \/ Life!Reclaim(j)
  <1>t. TypeOK /\ TypeOK' /\ \A j \in Jobs : JobInv(j) /\ JobInv(j)'
    BY DEF IInv, JobInv
  <1>p. \A j \in Jobs : Present(j) <=> store[j] # Absent
    BY <1>t, StoreOps DEF TypeOK, JobInv
  <1>q. \A j \in Jobs :
          /\ store[j] = Absent => PhaseOf(j) = IF task[j] = "none" THEN "unknown" ELSE "gone"
          /\ store[j] = NewJob => PhaseOf(j) = "pending"
          /\ store[j] = CompilingJob => PhaseOf(j) = "compiling"
          /\ store[j] = CompleteJob => PhaseOf(j) = "complete"
          /\ store[j] \in FailedJobs => PhaseOf(j) = "failed"
    BY <1>t, PhaseFacts DEF JobInv
  <1>r. \A j \in Jobs :
          /\ store'[j] = Absent => PhaseOf(j)' = IF task'[j] = "none" THEN "unknown" ELSE "gone"
          /\ store'[j] = NewJob => PhaseOf(j)' = "pending"
          /\ store'[j] = CompilingJob => PhaseOf(j)' = "compiling"
          /\ store'[j] = CompleteJob => PhaseOf(j)' = "complete"
          /\ store'[j] \in FailedJobs => PhaseOf(j)' = "failed"
    <2>1. \A j \in Jobs : StoreAgrees(j)'
      BY <1>t DEF JobInv
    <2> QED BY <1>t, <2>1, EntryStatus DEF PhaseOf, Present
  <1>f. /\ FailedJob("compile") \in FailedJobs
        /\ FailedJob("panic") \in FailedJobs
        /\ FailedJob("timeout") \in FailedJobs
    BY DEF FailedJobs
  <1>s. ASSUME lifePhase' = lifePhase, lifeAvailable' = lifeAvailable, up' = up
        PROVE  [Life!Next]_(Life!vars)
    BY <1>s DEF Life!vars, lifePhase, lifeAvailable
  <1>n. ASSUME NEW j \in Jobs, L(j) PROVE [Life!Next]_(Life!vars)
    BY <1>n DEF Life!Next
  <1>m. ASSUME NEW j \in Jobs,
               \A k \in Jobs \ {j} : store'[k] = store[k] /\ task'[k] = task[k]
        PROVE  lifePhase' = [lifePhase EXCEPT ![j] = PhaseOf(j)']
    <2>1. \A k \in Jobs \ {j} : PhaseOf(k)' = PhaseOf(k)
      BY <1>m DEF PhaseOf, Present
    <2> QED BY <2>1, PhaseMoves
  <1>u. ASSUME UNCHANGED <<store, task, files, kept, up>> PROVE [Life!Next]_(Life!vars)
    BY <1>s, <1>u DEF lifePhase, lifeAvailable, PhaseOf, Present
  <1>1. ASSUME NEW c \in Submitters, NEW j \in Jobs, AcceptCompile(c, j)
        PROVE  [Life!Next]_(Life!vars)
    <2>1. store[j] = Absent /\ task[j] = "none" /\ store'[j] = NewJob /\ up = TRUE /\ up' = up
      BY <1>1, <1>t DEF AcceptCompile, JobInv, StoreAgrees, EntryFor, Idle, TypeOK
    <2>2. PhaseOf(j) = "unknown" /\ PhaseOf(j)' = "pending"
      BY <1>q, <1>r, <2>1
    <2>3. lifePhase' = [lifePhase EXCEPT ![j] = "pending"]
      BY <1>1, <1>m, <1>t, <2>2 DEF AcceptCompile, TypeOK
    <2>4. lifeAvailable' = lifeAvailable
      BY <1>1, <1>t DEF AcceptCompile, TypeOK, lifeAvailable, diskVars
    <2>5. Life!Accept(j)
      BY <2>1, <2>2, <2>3, <2>4 DEF Life!Accept, Life!Move, lifePhase, lifeAvailable
    <2> QED BY <1>n, <2>5
  <1>2. ASSUME NEW j \in Jobs, StartTask(j) PROVE [Life!Next]_(Life!vars)
    <2>0. /\ store' = IF Present(j) THEN [store EXCEPT ![j] = CompilingJob] ELSE store
          /\ Present(j) => store[j] = NewJob
      BY <1>2, <1>p, <1>t, StoreOps DEF StartTask, TypeOK, JobInv, StoreAgrees, EntryFor
    <2>1. lifeAvailable' = lifeAvailable /\ up = TRUE /\ up' = up
      BY <1>2, <1>t DEF StartTask, TypeOK, lifeAvailable
    <2>2. lifePhase' = [lifePhase EXCEPT ![j] = PhaseOf(j)']
      BY <1>2, <1>m, <1>t, <2>0 DEF StartTask, TypeOK
    <2>3. CASE Present(j)
      <3>1. PhaseOf(j) = "pending" /\ PhaseOf(j)' = "compiling"
        BY <1>q, <1>r, <1>t, <2>0, <2>3 DEF TypeOK
      <3>2. Life!Begin(j)
        BY <2>1, <2>2, <3>1 DEF Life!Begin, Life!Move, lifePhase, lifeAvailable
      <3> QED BY <1>n, <3>2 DEF Life!Settle
    <2>4. CASE ~Present(j)
      <3>1. PhaseOf(j)' = PhaseOf(j)
        BY <1>2, <1>p, <1>q, <1>r, <1>t, <2>0, <2>4 DEF TypeOK, StartTask
      <3>2. lifePhase' = lifePhase
        BY <2>2, <3>1 DEF lifePhase
      <3> QED BY <1>s, <2>1, <3>2
    <2> QED BY <2>3, <2>4
  <1>3. ASSUME NEW j \in Jobs, TaskResult(j) PROVE [Life!Next]_(Life!vars)
    <2>0. /\ store' = IF Present(j)
                   THEN [store EXCEPT ![j] = CASE work[j] = "ok" -> CompleteJob
                                               [] work[j] = "failed" -> FailedJob("compile")
                                               [] work[j] = "panicked" -> FailedJob("panic")]
                   ELSE store
          /\ Present(j) => store[j] = CompilingJob
      BY <1>3, <1>p, <1>t, StoreOps
      DEF TaskResult, TypeOK, Finished, JobInv, StoreAgrees, EntryFor
    <2>1. lifePhase' = [lifePhase EXCEPT ![j] = PhaseOf(j)'] /\ up = TRUE /\ up' = up
      BY <1>3, <1>m, <1>t, <2>0 DEF TaskResult, TypeOK
    <2>2. CASE Present(j) /\ work[j] = "ok"
      <3>1. /\ store'[j] = CompleteJob /\ task' = [task EXCEPT ![j] = "completed"]
            /\ UNCHANGED <<files, kept>>
        BY <1>3, <1>t, <2>0, <2>2 DEF TaskResult, TypeOK, diskVars
      <3>2. "lib" \in files[j] \ kept[j]
        BY <1>3, <1>t, <2>2 DEF TaskResult, JobInv, LibraryKept
      <3>3. lifeAvailable' = lifeAvailable \cup {j}
        BY <1>t, <3>1, <3>2 DEF lifeAvailable, TypeOK
      <3>4. PhaseOf(j) = "compiling" /\ PhaseOf(j)' = "complete"
        BY <1>q, <1>r, <2>0, <2>2, <3>1
      <3>5. Life!Complete(j)
        BY <2>1, <3>3, <3>4 DEF Life!Complete, Life!Move, lifePhase, lifeAvailable
      <3> QED BY <1>n, <3>5 DEF Life!Settle
    <2>3. CASE ~(Present(j) /\ work[j] = "ok")
      <3>1. task'[j] # "completed" /\ task[j] = "waiting" /\ UNCHANGED <<files, kept>>
        BY <1>3, <1>t, <2>3 DEF TaskResult, TypeOK, diskVars
      <3>2. lifeAvailable' = lifeAvailable
        BY <1>3, <1>t, <3>1 DEF TaskResult, lifeAvailable, TypeOK
      <3>3. CASE Present(j)
        <4>1. store'[j] \in FailedJobs
          BY <1>3, <1>f, <1>t, <2>0, <2>3, <3>3 DEF TaskResult, Finished, TypeOK
        <4>2. PhaseOf(j) = "compiling" /\ PhaseOf(j)' = "failed"
          BY <1>q, <1>r, <2>0, <3>3, <4>1
        <4>3. Life!Fail(j)
          BY <2>1, <3>2, <4>2 DEF Life!Fail, Life!Move, lifePhase, lifeAvailable
        <4> QED BY <1>n, <4>3 DEF Life!Settle
      <3>4. CASE ~Present(j)
        <4>1. store[j] = Absent /\ store'[j] = Absent /\ task'[j] # "none"
          BY <1>3, <1>p, <1>t, <2>0, <3>4 DEF TaskResult, TypeOK
        <4>2. PhaseOf(j) = "gone" /\ PhaseOf(j)' = "gone"
          BY <1>q, <1>r, <3>1, <4>1
        <4>3. lifePhase' = lifePhase
          BY <2>1, <4>2 DEF lifePhase
        <4> QED BY <1>s, <2>1, <3>2, <4>3
      <3> QED BY <3>3, <3>4
    <2> QED BY <2>2, <2>3
  <1>4. ASSUME NEW j \in Jobs, TimeoutElapses(j) PROVE [Life!Next]_(Life!vars)
    <2>1. lifeAvailable' = lifeAvailable /\ up' = up
      BY <1>4, <1>t DEF TimeoutElapses, TypeOK, lifeAvailable, diskVars
    <2>2. \A k \in Jobs : PhaseOf(k)' = PhaseOf(k)
      BY <1>4, <1>t DEF TimeoutElapses, TypeOK, PhaseOf, Present
    <2> QED BY <1>s, <2>1, <2>2, PhaseStutters
  <1>5. ASSUME NEW j \in Jobs, MarkTimedOut(j) PROVE [Life!Next]_(Life!vars)
    <2>0. /\ store' = IF Present(j) THEN [store EXCEPT ![j] = FailedJob("timeout")] ELSE store
          /\ Present(j) => store[j] = CompilingJob
      BY <1>5, <1>p, <1>t, StoreOps DEF MarkTimedOut, TypeOK, JobInv, StoreAgrees, EntryFor
    <2>1. lifeAvailable' = lifeAvailable /\ up' = up
      BY <1>5, <1>t DEF MarkTimedOut, TypeOK, lifeAvailable, diskVars
    <2>2. lifePhase' = [lifePhase EXCEPT ![j] = PhaseOf(j)']
      BY <1>5, <1>m, <1>t, <2>0 DEF MarkTimedOut, TypeOK
    <2>3. CASE Present(j)
      <3>1. store'[j] \in FailedJobs
        BY <1>f, <1>t, <2>0, <2>3 DEF TypeOK
      <3>2. PhaseOf(j) = "compiling" /\ PhaseOf(j)' = "failed"
        BY <1>q, <1>r, <2>0, <2>3, <3>1
      <3>3. Life!Fail(j)
        BY <2>1, <2>2, <3>2 DEF Life!Fail, Life!Move, lifePhase, lifeAvailable
      <3> QED BY <1>n, <3>3 DEF Life!Settle
    <2>4. CASE ~Present(j)
      <3>1. PhaseOf(j)' = PhaseOf(j)
        BY <1>5, <1>p, <1>q, <1>r, <1>t, <2>0, <2>4 DEF TypeOK, MarkTimedOut
      <3>2. lifePhase' = lifePhase
        BY <2>2, <3>1 DEF lifePhase
      <3> QED BY <1>s, <2>1, <3>2
    <2> QED BY <2>3, <2>4
  <1>6. ASSUME NEW j \in Jobs, WorkStep(j) PROVE [Life!Next]_(Life!vars)
    <2>1. UNCHANGED <<store, task, up>>
      BY <1>6 DEF WorkStep, BeginWork, RejectSource, WriteObject, Link, RemoveObject,
                      RemoveFile, taskVars
    <2>2. lifePhase' = lifePhase
      BY <2>1 DEF lifePhase, PhaseOf, Present
    <2>3. \A k \in Jobs : task[k] = "completed" =>
            ("lib" \in files'[k] \ kept'[k] <=> "lib" \in files[k] \ kept[k])
      BY <1>6, <1>t DEF WorkStep, BeginWork, RejectSource, WriteObject, Link, RemoveObject,
                        RemoveFile, TypeOK, JobInv, WorkAgrees
    <2>4. lifeAvailable' = lifeAvailable
      BY <2>1, <2>3 DEF lifeAvailable
    <2> QED BY <1>s, <2>1, <2>2, <2>4
  <1>7. ASSUME NEW j \in Jobs, RemoveExpired(j) PROVE [Life!Next]_(Life!vars)
    <2>1. /\ store' = [store EXCEPT ![j] = Absent] /\ store[j] # Absent /\ task[j] # "none"
          /\ UNCHANGED <<task, files, kept, up>>
      BY <1>7, <1>t DEF RemoveExpired, taskVars, diskVars, JobInv, SweepAgrees, StoreAgrees, EntryFor
    <2>2. lifePhase' = [lifePhase EXCEPT ![j] = PhaseOf(j)'] /\ lifeAvailable' = lifeAvailable
      BY <1>m, <1>t, <2>1 DEF TypeOK, lifeAvailable
    <2>3. PhaseOf(j)' = "gone"
      BY <1>r, <1>t, <2>1 DEF TypeOK
    <2>4. PhaseOf(j) \in {"pending", "compiling", "complete", "failed"}
      BY <1>q, <1>t, <2>1 DEF JobInv, StoreAgrees, EntryFor
    <2>5. Life!Discard(j)
      BY <2>1, <2>2, <2>3, <2>4
      DEF Life!Discard, Life!Move, Life!Listed, lifePhase, lifeAvailable
    <2> QED BY <1>n, <2>5
  <1>8. CASE DeleteArtifact
    <2>1. PICK v \in Jobs : v = victim
      BY <1>8, <1>t DEF DeleteArtifact, TypeOK
    <2>2. task[v] = "completed" /\ store[v] = Absent
      BY <1>t, <2>1 DEF JobInv, LibraryKept
    <2>3. /\ UNCHANGED <<store, task, up>>
          /\ \/ files' = [files EXCEPT ![v] = @ \ {"lib"}] /\ kept' = kept
             \/ kept' = [kept EXCEPT ![v] = @ \cup {"lib"}] /\ files' = files
      BY <1>8, <2>1 DEF DeleteArtifact, RemoveFile, taskVars
    <2>4. lifePhase' = lifePhase
      BY <2>3 DEF lifePhase, PhaseOf, Present
    <2>5. lifeAvailable' = lifeAvailable \ {v}
      BY <1>t, <2>2, <2>3 DEF lifeAvailable, TypeOK
    <2>6. CASE v \in lifeAvailable
      <3>1. PhaseOf(v) = "gone"
        BY <1>q, <2>2
      <3>2. Life!Reclaim(v)
        BY <2>3, <2>4, <2>5, <2>6, <3>1 DEF Life!Reclaim, lifePhase, lifeAvailable
      <3> QED BY <1>n, <3>2
    <2>7. CASE v \notin lifeAvailable
      BY <1>s, <2>3, <2>4, <2>5, <2>7
    <2> QED BY <2>6, <2>7
  <1>9. CASE AcceptFails
    <2>1. up /\ up' = FALSE /\ lifePhase' = lifePhase /\ lifeAvailable' = lifeAvailable
      BY <1>9 DEF AcceptFails, taskVars, diskVars, lifePhase, lifeAvailable, PhaseOf, Present
    <2> QED BY <2>1 DEF Life!Next, Life!Halt, lifePhase, lifeAvailable
  <1>10. CASE Collect \/ FinishSweep \/ Tick \/ UNCHANGED vars
    BY <1>u, <1>10 DEF Collect, FinishSweep, Tick, vars, taskVars, diskVars
  <1>11. ASSUME NEW c \in Clients, NEW j \in Jobs,
                RejectCompile(c) \/ Status(c, j) \/ DownloadGet(c, j) \/ DownloadRead(c)
         PROVE  [Life!Next]_(Life!vars)
    BY <1>u, <1>11 DEF RejectCompile, Status, DownloadGet, DownloadRead, taskVars, diskVars
  <1>12. ASSUME NEW c \in Clients, RejectCompile(c) \/ DownloadRead(c)
         PROVE  [Life!Next]_(Life!vars)
    BY <1>u, <1>12 DEF RejectCompile, DownloadRead, taskVars, diskVars
  <1> QED
    BY <1>1, <1>2, <1>3, <1>4, <1>5, <1>6, <1>7, <1>8, <1>9, <1>10, <1>11, <1>12
    DEF Next, Submit, Read, TaskStep, SweepStep, Clients

\* The service, with its tasks, threads, clocks and files, does nothing the
\* life cycle of JobLifecycle forbids.
THEOREM LifecycleSafe == Spec => Life!SafeSpec
  <1>1. Init => Life!Init
    BY EntryStatus DEF Init, Life!Init, PhaseOf, Present
  <1>2. IInv /\ IInv' /\ [Next]_vars => [Life!Next]_(Life!vars)
    BY LifeStep
  <1> QED BY <1>1, <1>2, InvariantHolds, PTL DEF Spec, Life!SafeSpec

-----------------------------------------------------------------------------
(***************************************************************************)
(* The answers a client gets about a job never go back.  The last answer   *)
(* said something the job can come from on its way to where it is now;     *)
(* that the job only moves forward is read off the life cycle.  A download *)
(* is answered from an entry copied out of the store earlier, when the job *)
(* was complete, so the invariant also relates that moment to the answer   *)
(* before.                                                                 *)
(***************************************************************************)


\* What client c was last told of a job, and will be told by a download under
\* way, is in order.
AnswerInv(c) ==
  /\ reply[c].job # NoJob =>
       /\ reply[c].job \in Jobs
       /\ task[reply[c].job] # "none"
       /\ \E p \in Tells(reply[c]) : CanFollow(p, PhaseOf(reply[c].job))
  /\ client[c].at = "reading" /\ reply[c].job # NoJob /\ reply[c].job = client[c].job =>
       \E p \in Tells(reply[c]) : CanFollow(p, "complete")

\* This step's answer to client c is consistent with the one before.
Consistent(c) ==
  reply[c].job # NoJob /\ reply'[c].job = reply[c].job =>
    \E p \in Tells(reply[c]), q \in Tells(reply'[c]) : CanFollow(p, q)

-----------------------------------------------------------------------------
\* A job that can come from p to q and from q to r can come from p to r.
LEMMA FollowTransitive ==
  \A p, q, r : CanFollow(p, q) /\ CanFollow(q, r) => CanFollow(p, r)
  BY DEF CanFollow

\* Every answer tells something.
LEMMA TellsSomething == \A r \in Reply : \E p : p \in Tells(r)
  BY DEF Tells

\* What each answer of the handlers tells.
LEMMA TellsOfAnswers ==
  ASSUME NEW j
  PROVE  /\ \A s : s \in Tells(Answer("status", j, 200, s))
         /\ "gone" \in Tells(Answer("status", j, 404, "error"))
         /\ "gone" \in Tells(Answer("download", j, 404, "error"))
         /\ "gone" \in Tells(Answer("download", j, 500, "unreadable"))
         /\ "complete" \in Tells(Answer("download", j, 200, "artifact"))
         /\ Tells(Answer("download", j, 409, "error")) = {"pending", "compiling", "failed"}
         /\ "pending" \in Tells(Answer("compile", j, 202, "pending"))
  BY DEF Tells, Answer

\* The phases of a job that was accepted.
LEMMA PhaseValues ==
  ASSUME IInv, NEW j \in Jobs
  PROVE  /\ task[j] = "none" <=> PhaseOf(j) = "unknown"
         /\ PhaseOf(j) \in {"unknown", "pending", "compiling", "complete", "failed", "gone"}
<1>1. TypeOK /\ StoreAgrees(j)
  BY DEF IInv
<1>2. store[j] \in Entry
  BY <1>1 DEF TypeOK
<1>3. task[j] = "none" => store[j] = Absent
  BY <1>1 DEF StoreAgrees, EntryFor
<1> QED BY <1>2, <1>3, EntryStatus, EntryStatuses DEF PhaseOf, Present

\* A job that was accepted only moves forward.
LEMMA PhaseFollows ==
  ASSUME IInv, IInv', [Next]_vars, NEW j \in Jobs, task[j] # "none"
  PROVE  task'[j] # "none" /\ CanFollow(PhaseOf(j), PhaseOf(j)')
<1>1. [Life!Next]_(Life!vars)
  BY LifeStep
<1>2. lifePhase[j] = PhaseOf(j) /\ lifePhase'[j] = PhaseOf(j)'
  BY DEF lifePhase
<1>3. /\ lifePhase[j] # "unknown"
      /\ lifePhase[j] \in {"pending", "compiling", "complete", "failed", "gone"}
  BY <1>2, PhaseValues
<1>4. CanFollow(lifePhase[j], lifePhase'[j]) /\ lifePhase'[j] # "unknown"
  <2>1. ASSUME NEW k \in Jobs, NEW from, NEW to, Life!Move(k, from, to),
               \/ from = {"unknown"} /\ to = "pending"
               \/ from = {"pending"} /\ to = "compiling"
               \/ from = {"compiling"} /\ to \in {"complete", "failed"}
               \/ to = "gone"
        PROVE  CanFollow(lifePhase[j], lifePhase'[j]) /\ lifePhase'[j] # "unknown"
    <3>1. lifePhase[k] \in from /\ lifePhase' = [lifePhase EXCEPT ![k] = to]
      BY <2>1 DEF Life!Move, lifePhase
    <3>2. lifePhase'[j] = IF j = k THEN to ELSE lifePhase[j]
      BY <3>1 DEF lifePhase
    <3> QED BY <1>3, <2>1, <3>1, <3>2 DEF CanFollow
  <2>2. ASSUME lifePhase' = lifePhase
        PROVE  CanFollow(lifePhase[j], lifePhase'[j]) /\ lifePhase'[j] # "unknown"
    BY <1>3, <2>2 DEF CanFollow
  <2>3. ASSUME NEW k \in Jobs,
               Life!Accept(k) \/ Life!Settle(k) \/ Life!Discard(k) \/ Life!Reclaim(k)
        PROVE  CanFollow(lifePhase[j], lifePhase'[j]) /\ lifePhase'[j] # "unknown"
    BY <2>1, <2>2, <2>3
    DEF Life!Accept, Life!Settle, Life!Begin, Life!Complete, Life!Fail, Life!Discard,
        Life!Reclaim, lifePhase
  <2>4. ASSUME Life!Halt \/ UNCHANGED Life!vars
        PROVE  CanFollow(lifePhase[j], lifePhase'[j]) /\ lifePhase'[j] # "unknown"
    BY <2>2, <2>4 DEF Life!Halt, Life!vars, lifePhase
  <2> QED BY <1>1, <2>3, <2>4 DEF Life!Next
<1>5. task'[j] # "none"
  <2>1. IInv' => (task'[j] = "none" => PhaseOf(j)' = "unknown")
    <3>1. IInv' => StoreAgrees(j)'
      BY DEF IInv
    <3>2. StoreAgrees(j)' => (task'[j] = "none" => store'[j] = Absent)
      BY DEF StoreAgrees, EntryFor
    <3> QED BY <3>1, <3>2, EntryStatus DEF PhaseOf, Present
  <2> QED BY <1>2, <1>4, <2>1
<1> QED BY <1>2, <1>4, <1>5

-----------------------------------------------------------------------------
\* A client that is told nothing new.
LEMMA NoNews ==
  ASSUME IInv, IInv', [Next]_vars, NEW c \in Clients, AnswerInv(c), reply'[c] = reply[c],
         client'[c] = client[c] \/ client'[c].at = "idle"
  PROVE  AnswerInv(c)' /\ Consistent(c)
<1>1. \E p : p \in Tells(reply[c])
  BY TellsSomething DEF IInv, TypeOK
<1>2. Consistent(c)
  BY <1>1 DEF Consistent, CanFollow
<1>3. ASSUME reply[c].job # NoJob
      PROVE  /\ reply[c].job \in Jobs /\ task'[reply[c].job] # "none"
             /\ \E p \in Tells(reply[c]) : CanFollow(p, PhaseOf(reply[c].job)')
  <2>1. PICK j \in Jobs : j = reply[c].job /\ task[j] # "none"
    BY <1>3 DEF AnswerInv
  <2>2. PICK p \in Tells(reply[c]) : CanFollow(p, PhaseOf(j))
    BY <1>3, <2>1 DEF AnswerInv
  <2>3. task'[j] # "none" /\ CanFollow(PhaseOf(j), PhaseOf(j)')
    BY <2>1, PhaseFollows
  <2>4. CanFollow(p, PhaseOf(j)')
    BY <2>2, <2>3, FollowTransitive
  <2>5. PhaseOf(j)' = PhaseOf(reply[c].job)'
    BY <2>1 DEF PhaseOf, Present
  <2> QED BY <2>1, <2>2, <2>3, <2>4, <2>5
<1> QED BY <1>2, <1>3 DEF AnswerInv

\* A client that is told something of job j it can have come to, and that the
\* job can still come from.
LEMMA News ==
  ASSUME NEW c \in Clients, AnswerInv(c), NEW j \in Jobs, NEW q,
         reply'[c].job = j, q \in Tells(reply'[c]), client'[c].at = "idle",
         task'[j] # "none", CanFollow(q, PhaseOf(j)'),
         reply[c].job = j => \E p \in Tells(reply[c]) : CanFollow(p, q)
  PROVE  AnswerInv(c)' /\ Consistent(c)
<1>1. PhaseOf(j)' = PhaseOf(reply[c].job)'
  BY DEF PhaseOf, Present
<1> QED BY <1>1 DEF AnswerInv, Consistent

\* A client that is told where job j stands.
LEMMA NewsOfNow ==
  ASSUME NEW c \in Clients, AnswerInv(c), NEW j \in Jobs, reply'[c].job = j,
         PhaseOf(j) \in Tells(reply'[c]), client'[c].at = "idle", task[j] # "none",
         UNCHANGED <<store, task>>
  PROVE  AnswerInv(c)' /\ Consistent(c)
<1>1. PICK q : q = PhaseOf(j) /\ q = PhaseOf(j)'
  BY DEF PhaseOf, Present
<1>2. CanFollow(q, PhaseOf(j)')
  BY <1>1 DEF CanFollow
<1>3. reply[c].job = j => \E p \in Tells(reply[c]) : CanFollow(p, q)
  BY <1>1, CloudAssumption DEF AnswerInv
<1> QED BY <1>1, <1>2, <1>3, News

-----------------------------------------------------------------------------
\* POST /compile.
LEMMA SubmitStep ==
  ASSUME IInv, IInv', [Next]_vars, NEW c \in Clients, AnswerInv(c), NEW d \in Submitters, Submit(d)
  PROVE  AnswerInv(c)' /\ Consistent(c)
<1>t. TypeOK
  BY DEF IInv
<1>1. ASSUME c # d PROVE AnswerInv(c)' /\ Consistent(c)
  <2>1. reply'[c] = reply[c] /\ client'[c] = client[c]
    BY <1>1, <1>t DEF Submit, RejectCompile, AcceptCompile, TypeOK
  <2> QED BY <2>1, NoNews
<1>2. ASSUME c = d, RejectCompile(d) PROVE AnswerInv(c)' /\ Consistent(c)
  <2>1. reply'[c].job = NoJob
    BY <1>2, <1>t DEF RejectCompile, TypeOK, Answer
  <2> QED BY <2>1 DEF AnswerInv, Consistent
<1>3. ASSUME c = d, NEW j \in Jobs, AcceptCompile(d, j) PROVE AnswerInv(c)' /\ Consistent(c)
  <2>1. /\ reply'[c] = Answer("compile", j, 202, "pending") /\ client'[c].at = "idle"
        /\ task[j] = "none" /\ task'[j] = "spawned" /\ store'[j] = NewJob
    BY <1>3, <1>t DEF AcceptCompile, Idle, TypeOK
  <2>2. PhaseOf(j)' = "pending"
    BY <2>1, EntryStatus DEF PhaseOf, Present
  <2>3. reply[c].job # j
    BY <2>1, CloudAssumption DEF AnswerInv
  <2>4. reply'[c].job = j
    BY <2>1 DEF Answer
  <2>5. "pending" \in Tells(reply'[c])
    BY <2>1, TellsOfAnswers
  <2>6. CanFollow("pending", PhaseOf(j)')
    BY DEF CanFollow
  <2> QED BY <2>1, <2>3, <2>4, <2>5, <2>6, News
<1> QED BY <1>1, <1>2, <1>3 DEF Submit

\* GET /status.
LEMMA StatusStep ==
  ASSUME IInv, NEW c \in Clients, AnswerInv(c), NEW j \in Jobs, Status(c, j)
  PROVE  AnswerInv(c)' /\ Consistent(c)
<1>1. /\ reply'[c] = IF Present(j) THEN Answer("status", j, 200, store[j].status)
                                   ELSE Answer("status", j, 404, "error")
      /\ client'[c].at = "idle" /\ task[j] # "none" /\ UNCHANGED <<store, task>>
  BY DEF Status, Idle, IInv, TypeOK, taskVars
<1>2. reply'[c].job = j
  BY <1>1 DEF Answer
<1>3. PhaseOf(j) = IF Present(j) THEN store[j].status ELSE "gone"
  BY <1>1 DEF PhaseOf
<1>4. PhaseOf(j) \in Tells(reply'[c])
  BY <1>1, <1>3, TellsOfAnswers
<1> QED BY <1>1, <1>2, <1>4, NewsOfNow

\* GET /download, to the look-up.
LEMMA DownloadGetStep ==
  ASSUME IInv, IInv', [Next]_vars, NEW c \in Clients, AnswerInv(c), NEW j \in Jobs,
         DownloadGet(c, j)
  PROVE  AnswerInv(c)' /\ Consistent(c)
<1>t. TypeOK /\ StoreAgrees(j)
  BY DEF IInv
<1>1. /\ client[c].at = "idle" /\ task[j] # "none" /\ UNCHANGED <<store, task>>
  BY DEF DownloadGet, Idle, taskVars
<1>2. store[j].status = "complete" => store[j].artifact
  BY <1>t, EntryStatus DEF StoreAgrees, EntryFor
<1>3. ASSUME store[j].status = "complete" PROVE AnswerInv(c)' /\ Consistent(c)
  <2>1. client'[c] = [at |-> "reading", job |-> j] /\ reply' = reply
    BY <1>2, <1>3, <1>t DEF DownloadGet, TypeOK
  <2>2. PhaseOf(j) = "complete" /\ PhaseOf(j)' = "complete"
    BY <1>1, <1>3 DEF PhaseOf, Present
  <2>3. \A k : PhaseOf(k)' = PhaseOf(k)
    BY <1>1 DEF PhaseOf, Present
  <2>4. Consistent(c)
    BY <2>1, TellsSomething, <1>t DEF Consistent, CanFollow, TypeOK
  <2>5. reply[c].job = j => \E p \in Tells(reply[c]) : CanFollow(p, "complete")
    BY <2>2, CloudAssumption DEF AnswerInv
  <2>6. reply[c].job # NoJob => PhaseOf(reply[c].job)' = PhaseOf(reply[c].job)
    BY <1>1, <2>1 DEF PhaseOf, Present
  <2> QED BY <1>1, <2>1, <2>4, <2>5, <2>6 DEF AnswerInv
<1>4. ASSUME store[j].status # "complete" PROVE AnswerInv(c)' /\ Consistent(c)
  <2>1. client'[c].at = "idle" /\ reply'[c] = DownloadRefused(j)
    BY <1>1, <1>4, <1>t DEF DownloadGet, TypeOK
  <2>2. DownloadRefused(j) = IF Present(j) THEN Answer("download", j, 409, "error")
                                           ELSE Answer("download", j, 404, "error")
    BY <1>4 DEF DownloadRefused
  <2>3. PhaseOf(j) = IF Present(j) THEN store[j].status ELSE "gone"
    BY <1>1 DEF PhaseOf
  <2>4. Present(j) => store[j].status \in {"pending", "compiling", "failed"}
    BY <1>4, <1>t, EntryStatuses DEF Present, TypeOK
  <2>5. PhaseOf(j) \in Tells(reply'[c])
    BY <2>1, <2>2, <2>3, <2>4, TellsOfAnswers
  <2>6. reply'[c].job = j
    BY <2>1, <2>2 DEF Answer
  <2> QED BY <1>1, <2>1, <2>5, <2>6, NewsOfNow
<1> QED BY <1>3, <1>4

\* GET /download, from the copied entry on.
LEMMA DownloadReadStep ==
  ASSUME IInv, NEW c \in Clients, AnswerInv(c), DownloadRead(c)
  PROVE  AnswerInv(c)' /\ Consistent(c)
<1>1. PICK j \in Jobs : j = client[c].job /\ task[j] = "completed"
  BY DEF IInv, ClientAgrees, DownloadRead
<1>2. /\ reply'[c] = IF "lib" \in files[j] THEN Answer("download", j, 200, "artifact")
                                           ELSE Answer("download", j, 500, "unreadable")
      /\ client[c].at = "reading" /\ client'[c].at = "idle" /\ UNCHANGED <<store, task>>
  BY <1>1 DEF DownloadRead, IInv, TypeOK, taskVars
<1>3. reply'[c].job = j
  BY <1>2 DEF Answer
<1>4. WorkAgrees(j) /\ LibraryKept(j) /\ StoreAgrees(j)
  BY DEF IInv
<1>5. ASSUME "lib" \in files[j] PROVE AnswerInv(c)' /\ Consistent(c)
  <2>1. "complete" \in Tells(reply'[c])
    BY <1>2, <1>5, TellsOfAnswers
  <2>2. store[j] \in {Absent, CompleteJob}
    BY <1>1, <1>4 DEF StoreAgrees, EntryFor
  <2>3. PhaseOf(j)' \in {"gone", "complete"}
    BY <1>1, <1>2, <2>2, EntryStatus DEF PhaseOf, Present
  <2>4. CanFollow("complete", PhaseOf(j)')
    BY <2>3 DEF CanFollow
  <2>5. reply[c].job = j => \E p \in Tells(reply[c]) : CanFollow(p, "complete")
    BY <1>1, <1>2, CloudAssumption DEF AnswerInv
  <2> QED BY <1>1, <1>2, <1>3, <2>1, <2>4, <2>5, News
<1>6. ASSUME "lib" \notin files[j] PROVE AnswerInv(c)' /\ Consistent(c)
  <2>1. store[j] = Absent
    BY <1>1, <1>4, <1>6 DEF WorkAgrees, LibraryKept
  <2>2. PhaseOf(j) = "gone"
    BY <1>1, <2>1, EntryStatus DEF PhaseOf, Present
  <2>3. PhaseOf(j) \in Tells(reply'[c])
    BY <1>2, <1>6, <2>2, TellsOfAnswers
  <2> QED BY <1>1, <1>2, <1>3, <2>3, NewsOfNow
<1> QED BY <1>5, <1>6

-----------------------------------------------------------------------------
\* Every step keeps every client's answers in order.
LEMMA AnswerStep ==
  ASSUME IInv, IInv', [Next]_vars, NEW c \in Clients, AnswerInv(c)
  PROVE  AnswerInv(c)' /\ Consistent(c)
<1>t. TypeOK
  BY DEF IInv
<1>1. ASSUME NEW d \in Submitters, Submit(d) PROVE AnswerInv(c)' /\ Consistent(c)
  BY <1>1, SubmitStep
<1>2. ASSUME NEW d \in Readers, Read(d), c # d PROVE AnswerInv(c)' /\ Consistent(c)
  <2>1. reply'[c] = reply[c] /\ client'[c] = client[c]
    BY <1>2, <1>t DEF Read, DownloadRead, Status, DownloadGet, TypeOK
  <2> QED BY <2>1, NoNews
<1>3. ASSUME Read(c) PROVE AnswerInv(c)' /\ Consistent(c)
  BY <1>3, StatusStep, DownloadGetStep, DownloadReadStep DEF Read
<1>4. ASSUME UNCHANGED httpVars PROVE AnswerInv(c)' /\ Consistent(c)
  BY <1>4, NoNews DEF httpVars
<1>5. ASSUME NEW j \in Jobs, TaskStep(j) \/ WorkStep(j) PROVE UNCHANGED httpVars
  BY <1>5 DEF TaskStep, WorkStep, StartTask, TaskResult, TimeoutElapses, MarkTimedOut,
              BeginWork, RejectSource, WriteObject, Link, RemoveObject, RemoveFile
<1>6. ASSUME SweepStep \/ Tick \/ AcceptFails \/ UNCHANGED vars PROVE UNCHANGED httpVars
  BY <1>6 DEF SweepStep, Collect, RemoveExpired, DeleteArtifact, RemoveFile,
                      FinishSweep, Tick,
              AcceptFails, vars, httpVars
<1> QED BY <1>1, <1>2, <1>3, <1>4, <1>5, <1>6 DEF Next

\* No two successive answers about one job contradict each other: the answers
\* of handlers.rs are each read from the store as it is, or from an entry that
\* was complete and can only have been removed since.
THEOREM AnswersInOrder == Spec => AnswersNeverGoBack
<1> DEFINE AllAnswers == \A c \in Clients : AnswerInv(c)
           AllConsistent == \A c \in Clients : Consistent(c)
<1>1. Init => AllAnswers
  BY DEF Init, AnswerInv, Answer
<1>2. IInv /\ IInv' /\ [Next]_vars /\ AllAnswers => AllAnswers' /\ AllConsistent
  BY AnswerStep
<1>3. AllConsistent =>
        [\A c \in Clients :
           reply[c].job # NoJob /\ reply'[c].job = reply[c].job =>
             \E p \in Tells(reply[c]), q \in Tells(reply'[c]) : CanFollow(p, q)]_vars
  BY DEF Consistent
<1> HIDE DEF AllAnswers, AllConsistent
<1> QED BY <1>1, <1>2, <1>3, InvariantHolds, PTL DEF Spec, AnswersNeverGoBack
=============================================================================
