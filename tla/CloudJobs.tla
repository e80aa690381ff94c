------------------------------ MODULE CloudJobs ------------------------------
(***************************************************************************)
(* The cloud compilation service (crates/celer-cloud): the in-memory job   *)
(* store, the HTTP handlers, the asynchronous task that supervises one     *)
(* compilation under a timeout, the blocking thread that compiles, the     *)
(* files it leaves on disk and the background loop that expires old jobs.  *)
(*                                                                         *)
(* Every DashMap operation is atomic for its key, so each is one step; two *)
(* operations of one handler with other actors' steps possible in between  *)
(* are two actions.  Time is counted in ticks.  Only comparisons with the  *)
(* TTL, the timeout and the cleanup interval matter, so each clock stops   *)
(* just past the value it is compared with and no bound on time is needed. *)
(***************************************************************************)
EXTENDS Naturals, FiniteSets

CONSTANTS
  Jobs,         (* job ids (fresh UUIDs) the service may hand out            *)
  Submitters,   (* connections that post compilations                        *)
  Readers,      (* connections that poll and download, perhaps the same ones *)
  NoJob,        (* "no job id"                                               *)
  TTL,          (* job_ttl_secs                                              *)
  Timeout,      (* compile_timeout_secs                                      *)
  MinInterval,  (* the 60 s floor of the cleanup loop's sleep                *)
  PoolSize      (* threads of the blocking pool                              *)

ASSUME CloudAssumption ==
  /\ NoJob \notin Jobs
  /\ TTL \in Nat
  /\ Timeout \in Nat
  /\ MinInterval \in Nat
  /\ PoolSize \in Nat \ {0}

VARIABLES
  store,    (* job id -> Job entry, Absent when the map has no such key      *)
  age,      (* ticks since created_at, for the ids in the store              *)
  task,     (* where the spawned supervising task of each job stands         *)
  elapsed,  (* ticks since the task armed its timeout                        *)
  work,     (* where the spawn_blocking closure of each job stands           *)
  files,    (* what is on disk in temp/celer-cloud/<job id>                  *)
  kept,     (* history: the files of each job that could not be removed      *)
  sweep,    (* where the cleanup loop stands                                 *)
  slept,    (* ticks the cleanup loop has slept                              *)
  expired,  (* the ids the current sweep collected and still has to remove   *)
  victim,   (* the removed job whose artifact the sweep is about to delete   *)
  client,   (* where each connection's handler stands                        *)
  reply,    (* the last answer each client got                               *)
  up        (* the accept loop runs                                          *)

vars == <<store, age, task, elapsed, work, files, kept, sweep, slept, expired,
          victim, client, reply, up>>

taskVars  == <<task, elapsed>>
diskVars  == <<work, files, kept>>
sweepVars == <<sweep, slept, expired, victim>>
httpVars  == <<client, reply>>

(***************************************************************************)
(* The job store                                                           *)
(***************************************************************************)
Clients == Submitters \cup Readers

\* The part of a Job its readers tell apart: status, whether artifact_path (and
\* with it compile_time_ms) is set, and the kind of error.
Job(s, a, e) == [status |-> s, artifact |-> a, error |-> e]

Absent == Job("absent", FALSE, "none")
NewJob == Job("pending", FALSE, "none")

Present(j) == store[j].status # "absent"

\* get_mut finds nothing once the job was removed: the update is then dropped.
UpdateStatus(j, s) ==
  IF Present(j) THEN [store EXCEPT ![j] = Job(s, @.artifact, @.error)] ELSE store

\* Variant: the late result re-creates a removed entry.
MarkCompleteUpsert(j) ==
  [store EXCEPT ![j] = Job("complete", TRUE, "none")]
\* Variant: the path is not recorded.
MarkCompleteNoPath(j) ==
  IF Present(j) THEN [store EXCEPT ![j] = Job("complete", @.artifact, @.error)] ELSE store
MarkComplete(j) ==
  IF Present(j) THEN [store EXCEPT ![j] = Job("complete", TRUE, @.error)] ELSE store

\* Variant: the late failure re-creates a removed entry.
MarkFailedUpsert(j, e) ==
  [store EXCEPT ![j] = Job("failed", FALSE, e)]
MarkFailed(j, e) ==
  IF Present(j) THEN [store EXCEPT ![j] = Job("failed", @.artifact, e)] ELSE store

\* Variant: a job expires a tick early.
IsExpiredEarly(j) == Present(j) /\ age[j] >= TTL
IsExpired(j) == Present(j) /\ age[j] > TTL

\* sleep(max(ttl / 4, 60 s))
Interval == IF TTL \div 4 > MinInterval THEN TTL \div 4 ELSE MinInterval

-----------------------------------------------------------------------------
(***************************************************************************)
(* POST /compile                                                           *)
(***************************************************************************)
\* What handle_compile finds out about a request, in the order it looks.
Request == [readable : BOOLEAN, fits : BOOLEAN, json : BOOLEAN, name : BOOLEAN]

CompileCode(r) ==
  IF ~r.readable THEN 400
  ELSE IF ~r.fits THEN 413
  ELSE IF ~r.json \/ ~r.name THEN 400
  ELSE 202

Answer(op, j, code, said) == [op |-> op, job |-> j, code |-> code, said |-> said]

Idle(c) == up /\ client[c].at = "idle"

RejectCompile(c) ==
  /\ Idle(c)
  /\ \E r \in Request :
       /\ CompileCode(r) # 202
       /\ reply' = [reply EXCEPT ![c] = Answer("compile", NoJob, CompileCode(r), "error")]
  /\ UNCHANGED <<store, age, taskVars, diskVars, sweepVars, client, up>>

\* Nobody knows the new id before the answer, and the task only has the id: the
\* insert, the spawn and the answer are one step.
AcceptCompile(c, j) ==
  /\ Idle(c)
  /\ task[j] = "none"
  /\ store' = [store EXCEPT ![j] = NewJob]
  /\ age' = [age EXCEPT ![j] = 0]
  /\ task' = [task EXCEPT ![j] = "spawned"]
  /\ reply' = [reply EXCEPT ![c] = Answer("compile", j, 202, "pending")]
  /\ UNCHANGED <<elapsed, diskVars, sweepVars, client, up>>

(***************************************************************************)
(* GET /status/<id> and GET /download/<id>.  A client asks about ids it    *)
(* was given.  The download copies the entry out of the store and reads    *)
(* the file afterwards, with nothing held in between.                      *)
(***************************************************************************)
Status(c, j) ==
  /\ Idle(c)
  /\ task[j] # "none"
  /\ reply' = [reply EXCEPT ![c] =
       IF Present(j) THEN Answer("status", j, 200, store[j].status)
                     ELSE Answer("status", j, 404, "error")]
  /\ UNCHANGED <<store, age, taskVars, diskVars, sweepVars, client, up>>

DownloadRefused(j) ==
  IF ~Present(j) THEN Answer("download", j, 404, "error")
  ELSE IF store[j].status # "complete" THEN Answer("download", j, 409, "error")
  ELSE Answer("download", j, 500, "no_path")

DownloadGet(c, j) ==
  /\ Idle(c)
  /\ task[j] # "none"
  /\ IF store[j].status = "complete" /\ store[j].artifact
     THEN /\ client' = [client EXCEPT ![c] = [at |-> "reading", job |-> j]]
          /\ UNCHANGED reply
     ELSE /\ reply' = [reply EXCEPT ![c] = DownloadRefused(j)]
          /\ UNCHANGED client
  /\ UNCHANGED <<store, age, taskVars, diskVars, sweepVars, up>>

DownloadRead(c) ==
  LET j == client[c].job IN
  /\ client[c].at = "reading"
  /\ client' = [client EXCEPT ![c] = [at |-> "idle", job |-> NoJob]]
  /\ reply' = [reply EXCEPT ![c] =
       IF "lib" \in files[j] THEN Answer("download", j, 200, "artifact")
                             ELSE Answer("download", j, 500, "unreadable")]
  /\ UNCHANGED <<store, age, taskVars, diskVars, sweepVars, up>>

-----------------------------------------------------------------------------
(***************************************************************************)
(* The supervising task: timeout(spawn_blocking(compile)).                 *)
(***************************************************************************)
Finished == {"ok", "failed", "panicked"}

StartTask(j) ==
  /\ up
  /\ task[j] = "spawned"
  /\ store' = UpdateStatus(j, "compiling")
  /\ work' = [work EXCEPT ![j] = "queued"]
  /\ task' = [task EXCEPT ![j] = "waiting"]
  /\ elapsed' = [elapsed EXCEPT ![j] = 0]
  /\ UNCHANGED <<age, files, kept, sweepVars, httpVars, up>>

\* The timeout polls the compilation before its own deadline, so a finished
\* compilation wins over an elapsed deadline.  A mark the store drops, because
\* the job was removed meanwhile, ends the task as "lost".
TaskResult(j) ==
  /\ up
  /\ task[j] = "waiting"
  /\ work[j] \in Finished
  /\ store' = CASE work[j] = "ok"       -> MarkComplete(j)
                [] work[j] = "failed"   -> MarkFailed(j, "compile")
                [] work[j] = "panicked" -> MarkFailed(j, "panic")
  /\ task' = [task EXCEPT ![j] =
       IF Present(j) THEN (IF work[j] = "ok" THEN "completed" ELSE "errored") ELSE "lost"]
  /\ UNCHANGED <<age, elapsed, diskVars, sweepVars, httpVars, up>>

\* Variant: the deadline only counts for a compilation that got a thread.
TimeoutOfStartedWork(j) ==
  /\ up
  /\ task[j] = "waiting"
  /\ work[j] \in {"frontend", "object", "linked"}
  /\ elapsed[j] >= Timeout
  /\ task' = [task EXCEPT ![j] = "expiring"]
  /\ UNCHANGED <<store, age, elapsed, diskVars, sweepVars, httpVars, up>>
\* Dropping the join handle neither stops nor dequeues the blocking closure.
TimeoutElapses(j) ==
  /\ up
  /\ task[j] = "waiting"
  /\ work[j] \notin Finished
  /\ elapsed[j] >= Timeout
  /\ task' = [task EXCEPT ![j] = "expiring"]
  /\ UNCHANGED <<store, age, elapsed, diskVars, sweepVars, httpVars, up>>

MarkTimedOut(j) ==
  /\ task[j] = "expiring"
  /\ store' = MarkFailed(j, "timeout")
  /\ task' = [task EXCEPT ![j] = "timedout"]
  /\ UNCHANGED <<age, elapsed, diskVars, sweepVars, httpVars, up>>

-----------------------------------------------------------------------------
(***************************************************************************)
(* The blocking closure: create_dir_all, then compile_to_shared_lib.       *)
(***************************************************************************)
Compiling == {"frontend", "object", "linked"}

Busy == Cardinality({j \in Jobs : work[j] \in Compiling})

\* create_dir_all's failure is ignored (.ok()).
BeginWork(j) ==
  /\ up
  /\ work[j] = "queued"
  /\ Busy < PoolSize
  /\ work' = [work EXCEPT ![j] = "frontend"]
  /\ \/ files' = [files EXCEPT ![j] = @ \cup {"dir"}]
     \/ UNCHANGED files
  /\ UNCHANGED <<store, age, taskVars, kept, sweepVars, httpVars, up>>

\* Parse, inference, codegen or verification fails, or the object cannot be
\* written, or not to its end, or one of them panics.
RejectSource(j) ==
  /\ work[j] = "frontend"
  /\ \E r \in {"failed", "panicked"} : work' = [work EXCEPT ![j] = r]
  /\ \/ UNCHANGED files
     \/ "dir" \in files[j] /\ files' = [files EXCEPT ![j] = @ \cup {"obj"}]
  /\ UNCHANGED <<store, age, taskVars, kept, sweepVars, httpVars, up>>

WriteObject(j) ==
  /\ work[j] = "frontend"
  /\ "dir" \in files[j]
  /\ work' = [work EXCEPT ![j] = "object"]
  /\ files' = [files EXCEPT ![j] = @ \cup {"obj"}]
  /\ UNCHANGED <<store, age, taskVars, kept, sweepVars, httpVars, up>>

\* A failed link returns through `?`, past the removal of the object file.
Link(j) ==
  /\ work[j] = "object"
  /\ \/ /\ work' = [work EXCEPT ![j] = "linked"]
        /\ files' = [files EXCEPT ![j] = @ \cup {"lib"}]
     \/ /\ work' = [work EXCEPT ![j] = "failed"]
        /\ UNCHANGED files
  /\ UNCHANGED <<store, age, taskVars, kept, sweepVars, httpVars, up>>

\* A file that cannot be removed stays for ever: nobody looks at the result.
RemoveFile(j, f) ==
  \/ files' = [files EXCEPT ![j] = @ \ {f}] /\ UNCHANGED kept
  \/ kept' = [kept EXCEPT ![j] = @ \cup {f}] /\ UNCHANGED files

RemoveObject(j) ==
  /\ work[j] = "linked"
  /\ work' = [work EXCEPT ![j] = "ok"]
  /\ RemoveFile(j, "obj")
  /\ UNCHANGED <<store, age, taskVars, sweepVars, httpVars, up>>

-----------------------------------------------------------------------------
(***************************************************************************)
(* The cleanup loop: sleep, collect the expired ids, then remove them one  *)
(* by one, deleting each removed job's recorded artifact.  Nobody else     *)
(* removes an id and an entry's age only grows, so collecting is one step. *)
(***************************************************************************)
Collect ==
  /\ up
  /\ sweep = "sleeping"
  /\ slept >= Interval
  /\ sweep' = "removing"
  /\ expired' = {j \in Jobs : IsExpired(j)}
  /\ UNCHANGED <<store, age, taskVars, diskVars, slept, victim, httpVars, up>>

\* Variant: the entry outlives its artifact.
RemoveArtifactFirst(j) ==
  /\ sweep = "removing"
  /\ victim = NoJob
  /\ j \in expired
  /\ expired' = expired \ {j}
  /\ victim' = IF store[j].artifact THEN j ELSE NoJob
  /\ UNCHANGED <<store, age, taskVars, diskVars, sweep, slept, httpVars, up>>
\* Variant: the library stays behind.
RemoveEntryOnly(j) ==
  /\ sweep = "removing"
  /\ victim = NoJob
  /\ j \in expired
  /\ expired' = expired \ {j}
  /\ store' = [store EXCEPT ![j] = Absent]
  /\ UNCHANGED <<age, taskVars, diskVars, sweep, slept, victim, httpVars, up>>
\* Variant: only the finished jobs are removed.
RemoveCompleteOnly(j) ==
  /\ sweep = "removing"
  /\ victim = NoJob
  /\ j \in expired
  /\ expired' = expired \ {j}
  /\ IF store[j].artifact
     THEN /\ store' = [store EXCEPT ![j] = Absent]
          /\ victim' = j
     ELSE UNCHANGED <<store, victim>>
  /\ UNCHANGED <<age, taskVars, diskVars, sweep, slept, httpVars, up>>
RemoveExpired(j) ==
  /\ sweep = "removing"
  /\ victim = NoJob
  /\ j \in expired
  /\ expired' = expired \ {j}
  /\ store' = [store EXCEPT ![j] = Absent]
  /\ victim' = IF store[j].artifact THEN j ELSE NoJob
  /\ UNCHANGED <<age, taskVars, diskVars, sweep, slept, httpVars, up>>

DeleteArtifact ==
  /\ victim # NoJob
  /\ RemoveFile(victim, "lib")
  /\ victim' = NoJob
  /\ UNCHANGED <<store, age, taskVars, work, sweep, slept, expired, httpVars, up>>

FinishSweep ==
  /\ sweep = "removing"
  /\ victim = NoJob
  /\ expired = {}
  /\ sweep' = "sleeping"
  /\ slept' = 0
  /\ UNCHANGED <<store, age, taskVars, diskVars, expired, victim, httpVars, up>>

-----------------------------------------------------------------------------
\* Time passes for every clock that runs.
Advance(clock, limit) == IF clock < limit THEN clock + 1 ELSE clock

Tick ==
  /\ up
  /\ age' = [j \in Jobs |-> IF Present(j) THEN Advance(age[j], TTL + 1) ELSE age[j]]
  /\ elapsed' = [j \in Jobs |->
       IF task[j] = "waiting" THEN Advance(elapsed[j], Timeout) ELSE elapsed[j]]
  /\ slept' = IF sweep = "sleeping" THEN Advance(slept, Interval) ELSE slept
  /\ UNCHANGED <<store, task, diskVars, sweep, expired, victim, httpVars, up>>

\* accept() fails and `?` ends run(), which drops the runtime: no handler, task
\* or timer is polled again, while synchronous sections already begun and
\* blocking closures already running come to their end.
AcceptFails ==
  /\ up
  /\ up' = FALSE
  /\ UNCHANGED <<store, age, taskVars, diskVars, sweepVars, httpVars>>

-----------------------------------------------------------------------------
Init ==
  /\ store = [j \in Jobs |-> Absent]
  /\ age = [j \in Jobs |-> 0]
  /\ task = [j \in Jobs |-> "none"]
  /\ elapsed = [j \in Jobs |-> 0]
  /\ work = [j \in Jobs |-> "none"]
  /\ files = [j \in Jobs |-> {}]
  /\ kept = [j \in Jobs |-> {}]
  /\ sweep = "sleeping"
  /\ slept = 0
  /\ expired = {}
  /\ victim = NoJob
  /\ client = [c \in Clients |-> [at |-> "idle", job |-> NoJob]]
  /\ reply = [c \in Clients |-> Answer("none", NoJob, 0, "nothing")]
  /\ up = TRUE

Submit(c) == RejectCompile(c) \/ (\E j \in Jobs : AcceptCompile(c, j))

Read(c) == DownloadRead(c) \/ (\E j \in Jobs : Status(c, j) \/ DownloadGet(c, j))

TaskStep(j) == StartTask(j) \/ TaskResult(j) \/ TimeoutElapses(j) \/ MarkTimedOut(j)

WorkStep(j) ==
  BeginWork(j) \/ RejectSource(j) \/ WriteObject(j) \/ Link(j) \/ RemoveObject(j)

SweepStep == Collect \/ (\E j \in Jobs : RemoveExpired(j)) \/ DeleteArtifact \/ FinishSweep

Next ==
  \/ \E c \in Submitters : Submit(c)
  \/ \E c \in Readers : Read(c)
  \/ \E j \in Jobs : TaskStep(j) \/ WorkStep(j)
  \/ SweepStep
  \/ Tick
  \/ AcceptFails

\* tokio polls every woken task, the clock runs, and the synchronous sections
\* end.  Clients owe nothing, and neither does the compiler: a compilation may
\* take for ever.
Fairness ==
  /\ \A j \in Jobs : WF_vars(TaskStep(j))
  /\ WF_vars(SweepStep)
  /\ WF_vars(Tick)

Spec == Init /\ [][Next]_vars

FairSpec == Spec /\ Fairness

-----------------------------------------------------------------------------
(***************************************************************************)
(* Properties                                                              *)
(***************************************************************************)
\* An entry is well formed: an artifact path exactly in a complete job, an
\* error exactly in a failed one (the combinations the Job struct would allow
\* and the handlers never expect).
Entry ==
  {Absent}
    \cup [status : {"pending", "compiling"}, artifact : {FALSE}, error : {"none"}]
    \cup [status : {"complete"}, artifact : {TRUE}, error : {"none"}]
    \cup [status : {"failed"}, artifact : {FALSE}, error : {"compile", "panic", "timeout"}]

TaskState == {"none", "spawned", "waiting", "expiring",
              "completed", "errored", "timedout", "lost"}
WorkState == {"none", "queued"} \cup Compiling \cup Finished
Reply == [op : {"none", "compile", "status", "download"}, job : Jobs \cup {NoJob},
          code : {0, 200, 202, 400, 404, 409, 413, 500},
          said : {"nothing", "error", "artifact", "no_path", "unreadable",
                  "pending", "compiling", "complete", "failed"}]

\* Every variable has its type; in particular the store holds only well-formed
\* entries, whatever order the task, the sweep and the clock ran in.
TypeOK ==
  /\ store \in [Jobs -> Entry]
  /\ age \in [Jobs -> 0 .. TTL + 1]
  /\ task \in [Jobs -> TaskState]
  /\ elapsed \in [Jobs -> 0 .. Timeout]
  /\ work \in [Jobs -> WorkState]
  /\ files \in [Jobs -> SUBSET {"dir", "obj", "lib"}]
  /\ kept \in [Jobs -> SUBSET {"obj", "lib"}]
  /\ sweep \in {"sleeping", "removing"}
  /\ slept \in 0 .. Interval
  /\ expired \in SUBSET Jobs
  /\ victim \in Jobs \cup {NoJob}
  /\ client \in [Clients -> [at : {"idle", "reading"}, job : Jobs \cup {NoJob}]]
  /\ reply \in [Clients -> Reply]
  /\ up \in BOOLEAN

\* A job the store lists as complete has its library on disk, and its compiler
\* is done with it: cleanup_expired takes the entry out before it deletes.
ServableWhileListed ==
  \A j \in Jobs : store[j].status = "complete" => work[j] = "ok" /\ "lib" \in files[j]

\* handle_download answers 500 only when the sweep removed the job between the
\* look-up and the read; "artifact path missing" is never answered.
DownloadFailsOnlyAfterRemoval ==
  \A c \in Clients :
    reply[c].op = "download" /\ reply[c].code = 500
      => reply[c].said = "unreadable" /\ ~Present(reply[c].job)

\* Whatever a job has on disk and in the pool is in somebody's hands or was
\* abandoned in a way that is known.  A library is still being built, or awaited
\* by its task, or listed, or about to be deleted; or the task timed out, the job
\* was removed before its task ended, or deleting the library failed.  An object
\* file is still needed; or the compilation failed, or removing it did.  And a
\* thread compiles for a task that waits or gave up waiting, never for a removed
\* job whose task has its result.
LeftoversAccounted ==
  \A j \in Jobs :
    /\ "lib" \in files[j] =>
         \/ work[j] = "linked"
         \/ task[j] \in {"waiting", "expiring"}
         \/ store[j].status = "complete"
         \/ victim = j
         \/ task[j] \in {"timedout", "lost"}
         \/ "lib" \in kept[j]
    /\ "obj" \in files[j] => work[j] # "ok" \/ "obj" \in kept[j]
    /\ work[j] \in Compiling => task[j] \in {"waiting", "expiring", "timedout"}

\* What becomes of a job is decided once: a complete or failed entry never
\* changes again but by being removed, and a removed job never comes back.
OutcomeIsFinal ==
  [][\A j \in Jobs :
       /\ store[j].status \in {"complete", "failed"} => store'[j] \in {store[j], Absent}
       /\ task[j] # "none" /\ ~Present(j) => store'[j] = Absent]_vars

\* Only an expired job is removed, even though ids are collected first and
\* removed later.
OnlyExpiredRemoved ==
  [][\A j \in Jobs : Present(j) /\ store'[j] = Absent => age[j] > TTL]_vars

\* What an answer says about the job it names, at the moment the store was read.
Tells(r) ==
  CASE r.op = "compile"                      -> {"pending"}
    [] r.op = "status" /\ r.code = 200       -> {r.said}
    [] r.op = "download" /\ r.code = 200     -> {"complete"}
    [] r.op = "download" /\ r.code = 409     -> {"pending", "compiling", "failed"}
    [] OTHER                                 -> {"gone"}

CanFollow(p, q) ==
  \/ p = q
  \/ p = "pending"
  \/ p = "compiling" /\ q # "pending"
  \/ q = "gone"

\* Two successive answers a client gets about one job are consistent with the
\* job moving forward: never complete and then failed, never gone and then
\* listed, never served and then "not complete".
AnswersNeverGoBack ==
  [][\A c \in Clients :
       reply[c].job # NoJob /\ reply'[c].job = reply[c].job =>
         \E p \in Tells(reply[c]), q \in Tells(reply'[c]) : CanFollow(p, q)]_vars

\* Every accepted job's task decides its outcome while the server runs, even if
\* no compilation ever ends or the job never gets a thread of the pool: the
\* timeout sees to it.
JobsSettle ==
  \A j \in Jobs :
    task[j] = "spawned"
      ~> (task[j] \in {"completed", "errored", "timedout", "lost"} \/ ~up)

\* Every job leaves the store, and a complete one takes its library with it
\* unless that cannot be deleted.
JobsReclaimed ==
  \A j \in Jobs :
    Present(j) ~> (\/ /\ ~Present(j)
                      /\ task[j] = "completed" => "lib" \notin files[j] \ kept[j]
                   \/ ~up)
-----------------------------------------------------------------------------
(***************************************************************************)
(* The service implements the life cycle of JobLifecycle.                  *)
(***************************************************************************)
PhaseOf(j) ==
  IF Present(j) THEN store[j].status
  ELSE IF task[j] = "none" THEN "unknown" ELSE "gone"

Life == INSTANCE JobLifecycle WITH
  phase     <- [j \in Jobs |-> PhaseOf(j)],
  available <- {j \in Jobs : task[j] = "completed" /\ "lib" \in files[j] \ kept[j]},
  running   <- up

\* Every step of the service is a step of the life cycle or none of its
\* business, and the service keeps the life cycle's promises of progress.
LifecycleImplemented == Life!Spec
=============================================================================
