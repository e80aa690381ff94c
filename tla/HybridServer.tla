----------------------------- MODULE HybridServer -----------------------------
(***************************************************************************)
(* The hybrid server (celer-server) and its ASGI bridge (celer-pyhost).    *)
(* A request is either answered by native code, called inline on a tokio   *)
(* worker, or handed through the blocking pool to the Python app, which    *)
(* runs as one coroutine per request on a single event loop thread.  The   *)
(* handler awaits at three places (the body, the pool, the coroutine's     *)
(* future) and everything else may happen there: other requests, a client  *)
(* that goes away, an event loop that dies, an accept that fails.          *)
(*                                                                         *)
(* HTTP/1 runs the requests of a connection one after the other, so each   *)
(* request stands for itself.  Body sizes are counted in units of which    *)
(* MaxBody fit; which routes are native is the business of NativeRoutes.   *)
(***************************************************************************)
EXTENDS Naturals, FiniteSets, Sequences

CONSTANTS
  Requests,   (* the requests the clients may make                           *)
  Workers,    (* tokio worker threads (--workers)                            *)
  PoolSize,   (* the most threads the blocking pool may have                 *)
  MaxBody,    (* max_body_size                                               *)
  MaxParts,   (* bound: body messages one coroutine sends                    *)
  Starts      (* the http.response.start messages the app may send           *)

ASSUME HybridAssumption ==
  /\ Workers \in Nat \ {0}
  /\ PoolSize \in Nat \ {0}
  /\ MaxBody \in Nat
  /\ MaxParts \in Nat
  /\ Starts \subseteq [status : Nat, headers : SUBSET {"plain", "unprintable", "misnamed", "tuple"}]

VARIABLES
  stage,     (* where the handler of each request stands                     *)
  received,  (* units of its body collected so far                           *)
  queue,     (* closures waiting for a thread of the pool, oldest first      *)
  thread,    (* where the spawn_blocking closure of each request stands      *)
  app,       (* where the app's coroutine for each request stands            *)
  resp,      (* the dict in which the helper collects what the app sends     *)
  future,    (* the concurrent future the closure waits for                  *)
  result,    (* what the closure returned                                    *)
  reply,     (* what the client got                                          *)
  loop,      (* the event loop                                               *)
  server,    (* the accept loop and the runtime                              *)
  pool       (* the threads of the blocking pool, as it was built            *)

vars == <<stage, received, queue, thread, app, resp, future, result, reply, loop, server,
          pool>>

poolVars   == <<queue, thread>>
pythonVars == <<app, resp, future, loop>>

-----------------------------------------------------------------------------
\* What the app sent: a status, its header pairs and body messages.  A pair is a
\* list or anything else ASGI allows (a tuple, say), and what it says is plain,
\* is no text (a name that is not UTF-8, a value with control characters) or
\* gives a name no header may have.
Response(s, h, n) == [status |-> s, headers |-> h, parts |-> n]

\* Variant: no status until the app sends one.
NoResponseUnset == Response(0, {}, 0)
\* The dict the helper starts from.
NoResponse == Response(500, {}, 0)

\* An answer of native code, of the app, or of an error path.
Answer(by, r) == [by |-> by, resp |-> r]
Error == Answer("error", NoResponse)
Pending == Answer("nobody", NoResponse)

FreeWorker == Cardinality({r \in Requests : stage[r] = "native"}) < Workers

Polled == server = "up" /\ FreeWorker

Occupied == {"running", "waiting"}

Busy == Cardinality({r \in Requests : thread[r] \in Occupied})

Reply(r, a) ==
  /\ stage' = [stage EXCEPT ![r] = "answered"]
  /\ reply' = [reply EXCEPT ![r] = a]

-----------------------------------------------------------------------------
(***************************************************************************)
(* handle_hybrid_request                                                   *)
(***************************************************************************)
\* The router found a native handler; a path parameter that does not convert is
\* answered at once, anything else starts the native call on this worker.
ArriveNative(r) ==
  /\ Polled
  /\ stage[r] = "none"
  /\ \/ Reply(r, Error)
     \/ stage' = [stage EXCEPT ![r] = "native"] /\ UNCHANGED reply
  /\ UNCHANGED <<received, poolVars, pythonVars, result, server, pool>>

\* call_typed returned; nobody is answered once the runtime is shutting down.
NativeReturn(r) ==
  /\ stage[r] = "native"
  /\ IF server = "up"
     THEN \E by \in {"native", "error"} : Reply(r, Answer(by, NoResponse))
     ELSE stage' = [stage EXCEPT ![r] = "gone"] /\ UNCHANGED reply
  /\ UNCHANGED <<received, poolVars, pythonVars, result, server, pool>>

ArriveAsgi(r) ==
  /\ Polled
  /\ stage[r] = "none"
  /\ stage' = [stage EXCEPT ![r] = "body"]
  /\ UNCHANGED <<received, poolVars, pythonVars, result, reply, server, pool>>

\* collect() takes frame after frame, whatever they add up to; the bound of the
\* model lies past the limit, where more makes no further difference.
BodyFrame(r) ==
  /\ Polled
  /\ stage[r] = "body"
  /\ received[r] < MaxBody + 2
  /\ received' = [received EXCEPT ![r] = @ + 1]
  /\ UNCHANGED <<stage, poolVars, pythonVars, result, reply, server, pool>>

BodyError(r) ==
  /\ Polled
  /\ stage[r] = "body"
  /\ Reply(r, Error)
  /\ UNCHANGED <<received, poolVars, pythonVars, result, server, pool>>

\* Variant: the limit is off by one.
BodyEndLax(r) ==
  /\ Polled
  /\ stage[r] = "body"
  /\ IF received[r] > MaxBody + 1
     THEN Reply(r, Error) /\ UNCHANGED poolVars
     ELSE /\ stage' = [stage EXCEPT ![r] = "calling"]
          /\ queue' = Append(queue, r)
          /\ thread' = [thread EXCEPT ![r] = "queued"]
          /\ UNCHANGED reply
  /\ UNCHANGED <<received, pythonVars, result, server, pool>>
\* The whole body is there: only now its size is looked at.
BodyEnd(r) ==
  /\ Polled
  /\ stage[r] = "body"
  /\ IF received[r] > MaxBody
     THEN Reply(r, Error) /\ UNCHANGED poolVars
     ELSE /\ stage' = [stage EXCEPT ![r] = "calling"]
          /\ queue' = Append(queue, r)
          /\ thread' = [thread EXCEPT ![r] = "queued"]
          /\ UNCHANGED reply
  /\ UNCHANGED <<received, pythonVars, result, server, pool>>

\* Whether the builder takes the status and every name it is given.
Buildable(x) == x.status \in 100 .. 999 /\ "misnamed" \notin x.headers

\* asgi_response_to_hyper skips the pairs that are no text, and gives up the
\* whole response when the builder does; errors have their own response.
ToHyper(a) ==
  IF a.by # "app" THEN a
  ELSE IF Buildable(a.resp)
       THEN Answer("app", [a.resp EXCEPT !.headers = @ \ {"unprintable"}])
       ELSE Error

\* The join handle resolved.
Respond(r) ==
  /\ Polled
  /\ stage[r] = "calling"
  /\ thread[r] = "ended"
  /\ Reply(r, ToHyper(result[r]))
  /\ UNCHANGED <<received, poolVars, pythonVars, result, server, pool>>

\* Variant: a client that leaves takes its closure off the pool.
DisconnectAborts(r) ==
  /\ Polled
  /\ stage[r] \in {"body", "calling"}
  /\ stage' = [stage EXCEPT ![r] = "gone"]
  /\ thread' = [thread EXCEPT ![r] = IF @ \in Occupied THEN "cancelled" ELSE @]
  /\ UNCHANGED <<received, queue, pythonVars, result, reply, server, pool>>
\* hyper drops the handler of a client that left at its next await; a dropped
\* join handle detaches the closure, which runs all the same.
Disconnect(r) ==
  /\ Polled
  /\ stage[r] \in {"body", "calling"}
  /\ stage' = [stage EXCEPT ![r] = "gone"]
  /\ UNCHANGED <<received, poolVars, pythonVars, result, reply, server, pool>>

-----------------------------------------------------------------------------
(***************************************************************************)
(* dispatch_blocking, on a thread of the blocking pool                     *)
(***************************************************************************)
BeginDispatch ==
  /\ server = "up"
  /\ queue # <<>>
  /\ Busy < pool
  /\ thread' = [thread EXCEPT ![Head(queue)] = "running"]
  /\ queue' = Tail(queue)
  /\ UNCHANGED <<stage, received, pythonVars, result, reply, server, pool>>

\* With the GIL: build the scope, make the coroutine, run_coroutine_threadsafe.
\* A loop that is no longer run, but not closed either, takes it without a word.
SubmitCoroutine(r) ==
  /\ thread[r] = "running"
  /\ \/ /\ thread' = [thread EXCEPT ![r] = "waiting"]
        /\ app' = [app EXCEPT ![r] = "scheduled"]
        /\ future' = [future EXCEPT ![r] = "pending"]
        /\ UNCHANGED result
     \/ /\ thread' = [thread EXCEPT ![r] = "ended"]
        /\ result' = [result EXCEPT ![r] = Error]
        /\ UNCHANGED <<app, future>>
  /\ UNCHANGED <<stage, received, queue, resp, loop, reply, server, pool>>

\* extract_response takes a status of 16 bits and pairs that are lists.
Extractable(x) == x.status < 2^16 /\ "tuple" \notin x.headers

\* future.result() returned or raised.
TakeResult(r) ==
  /\ thread[r] = "waiting"
  /\ future[r] # "pending"
  /\ thread' = [thread EXCEPT ![r] = "ended"]
  /\ result' = [result EXCEPT ![r] =
       IF future[r] = "value" /\ Extractable(resp[r]) THEN Answer("app", resp[r]) ELSE Error]
  /\ UNCHANGED <<stage, received, queue, pythonVars, reply, server, pool>>

-----------------------------------------------------------------------------
(***************************************************************************)
(* dispatch_asgi, a coroutine on the event loop.  Coroutines interleave    *)
(* wherever the app awaits.                                                *)
(***************************************************************************)
StartCoroutine(r) ==
  /\ loop = "running"
  /\ app[r] = "scheduled"
  /\ app' = [app EXCEPT ![r] = "running"]
  /\ UNCHANGED <<stage, received, poolVars, resp, future, loop, result, reply, server, pool>>

Runs(r) == loop = "running" /\ app[r] = "running"

\* A second http.response.start overwrites the first.
SendStart(r) ==
  /\ Runs(r)
  /\ \E m \in Starts : resp' = [resp EXCEPT ![r] = Response(m.status, m.headers, @.parts)]
  /\ UNCHANGED <<stage, received, poolVars, app, future, loop, result, reply, server, pool>>

SendBody(r) ==
  /\ Runs(r)
  /\ resp[r].parts < MaxParts
  /\ resp' = [resp EXCEPT ![r] = Response(@.status, @.headers, @.parts + 1)]
  /\ UNCHANGED <<stage, received, poolVars, app, future, loop, result, reply, server, pool>>

AppReturns(r) ==
  /\ Runs(r)
  /\ app' = [app EXCEPT ![r] = "returned"]
  /\ UNCHANGED <<stage, received, poolVars, resp, future, loop, result, reply, server, pool>>

\* An exception of the app, or of a second receive().
AppRaises(r) ==
  /\ Runs(r)
  /\ app' = [app EXCEPT ![r] = "raised"]
  /\ UNCHANGED <<stage, received, poolVars, resp, future, loop, result, reply, server, pool>>

\* SystemExit and KeyboardInterrupt leave run_forever, which ends the thread.
AppExits(r) ==
  /\ Runs(r)
  /\ app' = [app EXCEPT ![r] = "raised"]
  /\ loop' = "crashed"
  /\ UNCHANGED <<stage, received, poolVars, resp, future, result, reply, server, pool>>

\* Variant: the future is set when the response starts.
SettleOnStart(r) ==
  /\ loop = "running"
  /\ future[r] = "pending"
  /\ app[r] # "scheduled"
  /\ future' = [future EXCEPT ![r] = IF app[r] = "raised" THEN "exception" ELSE "value"]
  /\ UNCHANGED <<stage, received, poolVars, app, resp, loop, result, reply, server, pool>>
\* Variant: the future is settled without the loop.
SettleOffLoop(r) ==
  /\ future[r] = "pending"
  /\ app[r] \in {"returned", "raised"}
  /\ future' = [future EXCEPT ![r] = IF app[r] = "returned" THEN "value" ELSE "exception"]
  /\ UNCHANGED <<stage, received, poolVars, app, resp, loop, result, reply, server, pool>>
\* Variant: an exception does not settle the future.
SettleReturned(r) ==
  /\ loop = "running"
  /\ future[r] = "pending"
  /\ app[r] = "returned"
  /\ future' = [future EXCEPT ![r] = "value"]
  /\ UNCHANGED <<stage, received, poolVars, app, resp, loop, result, reply, server, pool>>
\* The task's done-callback, a step of the loop of its own, settles the future.
SettleFuture(r) ==
  /\ loop = "running"
  /\ future[r] = "pending"
  /\ app[r] \in {"returned", "raised"}
  /\ future' = [future EXCEPT ![r] = IF app[r] = "returned" THEN "value" ELSE "exception"]
  /\ UNCHANGED <<stage, received, poolVars, app, resp, loop, result, reply, server, pool>>

-----------------------------------------------------------------------------
(***************************************************************************)
(* The server's end: accept() fails and `?` drops the runtime, which drops *)
(* the handlers and the closures that have not begun, and waits for native *)
(* calls and for the closures that have.                                   *)
(***************************************************************************)
AcceptFails ==
  /\ server = "up"
  /\ server' = "closing"
  /\ stage' = [r \in Requests |-> IF stage[r] \in {"body", "calling"} THEN "gone" ELSE stage[r]]
  /\ thread' = [r \in Requests |-> IF thread[r] = "queued" THEN "cancelled" ELSE thread[r]]
  /\ queue' = <<>>
  /\ UNCHANGED <<received, pythonVars, result, reply, pool>>

\* Dropping the PythonHost stops the loop.
Exit ==
  /\ server = "closing"
  /\ \A r \in Requests : stage[r] # "native" /\ thread[r] \notin Occupied
  /\ server' = "exited"
  /\ loop' = IF loop = "running" THEN "stopped" ELSE loop
  /\ UNCHANGED <<stage, received, poolVars, app, resp, future, result, reply, pool>>

-----------------------------------------------------------------------------
Init ==
  /\ stage = [r \in Requests |-> "none"]
  /\ received = [r \in Requests |-> 0]
  /\ queue = <<>>
  /\ thread = [r \in Requests |-> "none"]
  /\ app = [r \in Requests |-> "none"]
  /\ resp = [r \in Requests |-> NoResponse]
  /\ future = [r \in Requests |-> "none"]
  /\ result = [r \in Requests |-> Pending]
  /\ reply = [r \in Requests |-> Pending]
  /\ loop = "running"
  /\ server = "up"
  /\ pool \in 1 .. PoolSize

Client(r) == ArriveNative(r) \/ ArriveAsgi(r) \/ BodyFrame(r) \/ BodyError(r) \/ Disconnect(r)

Handle(r) == BodyEnd(r) \/ Respond(r)

Dispatch(r) == SubmitCoroutine(r) \/ TakeResult(r)

Coroutine(r) == StartCoroutine(r) \/ SettleFuture(r)

AppSends(r) == SendStart(r) \/ SendBody(r)

AppEnds(r) == AppReturns(r) \/ AppRaises(r) \/ AppExits(r)

Next ==
  \/ \E r \in Requests :
       \/ Client(r) \/ Handle(r) \/ NativeReturn(r) \/ Dispatch(r)
       \/ Coroutine(r) \/ AppSends(r) \/ AppEnds(r)
  \/ BeginDispatch
  \/ AcceptFails
  \/ Exit

Spec == Init /\ [][Next]_vars

\* tokio, the pool and the loop run what can run; native code and the app end
\* what they began.  A client need neither send its body nor wait.
Fairness ==
  /\ \A r \in Requests :
       /\ WF_vars(Respond(r))
       /\ WF_vars(NativeReturn(r))
       /\ WF_vars(Dispatch(r))
       /\ WF_vars(Coroutine(r))
       /\ WF_vars(AppEnds(r))
  /\ WF_vars(BeginDispatch)
  /\ WF_vars(Exit)

FairSpec == Spec /\ Fairness

-----------------------------------------------------------------------------
(***************************************************************************)
(* Properties                                                              *)
(***************************************************************************)
Responses ==
  [status  : {500} \cup {m.status : m \in Starts},
   headers : SUBSET {"plain", "unprintable", "misnamed", "tuple"},
   parts   : 0 .. MaxParts]
Answers == [by : {"nobody", "native", "app", "error"}, resp : Responses]

\* Every variable has its type.
TypeOK ==
  /\ stage \in [Requests -> {"none", "native", "body", "calling", "answered", "gone"}]
  /\ received \in [Requests -> 0 .. MaxBody + 2]
  /\ queue \in Seq(Requests)
  /\ thread \in [Requests -> {"none", "queued", "running", "waiting", "ended", "cancelled"}]
  /\ app \in [Requests -> {"none", "scheduled", "running", "returned", "raised"}]
  /\ resp \in [Requests -> Responses]
  /\ future \in [Requests -> {"none", "pending", "value", "exception"}]
  /\ result \in [Requests -> Answers]
  /\ reply \in [Requests -> Answers]
  /\ loop \in {"running", "crashed", "stopped"}
  /\ server \in {"up", "closing", "exited"}
  /\ pool \in 1 .. PoolSize

\* A client is answered for the app only once its coroutine has returned, and
\* then with all that this coroutine sent and HTTP can say: the status, the parts
\* and every header pair but those that are no text.  A response is given up as a
\* whole for an error if it cannot be extracted or built, and for no other reason:
\* no client gets a part of it, or an error instead of one that is in order.
ReplyIsWhole ==
  \A r \in Requests :
    /\ reply[r].by = "app" =>
         /\ app[r] = "returned"
         /\ reply[r].resp.status = resp[r].status
         /\ reply[r].resp.parts = resp[r].parts
         /\ reply[r].resp.headers = resp[r].headers \ {"unprintable"}
    /\ stage[r] = "answered" /\ app[r] = "returned" =>
         (reply[r].by = "app" <=> Extractable(resp[r]) /\ Buildable(resp[r]))

\* The app never sees a request whose body is over the limit.
AppSeesAllowedBodies ==
  \A r \in Requests : app[r] # "none" => received[r] <= MaxBody

\* No thread of the pool is lost: a coroutine that has not come to its end has
\* a closure of its own waiting for it, whether or not its client is still
\* there, and a closure that has not begun has none.
CoroutinesAwaited ==
  \A r \in Requests :
    /\ app[r] \in {"scheduled", "running"} => thread[r] = "waiting"
    /\ thread[r] \in {"queued", "running", "cancelled"} => app[r] = "none"

\* The process does not exit while a coroutine of the app is under way, so a
\* failing accept() never cuts one short.
ExitAfterCoroutines ==
  server = "exited" => \A r \in Requests : app[r] \in {"none", "returned", "raised"}

\* Once the loop has crashed nothing of the app reaches anybody any more but
\* what had already been settled.
CrashIsSilent ==
  [][\A r \in Requests :
       loop = "crashed" /\ future[r] \in {"none", "pending"}
         => future'[r] \in {"none", "pending"} /\ reply'[r].by # "app"]_vars

\* Every request that reached the app is answered, in spite of a pool smaller
\* than the number of requests, unless its client leaves, the server ends or
\* the event loop crashes.
AsgiAnswered ==
  \A r \in Requests :
    stage[r] = "calling" ~> (stage[r] \in {"answered", "gone"} \/ loop = "crashed")

\* The process exits once accept() has failed, unless the event loop crashed.
ShutdownEnds == server = "closing" ~> (server = "exited" \/ loop = "crashed")

\* PHASE5.md: "The ASGI bridge hosts the real FastAPI app exactly as Uvicorn
\* would."  A coroutine that returned would then have its response served.
ReturnedResponsesServed ==
  \A r \in Requests : stage[r] = "answered" /\ app[r] = "returned" => reply[r].by = "app"
=============================================================================
