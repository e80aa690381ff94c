-------------------------- MODULE HybridServerProofs --------------------------
(***************************************************************************)
(* Proofs about HybridServer for every set of requests, every number of    *)
(* workers and threads and every limit on bodies.                          *)
(***************************************************************************)
EXTENDS HybridServer, TLAPS

NotBegun == {"none", "queued", "running", "cancelled"}

\* A closure exists only for a request whose body was collected and allowed.
ClosureAllowed(r) ==
  thread[r] # "none" =>
    /\ stage[r] \in {"calling", "answered", "gone"}
    /\ received[r] <= MaxBody

\* Until the closure has submitted it there is no trace of the coroutine.
NoEarlyCoroutine(r) ==
  thread[r] \in NotBegun =>
    /\ app[r] = "none"
    /\ future[r] = "none"
    /\ result[r].by # "app" /\ reply[r].by # "app"

\* The future follows the coroutine, and the closure the future.
FutureAgrees(r) ==
  /\ app[r] \in {"scheduled", "running"} => thread[r] = "waiting" /\ future[r] = "pending"
  /\ thread[r] = "waiting" => future[r] # "none"
  /\ future[r] = "value" => app[r] = "returned"
  /\ future[r] = "exception" => app[r] = "raised"

\* Until the closure has ended there is no result; then it is all the app sent,
\* if the coroutine returned and that could be extracted, and an error otherwise.
ResultAgrees(r) ==
  /\ result[r].by = "app" =>
       /\ thread[r] = "ended" /\ future[r] = "value" /\ app[r] = "returned"
       /\ result[r].resp = resp[r] /\ Extractable(resp[r])
  /\ thread[r] = "ended" /\ app[r] = "returned" =>
       (result[r].by = "app" <=> Extractable(resp[r]))

\* What the client got is what asgi_response_to_hyper makes of the result.
ReplyAgrees(r) ==
  /\ reply[r].by = "app" => stage[r] = "answered" /\ thread[r] = "ended"
  /\ stage[r] = "answered" => thread[r] \in {"none", "ended"}
  /\ stage[r] = "answered" /\ thread[r] = "ended" => reply[r] = ToHyper(result[r])

\* No thread is in use once the process has exited.
ExitAgrees(r) == server = "exited" => thread[r] \notin Occupied

RequestInv(r) ==
  /\ ClosureAllowed(r)
  /\ NoEarlyCoroutine(r)
  /\ FutureAgrees(r)
  /\ ResultAgrees(r)
  /\ ReplyAgrees(r)
  /\ ExitAgrees(r)

\* The queue holds each request at most once, and only closures not begun.
QueueAgrees ==
  /\ \A i \in 1 .. Len(queue) : thread[queue[i]] = "queued"
  /\ \A i, j \in 1 .. Len(queue) : queue[i] = queue[j] => i = j

IInv == TypeOK /\ QueueAgrees /\ \A r \in Requests : RequestInv(r)

-----------------------------------------------------------------------------
\* The answers that carry nothing of the app.
LEMMA ErrorTypes ==
  /\ NoResponse \in Responses
  /\ Error \in Answers /\ Error.by = "error"
  /\ Pending \in Answers /\ Pending.by = "nobody"
  BY HybridAssumption
  DEF NoResponse, Response, Responses, Error, Pending, Answer, Answers

\* Answers are built of their fields.
LEMMA AnswerTypes ==
  \A x \in Responses : \A by \in {"native", "app", "error"} :
    /\ Answer(by, x) \in Answers
    /\ Answer(by, x).by = by
    /\ Answer(by, x).resp = x
  BY DEF Answer, Answers

\* What the app sends keeps its response one.
LEMMA SendTypes ==
  \A x \in Responses :
    /\ \A m \in Starts : Response(m.status, m.headers, x.parts) \in Responses
    /\ x.parts < MaxParts => Response(x.status, x.headers, x.parts + 1) \in Responses
  BY HybridAssumption DEF Response, Responses

\* What asgi_response_to_hyper makes of an answer: the answer without the pairs
\* that are no text, if that can be built, and otherwise an error.
LEMMA ToHyperFacts ==
  ASSUME NEW a \in Answers
  PROVE  /\ ToHyper(a) \in Answers
         /\ ToHyper(a).by = "app" <=> a.by = "app" /\ Buildable(a.resp)
         /\ ToHyper(a).by = "app" =>
              /\ ToHyper(a).resp.status = a.resp.status
              /\ ToHyper(a).resp.parts = a.resp.parts
              /\ ToHyper(a).resp.headers = a.resp.headers \ {"unprintable"}
  <1>1. PICK x \in Responses : x = a.resp
    BY DEF Answers
  <1>2. PICK y : y = [x EXCEPT !.headers = @ \ {"unprintable"}]
    OBVIOUS
  <1>3. /\ y \in Responses
        /\ y.status = x.status /\ y.parts = x.parts /\ y.headers = x.headers \ {"unprintable"}
    BY <1>2 DEF Responses
  <1>4. ToHyper(a) = IF a.by # "app" THEN a ELSE IF Buildable(x) THEN Answer("app", y) ELSE Error
    BY <1>1, <1>2 DEF ToHyper
  <1>5. /\ Answer("app", y) \in Answers
        /\ Answer("app", y).by = "app" /\ Answer("app", y).resp = y
    BY <1>3, AnswerTypes
  <1> QED BY <1>1, <1>3, <1>4, <1>5, ErrorTypes

\* Taking the oldest closure from the queue, and adding one.
LEMMA QueueOps ==
  ASSUME queue \in Seq(Requests)
  PROVE  /\ queue # <<>> =>
              /\ Head(queue) \in Requests
              /\ Head(queue) = queue[1]
              /\ Tail(queue) \in Seq(Requests)
              /\ Len(queue) \in Nat \ {0}
              /\ Len(Tail(queue)) = Len(queue) - 1
              /\ \A i \in 1 .. Len(Tail(queue)) : Tail(queue)[i] = queue[i + 1]
         /\ \A r \in Requests :
              /\ Append(queue, r) \in Seq(Requests)
              /\ Len(Append(queue, r)) = Len(queue) + 1
              /\ \A i \in 1 .. Len(queue) : Append(queue, r)[i] = queue[i]
              /\ Append(queue, r)[Len(queue) + 1] = r
  OBVIOUS

LEMMA InitIInv == Init => IInv
  <1> SUFFICES ASSUME Init PROVE IInv
    OBVIOUS
  <1>1. TypeOK
    BY ErrorTypes, HybridAssumption DEF Init, TypeOK
  <1>2. QueueAgrees
    BY DEF Init, QueueAgrees
  <1>3. \A r \in Requests : RequestInv(r)
    BY ErrorTypes
    DEF Init, RequestInv, ClosureAllowed, NoEarlyCoroutine, FutureAgrees, ResultAgrees,
        ReplyAgrees, ExitAgrees, NotBegun
  <1> QED BY <1>1, <1>2, <1>3 DEF IInv

\* Every action keeps the types.
LEMMA TypeStep == IInv /\ [Next]_vars => TypeOK'
  <1> SUFFICES ASSUME IInv, [Next]_vars PROVE TypeOK'
    OBVIOUS
  <1> USE DEF IInv, TypeOK, poolVars, pythonVars
  <1>1. ASSUME NEW r \in Requests, ArriveNative(r) \/ BodyError(r) PROVE TypeOK'
    <2>1. \/ stage' = [stage EXCEPT ![r] = "answered"] /\ reply' = [reply EXCEPT ![r] = Error]
          \/ stage' = [stage EXCEPT ![r] = "native"] /\ reply' = reply
      BY <1>1 DEF ArriveNative, BodyError, Reply
    <2> QED BY <1>1, <2>1, ErrorTypes DEF ArriveNative, BodyError
  <1>2. ASSUME NEW r \in Requests, NativeReturn(r) PROVE TypeOK'
    <2>1. PICK a \in Answers, s \in {"answered", "gone"} :
            /\ stage' = [stage EXCEPT ![r] = s]
            /\ reply' = [reply EXCEPT ![r] = a] \/ reply' = reply
      BY <1>2, ErrorTypes, AnswerTypes DEF NativeReturn, Reply
    <2> QED BY <1>2, <2>1 DEF NativeReturn
  <1>3. ASSUME NEW r \in Requests, ArriveAsgi(r) \/ Disconnect(r) PROVE TypeOK'
    BY <1>3 DEF ArriveAsgi, Disconnect
  <1>4. ASSUME NEW r \in Requests, BodyFrame(r) PROVE TypeOK'
    <2>1. received[r] + 1 \in 0 .. MaxBody + 2
      BY <1>4, HybridAssumption DEF BodyFrame
    <2> QED BY <1>4, <2>1 DEF BodyFrame
  <1>5. ASSUME NEW r \in Requests, BodyEnd(r) PROVE TypeOK'
    <2>1. Append(queue, r) \in Seq(Requests)
      BY QueueOps
    <2> QED BY <1>5, <2>1, ErrorTypes DEF BodyEnd, Reply
  <1>6. ASSUME NEW r \in Requests, Respond(r) PROVE TypeOK'
    <2>1. PICK a \in Answers : a = ToHyper(result[r])
      BY ToHyperFacts
    <2> QED BY <1>6, <2>1 DEF Respond, Reply
  <1>7. ASSUME NEW r \in Requests, SubmitCoroutine(r) PROVE TypeOK'
    BY <1>7, ErrorTypes DEF SubmitCoroutine
  <1>8. ASSUME NEW r \in Requests, TakeResult(r) PROVE TypeOK'
    <2>1. PICK a \in Answers : result' = [result EXCEPT ![r] = a]
      BY <1>8, ErrorTypes, AnswerTypes DEF TakeResult
    <2> QED BY <1>8, <2>1 DEF TakeResult
  <1>9. ASSUME NEW r \in Requests, AppSends(r) PROVE TypeOK'
    <2>1. CASE SendStart(r)
      <3>1. PICK m \in Starts :
               resp' = [resp EXCEPT ![r] = Response(m.status, m.headers, resp[r].parts)]
        BY <2>1 DEF SendStart
      <3>2. Response(m.status, m.headers, resp[r].parts) \in Responses
        BY resp[r] \in Responses, SendTypes
      <3> QED BY <2>1, <3>1, <3>2 DEF SendStart
    <2>2. CASE SendBody(r)
      <3>1. Response(resp[r].status, resp[r].headers, resp[r].parts + 1) \in Responses
        BY <2>2, resp[r] \in Responses, SendTypes DEF SendBody
      <3> QED BY <2>2, <3>1 DEF SendBody
    <2> QED BY <1>9, <2>1, <2>2 DEF AppSends
  <1>10. ASSUME NEW r \in Requests, Coroutine(r) PROVE TypeOK'
    BY <1>10 DEF Coroutine, StartCoroutine, SettleFuture
  <1>11. ASSUME NEW r \in Requests, AppEnds(r) PROVE TypeOK'
    BY <1>11 DEF AppEnds, AppReturns, AppRaises, AppExits
  <1>12. CASE BeginDispatch
    <2>1. Head(queue) \in Requests /\ Tail(queue) \in Seq(Requests)
      BY <1>12, QueueOps DEF BeginDispatch
    <2> QED BY <1>12, <2>1 DEF BeginDispatch
  <1>13. CASE AcceptFails
    <2>1. stage' \in [Requests -> {"none", "native", "body", "calling", "answered", "gone"}]
      BY <1>13 DEF AcceptFails
    <2>2. thread' \in [Requests -> {"none", "queued", "running", "waiting", "ended", "cancelled"}]
      BY <1>13 DEF AcceptFails
    <2>3. queue' \in Seq(Requests)
      BY <1>13 DEF AcceptFails
    <2> QED BY <1>13, <2>1, <2>2, <2>3 DEF AcceptFails
  <1>14. CASE Exit
    BY <1>14 DEF Exit
  <1>15. CASE UNCHANGED vars
    BY <1>15 DEF vars
  <1> QED
    BY <1>1, <1>2, <1>3, <1>4, <1>5, <1>6, <1>7, <1>8, <1>9, <1>10, <1>11, <1>12, <1>13, <1>14,
       <1>15
    DEF Next, Client, Handle, Dispatch

\* Every action keeps the queue free of duplicates and of closures begun.
LEMMA QueueStep == IInv /\ [Next]_vars => QueueAgrees'
  <1> SUFFICES ASSUME IInv, [Next]_vars PROVE QueueAgrees'
    OBVIOUS
  <1>t. TypeOK /\ QueueAgrees /\ \A r \in Requests : ClosureAllowed(r)
    BY DEF IInv, RequestInv
  <1>q. \A i \in 1 .. Len(queue) : queue[i] \in Requests
    BY <1>t DEF TypeOK
  <1>1. CASE UNCHANGED poolVars
    BY <1>t, <1>1 DEF QueueAgrees, poolVars
  <1>2. ASSUME NEW r \in Requests, BodyEnd(r), ~UNCHANGED poolVars PROVE QueueAgrees'
    <2>1. /\ stage[r] = "body"
          /\ queue' = Append(queue, r)
          /\ thread' = [thread EXCEPT ![r] = "queued"]
      BY <1>2 DEF BodyEnd
    <2>2. thread[r] = "none"
      BY <1>t, <2>1 DEF ClosureAllowed, TypeOK
    <2>3. \A i \in 1 .. Len(queue) : queue[i] # r
      BY <1>t, <2>2 DEF QueueAgrees
    <2> QED BY <1>t, <1>q, <2>1, <2>3, QueueOps DEF QueueAgrees, TypeOK
  <1>3. ASSUME NEW r \in Requests, Dispatch(r) PROVE QueueAgrees'
    <2>1. PICK t \in {"waiting", "ended"} : thread' = [thread EXCEPT ![r] = t]
      BY <1>3 DEF Dispatch, SubmitCoroutine, TakeResult
    <2>2. thread[r] \in Occupied /\ queue' = queue
      BY <1>3 DEF Dispatch, SubmitCoroutine, TakeResult, Occupied
    <2>3. \A i \in 1 .. Len(queue) : queue[i] # r
      BY <1>t, <2>2 DEF QueueAgrees, Occupied
    <2> QED BY <1>t, <1>q, <2>1, <2>2, <2>3 DEF QueueAgrees, TypeOK
  <1>4. CASE BeginDispatch
    <2>1. /\ queue # <<>> /\ queue' = Tail(queue)
          /\ thread' = [thread EXCEPT ![queue[1]] = "running"]
      BY <1>4, <1>t, QueueOps DEF BeginDispatch, TypeOK
    <2>2. Len(queue) \in Nat \ {0} /\ Len(queue') = Len(queue) - 1
      BY <1>t, <2>1, QueueOps DEF TypeOK
    <2>3. \A i \in 1 .. Len(queue') : queue'[i] = queue[i + 1] /\ i + 1 \in 1 .. Len(queue)
      BY <1>t, <2>1, <2>2, QueueOps DEF TypeOK
    <2>4. \A i \in 1 .. Len(queue') : queue'[i] # queue[1]
      BY <1>t, <2>2, <2>3 DEF QueueAgrees
    <2>5. \A i \in 1 .. Len(queue') : thread'[queue'[i]] = "queued"
      BY <1>t, <1>q, <2>1, <2>3, <2>4 DEF QueueAgrees, TypeOK
    <2>6. \A i, j \in 1 .. Len(queue') : queue'[i] = queue'[j] => i = j
      BY <1>t, <2>2, <2>3 DEF QueueAgrees
    <2> QED BY <2>5, <2>6 DEF QueueAgrees
  <1>5. CASE AcceptFails
    BY <1>5 DEF AcceptFails, QueueAgrees
  <1>6. ASSUME NEW r \in Requests,
               Client(r) \/ NativeReturn(r) \/ Respond(r) \/ Coroutine(r) \/ AppSends(r) \/ AppEnds(r)
        PROVE  UNCHANGED poolVars
    BY <1>6 DEF Client, ArriveNative, ArriveAsgi, BodyFrame, BodyError, Disconnect, NativeReturn,
                Respond, Coroutine, StartCoroutine, SettleFuture, AppSends, SendStart, SendBody,
                AppEnds, AppReturns, AppRaises, AppExits, poolVars
  <1>7. CASE Exit \/ UNCHANGED vars
    BY <1>1, <1>7 DEF Exit, vars, poolVars
  <1> QED
    BY <1>1, <1>2, <1>3, <1>4, <1>5, <1>6, <1>7 DEF Next, Handle

-----------------------------------------------------------------------------
\* What is recorded of request k stays as it is.
Untouched(k) ==
  /\ stage'[k] = stage[k] /\ received'[k] = received[k] /\ thread'[k] = thread[k]
  /\ app'[k] = app[k] /\ resp'[k] = resp[k] /\ future'[k] = future[k]
  /\ result'[k] = result[k] /\ reply'[k] = reply[k]

LEMMA UntouchedKeeps ==
  \A k \in Requests : RequestInv(k) /\ Untouched(k) /\ server' = server => RequestInv(k)'
  BY DEF RequestInv, Untouched, ClosureAllowed, NoEarlyCoroutine, FutureAgrees, ResultAgrees,
          ReplyAgrees, ExitAgrees

\* Every action keeps what the invariant says of each request.
LEMMA RequestStep == IInv /\ [Next]_vars => \A k \in Requests : RequestInv(k)'
  <1> SUFFICES ASSUME IInv, [Next]_vars, NEW k \in Requests PROVE RequestInv(k)'
    OBVIOUS
  <1> USE DEF poolVars, pythonVars
  <1>t. TypeOK
    BY DEF IInv
  <1>i. RequestInv(k)
    BY DEF IInv
  <1>u. Untouched(k) /\ server' = server => RequestInv(k)'
    BY <1>i, UntouchedKeeps
  <1>1. ASSUME NEW r \in Requests, ArriveNative(r) \/ BodyError(r) PROVE RequestInv(k)'
    <2>1. \/ stage' = [stage EXCEPT ![r] = "answered"] /\ reply' = [reply EXCEPT ![r] = Error]
          \/ stage' = [stage EXCEPT ![r] = "native"] /\ reply' = reply
      BY <1>1 DEF ArriveNative, BodyError, Reply
    <2>2. stage[r] \in {"none", "body"} /\ UNCHANGED <<received, thread, app, resp, future, result, server>>
      BY <1>1 DEF ArriveNative, BodyError
    <2>3. CASE k = r
      BY <1>i, <1>t, <2>1, <2>2, <2>3, ErrorTypes
      DEF TypeOK, RequestInv, ClosureAllowed, NoEarlyCoroutine, FutureAgrees, ResultAgrees,
          ReplyAgrees, ExitAgrees
    <2>4. CASE k # r
      BY <1>u, <1>t, <2>1, <2>2, <2>4 DEF TypeOK, Untouched
    <2> QED BY <2>3, <2>4
  <1>2. ASSUME NEW r \in Requests, NativeReturn(r) PROVE RequestInv(k)'
    <2>1. PICK a \in Answers, s \in {"answered", "gone"} :
            /\ stage' = [stage EXCEPT ![r] = s]
            /\ reply' = [reply EXCEPT ![r] = a] \/ reply' = reply
            /\ a.by # "app"
      BY <1>2, ErrorTypes, AnswerTypes DEF NativeReturn, Reply
    <2>2. stage[r] = "native" /\ UNCHANGED <<received, thread, app, resp, future, result, server>>
      BY <1>2 DEF NativeReturn
    <2>3. CASE k = r
      BY <1>i, <1>t, <2>1, <2>2, <2>3
      DEF TypeOK, RequestInv, ClosureAllowed, NoEarlyCoroutine, FutureAgrees, ResultAgrees,
          ReplyAgrees, ExitAgrees
    <2>4. CASE k # r
      BY <1>u, <1>t, <2>1, <2>2, <2>4 DEF TypeOK, Untouched
    <2> QED BY <2>3, <2>4
  <1>3. ASSUME NEW r \in Requests, ArriveAsgi(r) \/ Disconnect(r) PROVE RequestInv(k)'
    <2>1. PICK s \in {"body", "gone"} :
            /\ stage' = [stage EXCEPT ![r] = s]
            /\ stage[r] = "none" \/ s = "gone"
            /\ stage[r] # "answered"
      BY <1>3 DEF ArriveAsgi, Disconnect
    <2>2. UNCHANGED <<received, thread, app, resp, future, result, reply, server>>
      BY <1>3 DEF ArriveAsgi, Disconnect
    <2>3. CASE k = r
      BY <1>i, <1>t, <2>1, <2>2, <2>3
      DEF TypeOK, RequestInv, ClosureAllowed, NoEarlyCoroutine, FutureAgrees, ResultAgrees,
          ReplyAgrees, ExitAgrees
    <2>4. CASE k # r
      BY <1>u, <1>t, <2>1, <2>2, <2>4 DEF TypeOK, Untouched
    <2> QED BY <2>3, <2>4
  <1>4. ASSUME NEW r \in Requests, BodyFrame(r) PROVE RequestInv(k)'
    <2>1. /\ stage[r] = "body" /\ received' = [received EXCEPT ![r] = @ + 1]
          /\ UNCHANGED <<stage, thread, app, resp, future, result, reply, server>>
      BY <1>4 DEF BodyFrame
    <2>2. CASE k = r
      BY <1>i, <1>t, <2>1, <2>2
      DEF TypeOK, RequestInv, ClosureAllowed, NoEarlyCoroutine, FutureAgrees, ResultAgrees,
          ReplyAgrees, ExitAgrees
    <2>3. CASE k # r
      BY <1>u, <1>t, <2>1, <2>3 DEF TypeOK, Untouched
    <2> QED BY <2>2, <2>3
  <1>5. ASSUME NEW r \in Requests, BodyEnd(r) PROVE RequestInv(k)'
    <2>1. /\ stage[r] = "body"
          /\ UNCHANGED <<received, app, resp, future, result, server>>
      BY <1>5 DEF BodyEnd
    <2>2. \/ /\ stage' = [stage EXCEPT ![r] = "answered"]
             /\ reply' = [reply EXCEPT ![r] = Error] /\ thread' = thread
          \/ /\ stage' = [stage EXCEPT ![r] = "calling"]
             /\ thread' = [thread EXCEPT ![r] = "queued"] /\ reply' = reply
             /\ received[r] <= MaxBody
      BY <1>5, <1>t, HybridAssumption DEF BodyEnd, Reply, TypeOK
    <2>3. CASE k = r
      <3>1. thread[r] = "none"
        BY <1>i, <1>t, <2>1, <2>3 DEF TypeOK, RequestInv, ClosureAllowed
      <3> QED BY <1>i, <1>t, <2>1, <2>2, <2>3, <3>1, ErrorTypes
          DEF TypeOK, RequestInv, ClosureAllowed, NoEarlyCoroutine, FutureAgrees, ResultAgrees,
          ReplyAgrees, ExitAgrees,
              NotBegun, Occupied
    <2>4. CASE k # r
      BY <1>u, <1>t, <2>1, <2>2, <2>4 DEF TypeOK, Untouched
    <2> QED BY <2>3, <2>4
  <1>6. ASSUME NEW r \in Requests, Respond(r) PROVE RequestInv(k)'
    <2>0. PICK a : a = ToHyper(result[r])
      OBVIOUS
    <2>1. /\ stage' = [stage EXCEPT ![r] = "answered"] /\ thread[r] = "ended"
          /\ reply' = [reply EXCEPT ![r] = a]
          /\ UNCHANGED <<received, thread, app, resp, future, result, server>>
      BY <1>6, <2>0 DEF Respond, Reply
    <2>4. a = ToHyper(result[r])'
      BY <2>0, <2>1 DEF ToHyper
    <2>2. CASE k = r
      BY <1>i, <1>t, <2>1, <2>2, <2>4
      DEF TypeOK, RequestInv, ClosureAllowed, NoEarlyCoroutine, FutureAgrees, ResultAgrees,
          ReplyAgrees, ExitAgrees, NotBegun
    <2>3. CASE k # r
      BY <1>u, <1>t, <2>1, <2>3 DEF TypeOK, Untouched
    <2> QED BY <2>2, <2>3
  <1>7. ASSUME NEW r \in Requests, SubmitCoroutine(r) PROVE RequestInv(k)'
    <2>1. /\ thread[r] = "running"
          /\ UNCHANGED <<stage, received, resp, reply, server>>
      BY <1>7 DEF SubmitCoroutine
    <2>2. \/ /\ thread' = [thread EXCEPT ![r] = "waiting"] /\ app' = [app EXCEPT ![r] = "scheduled"]
             /\ future' = [future EXCEPT ![r] = "pending"] /\ result' = result
          \/ /\ thread' = [thread EXCEPT ![r] = "ended"] /\ result' = [result EXCEPT ![r] = Error]
             /\ app' = app /\ future' = future
      BY <1>7 DEF SubmitCoroutine
    <2>3. CASE k = r
      <3>1. /\ app[r] = "none" /\ future[r] = "none" /\ result[r].by # "app" /\ reply[r].by # "app"
            /\ server # "exited"
        BY <1>i, <2>1, <2>3 DEF RequestInv, NoEarlyCoroutine, NotBegun, ExitAgrees, Occupied
      <3> QED BY <1>i, <1>t, <2>1, <2>2, <2>3, <3>1, ErrorTypes
          DEF TypeOK, RequestInv, ClosureAllowed, NoEarlyCoroutine, FutureAgrees, ResultAgrees,
          ReplyAgrees, ExitAgrees,
              NotBegun
    <2>4. CASE k # r
      BY <1>u, <1>t, <2>1, <2>2, <2>4 DEF TypeOK, Untouched
    <2> QED BY <2>3, <2>4
  <1>8. ASSUME NEW r \in Requests, TakeResult(r) PROVE RequestInv(k)'
    <2>1. PICK a \in Answers :
            /\ result' = [result EXCEPT ![r] = a]
            /\ a.by = "app" <=> future[r] = "value" /\ Extractable(resp[r])
            /\ a.by = "app" => a.resp = resp[r]
      <3>1. resp[r] \in Responses
        BY <1>t DEF TypeOK
      <3> QED BY <1>8, <3>1, ErrorTypes, AnswerTypes DEF TakeResult
    <2>2. /\ thread[r] = "waiting" /\ future[r] # "pending"
          /\ thread' = [thread EXCEPT ![r] = "ended"]
          /\ UNCHANGED <<stage, received, app, resp, future, reply, server>>
      BY <1>8 DEF TakeResult
    <2>3. CASE k = r
      BY <1>i, <1>t, <2>1, <2>2, <2>3
      DEF TypeOK, RequestInv, ClosureAllowed, NoEarlyCoroutine, FutureAgrees, ResultAgrees,
          ReplyAgrees, ExitAgrees,
          NotBegun, Occupied
    <2>4. CASE k # r
      BY <1>u, <1>t, <2>1, <2>2, <2>4 DEF TypeOK, Untouched
    <2> QED BY <2>3, <2>4
  <1>9. ASSUME NEW r \in Requests, AppSends(r) PROVE RequestInv(k)'
    <2>1. PICK x : resp' = [resp EXCEPT ![r] = x]
      BY <1>9 DEF AppSends, SendStart, SendBody
    <2>2. /\ app[r] = "running"
          /\ UNCHANGED <<stage, received, thread, app, future, result, reply, server>>
      BY <1>9 DEF AppSends, SendStart, SendBody, Runs
    <2>3. CASE k = r
      BY <1>i, <1>t, <2>1, <2>2, <2>3
      DEF TypeOK, RequestInv, ClosureAllowed, NoEarlyCoroutine, FutureAgrees, ResultAgrees,
          ReplyAgrees, ExitAgrees
    <2>4. CASE k # r
      BY <1>u, <1>t, <2>1, <2>2, <2>4 DEF TypeOK, Untouched
    <2> QED BY <2>3, <2>4
  <1>10. ASSUME NEW r \in Requests, StartCoroutine(r) \/ AppEnds(r) PROVE RequestInv(k)'
    <2>1. PICK s \in {"running", "returned", "raised"} : app' = [app EXCEPT ![r] = s]
      BY <1>10 DEF StartCoroutine, AppEnds, AppReturns, AppRaises, AppExits
    <2>2. /\ app[r] \in {"scheduled", "running"}
          /\ UNCHANGED <<stage, received, thread, resp, future, result, reply, server>>
      BY <1>10 DEF StartCoroutine, AppEnds, AppReturns, AppRaises, AppExits, Runs
    <2>3. CASE k = r
      BY <1>i, <1>t, <2>1, <2>2, <2>3
      DEF TypeOK, RequestInv, ClosureAllowed, NoEarlyCoroutine, FutureAgrees, ResultAgrees,
          ReplyAgrees, ExitAgrees,
          NotBegun
    <2>4. CASE k # r
      BY <1>u, <1>t, <2>1, <2>2, <2>4 DEF TypeOK, Untouched
    <2> QED BY <2>3, <2>4
  <1>11. ASSUME NEW r \in Requests, SettleFuture(r) PROVE RequestInv(k)'
    <2>1. /\ app[r] \in {"returned", "raised"} /\ future[r] = "pending"
          /\ future' = [future EXCEPT ![r] = IF app[r] = "returned" THEN "value" ELSE "exception"]
          /\ UNCHANGED <<stage, received, thread, app, resp, result, reply, server>>
      BY <1>11 DEF SettleFuture
    <2>2. CASE k = r
      BY <1>i, <1>t, <2>1, <2>2
      DEF TypeOK, RequestInv, ClosureAllowed, NoEarlyCoroutine, FutureAgrees, ResultAgrees,
          ReplyAgrees, ExitAgrees,
          NotBegun
    <2>3. CASE k # r
      BY <1>u, <1>t, <2>1, <2>3 DEF TypeOK, Untouched
    <2> QED BY <2>2, <2>3
  <1>12. CASE BeginDispatch
    <2>1. PICK h : h = Head(queue)
      OBVIOUS
    <2>2. h \in Requests /\ thread[h] = "queued"
      <3>1. queue # <<>> /\ queue \in Seq(Requests)
        BY <1>12, <1>t DEF BeginDispatch, TypeOK
      <3>2. h = queue[1] /\ 1 \in 1 .. Len(queue) /\ h \in Requests
        BY <2>1, <3>1, QueueOps
      <3> QED BY <3>2 DEF IInv, QueueAgrees
    <2>3. /\ server = "up" /\ thread' = [thread EXCEPT ![h] = "running"]
          /\ UNCHANGED <<stage, received, app, resp, future, result, reply, server>>
      BY <1>12, <2>1 DEF BeginDispatch
    <2>4. CASE k = h
      BY <1>i, <1>t, <2>2, <2>3, <2>4
      DEF TypeOK, RequestInv, ClosureAllowed, NoEarlyCoroutine, FutureAgrees, ResultAgrees,
          ReplyAgrees, ExitAgrees,
          NotBegun
    <2>5. CASE k # h
      BY <1>u, <1>t, <2>2, <2>3, <2>5 DEF TypeOK, Untouched
    <2> QED BY <2>4, <2>5
  <1>13. CASE AcceptFails
    <2>1. /\ stage'[k] = stage[k] \/ (stage[k] \in {"body", "calling"} /\ stage'[k] = "gone")
          /\ thread'[k] = thread[k] \/ (thread[k] = "queued" /\ thread'[k] = "cancelled")
          /\ server' = "closing"
          /\ UNCHANGED <<received, app, resp, future, result, reply>>
      BY <1>13 DEF AcceptFails
    <2> QED BY <1>i, <2>1
        DEF RequestInv, ClosureAllowed, NoEarlyCoroutine, FutureAgrees, ResultAgrees,
            ReplyAgrees, ExitAgrees, NotBegun
  <1>14. CASE Exit
    <2>1. /\ thread[k] \notin Occupied
          /\ UNCHANGED <<stage, received, thread, app, resp, future, result, reply>>
      BY <1>14 DEF Exit
    <2> QED BY <1>i, <2>1
        DEF RequestInv, ClosureAllowed, NoEarlyCoroutine, FutureAgrees, ResultAgrees,
          ReplyAgrees, ExitAgrees
  <1>15. CASE UNCHANGED vars
    BY <1>u, <1>15 DEF vars, Untouched
  <1> QED
    BY <1>1, <1>2, <1>3, <1>4, <1>5, <1>6, <1>7, <1>8, <1>9, <1>10, <1>11, <1>12, <1>13, <1>14,
       <1>15
    DEF Next, Client, Handle, Dispatch, Coroutine

-----------------------------------------------------------------------------
\* The invariant that carries the proofs holds in every reachable state.
THEOREM HybridInvariant == Spec => []IInv
  <1>1. IInv /\ [Next]_vars => IInv'
    BY TypeStep, QueueStep, RequestStep DEF IInv
  <1> QED BY <1>1, InitIInv, PTL DEF Spec

\* Every variable of the hybrid server keeps its type.
THEOREM HybridTypeCorrect == Spec => []TypeOK
  <1>1. IInv => TypeOK
    BY DEF IInv
  <1> QED BY <1>1, HybridInvariant, PTL

\* A client gets all that its coroutine sent and HTTP can say, or an error instead
\* of a response that cannot be built, whatever else the handler's awaits let
\* happen: dispatch_asgi, extract_response and asgi_response_to_hyper together.
THEOREM RepliesWhole == Spec => []ReplyIsWhole
  <1>1. IInv => ReplyIsWhole
    <2> SUFFICES ASSUME IInv, NEW r \in Requests
                 PROVE  /\ reply[r].by = "app" =>
                             /\ app[r] = "returned"
                             /\ reply[r].resp.status = resp[r].status
                             /\ reply[r].resp.parts = resp[r].parts
                             /\ reply[r].resp.headers = resp[r].headers \ {"unprintable"}
                        /\ stage[r] = "answered" /\ app[r] = "returned" =>
                             (reply[r].by = "app" <=> Extractable(resp[r]) /\ Buildable(resp[r]))
      BY DEF ReplyIsWhole
    <2>1. /\ ResultAgrees(r) /\ ReplyAgrees(r) /\ NoEarlyCoroutine(r)
          /\ result[r] \in Answers
      BY DEF IInv, RequestInv, TypeOK
    <2>2. ASSUME reply[r].by = "app"
          PROVE  reply[r] = ToHyper(result[r]) /\ result[r].by = "app"
      BY <2>1, <2>2, ToHyperFacts DEF ReplyAgrees
    <2>3. ASSUME stage[r] = "answered", app[r] = "returned"
          PROVE  reply[r] = ToHyper(result[r]) /\ thread[r] = "ended"
      BY <2>1, <2>3 DEF ReplyAgrees, NoEarlyCoroutine, NotBegun
    <2> QED BY <2>1, <2>2, <2>3, ToHyperFacts DEF ResultAgrees
  <1> QED BY <1>1, HybridInvariant, PTL

\* No coroutine is given a body over the limit.
THEOREM BodiesAllowed == Spec => []AppSeesAllowedBodies
  <1>1. IInv => AppSeesAllowedBodies
    BY DEF IInv, RequestInv, ClosureAllowed, NoEarlyCoroutine, NotBegun, AppSeesAllowedBodies
  <1> QED BY <1>1, HybridInvariant, PTL

\* Every coroutine under way has a closure of its own waiting for it.
THEOREM CoroutinesKept == Spec => []CoroutinesAwaited
  <1>1. IInv => CoroutinesAwaited
    BY DEF IInv, RequestInv, NoEarlyCoroutine, FutureAgrees, NotBegun, CoroutinesAwaited
  <1> QED BY <1>1, HybridInvariant, PTL

\* The process exits only after the last coroutine.
THEOREM ExitIsLast == Spec => []ExitAfterCoroutines
  <1>1. IInv => ExitAfterCoroutines
    BY DEF IInv, TypeOK, RequestInv, FutureAgrees, ExitAgrees, Occupied, ExitAfterCoroutines
  <1> QED BY <1>1, HybridInvariant, PTL

\* After a crash of the loop nothing that was not settled is answered.
THEOREM CrashKeepsSilent == Spec => CrashIsSilent
  <1> DEFINE Silent ==
        \A r \in Requests :
          loop = "crashed" /\ future[r] \in {"none", "pending"}
            => future'[r] \in {"none", "pending"} /\ reply'[r].by # "app"
  <1>1. IInv /\ IInv' /\ [Next]_vars => [Silent]_vars
    <2> SUFFICES ASSUME IInv, IInv', [Next]_vars, NEW r \in Requests, loop = "crashed",
                        future[r] \in {"none", "pending"}
                 PROVE  future'[r] \in {"none", "pending"} /\ reply'[r].by # "app"
      OBVIOUS
    <2>1. ResultAgrees(r)' /\ ReplyAgrees(r)' /\ result'[r] \in Answers
      BY DEF IInv, RequestInv, TypeOK
    <2>2. future \in [Requests -> {"none", "pending", "value", "exception"}]
      BY DEF IInv, TypeOK
    <2>3. ASSUME NEW q \in Requests, SubmitCoroutine(q) PROVE future'[r] \in {"none", "pending"}
      BY <2>2, <2>3 DEF SubmitCoroutine
    <2>4. ASSUME NEW q \in Requests,
                 Client(q) \/ Handle(q) \/ NativeReturn(q) \/ TakeResult(q) \/ AppSends(q) \/ AppEnds(q)
          PROVE  future' = future
      BY <2>4
      DEF Client, ArriveNative, ArriveAsgi, BodyFrame, BodyError, Disconnect, Handle, BodyEnd,
          Respond, NativeReturn, TakeResult, AppSends, SendStart, SendBody, AppEnds, AppReturns,
          AppRaises, AppExits, pythonVars
    <2>5. ASSUME NEW q \in Requests, Coroutine(q) PROVE future' = future
      BY <2>5 DEF Coroutine, StartCoroutine, SettleFuture
    <2>6. ASSUME BeginDispatch \/ AcceptFails \/ Exit \/ UNCHANGED vars
          PROVE  future' = future
      BY <2>6 DEF BeginDispatch, AcceptFails, Exit, vars, pythonVars
    <2>7. future'[r] \in {"none", "pending"}
      BY <2>3, <2>4, <2>5, <2>6 DEF Next, Dispatch
    <2>8. reply'[r].by = "app" => result'[r].by = "app"
      <3>1. reply'[r].by = "app" => reply'[r] = ToHyper(result[r])'
        BY <2>1 DEF ReplyAgrees
      <3>2. ToHyper(result[r])' = ToHyper(result'[r])
        BY DEF ToHyper
      <3> QED BY <2>1, <3>1, <3>2, ToHyperFacts
    <2> QED BY <2>1, <2>7, <2>8 DEF ResultAgrees
  <1> QED BY <1>1, HybridInvariant, PTL DEF Spec, CrashIsSilent
=============================================================================
