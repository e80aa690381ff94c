# Celer in TLA+

TLA+ models of Celer, an ahead-of-time compiler and server for Python web
applications written in Rust, with the TLC configurations that check them and
TLAPS proofs of their most important properties.  Paths below are relative to
`src/crates/`.

## The system

Celer parses a Python module, infers types, decides which functions can be
compiled, generates LLVM code for them and links a shared library.  `celerate
serve` then runs an HTTP server that answers the compiled routes with native
code and hands every other request to the real Python app, which runs as ASGI
coroutines in an embedded interpreter.  A second server, the cloud service,
compiles sources that clients post.

| Component | State it keeps | Operations | Hard behaviour |
|---|---|---|---|
| Cloud service (`celer-cloud`) | job store (DashMap), files under `temp/celer-cloud`, clocks | POST `/compile`, GET `/status`, GET `/download`, a supervising task and a blocking closure per job, a cleanup loop | timeout against late result, sweep against download and against late result, a bounded thread pool, files left behind, loss of the accept loop |
| Hybrid server (`celer-server`) | one handler per request, the blocking pool's queue | route, native call, body collection, ASGI dispatch | three awaits per handler, clients that leave, size limit, shutdown |
| ASGI bridge and Python host (`celer-pyhost`) | one event loop thread, a coroutine, a future and a response dict per request | submit, start, send, settle, extract, stop the loop | interleaved coroutines, exceptions, an event loop that dies, a stop while work is under way |
| Router and `serve` (`celer-server/router.rs`, `request.rs`, `celer-cli/commands/serve.rs`) | route table | analyze, compile, register, match, convert, call | which routes are compiled, order of routes, empty segments, argument order |
| Native runtime (`celer-runtime`) | a loaded library, an embedded interpreter for fallback | `call_typed`, fallback dispatch | calling convention guessed from the route |
| Compilability and type inference (`celer-typeinfer`) | type context (scopes, functions, classes) | infer, analyze | types that depend on the branch inferred last, names that go with a scope, functions called before their verdict is known |
| Code generation (`celer-codegen`) | LLVM builder position, local variables, loop targets, thread-local buffers | emit functions, statements, expressions, JSON | loops and `continue`, operators of every type, one refused function among many, shared buffers |
| Parser and HIR (`celer-parser`, `celer-hir`) | none | convert the AST | a statement it does not know drops the definition around it |
| Framework adapters (`celer-adapter-core`, `celer-fastapi`, `celer-flask`, `celer-django`) | none | detect the framework, extract routes | they read the text of decorators; the first that detects its framework has the app |
| Fallback (`celer-runtime/fallback.rs`, `cpython_runner.rs`) | the source, the compiled names | choose native code or CPython | what of the call CPython is given |
| Commands (`celer-cli`) | object file and library in a directory | `run`, `serve`, `compile`, `cloud` | several processes share the directory and the names in it; kills and failures leave files |

`celerate serve` calls, in this order, the parser, type inference, the
adapters, the pipeline (analysis and code generation), the linker, the native
runtime's loader, the Python host and the hybrid server.  After that the
components meet in `handle_hybrid_request`: the router's verdict leads either to
`NativeModule::call_typed`, inline on a tokio worker, or to
`AsgiDispatcher::dispatch`, which submits a closure to tokio's blocking pool;
the closure submits a coroutine to the event loop's thread and waits for its
future.  The cloud service shares only the compiler with all this.

What makes each component correct:

* Cloud service: a job's outcome is decided once; what is listed as complete can
  be served; answers never go back; only expired jobs are removed; every job is
  settled and removed in the end; no file is leaked but in known ways.
* Hybrid server and bridge: an answer is the whole of what the app sent for
  that request; no coroutine is orphaned or cut short; a dead event loop is
  never taken for an answer; requests are answered and the process can end.
* Routing: native code takes exactly the requests it was compiled for, with the
  right arguments, and the route the app would have picked.
* Code generation: the compiled function computes what Python would.
* Front end: a function of plain Python compiles, whatever its types, and a
  function one stage refuses costs the others neither their native code nor
  their routes; what would be left out of native code keeps a function out.
* Adapters: `serve` finds the app's routes, and only those.
* Commands: a process answers with the program it was given, whatever other
  processes do or have left behind.

## Modules

| Module | Models | Notes |
|---|---|---|
| `CloudJobs` | the whole cloud service | 14 variables, one action per step another actor can get between |
| `JobLifecycle` | what the service promises about a job | abstract; `CloudJobs` implements it |
| `CloudJobsProofs` | | inductive invariant, safety theorems, refinement, the answers of one client about one job |
| `HybridServer` | hybrid server, blocking pool, ASGI bridge, event loop | |
| `HybridServerProofs` | | inductive invariant, all safety theorems of the above |
| `NativeRoutes` | `serve`'s start-up, router, parameter conversion, calling convention | |
| `NativeRoutesProofs` | | inductive invariant, all properties of the above |
| `IntOperators` | the ints of native code and expressions over them | operators |
| `HirFunction` | the statements and expressions of `celer-hir` a function is made of | data only |
| `PythonReference` | what CPython does when it calls such a function | external; the reference for the next |
| `BlockMachine` | the LLVM verifier on basic blocks, and a call that executes them | one action per kind of instruction; runs whatever a builder can make |
| `BlockMachineProofs` | | that verified blocks are memory safe and keep the width of their ints |
| `Emitters` | the emitters of statements and functions, a statement or the end of a block at a time, then the machine above | implements a builder of `BlockMachine` |
| `FunctionCodegen` | one function through type inference, `Emitters` and a call, beside Python | Python is a parameter |
| `FunctionCodegenProofs` | | that the emitters are such a builder; memory safety and the bounded stack of what they compile; that plain functions are compiled |
| `NativeStrings` | string values, string and JSON buffers, calls between functions, the copy in `call_one_int`, on several workers | |
| `NativeStringsProofs` | | that workers never share a string, that straight code never reuses a buffer, and that answers are Python's but for three named flaws |
| `FiniteRecursion` | | induction up to a number, and the functions recursion defines, for the proofs |
| `PythonSource` | the syntax tree rustpython hands to `celer-parser` | external; data only |
| `Parser` | `celer-parser`: statements, expressions, annotations, what is refused | operators |
| `TypeInference` | `celer-typeinfer`'s engine: scopes, registries, every statement and expression | operators on a context |
| `Compilability` | `celer-typeinfer`'s analyzer | operators; used by the next two |
| `PlainPython` | what CPython does on the plain part of Python | external; the reference for `TypedPipeline` |
| `TypedCodegen` | `celer-codegen` on every type: kinds, slots, calls, what they compute | the same walk checks an expression and evaluates it |
| `TypedPipeline` | a module through all of these, then called through the fallback dispatcher | one action per stage |
| `RouteExtraction` | a module through the parser, inference and the three adapters | one action per stage |
| `RunCommand` | processes of `run`, `serve` and `compile` around shared files | 15 actions, each of several processes |
| `RunCommandProofs` | | inductive invariant, all safety theorems of the above |
| `MC*` | | constants and symmetry for TLC |

### `CloudJobs` and the code

* `store` is the DashMap of `job.rs`.  A job is reduced to its status, whether
  `artifact_path` is set and the kind of its error.  Each DashMap operation is
  atomic for its key; `get_mut` finding nothing makes an update a no-op, as in
  the code.
* `AcceptCompile` is `handle_compile` from the fresh id to the answer: nobody
  else knows the id before.  `CompileCode` has the handler's checks in order.
* `task` is the spawned task: `StartTask` marks the job as compiling and submits
  the closure, `TaskResult` is each arm of the `match`, `TimeoutElapses` and
  `MarkTimedOut` its last arm, in two steps because the closure goes on.
* `work` and `files` are the blocking closure (`compiler.rs`) and the files it
  makes; `create_dir_all(..).ok()` may fail silently, any stage may fail or
  panic, a failed link leaves the object file.  `RemoveFile` is the `remove_file`
  whose result `compiler.rs:47` and `job.rs:87` ignore: the file goes or stays for
  good, and the history `kept` remembers that it did.
* `Collect`, `RemoveExpired`, `DeleteArtifact`, `FinishSweep` are the loop of
  `server.rs:44` around `cleanup_expired`, with other actors' steps in between.
* `DownloadGet` and `DownloadRead` are the two halves of `handle_download`; a
  library that is there can be read.
* `AcceptFails` is the `?` after `accept()`: it ends `run` and drops the runtime.

### `HybridServer` and the code

* `stage` is where `handle_hybrid_request` stands for each request; the native
  arm blocks a tokio worker, the ASGI arm awaits the body (`BodyFrame`,
  `BodyEnd`) and the pool (`Respond`).  `Respond` answers what
  `asgi_response_to_hyper` makes of the app's response (`ToHyper`): without the
  header pairs that are no text, or a 500 when the builder refuses the status or a
  name.  `TakeResult` has `extract_response`, which gives up others (`Extractable`).
  What the app may send is the constant `Starts`.  hyper's own treatment of a
  response (of informational statuses, say) is left out, and so is a task of the
  app that keeps `send` and calls it after its coroutine returned.
* `queue`, `thread` are tokio's blocking pool; `SubmitCoroutine` and `TakeResult`
  are the two halves of `dispatch_blocking` around `future.result()`.
* `app`, `resp`, `future` are the helper coroutine of `asgi.rs`, the dict it
  collects messages in and its concurrent future; the future is settled by a
  callback of the loop of its own (`SettleFuture`).
* `AppExits` is `SystemExit` or `KeyboardInterrupt` in the app: asyncio lets
  them out of `run_forever`, and the loop's thread ends (`host.rs:85`).
* `AcceptFails` and `Exit` are the end of `run`: the runtime drops handlers and
  closures not begun, waits for the others, and the host's `Drop` stops the loop.

### `NativeRoutes` and the code

* `declared` are the routes the adapter extracted; `Compilable` is the
  analyzer's verdict, `Emits` the generator's, which looks at every function.
* `Compile`, `SkipCompile`, `RegisterRoutes`, `StartServing` are `execute()`.
* `HandleRequest` is `match_hybrid`, `convert_params` and `call_typed`: which
  symbol is called, with which arguments, and what its result is taken for.
* `AppPick`, used by properties only, is the choice Starlette's router makes.

### `Emitters`, `BlockMachine`, `FunctionCodegen` and the code

* `build` is the state the emitters of `celer-codegen` share: the basic blocks
  and the block the builder is positioned at (`blocks`, `at`), the cells used so
  far and the locals map of `context.rs`.  A cell is a stack slot or a register.
* The emitters call each other for the blocks within a statement.  `frames` is
  their call stack: which block of statements each is emitting, at which
  statement it is, to which block the end jumps and in which the caller goes on.
  The loop stack of `context.rs` is the loops among the frames (`LoopsOpen`).
* `AssignStmt`, `AugAssignStmt`, `IfStmt`, `WhileStmt`, `ForStmt`, `JumpStmt`, `ReturnStmt`
  are the arms of `emit_statement` and what `emit_if`, `emit_while`, `emit_for` do
  up to the statements within; `ThenEnd`, `ElseOrWhileEnd`, `ForEnd` are what they
  do after them.  `FunctionEnd` and `DictReturned` are the ends of the two bodies of
  `emit_function`, and `Fail` is Rust's `?`.
* In `CompilerSpec` inference (`Infer`) lets a function through or not, as it
  likes; the pipeline of `FunctionCodegen` does as `Infers` says (`InferNames`).
* `Infers` is `infer_statement` with its scopes: a name assigned in a branch
  is gone after it, while the emitters' locals map keeps it.
* `Verifies` (in `BlockMachine`) is what the LLVM verifier asks of the blocks: each
  ends in its only terminator, and each definition dominates its uses: no path
  from the entry comes to the use around it (`Around`).
* `ExecAlloca`, `ExecWrite`, `ExecBranch`, `ExecReturn` execute the blocks with
  integers of a fixed width (`Wrap`); `ExecTrap` is a division `sdiv` leaves
  undefined.
* `BlockMachine` has a behaviour of its own, `MachineSpec`, in which `Emit` hands
  over any blocks that are `WellFormed`: typed instructions, each with a result
  of its own, jumps within the function, a slot filled as soon as it is made,
  which `emit_assign` and `emit_for` do.  `BuildsForTheMachine` is the refinement
  the proofs go through: until the emitters are done the machine has no blocks,
  then it has the function's.  No run checks it, the builder of LLVM grants most
  of it.
* The functions are of ints.  A comparison is one bit wide in the code
  (`emit_expr.rs:252`), a cell of the machine has no width, so comparisons occur
  as tests of `if` and `while` alone (`TypedStmt`, part of `ProgramsAssumption`).
  Comparisons that are assigned, returned or passed on are `TypedCodegen`'s, whose
  slots have types.
* What Python does is the parameter `Python` of `FunctionCodegen`, so that the proofs
  do not depend on it.  The runs give it the value of `PyCall` of
  `PythonReference`, which evaluates the same function as CPython does.  `exact` says
  whether the call stayed where native integers can follow: no overflow,
  and no division the documented truncation rounds the other way.
* `PlainFunction` (no dead code, nested assignments hoisted, a variable to each
  loop, jumps in loops, a JSON function's return last) delimits the functions the
  compiler always gets through: outside of it the emitters leave code after a
  jump, or use a slot on a path that never allocated it.  `PlainLoops` delimits
  those it translates faithfully, as far as it was possible to find out: outside of it
  they rebind a loop's variable to a second slot or skip the increment on
  `continue`.

### `NativeStrings` and the code

* A str value is a pointer (`Pointer`): a buffer of this thread or a constant.
  `SiteOf` names the buffer of one `str()` or `+` in the program, which
  `BUFFER_COUNTER` makes unique and `set_thread_local_mode` gives each thread a
  copy of (`Thread`); nothing is ever allocated or freed.
* `ExecStr` and `ExecConcat` are the `snprintf` calls of `emit_expr.rs`, cut to
  the buffer (`Cut`); a concatenation that reads from its own buffer, as
  `a = a + x` in a loop does, is undefined and gives any of three outcomes.
* `ExecCall` and `ExecReturn` are calls between compiled functions; what is
  returned is the pointer, so a second call of the same helper changes the
  string the first one returned.
* `ExecJson` is `emit_json_return`: a dict of literals is a constant
  (`Static`), any other is printed into the function's buffer, literals
  escaped, variables not; `out_len` is what `snprintf` returns, the length the
  text would have.  `CopyOut` is `call_one_int`, which copies that many bytes.
* `flaws` records, for the properties only, whether a call overwrote a buffer
  something pointed at, printed more than fits, or printed a str that needed
  escaping.  `AnswersExact` says that these are the only ways to differ from
  Python; `StraightNeverClobbers`, that the first needs a loop or a second call.
* Loops run a constant number of rounds; the result of `str()` is bound to a
  name with an annotation, without which inference leaves it unknown and fails
  the functions that use it.  A `%` in a literal, which `snprintf` would take
  for a directive, and `str()` of floats are left out.

### `Parser`, `TypeInference`, `Compilability`, `TypedCodegen` and the code

* `ConvertModule` is `convert_module`: a statement is an error when any part of
  it is (`Failed`, `FirstError`); a top-level one with something unsupported is
  left out, any other error is the module's (`Parses`).
* A context (`NewContext`, `Define`, `Lookup`) is `context.rs`; `InferStmt` and
  the operators under it thread it as `engine.rs` threads `&mut self`.  A branch
  and a loop body have a scope of their own that is popped after them, and a
  function is in the registry from its definition on.
* `CheckStmt` and `CheckExpr` say whether `check_statement` and
  `check_expression` find no issue; `Status` is `analyze_function`, and
  `CompiledFunctions` are the names called natively.
* `TypedCodegen` has `emit_expr.rs`, `emit_function.rs`, `emit_collection.rs` and
  `emit_json.rs` with LLVM's types for values.  The generator chooses an
  instruction by the classes of its operands, so one walk over an expression
  both tells whether it is generated (`run` false: a kind, `Fails` for an error,
  a panic or what the verifier refuses) and what it computes (`run` true).
  `Junk` is what LLVM leaves undefined; it differs from every answer.
* `CompileModule` is `compile_module` and `verify`: every function is declared and
  emitted in turn, whatever the analyzer said of it, so that it can call those
  before it and itself, and the first error is the whole module's.
* `CallFunction` is `FallbackDispatcher::call`: native through `call_typed` when
  the name was compiled, else `run_python_function`, which hands CPython the
  first argument alone and runs the module in a scope the function cannot see.
* `PlainPython` evaluates the same source as CPython does and gives up
  (`"other"`) outside of the plain part: one type to a name, operands of one
  type, true annotations, numbers that fit.  Properties speak of calls that stay
  within it and of functions whose statements all run (`PlainFunction`).
* A loop of the source has an `else` block, as rustpython's has; `BlocksOf` is
  where `convert_while` and `convert_for` drop it.  CPython runs it when the loop
  ends without a jump (`PyElse`), and remembers that it did (`elses`).
* Loops nest in `FunctionCodegen`, which also has `break`, `continue` and
  augmented assignments; `TypedCodegen` follows plain bodies of every type and
  calls between functions instead.  A loop inside a loop of the same target is
  left to the former.

### `RouteExtraction` and the code

* `Contained` and `Quoted` are what the adapters do with a decorator: they look
  for `.get`, `.route` and so on anywhere in its text, and for the texts within
  quotes.  A path is its segments; `Texts` says which verbs a text contains.
* `Detected` is `detect_and_extract`: FastAPI is asked before Flask and Django.
  `FastApiRoutes`, `FlaskRoutes` and `DjangoRoutes` are the adapters'
  `extract_routes`.  `Parse` and `Infer` come first, so that a handler the parser
  dropped has no route and a module inference refuses has none.
* `AppRoutes`, used by properties only, are the routes the frameworks
  themselves register, in the order they try them.

### `RunCommand` and the code

* A place is a directory and a file's stem; `run`, `serve` and `compile` have a
  directory each, shared by all processes of the command (`run.rs:35`,
  `serve.rs`, `compile.rs`).  `obj` and `lib` are the two files of a place; a file
  has the processes that have it open and those whose work is in it, so that
  `Content` is one process's program or torn.
* `Start` is `create_dir_all`; `OpenObject` and `CloseObject` are LLVM writing the
  object file in place; `ReadObject`, `OpenLibrary`, `CloseLibrary` are `cc`, which
  unlinks the old library before it makes its own and goes on when its parent
  is killed; `Load` is `dlopen`, after which the file is no longer needed.
* `RemoveFile` and `RemoveDirectory` are `remove_dir_all` at the end of `run`,
  which takes every file of the directory, one at a time, and whose error is
  ignored; a run that fails or is killed (`Kill`) never gets there.
* A process fails of itself (`FailAlone`, `WriteFails`, `LinkFails`, recorded in
  `faulty`) at every `?` that can: the source is not read, `create_dir_all` fails,
  the pipeline refuses the program, the object file is not opened or not written to
  its end, `cc` does not start or gives up, its library removed or left half
  written, the library is not loaded, the call fails.  It fails for another's doing
  when a directory or a file is missing, torn or not its own (`OpenObject`,
  `ReadObject`, `OpenLibrary`, `Load`, `Fail`).
* `serve --no-native` builds an empty program at a place of its own,
  `celer-serve-empty/empty.*` (`serve.rs:247`), which every process with that flag
  shares: a place at which all of them build the same, so that only what
  `MissesFilesOnlyInCompany` says applies to it.  It has no instance of its own.
* `rivals` and `company` are history, set when a process starts: who was building
  at the same place, or about in the same command, at the same time.

## Runs

| Run | Result | What it shows |
|---|---|---|
| `cloud_safety` | pass | the store, the disk and the answers stay consistent in every order of compilation, timeout, sweep, download and shutdown, also when files cannot be removed; what stays on disk or in the pool is accounted for |
| `cloud_liveness` | pass | every job is settled and reclaimed; the service implements `JobLifecycle` with its progress |
| `hybrid` | pass | answers that are the app's for that request, whole but for header pairs that are no text, or an error where it cannot be sent; no orphaned or truncated coroutine, silence after a crash of the loop; requests are answered and the process ends, unless the loop crashed |
| `hybrid_headers` | violation | a legal ASGI response with tuple headers becomes a 500 |
| `routes` | pass | which requests go native, with which arguments, and agreement with the app's own choice |
| `routes_calls` | violation | calls with too few arguments, results read as the wrong type |
| `codegen` | pass | 781 functions over ints with nested loops, branches, jumps and extreme operands: names always resolve, plain functions compile, verified code touches only live cells, keeps its stack bounded, returns what Python returns and ends when Python ends (72,725 states) |
| `codegen_skip` | violation | `continue` in a `for` over a range never reaches the increment: the call does not end |
| `strings` | pass | 38 libraries on two workers: answers are Python's but for reused buffers, overlong texts and unescaped variables; straight code never reuses one; workers never see each other's strings |
| `typed` | pass | 216 modules of every statement, operator, builtin and type: modules of plain functions compile as a whole; native answers are CPython's and no call that raises is answered natively, as long as no `else` block of a loop is come to |
| `extraction` | pass | 2707 apps of three frameworks: the routes found in a plain app are the app's, in its order, and no handler costs another its route |
| `run_command` | pass | three processes, killed and failing at any step: a process answers with its own program unless another built at the same place meanwhile, and misses its directory or a file only in company |

The violation runs check a sentence of the repository's documentation each; the
finding in `PROJECT.json` quotes it.

### Bounds

* Cloud: two jobs suffice for one to hold the only thread while the other waits
  and times out, and for a sweep to remove one while the other is served; one
  connection both posts and reads, because the properties compare the answers
  of one client.  Clocks stop just past the value they are compared with, which
  loses nothing, so no bound on time is needed; TTL, timeout and interval of 1
  (0 in the liveness run) let every order of expiry, timeout and sweep happen.
  The liveness run has no reader: readers change neither store nor files.
* Hybrid: the pool has one thread or two, chosen at the start.  One thread for two
  requests makes one closure wait in the queue while the other's coroutine is
  under way, its client gone or not, which is where liveness is in danger; two let
  two coroutines interleave at every message they send.  `MaxBody` 1 lets a body be
  empty, at and over the limit, and `MaxParts` bounds the body messages of one
  coroutine.  `EveryFate` has a message of each fate: served as it is, served
  without a pair, given up for a name or a status the builder refuses, not
  extracted.  The safety properties are proved for any number of requests and
  threads and any `Starts`.
* Routes: two routes make a first and a second match; the patterns include a
  literal that shadows a parameter, two parameters in either order and a
  trailing slash; the handlers include the same name twice, async, partly
  compilable, refused and untyped ones.
* Code generation: `MaxInt` 7 stands for 2^63 - 1, and the inputs are both ends
  of the range, the values about zero and two that make loops run twice or
  more.  The functions are every combination of a loop, a statement within it
  and a jump or assignment within that (`Nested`), a name that counts twice
  (`Rebound`), ranges next to the ends of the integers (`Ranges`), every
  operator on extreme operands (`Arithmetic`) and dict-returning bodies
  (`Dicts`).  `PyFuel` bounds the statements the reference executes; a call that
  needs more has no expectation.  `MaxNesting` 4 is more than the deepest of these
  functions needs; `ProgramsAssumption`, which TLC evaluates, says that no statement
  lies deeper (`Encloses`), and so does `NestingSuffices` of the scopes and of the
  branches within one loop.  A call ends, so these runs do not check for
  deadlock; that calls end is the property `Terminates`.

* Strings: two workers and two calls each let a call find what an earlier one
  left in its buffers and another worker's call come in between at any step.
  A letter is a number and buffers hold eight, so that the longest dicts do not
  fit and the shorter ones do; a parameter has one digit.  The libraries are
  every combination of three helpers and two statements, with loops of two
  rounds, aliases and repeated calls among them, and two constant dicts.  The
  run ends when all calls are answered.
* Typed pipeline: each operator, comparison, builtin, statement, annotation and
  dict form occurs in some module of its own, on its plain types and on others, and
  25 modules have a loop with an `else` block, which assigns, raises, asserts or is
  one the parser or the generator would refuse, after loops that end, are left or
  never entered;
  `MaxInt` 7 is the largest native integer, so that literals out of range and
  overflows occur; the inputs are a negative number, zero and two positive ones,
  in every combination.  A stage is a function of the module, so nothing grows
  with more steps; the run ends with the answers.
* Extraction: one or two handlers with each pair of 23 decorations, bodies of
  which one is unknown to the parser, one to inference and one is out of range;
  Django lists of each pair of ten elements.  Two handlers are enough for one to
  cost the other its route or to change places with it.
* Commands: three processes let one start while a second works and a third
  removes the directory; the places are two stems of one directory and one of
  each other command.  Processes of two commands never meet, so an instance is
  of one command.  Each may fail of itself or be killed at every step.  Nothing is
  unbounded.

### Fairness

Weak fairness only, and only of what the runtime schedules: tokio polls woken
tasks, the timer fires, a free pool thread takes the oldest closure, the event
loop runs what is ready, synchronous sections end.  Clients owe nothing: they
may never send their body or never come back.  In the cloud service the
compiler owes nothing either, so `JobsSettle` rests on the timeout alone.  In
the hybrid server the app is assumed to end each coroutine it began
(`AppEnds`), because `dispatch` has no timeout: an app that never returns holds
its thread for ever.  In code generation the compiler and the processor do not
stop by themselves, which is weak fairness of the whole next-state relation.

## Proofs

`CloudJobsProofs` proves, for all sets of jobs and clients and all values of
the TTL, the timeout, the interval and the pool size (`CloudAssumption`):
`TypeOK`, `ServableWhileListed`, `DownloadFailsOnlyAfterRemoval`,
`LeftoversAccounted`, `OutcomeIsFinal`, `OnlyExpiredRemoved`, and that every
step of the service is a step of `JobLifecycle` or a stutter (`LifecycleSafe`).

None of these is inductive by itself: that a late result does not overwrite a
decided job depends on where its task stands.  `IInv` therefore adds, for each
job, that the store's entry is absent or the one its task's state calls for
(`StoreAgrees`), that the closure agrees with the task (`WorkAgrees`), that the
library exists from linking until the sweep deletes it (`LibraryKept`), that an
object file outlives its compilation only if it could not be removed (`ObjectKept`),
and that
the ids being swept are expired entries (`SweepAgrees`); for each client, that
a download in flight is of a completed job (`ClientAgrees`).  `TypeStep`,
`JobStep` and `ClientStep` show that each action keeps it; `FinalStep` gives the
action properties; `LifeStep` maps each action to the life cycle.

`CloudJobsProofs` also proves `AnswersNeverGoBack`.  Its invariant is that the
last answer said something the job can have come from to where it is now, and
that a download under way, which will tell of the moment its entry was copied,
does not contradict it either (`AnswerInv`); that a job only moves forward is
read off the life cycle (`PhaseFollows`, from `LifeStep`).

`HybridServerProofs` proves, for all requests, all responses an app may send and
all values of the pool size and the limits (`HybridAssumption`): `TypeOK`, `ReplyIsWhole`,
`AppSeesAllowedBodies`, `CoroutinesAwaited`, `ExitAfterCoroutines` and
`CrashIsSilent`.  Its `IInv` adds that the queue holds exactly the closures that
wait for a thread, each once (`QueueAgrees`), and for each request
(`RequestInv`) that only an allowed body has a closure, that no coroutine is
earlier than its closure, that the future stands where coroutine and closure
stand, that a result taken from the app holds all it sent (`ResultAgrees`) and an
answer what `ToHyper` makes of it (`ReplyAgrees`), and that nothing is under way
once the process has ended.  `TypeStep`, `QueueStep` and
`RequestStep` have a step per action; `CrashIsSilent` follows from the
actions that settle a future and from where `Respond` finds its result.

`NativeStringsProofs` proves two properties for any workers, libraries and
buffer size.  `WorkersIndependent`: each action writes only its worker's entries
of `mem`, `locals` and `out` (`WorkerStepLocal`), and a worker reaches no others
(`UntouchedSeen`).  `StraightNeverClobbers`: in straight code a pointer is only
ever at a place its function has passed, and `main` holds one of `label`'s only
after its only call (`Passed`, `StraightInv`), so that the place a function
stands at, whose buffer it writes next, has no pointer to it (`NothingThere`).

The same module proves the rest of `NativeStrings`, again for any workers,
libraries and size of the buffers: `TypeOK`, and `AnswersExact`, that an answer
without a recorded flaw is the text Python would print.  The invariant relates a
call to Python's variables at the same statement and, in a loop, the same round:
while no flaw is recorded, each name of a function under way points at the text
Python has for it (`Exact`, `PyAt`), so does what a function returns
(`ResultExact`), and the answers given so far are exact (`AnswersOf`).  Statements
keep this because a buffer is written only at the place that owns it and without
a flaw no name points there (`ExecExact`, `CallExact`, `ReturnExact`, `JsonExact`,
`CopyExact`).  With `StraightNeverClobbers` it follows that in a straight library
only a text too long or a str that needs escaping can tell an answer from
Python's (`StraightAnswersAreExact`).

`NativeRoutesProofs` proves all four properties of `NativeRoutes`, for any
handlers, patterns, paths and number of routes (`RoutesAssumption`).  Its `IInv`
says that the app's routes are what extraction makes of handlers (`Declared`),
that the router holds exactly the compiled ones, in the app's order
(`Registered`), and what the answer to a request is computed from (`Answered`).
What it rests on are facts about `filter` (`Kept`): the kept elements are those
of the chosen positions, each once and in order, so that the first match among
the compiled routes is the first compiled match among all, and an empty segment
cut from a path and from a pattern moves no argument.

`BlockMachineProofs` proves of `MachineSpec`, for any well-formed blocks, any
arguments and any width of the ints (`WidthAssumption`, `InputsAssumption`), that
every value fits its width (`ValuesFit`) and that verified code is memory safe
(`VerifiedCodeIsMemorySafe`).  The invariant `MInv` says of a call that it stands
at an instruction of a block that is reached at all (`Placed`) and that the cell
of every definition it is past, in its block or because no path around the
definition comes to its block, is ready (`CallInv`): written, or a slot whose
store is the next instruction.  Jumps keep this because the set of blocks reached
around a definition is closed (`ReachableClosed`: a growing set of blocks is
saturated after as many steps as there are blocks, `Saturation`), so that
being past a definition after a jump means having been past it before
(`PastBranch`); an alloca empties no other cell because each cell has one
definition; and a use is dominated, so its definition is passed
(`UsesAreReady`).

`FunctionCodegenProofs` proves that the emitters are such a builder, for any
functions over ints with any nesting whose comparisons are tests
(`ProgramsAssumption`; the rest of it is what parser and HIR make sure of), any
arguments, any width and whatever inference lets through:
`CodegenBuildsForTheMachine`.  Memory safety (`CodegenIsMemorySafe`) and the
width of values (`CodegenValuesFit`) of every compiled function follow from
`BlockMachineProofs`.  The proofs are of `CompilerSpec`; every step of
`FunctionCodegen` is one of its steps (`PipelineCompiles`).  The invariant `CInv`
says that the builder's blocks are well formed and its locals name slots
(`Builder`), and that each frame emits statements of the function and knows its
jump targets (`Stacked`).  Appending instructions whose cells are new keeps blocks
well formed (`AppendedWellFormed`, `BuilderExtends`), so does appending blocks
(`BlocksAppended`), and what a frame knows of the blocks stays true of later ones
(`Later`, `StackedLater`): the emitters further out go on with a builder that has
grown meanwhile.

`CodegenStackIsBounded`, for functions whose nested assignments are hoisted and
that have no `for` in a loop, takes two more invariants.  While the emitters
work, `Nested` says that names assigned in the branches and loops still to be
emitted have slots, so that no new one is made there, and that no `for` is left
under an open loop.  `Tidy` says of each block that allocates and is no longer
worked at that it is passed once: there is a set of blocks, closed under jumps
and without it, that has everything it jumps to and every block the frames will
still come to.  The block at work allocates only outside of loops, and the blocks
the frames hold for later are empty and different from each other.  At the end
this makes every block that allocates one that is left for good (`AllOnce`), and in
a call each slot's alloca is behind: earlier in the block, or in a block the call
cannot return to (`SlotsBehind`).  A block closed twice would break this; the
verifier lets none through.

`PlainFunctionsAreCompiled` says that a plain function (`PlainFunction`) whose
names type inference finds gets through emitters and verifier, for any such
function whose statements lie no deeper than `MaxNesting` (`NestingSuffices`).  The
verifier asks of the finished blocks that no path comes to a use around its
definition; `PInv` carries why that will hold through the emission.  It has
(`Compiles`) for each block a set `A[b]` of blocks every path to it passes: a jump
from b to y needs `A[y]` within `A[b]` and y (`Dominate`), which a block
appended for later has from the block at work (`Widened`).  Every use has its
definition earlier in its block or in a block of `A[b]` (`Sound`); `SoundVerifies`
shows that the verifier then lets the blocks through.  For each frame there are
blocks `D[i]` which come before where it goes on as well as before the block at work
(`Based`), and the names `R[i]` it was entered with; the names that inference has in
scope there are defined in `D[i]` and not rebound by a `for` (`Slotted`).  A block
is ended when the emitters leave it, and the ones still to come to are empty and of
one frame each (`Closed`).  Hoisting keeps slots of assigned names in blocks that
the function's own body passes (`HoistedFrames`); a loop variable lives in its
loop's frame alone (`OwnTargets`).  No step fails because inference found the names
(`HereScoped`), jumps have a loop, and a JSON function has its return
(`PlainNeverFails`).

`FiniteRecursion` has what these proofs need of induction: a set with 0 and with
each number the next has all numbers up to n (from the least counterexample,
`LeastNatural`), and what a recursive function on `0 .. n` computes (`Recursion`).
They are stated with sets and functions, because the provers cannot instantiate
the library's induction theorems, which take an operator.

`RunCommandProofs` proves, for any processes, places and commands
(`PlacesAssumption`): `TypeOK`, `AnswersOwnProgram` and `MissesFilesOnlyInCompany`.
Neither of the latter is inductive: that a process loads its own program depends
on what its files hold at every step before.  `Inv` adds `Met`, that the history
variables record every meeting of two processes that are about, and for each
process `Sound(p)`: if it has met no rival, its object file and its library are
its own work from when it closes them until it has read them, and if it had no
company, its directory and files are there.  A process that fails of itself is
recorded in `faulty` by the step it fails at (`FailingSound`).  The step lemmas
show for each action that the acting process stays sound (`StartSound`, `OpenObjectSound`, ...)
and that the others do (`OtherKept`), because a process that touches another's
files is recorded in its history (`Strangers`).

Only model-checked: liveness (`JobsSettle`, `JobsReclaimed`, `AsgiAnswered`,
`ShutdownEnds`, `Terminates`, the progress part of `JobLifecycle`), which needs
ENABLED and fairness the prover cannot handle; `AgreesWithPython`, which speaks of
a reference that is written with recursive operators, the prover takes none;
and the properties of `TypedPipeline` and `RouteExtraction`, whose
syntax trees nest and are walked by recursive operators.

## Divergences found

Three sentences of the documentation are refuted by a run of their own (see the
violation runs and the findings).  The properties of the other runs hold of a
plain part of the inputs, and what delimits that part is where the code differs
from Python, from a framework or from its documents.  Found on the way, each
left out by the condition named:

* Integers (`exact` in `PythonReference`, the fractions of `PlainPython`): division
  and remainder truncate, `**` goes through a float, arithmetic wraps; `and` and
  `or` evaluate both operands and combine them bit by bit; two bools are
  ordered as signed integers of one bit, so that `True < False`.
* Types: a builtin's result has no inferred type, so `x = float(a)` without an
  annotation fails every function that uses `x`, and with it the module; a name
  first bound in a branch or loop and used after it fails inference
  (`Disciplined`); an assert or a raise is left out of a function that is called by
  native code, though not called natively itself (`"deep"`).
* Loops: the parser drops the `else` block of a `while` and a `for` without an error
  (`convert_stmt.rs:281`), with any `raise` or `assert` in it, and the function is
  called natively (`elses` in `NativeAgrees` and `RaisesKept`).
* Comparisons: a slot made for a comparison holds one bit (`emit_stmt.rs:83`), and an
  int assigned to the name later is stored into it, eight bytes; a comparison
  returned from a function of ints is refused by the verifier (`TypedStmt`, and in
  `PlainPython` a name of two types).
* Functions: of two functions of one name native callers get the first;
  `call_typed` refuses a dict handler of two arguments and reads a bool's or a
  float's result as an `i64` (`Misread`, and the run `routes_calls`).
* Fallback: CPython is given only the first argument, and the function sees no
  name of its module, so that a call that would succeed in the app is refused
  (`RunPythonFunction`); of several arguments the others are dropped without the
  error `fallback.rs:65` has for what it does not support.
* Failure: one function the generator refuses ends `serve` (`serve.rs:83`), where
  `PHASE5.md:319`, at the root, has routes degrade to the app.  A compiled route takes requests
  of an earlier route that is not compiled (`serve.rs:206`,
  `PicksAsAppUnlessSkipped`).
* Adapters (`PlainDecorator`, `PlainText`, `PlainUrlList`, `OneStyle`): a `methods=[...]`
  keyword never reaches the text the Flask adapter reads, so a POST route is
  taken for a GET route, which `celer-flask/src/adapter.rs:13` says is supported;
  a Flask app with any `.get`-like decorator is claimed by the FastAPI adapter,
  which ignores `.route` and takes `<x>` literally; only the first decorator of a
  FastAPI handler counts; `@app.get(PATH)` becomes `/`; a verb within a path's text
  is taken for the method; braces in a Flask path become parameters; Django
  paths lose their trailing slash, and a view the parser dropped ends `serve`.
* Cloud: a timeout does not stop the compilation, whose thread stays occupied and
  whose files stay, as does a file that cannot be removed (`LeftoversAccounted` says
  which).  Hybrid: a body's size is checked once all of it is in memory; header
  pairs that are no text are dropped without a word, and one name or status hyper
  refuses turns the whole response into a 500 (`ToHyper`, `ReplyIsWhole`).
* Commands: two processes with sources of the same stem build over each other,
  and `run` removes the files of every other process of `run`; failed and killed
  runs leave theirs (`rivals`, `company`).

## Not modelled

The native-only server, whose routing is the hybrid server's without Python and
which keeps no state; `compile --emit-ir`, the cloud command's client, argument
parsing, benchmarks, examples and logging; `emit_list_subscript` and
`emit_tuple_subscript` and the runtime's exported call helpers, which nothing but
tests calls; the rounding of floats; the GIL, which `Future.result()` releases
while it waits; the text of messages, the bytes of bodies and JSON, and the ASGI
scope; `bridge.rs`, which converts values between Rust and Python one by one.

A bool variable in a returned dict is passed to `snprintf`'s `%s`: the call is
undefined whatever its value, so `NativeAgrees` leaves such dicts out and no other
property says more of them.

## Plan

Done, in this order: `CloudJobs` and `JobLifecycle` with their proofs;
`HybridServer` with its proofs; `NativeRoutes`; `HirFunction`, `PythonReference` and
`FunctionCodegen`; `NativeStrings` with its proofs; the typed pipeline from
`PythonSource` to `TypedPipeline`; `RouteExtraction`; `RunCommand` with its proofs;
the proofs of `NativeRoutes` and of the answers of `NativeStrings`; with
`BlockMachine` and then `Emitters` taken out of `FunctionCodegen`, the proofs of memory
safety and of the bounded stack for every compiled function, and that plain
functions are always compiled.

What could follow: the native-only server's loop; the conversions of
`bridge.rs`; a proof for `JobLifecycle`'s progress, when a prover takes fairness.
