------------------------- MODULE NativeStringsProofs -------------------------
(***************************************************************************)
(* Workers never see each other's strings; code that passes each place     *)
(* once never writes a buffer something points at; and an answer of a call *)
(* without a flaw is the JSON text Python gives.  All for any workers,     *)
(* libraries with their loops, and buffer size.                            *)
(*                                                                         *)
(* The first holds because every action of a worker writes its own entries *)
(* of the functions over Workers only, and all it can reach is in them.    *)
(* For the second, a pointer is only ever at a place its function has      *)
(* passed, and main holds pointers from label only after its only call.    *)
(* For the third, the texts a function's variables point at are Python's   *)
(* variables after the statements before, at every statement.              *)
(***************************************************************************)
EXTENDS NativeStrings, TLAPS, FiniteRecursion

\* The functions a worker's strings are read from have an entry for each worker.
Shape == DOMAIN mem = Workers /\ DOMAIN locals = Workers /\ DOMAIN out = Workers

\* What worker v's strings are read from is not touched.
Untouched(v) == mem'[v] = mem[v] /\ locals'[v] = locals[v] /\ out'[v] = out[v]

\* A step of worker w leaves the entries of all others alone (its buffers are
\* thread-local, emit_expr.rs and emit_function.rs).
StepLocal(w) == Shape' /\ \A v \in Workers \ {w} : Untouched(v)

-----------------------------------------------------------------------------
\* Writing a buffer of one's own touches no other worker's.
LEMMA WriteLocal ==
  ASSUME Shape, NEW w \in Workers, NEW s, NEW t, Write(w, s, t)
  PROVE  DOMAIN mem' = Workers /\ \A v \in Workers \ {w} : mem'[v] = mem[v]
BY DEF Write, Thread, Shape

\* Setting a variable of one's own touches no other worker's.
LEMMA AssignLocal ==
  ASSUME Shape, NEW w \in Workers, NEW f, NEW x, NEW p, Assign(w, f, x, p)
  PROVE  DOMAIN locals' = Workers /\ \A v \in Workers \ {w} : locals'[v] = locals[v]
BY DEF Assign, Shape

\* No statement of worker w reaches another worker's entries.
LEMMA ExecLocal ==
  ASSUME Shape, NEW w \in Workers, NEW f \in Functions,
         ExecBind(w, f) \/ ExecStr(w, f) \/ ExecConcat(w, f)
  PROVE  StepLocal(w)
<1>1. ASSUME ExecBind(w, f) PROVE StepLocal(w)
  <2>1. Assign(w, f, Here(w, f).x, Resolve(w, f, Here(w, f).l)) /\ UNCHANGED <<mem, out>>
    BY <1>1 DEF ExecBind
  <2> QED BY <2>1, AssignLocal DEF StepLocal, Untouched, Shape
<1>2. ASSUME ExecStr(w, f) PROVE StepLocal(w)
  <2>1. PICK s, t, p : Write(w, s, t) /\ Assign(w, f, Here(w, f).x, p) /\ UNCHANGED out
    BY <1>2 DEF ExecStr
  <2> QED BY <2>1, WriteLocal, AssignLocal DEF StepLocal, Untouched, Shape
<1>3. ASSUME ExecConcat(w, f) PROVE StepLocal(w)
  <2>1. PICK s, t, p : Write(w, s, t) /\ Assign(w, f, Here(w, f).x, p) /\ UNCHANGED out
    BY <1>3 DEF ExecConcat
  <2> QED BY <2>1, WriteLocal, AssignLocal DEF StepLocal, Untouched, Shape
<1> QED BY <1>1, <1>2, <1>3

\* No step of worker w at all does.
LEMMA WorkerStepLocal ==
  ASSUME Shape, NEW w \in Workers, WorkerStep(w)
  PROVE  StepLocal(w)
<1>1. ASSUME Begin(w) PROVE StepLocal(w)
  BY <1>1 DEF Begin, StepLocal, Untouched, Shape
<1>2. ASSUME Exec(w) PROVE StepLocal(w)
  BY <1>2, ExecLocal DEF Exec
<1>3. ASSUME ExecCall(w) PROVE StepLocal(w)
  BY <1>3 DEF ExecCall, StepLocal, Untouched, Shape
<1>4. ASSUME ExecReturn(w) PROVE StepLocal(w)
  BY <1>4 DEF ExecReturn, StepLocal, Untouched, Shape
<1>5. ASSUME ExecJson(w) PROVE StepLocal(w)
  <2>1. DOMAIN out' = Workers /\ \A v \in Workers \ {w} : out'[v] = out[v]
    BY <1>5 DEF ExecJson, Shape
  <2>2. UNCHANGED locals
    BY <1>5 DEF ExecJson
  <2>3. UNCHANGED mem \/ \E s, t : Write(w, s, t)
    BY <1>5 DEF ExecJson
  <2>4. DOMAIN mem' = Workers /\ \A v \in Workers \ {w} : mem'[v] = mem[v]
    BY <2>3, WriteLocal DEF Shape
  <2> QED BY <2>1, <2>2, <2>4 DEF StepLocal, Untouched, Shape
<1>6. ASSUME CopyOut(w) PROVE StepLocal(w)
  BY <1>6 DEF CopyOut, StepLocal, Untouched, Shape
<1> QED BY <1>1, <1>2, <1>3, <1>4, <1>5, <1>6 DEF WorkerStep

\* A worker whose entries are untouched sees the same strings.
LEMMA UntouchedSeen ==
  ASSUME NEW v, Untouched(v)
  PROVE  Seen(v)' = Seen(v)
<1>1. mem'[v] = mem[v] /\ locals'[v] = locals[v] /\ out'[v] = out[v]
  BY DEF Untouched
<1>2. \A p : Text(v, p)' = Text(v, p)
  BY <1>1 DEF Text, Thread
<1>3. \A f, x : Text(v, locals[v][f][x])' = Text(v, locals[v][f][x])
  BY <1>1 DEF Text, Thread
<1>4. Text(v, out[v].ptr)' = Text(v, out[v].ptr)
  BY <1>1 DEF Text, Thread
<1> QED BY <1>3, <1>4 DEF Seen

-----------------------------------------------------------------------------
\* The entries are there in every state.
LEMMA ShapeKept == Spec => []Shape
<1>1. Init => Shape
  BY DEF Init, Shape
<1>2. Shape /\ [Next]_vars => Shape'
  BY WorkerStepLocal DEF Next, vars, StepLocal, Shape
<1> QED BY <1>1, <1>2, PTL DEF Spec

\* A step of one worker changes no string any other worker can reach, however
\* calls interleave: emit_expr.rs and emit_function.rs mark their buffers
\* thread-local, and call_one_int copies the result out before its thread
\* answers anything else.
THEOREM WorkersNeverShare == Spec => WorkersIndependent
<1>1. ASSUME Shape, [Next]_vars
      PROVE  [\E w \in Workers : \A v \in Workers \ {w} : Seen(v)' = Seen(v)]_vars
  <2>1. ASSUME Next
        PROVE  \E w \in Workers : \A v \in Workers \ {w} : Seen(v)' = Seen(v)
    <3>1. PICK w \in Workers : WorkerStep(w)
      BY <2>1 DEF Next
    <3>2. \A v \in Workers \ {w} : Untouched(v)
      BY <1>1, <3>1, WorkerStepLocal DEF StepLocal
    <3>3. \A v \in Workers \ {w} : Seen(v)' = Seen(v)
      BY <3>2, UntouchedSeen
    <3> QED BY <3>3
  <2> QED BY <1>1, <2>1
<1> QED BY <1>1, ShapeKept, PTL DEF Spec, WorkersIndependent

-----------------------------------------------------------------------------
\* The bodies of a library hold statements, no more than there are places.
LEMMA Bodies ==
  ASSUME prog \in Programs, NEW f \in Functions
  PROVE  /\ Body(f) \in Seq(Stmts) /\ Len(Body(f)) <= MaxLength
         /\ prog.ret \in Atoms
<1>1. prog \in [label : Seq(Stmts), ret : Atoms, main : Seq(Stmts), dict : Seq(Entries)]
  BY StringsAssumption
<1>2. Len(prog.label) <= MaxLength /\ Len(prog.main) <= MaxLength
  BY StringsAssumption
<1> QED BY <1>1, <1>2 DEF Body, Functions

\* The part of the state that pointers live in has its type.
Typed ==
  /\ prog \in Programs
  /\ pc \in [Workers -> [Functions -> [at : Nat \ {0}, round : Nat \ {0}]]]
  /\ DOMAIN locals = Workers
  /\ \A w \in Workers : DOMAIN locals[w] = Functions
  /\ \A w \in Workers, f \in Functions : DOMAIN locals[w][f] = Names
  /\ DOMAIN active = Workers /\ DOMAIN flaws = Workers

\* In worker w, main is past its call of label.
Called(w) == \E k \in DOMAIN prog.main : prog.main[k].op = "call" /\ k < pc[w]["main"].at

\* A site that g may hold a pointer to: one it is past, in its own body or,
\* after the call, in label's.
Passed(w, g, s) ==
  \/ s = Constant
  \/ \E f \in Functions, i \in Nat :
       s = <<f, i>> /\ i < pc[w][f].at /\ (g # f => g = "main" /\ Called(w))

\* While label runs, main stands at the call.
AtCall(w) == pc[w]["main"].at \in DOMAIN prog.main /\ prog.main[pc[w]["main"].at].op = "call"

\* What holds of worker w as long as the library is straight.
StraightInv(w) ==
  /\ \A f \in Functions : pc[w][f].round = 1
  /\ active[w] = "label" => AtCall(w)
  /\ \A g \in Functions, y \in Names : Passed(w, g, locals[w][g][y].site)
  /\ "clobbered" \notin flaws[w]

BufferInv == Typed /\ (Straight(prog) => \A w \in Workers : StraightInv(w))

-----------------------------------------------------------------------------
\* The next place of a function is a place.
LEMMA FollowingTyped ==
  ASSUME Typed, NEW w \in Workers, NEW f \in Functions
  PROVE  Following(w, f) \in [at : Nat \ {0}, round : Nat \ {0}]
<1>1. pc[w][f] \in [at : Nat \ {0}, round : Nat \ {0}]
  BY DEF Typed
<1> QED BY <1>1 DEF Following, Place

\* A step along the program keeps the places typed.
LEMMA StepTyped ==
  ASSUME Typed, NEW w \in Workers, NEW f \in Functions, Step(w, f)
  PROVE  pc' \in [Workers -> [Functions -> [at : Nat \ {0}, round : Nat \ {0}]]]
BY FollowingTyped DEF Typed, Step

\* An assignment keeps the domains.
LEMMA AssignTyped ==
  ASSUME Typed, NEW w \in Workers, NEW f \in Functions, NEW x, NEW p, Assign(w, f, x, p)
  PROVE  /\ DOMAIN locals' = Workers
         /\ \A v \in Workers : DOMAIN locals'[v] = Functions
         /\ \A v \in Workers, g \in Functions : DOMAIN locals'[v][g] = Names
BY DEF Typed, Assign

\* Every step keeps the types.
LEMMA TypedStep ==
  ASSUME Typed, NEW w \in Workers, WorkerStep(w)
  PROVE  Typed'
<1>1. ASSUME Begin(w) PROVE Typed'
  BY <1>1 DEF Begin, Typed, Place, Functions, NoLocals
<1>2. ASSUME NEW f \in Functions, ExecBind(w, f) \/ ExecStr(w, f) \/ ExecConcat(w, f)
      PROVE  Typed'
  <2>1. Step(w, f) /\ UNCHANGED <<prog, active>> /\ \E x, p : Assign(w, f, x, p)
    BY <1>2 DEF ExecBind, ExecStr, ExecConcat
  <2>2. DOMAIN flaws' = Workers
    BY <1>2 DEF ExecBind, ExecStr, ExecConcat, Typed
  <2> QED BY <2>1, <2>2, StepTyped, AssignTyped DEF Typed
<1>3. ASSUME ExecCall(w) PROVE Typed'
  BY <1>3 DEF ExecCall, Typed, Place, Functions, NoLocals
<1>4. ASSUME ExecReturn(w) PROVE Typed'
  <2>1. pc' \in [Workers -> [Functions -> [at : Nat \ {0}, round : Nat \ {0}]]]
    BY <1>4, StepTyped DEF ExecReturn, Functions
  <2> QED BY <1>4, <2>1 DEF ExecReturn, Typed, Functions, NoLocals
<1>5. ASSUME ExecJson(w) PROVE Typed'
  BY <1>5 DEF ExecJson, Typed
<1>6. ASSUME CopyOut(w) PROVE Typed'
  BY <1>6 DEF CopyOut, Typed
<1> QED BY <1>1, <1>2, <1>3, <1>4, <1>5, <1>6 DEF WorkerStep, Exec

-----------------------------------------------------------------------------
\* A step of worker w leaves the others' invariant alone.
LEMMA OthersStraight ==
  ASSUME Typed, NEW w \in Workers, WorkerStep(w), NEW v \in Workers \ {w}, StraightInv(v)
  PROVE  StraightInv(v)'
<1>1. UNCHANGED prog
  BY DEF WorkerStep, Begin, Exec, ExecBind, ExecStr, ExecConcat, ExecCall, ExecReturn, ExecJson,
         CopyOut
<1>2. pc'[v] = pc[v]
  BY DEF WorkerStep, Begin, Exec, ExecBind, ExecStr, ExecConcat, ExecCall, ExecReturn, ExecJson,
         CopyOut, Step, Typed
<1>3. locals'[v] = locals[v]
  BY DEF WorkerStep, Begin, Exec, ExecBind, ExecStr, ExecConcat, ExecCall, ExecReturn, ExecJson,
         CopyOut, Assign, Typed
<1>4. active'[v] = active[v]
  BY DEF WorkerStep, Begin, Exec, ExecBind, ExecStr, ExecConcat, ExecCall, ExecReturn, ExecJson,
         CopyOut, Typed
<1>5. flaws'[v] = flaws[v]
  BY DEF WorkerStep, Begin, Exec, ExecBind, ExecStr, ExecConcat, ExecCall, ExecReturn, ExecJson,
         CopyOut, Typed
<1>6. \A g, s : Passed(v, g, s)' <=> Passed(v, g, s)
  BY <1>1, <1>2 DEF Passed, Called
<1>7. AtCall(v)' <=> AtCall(v)
  BY <1>1, <1>2 DEF AtCall
<1> QED BY <1>2, <1>3, <1>4, <1>5, <1>6, <1>7 DEF StraightInv

\* In a straight library the place after a statement is the next statement.
LEMMA StepOn ==
  ASSUME Typed, Straight(prog), NEW w \in Workers, StraightInv(w), NEW f \in Functions,
         Step(w, f), pc[w][f].at \in DOMAIN Body(f)
  PROVE  /\ pc'[w][f].at = pc[w][f].at + 1 /\ pc'[w][f].round = 1
         /\ \A g \in Functions \ {f} : pc'[w][g] = pc[w][g]
<1>1. pc[w][f] \in [at : Nat \ {0}, round : Nat \ {0}] /\ pc[w][f].round = 1
  BY DEF Typed, StraightInv
<1>2. Body(f)[pc[w][f].at].times = 1
  BY DEF Straight, Body, Functions
<1>3. Following(w, f) = Place(pc[w][f].at + 1, 1)
  BY <1>1, <1>2 DEF Following
<1>4. pc'[w][f] = Place(pc[w][f].at + 1, 1) /\ \A g \in Functions \ {f} : pc'[w][g] = pc[w][g]
  BY <1>3 DEF Step, Typed
<1> QED BY <1>4 DEF Place

\* A function stands at a statement of its body.
LEMMA AtStatement ==
  ASSUME Typed, NEW w \in Workers, NEW f \in Functions, ~Done(w, f)
  PROVE  pc[w][f].at \in DOMAIN Body(f) /\ Here(w, f) \in Stmts
<1>1. pc[w][f].at \in Nat \ {0}
  BY DEF Typed
<1>2. Body(f) \in Seq(Stmts)
  BY Bodies DEF Typed
<1> QED BY <1>1, <1>2 DEF Done, Here

\* What was passed stays so when a function goes on.
LEMMA PassedOn ==
  ASSUME Typed, NEW w \in Workers, NEW f \in Functions, UNCHANGED prog,
         pc'[w][f].at = pc[w][f].at + 1,
         \A g \in Functions \ {f} : pc'[w][g] = pc[w][g],
         NEW g \in Functions, NEW s, Passed(w, g, s)
  PROVE  Passed(w, g, s)'
<1>1. \A h \in Functions : pc[w][h].at \in Nat
  BY DEF Typed
<1>2. \A h \in Functions, i \in Nat : i < pc[w][h].at => i < pc'[w][h].at
  BY <1>1
<1>3. prog.main \in Seq(Stmts)
  BY Bodies DEF Typed, Body, Functions
<1>4. Called(w) => Called(w)'
  BY <1>2, <1>3 DEF Called, Functions
<1> QED BY <1>2, <1>4 DEF Passed

\* The place a function stands at is not passed yet.
LEMMA NotYetPassed ==
  ASSUME Typed, NEW w \in Workers, NEW f \in Functions, NEW g
  PROVE  ~Passed(w, g, SiteOf(f, pc[w][f].at))
<1>1. pc[w][f].at \in Nat
  BY DEF Typed
<1> QED BY <1>1 DEF Passed, SiteOf, Constant, Functions

\* An operand points at a place that is passed.
LEMMA ResolvePassed ==
  ASSUME NEW w \in Workers, StraightInv(w), NEW f \in Functions, NEW a \in Atoms
  PROVE  Passed(w, f, Resolve(w, f, a).site)
<1>1. a.id = "" \/ a.id \in Names
  BY DEF Atoms
<1>2. ASSUME a.id = "" PROVE Resolve(w, f, a).site = Constant
  BY <1>2 DEF Resolve, ConstantOf, Pointer
<1> QED BY <1>1, <1>2 DEF Resolve, StraightInv, Passed

-----------------------------------------------------------------------------
\* No variable points at the buffer a function is about to write.
LEMMA NothingThere ==
  ASSUME Typed, NEW w \in Workers, StraightInv(w), NEW f \in Functions
  PROVE  /\ \A x : ~PointedAt(w, SiteOf(f, pc[w][f].at), f, x)
         /\ \A a \in Atoms : Resolve(w, f, a).site # SiteOf(f, pc[w][f].at)
BY NotYetPassed, ResolvePassed DEF StraightInv, PointedAt

\* A statement that sets a variable to a pointer that is passed once it is
\* executed keeps the invariant.
LEMMA StatementStraight ==
  ASSUME Typed, Straight(prog), NEW w \in Workers, StraightInv(w), NEW f \in Functions,
         active[w] = f, ~Done(w, f), Here(w, f).op # "call", UNCHANGED <<prog, active>>,
         Step(w, f), NEW x, NEW p, Assign(w, f, x, p), Passed(w, f, p.site)',
         "clobbered" \notin flaws'[w]
  PROVE  StraightInv(w)'
<1>1. pc[w][f].at \in DOMAIN Body(f)
  BY AtStatement
<1>2. /\ pc'[w][f].at = pc[w][f].at + 1 /\ pc'[w][f].round = 1
      /\ \A g \in Functions \ {f} : pc'[w][g] = pc[w][g]
  BY <1>1, StepOn
<1>3. \A g \in Functions : pc'[w][g].round = 1
  BY <1>2 DEF StraightInv
<1>4. active'[w] = "label" => AtCall(w)'
  BY <1>2 DEF StraightInv, AtCall, Functions
<1>5. ASSUME NEW g \in Functions, NEW y \in Names
      PROVE  Passed(w, g, locals[w][g][y].site)'
  <2>1. Passed(w, g, locals[w][g][y].site)
    BY DEF StraightInv
  <2>2. PICK s : s = locals[w][g][y].site
    OBVIOUS
  <2>3. Passed(w, g, s)'
    BY <1>2, <2>1, <2>2, PassedOn
  <2>4. locals'[w][g][y] = locals[w][g][y] \/ (g = f /\ locals'[w][g][y] = p)
    BY DEF Assign, Typed
  <2> QED BY <2>2, <2>3, <2>4
<1> QED BY <1>3, <1>4, <1>5 DEF StraightInv

\* Executing a statement keeps the invariant.
LEMMA ExecStraight ==
  ASSUME Typed, Straight(prog), NEW w \in Workers, StraightInv(w), NEW f \in Functions,
         ExecBind(w, f) \/ ExecStr(w, f) \/ ExecConcat(w, f)
  PROVE  StraightInv(w)'
<1>1. /\ active[w] = f /\ ~Done(w, f) /\ Here(w, f).op # "call"
      /\ UNCHANGED <<prog, active>> /\ Step(w, f)
  BY DEF ExecBind, ExecStr, ExecConcat, At, Here
<1>2. pc[w][f].at \in DOMAIN Body(f) /\ Here(w, f) \in Stmts
  BY <1>1, AtStatement
<1>3. Here(w, f).l \in Atoms /\ Here(w, f).r \in Atoms
  BY <1>2 DEF Stmts
<1>4. /\ pc'[w][f].at = pc[w][f].at + 1
      /\ \A g \in Functions \ {f} : pc'[w][g] = pc[w][g]
  BY <1>1, <1>2, StepOn
<1>s. PICK s : s = SiteOf(f, pc[w][f].at)
  OBVIOUS
<1>5. Passed(w, f, s)'
  <2>1. PICK i \in Nat : i = pc[w][f].at
    BY DEF Typed
  <2>2. s = <<f, i>> /\ i < pc'[w][f].at
    BY <1>4, <1>s, <2>1 DEF SiteOf
  <2> QED BY <2>2 DEF Passed
<1>6. ASSUME ExecBind(w, f) PROVE StraightInv(w)'
  <2>1. PICK p : p = Resolve(w, f, Here(w, f).l) /\ Assign(w, f, Here(w, f).x, p)
    BY <1>6 DEF ExecBind
  <2>2. PICK t : t = p.site
    OBVIOUS
  <2>3. Passed(w, f, t)
    BY <1>3, <2>1, <2>2, ResolvePassed
  <2>4. Passed(w, f, t)'
    BY <1>1, <1>4, <2>3, PassedOn
  <2>5. "clobbered" \notin flaws'[w]
    BY <1>6 DEF ExecBind, StraightInv
  <2> QED BY <1>1, <2>1, <2>2, <2>4, <2>5, StatementStraight
<1>7. ASSUME ExecStr(w, f) PROVE StraightInv(w)'
  <2>1. Assign(w, f, Here(w, f).x, PointTo(s))
    BY <1>7, <1>s DEF ExecStr
  <2>2. Passed(w, f, PointTo(s).site)'
    BY <1>5 DEF PointTo, Pointer
  <2>3. "clobbered" \notin flaws'[w]
    BY <1>7, NothingThere DEF ExecStr, StraightInv, Typed
  <2> QED BY <1>1, <2>1, <2>2, <2>3, StatementStraight
<1>8. ASSUME ExecConcat(w, f) PROVE StraightInv(w)'
  <2>1. Assign(w, f, Here(w, f).x, PointTo(s))
    BY <1>8, <1>s DEF ExecConcat
  <2>2. Passed(w, f, PointTo(s).site)'
    BY <1>5 DEF PointTo, Pointer
  <2>3. /\ ~PointedAt(w, s, f, Here(w, f).x)
        /\ Resolve(w, f, Here(w, f).l).site # s /\ Resolve(w, f, Here(w, f).r).site # s
    BY <1>3, <1>s, NothingThere
  <2>4. PICK t : flaws' = [flaws EXCEPT ![w] = @
          \cup (IF \/ PointedAt(w, s, f, Here(w, f).x)
                   \/ s \in {Resolve(w, f, Here(w, f).l).site, Resolve(w, f, Here(w, f).r).site}
                THEN {"clobbered"} ELSE {})
          \cup (IF Len(t) >= BufSize THEN {"truncated"} ELSE {})]
    BY <1>8, <1>s DEF ExecConcat
  <2>5. "clobbered" \notin flaws'[w]
    BY <2>3, <2>4 DEF StraightInv, Typed
  <2> QED BY <1>1, <2>1, <2>2, <2>5, StatementStraight
<1> QED BY <1>6, <1>7, <1>8

\* Calling label keeps the invariant: it was not called before.
LEMMA CallStraight ==
  ASSUME Typed, Straight(prog), NEW w \in Workers, StraightInv(w), ExecCall(w)
  PROVE  StraightInv(w)'
<1>1. /\ pc'[w]["main"] = pc[w]["main"] /\ pc'[w]["label"] = Place(1, 1)
      /\ locals'[w]["main"] = locals[w]["main"] /\ locals'[w]["label"] = NoLocals
      /\ flaws' = flaws /\ prog' = prog
  BY DEF ExecCall, Typed, Functions
<1>2. AtCall(w)
  <2>1. pc[w]["main"].at \in DOMAIN Body("main")
    BY AtStatement DEF ExecCall, At, Functions
  <2> QED BY <2>1 DEF ExecCall, At, Body, AtCall
<1>3. ~Called(w)
  <2>1. pc[w]["main"].at \in Nat
    BY DEF Typed, Functions
  <2> QED BY <1>2, <2>1 DEF Called, AtCall, Straight
<1>4. AtCall(w)'
  BY <1>1, <1>2 DEF AtCall
<1>5. ASSUME NEW y \in Names PROVE Passed(w, "main", locals[w]["main"][y].site)'
  <2>1. Passed(w, "main", locals[w]["main"][y].site)
    BY DEF StraightInv, Functions
  <2> QED BY <1>1, <1>3, <2>1 DEF Passed, Functions
<1>6. ASSUME NEW y \in Names PROVE Passed(w, "label", locals[w]["label"][y].site)'
  BY <1>1 DEF Passed, NoLocals, ConstantOf, Pointer
<1> QED BY <1>1, <1>4, <1>5, <1>6 DEF StraightInv, Functions, Place

\* So does its return: main is past the call then.
LEMMA ReturnStraight ==
  ASSUME Typed, Straight(prog), NEW w \in Workers, StraightInv(w), ExecReturn(w)
  PROVE  StraightInv(w)'
<1>1. AtCall(w) /\ prog' = prog /\ flaws' = flaws /\ active'[w] = "main"
  BY DEF ExecReturn, StraightInv, Typed
<1>2. /\ pc'[w]["main"].at = pc[w]["main"].at + 1 /\ pc'[w]["main"].round = 1
      /\ \A g \in Functions \ {"main"} : pc'[w][g] = pc[w][g]
  <2>1. pc[w]["main"].at \in DOMAIN Body("main")
    BY <1>1 DEF AtCall, Body
  <2> QED BY <2>1, StepOn DEF ExecReturn, Functions
<1>3. Called(w)'
  <2>1. pc[w]["main"].at \in Nat
    BY DEF Typed, Functions
  <2> QED BY <1>1, <1>2, <2>1 DEF Called, AtCall
<1>4. ASSUME NEW s, Passed(w, "label", s) PROVE Passed(w, "main", s)'
  BY <1>2, <1>3, <1>4 DEF Passed, Functions
<1>5. PICK p : p = Resolve(w, "label", prog.ret) /\ Passed(w, "label", p.site)
  <2>1. prog.ret \in Atoms
    BY Bodies DEF Typed, Functions
  <2> QED BY <2>1, ResolvePassed DEF Functions
<1>6. ASSUME NEW y \in Names PROVE Passed(w, "main", locals[w]["main"][y].site)'
  <2>1. locals'[w]["main"][y] = p \/ locals'[w]["main"][y] = locals[w]["main"][y]
    BY <1>5 DEF ExecReturn, Typed, Functions
  <2>2. PICK s : s = locals[w]["main"][y].site
    OBVIOUS
  <2>3. Passed(w, "main", s)'
    BY <1>1, <1>2, <2>2, PassedOn DEF StraightInv, Functions
  <2>4. Passed(w, "main", p.site)'
    BY <1>4, <1>5
  <2> QED BY <2>1, <2>2, <2>3, <2>4
<1>7. ASSUME NEW y \in Names PROVE Passed(w, "label", locals[w]["label"][y].site)'
  <2>1. locals'[w]["label"] = NoLocals
    BY DEF ExecReturn, Typed, Functions
  <2> QED BY <2>1 DEF Passed, NoLocals, ConstantOf, Pointer
<1> QED BY <1>1, <1>2, <1>6, <1>7 DEF StraightInv, Functions

\* A new call starts with nothing that points anywhere.
LEMMA BeginStraight ==
  ASSUME Typed, Straight(prog), NEW w \in Workers, StraightInv(w), Begin(w)
  PROVE  StraightInv(w)'
<1>1. /\ active'[w] = "main" /\ flaws'[w] = {} /\ pc'[w]["main"] = Place(1, 1)
      /\ pc'[w]["label"] = pc[w]["label"]
      /\ \A f \in Functions : locals'[w][f] = NoLocals
  BY DEF Begin, Typed, Functions
<1>2. \A f \in Functions, y \in Names : Passed(w, f, locals[w][f][y].site)'
  BY <1>1 DEF Passed, NoLocals, ConstantOf, Pointer
<1> QED BY <1>1, <1>2 DEF StraightInv, Functions, Place

\* Printing and copying the result leave every pointer of the code where it is.
LEMMA ResultStraight ==
  ASSUME Typed, NEW w \in Workers, StraightInv(w), ExecJson(w) \/ CopyOut(w)
  PROVE  StraightInv(w)'
<1>1. UNCHANGED <<prog, pc, locals>> /\ active'[w] # "label" /\ "clobbered" \notin flaws'[w]
  <2>1. UNCHANGED <<prog, pc, locals>> /\ active'[w] # "label"
    BY DEF ExecJson, CopyOut, Typed
  <2>2. flaws' = flaws \/ \E a, b \in BOOLEAN :
          flaws' = [flaws EXCEPT ![w] = @ \cup (IF a THEN {"unescaped"} ELSE {})
                                          \cup (IF b THEN {"truncated"} ELSE {})]
    BY Zenon DEF ExecJson, CopyOut
  <2>3. "clobbered" \notin flaws'[w]
    BY <2>2 DEF StraightInv, Typed
  <2> QED BY <2>1, <2>3
<1>2. \A g, s : Passed(w, g, s)' <=> Passed(w, g, s)
  BY <1>1 DEF Passed, Called
<1> QED BY <1>1, <1>2 DEF StraightInv

-----------------------------------------------------------------------------
\* Pointers are only ever at places that are passed.
LEMMA BufferInvariant == Spec => []BufferInv
<1>1. Init => BufferInv
  <2>1. Init => Typed
    BY DEF Init, Typed, Place, NoLocals
  <2>2. Init => \A w \in Workers : StraightInv(w)
    BY DEF Init, StraightInv, Passed, Place, NoLocals, ConstantOf, Pointer
  <2> QED BY <2>1, <2>2 DEF BufferInv
<1>2. BufferInv /\ [Next]_vars => BufferInv'
  <2>1. ASSUME BufferInv, NEW w \in Workers, WorkerStep(w) PROVE BufferInv'
    <3>1. Typed'
      BY <2>1, TypedStep DEF BufferInv
    <3>2. UNCHANGED prog
      BY <2>1 DEF WorkerStep, Begin, Exec, ExecBind, ExecStr, ExecConcat, ExecCall, ExecReturn,
                  ExecJson, CopyOut
    <3>3. ASSUME Straight(prog)' PROVE \A v \in Workers : StraightInv(v)'
      <4>1. Straight(prog) /\ Typed /\ \A v \in Workers : StraightInv(v)
        BY <2>1, <3>2, <3>3 DEF BufferInv, Straight
      <4>2. StraightInv(w)'
        BY <2>1, <4>1, BeginStraight, ExecStraight, CallStraight, ReturnStraight, ResultStraight
        DEF WorkerStep, Exec
      <4> QED BY <2>1, <4>1, <4>2, OthersStraight
    <3> QED BY <3>1, <3>3 DEF BufferInv
  <2>2. ASSUME BufferInv, UNCHANGED vars PROVE BufferInv'
    BY <2>2 DEF BufferInv, Typed, Straight, StraightInv, Passed, Called, AtCall, vars
  <2> QED BY <2>1, <2>2 DEF Next
<1> QED BY <1>1, <1>2, PTL DEF Spec

\* Without loops and repeated calls of label no buffer is written while
\* something points at it, in whatever library: BUFFER_COUNTER gives each str()
\* and + of emit_expr.rs a buffer of its own.
THEOREM StraightNeverReuses == Spec => []StraightNeverClobbers
<1>1. BufferInv => StraightNeverClobbers
  BY DEF BufferInv, StraightInv, StraightNeverClobbers
<1> QED BY <1>1, BufferInvariant, PTL

-----------------------------------------------------------------------------
(* Texts                                                                   *)

\* A sequence of sequences, flattened, is a sequence of their elements.
LEMMA FlattenTyped ==
  ASSUME NEW S, NEW seqs \in Seq(Seq(S))
  PROVE  FlattenSeq(seqs) \in Seq(S)
<1>1. CASE Len(seqs) = 0
  <2>1. FlattenSeq(seqs) = seqs /\ seqs = <<>>
    BY <1>1 DEF FlattenSeq
  <2> QED
    BY <2>1
<1>2. CASE Len(seqs) # 0
  <2> DEFINE n == Len(seqs)
             Flattened(f) == f = [i \in 1 .. n |-> IF i = 1 THEN seqs[i] ELSE f[i - 1] \o seqs[i]]
             T == Seq(S)
             e == <<>>
             F == [j \in 1 .. n |-> [t \in T |-> t \o seqs[j]]]
  <2>1. FlattenSeq(seqs) = (CHOOSE f : Flattened(f))[n]
    BY <1>2 DEF FlattenSeq
  <2>2. n \in Nat /\ n >= 1 /\ \A i \in 1 .. n : seqs[i] \in Seq(S)
    BY <1>2
  <2>3. e \in T /\ \A j \in 1 .. n : \A x \in T : F[j][x] \in T
    BY <2>2
  <2> HIDE DEF n, T, e
  <2>4. PICK g \in [0 .. n -> T] : Iterates(g, n, e, F)
    <3> HIDE DEF F
    <3> QED
      BY <2>2, <2>3, Recursion
  <2>5. ASSUME NEW j \in 1 .. n PROVE g[j] = g[j - 1] \o seqs[j]
    <3> HIDE DEF F
    <3>1. j - 1 \in 0 .. n /\ g[j] = F[j][g[j - 1]]
      BY <2>2, <2>4 DEF Iterates
    <3>2. g[j - 1] \in T
      BY <3>1
    <3>3. F[j][g[j - 1]] = g[j - 1] \o seqs[j]
      BY <3>2 DEF F
    <3> QED
      BY <3>1, <3>3
  <2>6. Flattened([i \in 1 .. n |-> g[i]])
    <3> DEFINE h == [i \in 1 .. n |-> g[i]]
    <3>1. ASSUME NEW i \in 1 .. n PROVE h[i] = IF i = 1 THEN seqs[i] ELSE h[i - 1] \o seqs[i]
      <4>1. CASE i = 1
        <5>1. g[i] = g[i - 1] \o seqs[i] /\ i - 1 = 0
          <6> HIDE DEF F, Flattened, h
          <6>1. g[i] = g[i - 1] \o seqs[i]
            BY <2>5
          <6> QED
            BY <4>1, <6>1
        <5>2. g[i] = seqs[i]
          BY <2>2, <2>4, <5>1 DEF e, Iterates
        <5> QED
          BY <4>1, <5>2
      <4>2. CASE i # 1
        <5>1. i - 1 \in 1 .. n
          BY <2>2, <4>2
        <5> QED
          BY <2>5, <4>2, <5>1
      <4> QED
        BY <4>1, <4>2
    <3> QED
      BY <3>1
  <2>7. PICK f : f = (CHOOSE h : Flattened(h)) /\ Flattened(f)
    BY <2>6
  <2> DEFINE P == {i \in 0 .. n : i = 0 \/ f[i] \in Seq(S)}
  <2>8. 0 \in P /\ \A i \in 1 .. n : i - 1 \in P => i \in P
    <3>1. 0 \in P
      BY <2>2
    <3>2. ASSUME NEW i \in 1 .. n, i - 1 \in P PROVE i \in P
      <4>1. f[i] = IF i = 1 THEN seqs[i] ELSE f[i - 1] \o seqs[i]
        BY <2>7
      <4>2. i # 1 => f[i - 1] \in Seq(S)
        BY <2>2, <3>2
      <4>3. f[i] \in Seq(S)
        BY <2>2, <4>1, <4>2
      <4> QED
        BY <2>2, <4>3
    <3> QED
      BY <3>1, <3>2
  <2>9. n \in P
    <3> HIDE DEF P
    <3>1. \A j \in 0 .. n : j \in P
      BY <2>2, <2>8, Induction
    <3> QED
      BY <2>2, <3>1
  <2> QED
    BY <2>1, <2>2, <2>7, <2>9
<1> QED
  BY <1>1, <1>2

LEMMA EscapedTyped ==
  ASSUME NEW t \in Texts
  PROVE  Escaped(t) \in Texts
<1> DEFINE seqs == [i \in DOMAIN t |->
                      IF t[i] \in {Quote, Backslash} THEN <<Backslash, t[i]>> ELSE <<t[i]>>]
<1>1. \A i \in DOMAIN t : seqs[i] \in Seq(Nat)
  BY DEF Texts, Backslash
<1>2. seqs \in Seq(Seq(Nat))
  <2>1. DOMAIN t = 1 .. Len(t) /\ Len(t) \in Nat
    BY DEF Texts
  <2> QED
    BY <1>1, <2>1
<1>3. Escaped(t) = FlattenSeq(seqs)
  BY DEF Escaped
<1> HIDE DEF seqs
<1> QED
  BY <1>2, <1>3, FlattenTyped DEF Texts

LEMMA JsonTyped ==
  ASSUME NEW values \in Seq(Texts)
  PROVE  Json(values) \in Texts
<1> DEFINE seqs == [i \in DOMAIN values |-> values[i] \o <<Comma>>]
<1>1. \A i \in DOMAIN values : values[i] \in Seq(Nat) /\ <<Comma>> \in Seq(Nat)
  BY DEF Texts, Comma
<1>2. DOMAIN values = 1 .. Len(values) /\ Len(values) \in Nat
  OBVIOUS
<1>3. seqs \in Seq(Seq(Nat))
  BY <1>1, <1>2
<1>4. Json(values) = <<Open>> \o FlattenSeq(seqs) \o <<Close>>
  BY DEF Json
<1> HIDE DEF seqs
<1>5. FlattenSeq(seqs) \in Seq(Nat) /\ <<Open>> \in Seq(Nat) /\ <<Close>> \in Seq(Nat)
  BY <1>3, FlattenTyped DEF Open, Close
<1> QED
  BY <1>4, <1>5 DEF Texts

\* What is left of a text in a buffer is a text that leaves room for the NUL,
\* and the text itself if that does.
LEMMA CutTyped ==
  ASSUME NEW t \in Texts
  PROVE  Cut(t) \in Texts /\ Len(Cut(t)) < BufSize /\ (~(Len(t) >= BufSize) => Cut(t) = t)
<1>1. BufSize \in Nat \ {0} /\ Len(t) \in Nat
  BY StringsAssumption DEF Texts
<1>2. CASE Len(t) < BufSize
  BY <1>1, <1>2 DEF Cut
<1>3. CASE ~(Len(t) < BufSize)
  <2>1. Cut(t) = SubSeq(t, 1, BufSize - 1)
    BY <1>3 DEF Cut
  <2>2. SubSeq(t, 1, BufSize - 1) \in Seq(Nat) /\ Len(SubSeq(t, 1, BufSize - 1)) = BufSize - 1
    BY <1>1, <1>3 DEF Texts
  <2> QED
    BY <1>1, <1>3, <2>1, <2>2 DEF Texts
<1> QED
  BY <1>2, <1>3

-----------------------------------------------------------------------------
(* Types                                                                   *)

LEMMA TypedOfTypeOK ==
  ASSUME TypeOK
  PROVE  Typed
BY DEF TypeOK, Typed

\* What an operand, a number and a pointer stand for has its type.
LEMMA OperandsTyped ==
  ASSUME TypeOK, NEW w \in Workers, NEW f \in Functions
  PROVE  /\ \A a \in Atoms : Resolve(w, f, a) \in Pointers
         /\ \A k \in Nat \cup {Param} : Value(w, f, k) \in Nat /\ Digits(Value(w, f, k)) \in Texts
         /\ \A p \in Pointers : Text(w, p) \in Texts
<1>1. ASSUME NEW a \in Atoms PROVE Resolve(w, f, a) \in Pointers
  <2>1. a.text \in Texts /\ (a.id = "" \/ a.id \in Names)
    BY DEF Atoms
  <2>2. ConstantOf(a.text) \in Pointers
    BY <2>1 DEF ConstantOf, Pointer, Pointers
  <2>3. a.id \in Names => locals[w][f][a.id] \in Pointers
    BY DEF TypeOK
  <2> QED
    BY <2>1, <2>2, <2>3 DEF Resolve
<1>2. ASSUME NEW k \in Nat \cup {Param} PROVE Value(w, f, k) \in Nat /\ Digits(Value(w, f, k)) \in Texts
  <2>1. arg[w][f] \in Nat
    BY DEF TypeOK
  <2>2. Value(w, f, k) \in Nat
    BY <2>1 DEF Value
  <2> QED
    BY <2>2 DEF Digits, Texts
<1>3. ASSUME NEW p \in Pointers PROVE Text(w, p) \in Texts
  <2>1. p.text \in Texts /\ (p.site = Constant \/ p.site \in Sites)
    BY DEF Pointers
  <2>2. p.site \in Sites => mem[w][p.site] \in Texts
    BY DEF TypeOK
  <2> QED
    BY <2>1, <2>2 DEF Text, Thread
<1> QED
  BY <1>1, <1>2, <1>3

\* The place a function stands at is one of the program's.
LEMMA SiteTyped ==
  ASSUME TypeOK, NEW w \in Workers, NEW f \in Functions, ~Done(w, f)
  PROVE  /\ SiteOf(f, pc[w][f].at) \in Sites
         /\ PointTo(SiteOf(f, pc[w][f].at)) \in Pointers
         /\ Here(w, f) \in Stmts
<1>1. pc[w][f].at \in DOMAIN Body(f) /\ Here(w, f) \in Stmts
  BY AtStatement, TypedOfTypeOK
<1>2. Body(f) \in Seq(Stmts) /\ Len(Body(f)) <= MaxLength
  BY Bodies DEF TypeOK
<1>3. pc[w][f].at \in 1 .. MaxLength
  BY <1>1, <1>2, StringsAssumption
<1>4. SiteOf(f, pc[w][f].at) \in Sites
  BY <1>3 DEF SiteOf, Sites
<1>5. <<>> \in Texts
  BY DEF Texts
<1> QED
  BY <1>1, <1>4, <1>5 DEF PointTo, Pointer, Pointers

\* Writing a buffer, setting a variable and going on keep the types.
LEMMA WriteTyped ==
  ASSUME TypeOK, NEW w \in Workers, NEW s \in Sites, NEW t \in Texts, Write(w, s, t)
  PROVE  /\ mem' \in [Workers -> [Sites -> Texts]]
         /\ \A v \in Workers : \A r \in Sites : Len(mem'[v][r]) < BufSize
         /\ mem'[w][s] = Cut(t)
         /\ \A r \in Sites \ {s} : mem'[w][r] = mem[w][r]
<1>1. Cut(t) \in Texts /\ Len(Cut(t)) < BufSize
  BY CutTyped
<1>2. mem' = [mem EXCEPT ![w][s] = Cut(t)]
  BY DEF Write, Thread
<1>3. mem \in [Workers -> [Sites -> Texts]] /\ \A v \in Workers : \A r \in Sites : Len(mem[v][r]) < BufSize
  BY DEF TypeOK
<1> QED
  BY <1>1, <1>2, <1>3

LEMMA AssignPointerTyped ==
  ASSUME TypeOK, NEW w \in Workers, NEW f \in Functions, NEW x, NEW p \in Pointers, Assign(w, f, x, p)
  PROVE  locals' \in [Workers -> [Functions -> [Names -> Pointers]]]
BY DEF TypeOK, Assign

LEMMA NoLocalsTyped == NoLocals \in [Names -> Pointers]
<1>1. ConstantOf(<<>>) \in Pointers
  BY DEF ConstantOf, Pointer, Pointers, Texts
<1> QED
  BY <1>1 DEF NoLocals

LEMMA BeginTyped ==
  ASSUME TypeOK, NEW w \in Workers, Begin(w)
  PROVE  TypeOK'
<1>1. UNCHANGED <<prog, mem, out, answers>>
  BY DEF Begin
<1>2. PICK n \in Arguments : arg' = [arg EXCEPT ![w]["main"] = n]
  BY DEF Begin
<1>3. n \in Nat
  BY StringsAssumption
<1>4. active' \in [Workers -> Functions \cup {"idle", "copy"}]
  BY DEF TypeOK, Begin, Functions
<1>5. pc' \in [Workers -> [Functions -> [at : Nat \ {0}, round : Nat \ {0}]]]
  BY DEF TypeOK, Begin, Place, Functions
<1>6. arg' \in [Workers -> [Functions -> Nat]]
  BY <1>2, <1>3 DEF TypeOK
<1>7. locals' \in [Workers -> [Functions -> [Names -> Pointers]]]
  BY NoLocalsTyped DEF TypeOK, Begin
<1>8. flaws' \in [Workers -> SUBSET Flaws]
  BY DEF TypeOK, Begin
<1> QED
  BY <1>1, <1>4, <1>5, <1>6, <1>7, <1>8 DEF TypeOK

LEMMA ExecTyped ==
  ASSUME TypeOK, NEW w \in Workers, NEW f \in Functions,
         ExecBind(w, f) \/ ExecStr(w, f) \/ ExecConcat(w, f)
  PROVE  TypeOK'
<1> DEFINE s == SiteOf(f, pc[w][f].at)
<1>1. /\ ~Done(w, f) /\ UNCHANGED <<prog, active, arg, out, answers>> /\ Step(w, f)
  BY DEF ExecBind, ExecStr, ExecConcat, At
<1>2. s \in Sites /\ PointTo(s) \in Pointers /\ Here(w, f) \in Stmts
  BY <1>1, SiteTyped
<1>3. Here(w, f).l \in Atoms /\ Here(w, f).r \in Atoms /\ Here(w, f).arg \in Nat \cup {Param}
  BY <1>2 DEF Stmts
<1>4. pc' \in [Workers -> [Functions -> [at : Nat \ {0}, round : Nat \ {0}]]]
  BY <1>1, StepTyped, TypedOfTypeOK
<1> HIDE DEF s
<1>5. CASE ExecBind(w, f)
  <2>1. UNCHANGED <<mem, flaws>> /\ Assign(w, f, Here(w, f).x, Resolve(w, f, Here(w, f).l))
    BY <1>5 DEF ExecBind
  <2>2. locals' \in [Workers -> [Functions -> [Names -> Pointers]]]
    BY <1>3, <2>1, OperandsTyped, AssignPointerTyped
  <2> QED
    BY <1>1, <1>4, <2>1, <2>2 DEF TypeOK
<1>6. CASE ExecStr(w, f) \/ ExecConcat(w, f)
  <2>1. \E t \in Texts : Write(w, s, t)
    <3>1. CASE ExecStr(w, f)
      <4>1. Write(w, s, Digits(Value(w, f, Here(w, f).arg)))
        BY <3>1 DEF ExecStr, s
      <4> QED
        BY <1>3, <4>1, OperandsTyped
    <3>2. CASE ExecConcat(w, f)
      <4> DEFINE l == Resolve(w, f, Here(w, f).l)
                 r == Resolve(w, f, Here(w, f).r)
                 Read(p) == IF p.site = s THEN {Text(w, p), <<>>, Text(w, l)} ELSE {Text(w, p)}
      <4>1. PICK t \in Concatenated(w, f, s) : Write(w, s, t)
        BY <3>2 DEF ExecConcat, s
      <4>2. l \in Pointers /\ r \in Pointers
        BY <1>3, OperandsTyped
      <4>3. Text(w, l) \in Texts /\ Text(w, r) \in Texts /\ <<>> \in Texts
        BY <4>2, OperandsTyped DEF Texts
      <4>4. Concatenated(w, f, s) = {a \o b : a \in Read(l), b \in Read(r)}
        BY DEF Concatenated
      <4>5. \A a \in Read(l), b \in Read(r) : a \in Texts /\ b \in Texts
        BY <4>3
      <4> HIDE DEF Read, l, r
      <4>6. PICK a \in Read(l), b \in Read(r) : t = a \o b
        BY <4>1, <4>4
      <4>7. t \in Texts
        BY <4>5, <4>6 DEF Texts
      <4> QED
        BY <4>1, <4>7
    <3> QED
      BY <1>6, <3>1, <3>2
  <2>2. Assign(w, f, Here(w, f).x, PointTo(s))
    BY <1>6 DEF ExecStr, ExecConcat, s
  <2>3. flaws' \in [Workers -> SUBSET Flaws]
    <3>1. \E a, b \in BOOLEAN :
            flaws' = [flaws EXCEPT ![w] = @ \cup (IF a THEN {"clobbered"} ELSE {})
                                            \cup (IF b THEN {"truncated"} ELSE {})]
      BY <1>6, Zenon DEF ExecStr, ExecConcat
    <3> QED
      BY <3>1 DEF TypeOK, Flaws
  <2>4. locals' \in [Workers -> [Functions -> [Names -> Pointers]]]
    BY <1>2, <2>2, AssignPointerTyped
  <2> QED
    BY <1>1, <1>2, <1>4, <2>1, <2>3, <2>4, WriteTyped DEF TypeOK
<1> QED
  BY <1>5, <1>6

LEMMA CallTyped ==
  ASSUME TypeOK, NEW w \in Workers, ExecCall(w) \/ ExecReturn(w)
  PROVE  TypeOK'
<1>1. UNCHANGED <<prog, mem, out, answers, flaws>>
  BY DEF ExecCall, ExecReturn
<1>2. "main" \in Functions /\ "label" \in Functions
  BY DEF Functions
<1>3. CASE ExecCall(w)
  <2>1. Value(w, "main", Here(w, "main").arg) \in Nat
    <3>1. ~Done(w, "main")
      BY <1>3 DEF ExecCall, At
    <3>2. Here(w, "main").arg \in Nat \cup {Param}
      BY <1>2, <3>1, SiteTyped DEF Stmts
    <3> QED
      BY <1>2, <3>2, OperandsTyped
  <2>2. active' \in [Workers -> Functions \cup {"idle", "copy"}]
    BY <1>2, <1>3 DEF TypeOK, ExecCall
  <2>3. pc' \in [Workers -> [Functions -> [at : Nat \ {0}, round : Nat \ {0}]]]
    BY <1>2, <1>3 DEF TypeOK, ExecCall, Place
  <2>4. arg' \in [Workers -> [Functions -> Nat]]
    BY <1>3, <2>1 DEF TypeOK, ExecCall
  <2>5. locals' \in [Workers -> [Functions -> [Names -> Pointers]]]
    BY <1>3, NoLocalsTyped DEF TypeOK, ExecCall
  <2> QED
    BY <1>1, <2>2, <2>3, <2>4, <2>5 DEF TypeOK
<1>4. CASE ExecReturn(w)
  <2>1. UNCHANGED arg /\ Step(w, "main")
    BY <1>4 DEF ExecReturn
  <2>2. pc' \in [Workers -> [Functions -> [at : Nat \ {0}, round : Nat \ {0}]]]
    BY <1>2, <2>1, StepTyped, TypedOfTypeOK
  <2>3. active' \in [Workers -> Functions \cup {"idle", "copy"}]
    BY <1>2, <1>4 DEF TypeOK, ExecReturn
  <2>4. Resolve(w, "label", prog.ret) \in Pointers
    BY <1>2, OperandsTyped, Bodies DEF TypeOK
  <2>5. [locals[w]["main"] EXCEPT ![Here(w, "main").x] = Resolve(w, "label", prog.ret)] \in [Names -> Pointers]
    <3>1. locals[w]["main"] \in [Names -> Pointers]
      BY <1>2 DEF TypeOK
    <3> QED
      BY <2>4, <3>1
  <2>6. locals' \in [Workers -> [Functions -> [Names -> Pointers]]]
    BY <1>4, <2>5, NoLocalsTyped DEF TypeOK, ExecReturn
  <2> QED
    BY <1>1, <2>1, <2>2, <2>3, <2>6 DEF TypeOK
<1> QED
  BY <1>3, <1>4

\* The values of the dict are texts, and so is its JSON.
LEMMA EntriesTyped ==
  ASSUME TypeOK, NEW w \in Workers
  PROVE  /\ [i \in DOMAIN prog.dict |-> EntryText(w, prog.dict[i])] \in Seq(Texts)
         /\ Json([i \in DOMAIN prog.dict |-> EntryText(w, prog.dict[i])]) \in Texts
<1>1. prog.dict \in Seq(Entries)
  BY StringsAssumption DEF TypeOK
<1>2. "main" \in Functions
  BY DEF Functions
<1>3. ASSUME NEW e \in Entries PROVE EntryText(w, e) \in Texts
  <2>1. CASE e.kind = "lit"
    <3>1. e.atom.text \in Texts
      BY DEF Entries, Atoms
    <3> QED
      BY <2>1, <3>1, EscapedTyped DEF EntryText
  <2>2. CASE e.kind = "str"
    <3>1. e.atom.id \in Names
      BY <2>2 DEF Entries
    <3>2. locals[w]["main"][e.atom.id] \in Pointers
      BY <1>2, <3>1 DEF TypeOK
    <3> QED
      BY <1>2, <2>2, <3>2, OperandsTyped DEF EntryText
  <2>3. CASE e.kind = "int"
    <3>1. arg[w]["main"] \in Nat
      BY <1>2 DEF TypeOK
    <3> QED
      BY <2>3, <3>1 DEF EntryText, Digits, Texts
  <2> QED
    BY <2>1, <2>2, <2>3 DEF Entries
<1>4. DOMAIN prog.dict = 1 .. Len(prog.dict) /\ Len(prog.dict) \in Nat /\ \A i \in DOMAIN prog.dict : prog.dict[i] \in Entries
  BY <1>1
<1>5. [i \in DOMAIN prog.dict |-> EntryText(w, prog.dict[i])] \in Seq(Texts)
  BY <1>3, <1>4
<1> QED
  BY <1>5, JsonTyped

LEMMA ResultTyped ==
  ASSUME TypeOK, NEW w \in Workers, ExecJson(w) \/ CopyOut(w)
  PROVE  TypeOK'
<1>1. UNCHANGED <<prog, pc, arg, locals>>
  BY DEF ExecJson, CopyOut
<1>2. active' \in [Workers -> Functions \cup {"idle", "copy"}]
  BY DEF TypeOK, ExecJson, CopyOut
<1>3. CASE ExecJson(w)
  <2> DEFINE t == Json([i \in DOMAIN prog.dict |-> EntryText(w, prog.dict[i])])
  <2>1. t \in Texts /\ Len(t) \in Nat
    <3>1. t \in Texts
      BY EntriesTyped
    <3> HIDE DEF t
    <3> QED
      BY <3>1 DEF Texts
  <2>2. ConstantOf(t) \in Pointers /\ PointTo(JsonSite) \in Pointers /\ JsonSite \in Sites
    <3>1. t \in Texts /\ <<>> \in Texts
      BY <2>1 DEF Texts
    <3> HIDE DEF t
    <3> QED
      BY <3>1 DEF ConstantOf, PointTo, Pointer, Pointers, Sites
  <2>3. \/ UNCHANGED <<mem, flaws>> /\ out' = [out EXCEPT ![w] = [ptr |-> ConstantOf(t), len |-> Len(t)]]
        \/ /\ Write(w, JsonSite, t) /\ out' = [out EXCEPT ![w] = [ptr |-> PointTo(JsonSite), len |-> Len(t)]]
           /\ \E a, b \in BOOLEAN :
                flaws' = [flaws EXCEPT ![w] = @ \cup (IF a THEN {"unescaped"} ELSE {})
                                                \cup (IF b THEN {"truncated"} ELSE {})]
    BY <1>3, Zenon DEF ExecJson
  <2>4. UNCHANGED answers
    BY <1>3 DEF ExecJson
  <2> HIDE DEF t
  <2>5. out' \in [Workers -> [ptr : Pointers, len : Nat]]
    <3>1. PICK p \in Pointers : out' = [out EXCEPT ![w] = [ptr |-> p, len |-> Len(t)]]
      BY <2>2, <2>3
    <3>2. [ptr |-> p, len |-> Len(t)] \in [ptr : Pointers, len : Nat]
      BY <2>1
    <3> QED
      BY <3>1, <3>2 DEF TypeOK
  <2>6. flaws' \in [Workers -> SUBSET Flaws]
    <3>1. CASE UNCHANGED flaws
      BY <3>1 DEF TypeOK
    <3>2. CASE \E a, b \in BOOLEAN :
                 flaws' = [flaws EXCEPT ![w] = @ \cup (IF a THEN {"unescaped"} ELSE {})
                                                 \cup (IF b THEN {"truncated"} ELSE {})]
      BY <3>2 DEF TypeOK, Flaws
    <3> QED
      BY <2>3, <3>1, <3>2
  <2>7. /\ mem' \in [Workers -> [Sites -> Texts]]
        /\ \A v \in Workers : \A s \in Sites : Len(mem'[v][s]) < BufSize
    BY <2>1, <2>2, <2>3, WriteTyped DEF TypeOK
  <2> QED
    BY <1>1, <1>2, <2>4, <2>5, <2>6, <2>7 DEF TypeOK
<1>4. CASE CopyOut(w)
  <2> DEFINE t == Text(w, out[w].ptr)
             a == [n |-> arg[w]["main"], text |-> Bytes(t, out[w].len), flaws |-> flaws[w]]
  <2>1. out[w].ptr \in Pointers /\ out[w].len \in Nat /\ flaws[w] \in SUBSET Flaws /\ arg[w]["main"] \in Nat
    BY DEF TypeOK, Functions
  <2>2. t \in Texts
    BY <2>1, OperandsTyped DEF Functions
  <2>3. Bytes(t, out[w].len) \in Texts
    <3> HIDE DEF t
    <3>1. \A i \in 1 .. out[w].len : (IF i <= Len(t) THEN t[i] ELSE Junk) \in Nat
      BY <2>2 DEF Texts, Junk
    <3> QED
      BY <2>1, <3>1 DEF Bytes, Texts
  <2>4. a \in [n : Nat, text : Texts, flaws : SUBSET Flaws]
    BY <2>1, <2>3
  <2>5. UNCHANGED answers \/ answers' = [answers EXCEPT ![w] = Append(@, a)]
    BY <1>4 DEF CopyOut
  <2> HIDE DEF a
  <2>6. answers' \in [Workers -> Seq([n : Nat, text : Texts, flaws : SUBSET Flaws])]
    <3> DEFINE A == [n : Nat, text : Texts, flaws : SUBSET Flaws]
    <3>1. answers \in [Workers -> Seq(A)] /\ a \in A
      BY <2>4 DEF TypeOK
    <3> HIDE DEF A
    <3>2. Append(answers[w], a) \in Seq(A)
      BY <3>1
    <3>3. answers' \in [Workers -> Seq(A)]
      BY <2>5, <3>1, <3>2
    <3> QED
      BY <3>3 DEF A
  <2>7. UNCHANGED <<mem, out, flaws>>
    BY <1>4 DEF CopyOut
  <2> QED
    BY <1>1, <1>2, <2>6, <2>7 DEF TypeOK
<1> QED
  BY <1>3, <1>4

\* The first state has its types, and every step of a worker keeps them.
LEMMA InitTyped ==
  ASSUME Init
  PROVE  TypeOK
<1>1. <<>> \in Texts /\ Len(<<>>) < BufSize
  BY StringsAssumption DEF Texts
<1>2. NoOut \in [ptr : Pointers, len : Nat]
  BY <1>1 DEF NoOut, ConstantOf, Pointer, Pointers
<1>3. Place(1, 1) \in [at : Nat \ {0}, round : Nat \ {0}]
  BY DEF Place
<1>4. /\ prog \in Programs /\ active \in [Workers -> Functions \cup {"idle", "copy"}]
      /\ arg \in [Workers -> [Functions -> Nat]] /\ flaws \in [Workers -> SUBSET Flaws]
      /\ answers \in [Workers -> Seq([n : Nat, text : Texts, flaws : SUBSET Flaws])]
  BY DEF Init
<1>5. /\ pc \in [Workers -> [Functions -> [at : Nat \ {0}, round : Nat \ {0}]]]
      /\ locals \in [Workers -> [Functions -> [Names -> Pointers]]]
      /\ out \in [Workers -> [ptr : Pointers, len : Nat]]
  BY <1>2, <1>3, NoLocalsTyped DEF Init
<1>6. /\ mem \in [Workers -> [Sites -> Texts]]
      /\ \A w \in Workers : \A s \in Sites : Len(mem[w][s]) < BufSize
  BY <1>1 DEF Init
<1> QED
  BY <1>4, <1>5, <1>6 DEF TypeOK

LEMMA StepTypes ==
  ASSUME TypeOK, NEW w \in Workers, WorkerStep(w)
  PROVE  TypeOK'
BY BeginTyped, ExecTyped, CallTyped, ResultTyped DEF WorkerStep, Exec

\* Every variable keeps its type, and every buffer of every thread room for the
\* final NUL, for any library and any size of the buffers: snprintf is given
\* STR_BUF_SIZE (emit_expr.rs, emit_function.rs).
THEOREM TypeCorrect == Spec => []TypeOK
<1>1. Init => TypeOK
  BY InitTyped
<1>2. TypeOK /\ [Next]_vars => TypeOK'
  <2>1. ASSUME TypeOK, UNCHANGED vars PROVE TypeOK'
    BY <2>1 DEF TypeOK, vars
  <2> QED
    BY <2>1, StepTypes DEF Next
<1> QED
  BY <1>1, <1>2, PTL DEF Spec

-----------------------------------------------------------------------------
(* Python's run of a function                                              *)

Envs     == [Names -> Texts]
Returns  == [Nat -> Texts]

\* A statement takes variables to variables.
LEMMA AfterTyped ==
  ASSUME NEW env \in Envs, NEW s \in Stmts, NEW m \in Nat, NEW returned \in Returns
  PROVE  /\ PyAfter(env, s, m, returned) \in Envs
         /\ \A x \in Names \ {s.x} : PyAfter(env, s, m, returned)[x] = env[x]
<1> DEFINE value == CASE s.op = "bind"   -> PyAtom(env, s.l)
                      [] s.op = "str"    -> Digits(PyInt(s.arg, m))
                      [] s.op = "concat" -> PyAtom(env, s.l) \o PyAtom(env, s.r)
                      [] s.op = "call"   -> returned[PyInt(s.arg, m)]
<1>1. /\ s.op \in {"bind", "str", "concat", "call"} /\ s.x \in Names
      /\ s.l \in Atoms /\ s.r \in Atoms /\ s.arg \in Nat \cup {Param}
  BY DEF Stmts
<1>2. \A a \in Atoms : PyAtom(env, a) \in Texts
  BY DEF Atoms, PyAtom, Envs
<1>3. PyInt(s.arg, m) \in Nat
  BY <1>1 DEF PyInt
<1>4. PyAtom(env, s.l) \o PyAtom(env, s.r) \in Texts
  <2>1. PyAtom(env, s.l) \in Texts /\ PyAtom(env, s.r) \in Texts
    BY <1>1, <1>2
  <2> QED
    BY <2>1 DEF Texts
<1>5. Digits(PyInt(s.arg, m)) \in Texts /\ returned[PyInt(s.arg, m)] \in Texts
  BY <1>3 DEF Digits, Texts, Returns
<1>6. value \in Texts
  BY <1>1, <1>2, <1>4, <1>5
<1>7. PyAfter(env, s, m, returned) = [env EXCEPT ![s.x] = value]
  BY DEF PyAfter
<1> HIDE DEF value
<1> QED
  BY <1>6, <1>7 DEF Envs

\* The rounds of a statement follow one another.
LEMMA RoundsFollow ==
  ASSUME NEW env \in Envs, NEW s \in Stmts, NEW m \in Nat, NEW returned \in Returns
  PROVE  LET R == PyRounds(env, s, m, returned)
         IN  /\ R[0] = env
             /\ \A k \in 1 .. s.times : R[k] = PyAfter(R[k - 1], s, m, returned)
             /\ \A k \in 0 .. s.times : R[k] \in Envs
<1> DEFINE n == s.times
           After(f) == f = [k \in 0 .. n |-> IF k = 0 THEN env ELSE PyAfter(f[k - 1], s, m, returned)]
           F == [k \in 1 .. n |-> [x \in Envs |-> PyAfter(x, s, m, returned)]]
<1>1. PyRounds(env, s, m, returned) = CHOOSE f : After(f)
  BY DEF PyRounds
<1>2. n \in Nat
  BY DEF Stmts
<1>3. \A k \in 1 .. n : \A x \in Envs : F[k][x] = PyAfter(x, s, m, returned) /\ F[k][x] \in Envs
  BY AfterTyped
<1> HIDE DEF n, F
<1>4. PICK g \in [0 .. n -> Envs] : Iterates(g, n, env, F)
  BY <1>2, <1>3, Recursion
<1>5. ASSUME NEW k \in 0 .. n PROVE g[k] = IF k = 0 THEN env ELSE PyAfter(g[k - 1], s, m, returned)
  <2>1. CASE k = 0
    BY <1>4, <2>1 DEF Iterates
  <2>2. CASE k # 0
    <3>1. k \in 1 .. n /\ k - 1 \in 0 .. n
      BY <1>2, <2>2
    <3>2. g[k] = F[k][g[k - 1]] /\ g[k - 1] \in Envs
      BY <1>4, <3>1 DEF Iterates
    <3> QED
      BY <1>3, <2>2, <3>1, <3>2
  <2> QED
    BY <2>1, <2>2
<1>6. After(g)
  BY <1>5
<1>7. PICK f : f = PyRounds(env, s, m, returned) /\ After(f)
  BY <1>1, <1>6
<1>8. f[0] = env /\ \A k \in 1 .. n : f[k] = PyAfter(f[k - 1], s, m, returned)
  <2>1. \A k \in 0 .. n : f[k] = IF k = 0 THEN env ELSE PyAfter(f[k - 1], s, m, returned)
    BY <1>7
  <2>2. 0 \in 0 .. n /\ \A k \in 1 .. n : k \in 0 .. n /\ k # 0
    BY <1>2
  <2> QED
    BY <2>1, <2>2
<1> HIDE DEF After
<1> DEFINE P == {k \in 0 .. n : f[k] \in Envs}
<1>9. 0 \in P
  BY <1>2, <1>8
<1>10. ASSUME NEW k \in 1 .. n, k - 1 \in P PROVE k \in P
  <2>1. f[k] \in Envs
    BY <1>8, <1>10, AfterTyped
  <2> QED
    BY <1>2, <2>1
<1>11. \A k \in 0 .. n : k \in P
  <2> HIDE DEF P
  <2> QED
    BY <1>2, <1>9, <1>10, Induction
<1> QED
  BY <1>7, <1>8, <1>11 DEF n

\* So do the statements of a body.
LEMMA RunFollows ==
  ASSUME NEW b \in Seq(Stmts), NEW m \in Nat, NEW returned \in Returns
  PROVE  LET R == PyRun(b, m, returned)
         IN  /\ R[0] = [x \in Names |-> <<>>]
             /\ \A i \in 1 .. Len(b) : R[i] = PyRounds(R[i - 1], b[i], m, returned)[b[i].times]
             /\ \A i \in 0 .. Len(b) : R[i] \in Envs
<1> DEFINE n == Len(b)
           e == [x \in Names |-> <<>>]
           Next1(i, x) == PyRounds(x, b[i], m, returned)[b[i].times]
           After(f) == f = [i \in 0 .. n |-> IF i = 0 THEN e ELSE Next1(i, f[i - 1])]
           F == [i \in 1 .. n |-> [x \in Envs |-> Next1(i, x)]]
<1>1. PyRun(b, m, returned) = CHOOSE f : After(f)
  BY DEF PyRun
<1>2. n \in Nat /\ \A i \in 1 .. n : b[i] \in Stmts
  OBVIOUS
<1>3. e \in Envs
  BY DEF Envs, Texts
<1>4. ASSUME NEW i \in 1 .. n, NEW x \in Envs PROVE Next1(i, x) \in Envs
  <2>1. b[i] \in Stmts /\ b[i].times \in 0 .. b[i].times
    BY <1>2 DEF Stmts
  <2> QED
    BY <2>1, RoundsFollow
<1> HIDE DEF n, e, Next1
<1>5. \A i \in 1 .. n : \A x \in Envs : F[i][x] = Next1(i, x) /\ F[i][x] \in Envs
  BY <1>4
<1> HIDE DEF F
<1>6. PICK g \in [0 .. n -> Envs] : Iterates(g, n, e, F)
  BY <1>2, <1>3, <1>5, Recursion
<1>7. ASSUME NEW i \in 0 .. n PROVE g[i] = IF i = 0 THEN e ELSE Next1(i, g[i - 1])
  <2>1. CASE i = 0
    BY <1>6, <2>1 DEF Iterates
  <2>2. CASE i # 0
    <3>1. i \in 1 .. n /\ i - 1 \in 0 .. n
      BY <1>2, <2>2
    <3>2. g[i] = F[i][g[i - 1]] /\ g[i - 1] \in Envs
      BY <1>6, <3>1 DEF Iterates
    <3> QED
      BY <1>5, <2>2, <3>1, <3>2
  <2> QED
    BY <2>1, <2>2
<1>8. After(g)
  BY <1>7
<1>9. PICK f : f = PyRun(b, m, returned) /\ After(f)
  BY <1>1, <1>8
<1>10. f[0] = e /\ \A i \in 1 .. n : f[i] = Next1(i, f[i - 1])
  BY <1>2, <1>9
<1> HIDE DEF After
<1> DEFINE P == {i \in 0 .. n : f[i] \in Envs}
<1>11. 0 \in P
  BY <1>2, <1>3, <1>10
<1>12. ASSUME NEW i \in 1 .. n, i - 1 \in P PROVE i \in P
  <2>1. f[i] \in Envs
    BY <1>4, <1>10, <1>12
  <2> QED
    BY <1>2, <2>1
<1>13. \A i \in 0 .. n : i \in P
  <2> HIDE DEF P
  <2> QED
    BY <1>2, <1>11, <1>12, Induction
<1> QED
  BY <1>9, <1>10, <1>13 DEF n, e, Next1

-----------------------------------------------------------------------------
(* The invariant                                                           *)

\* Python's variables before statement i of a body, in a round of it.
PyAt(b, m, returned, i, round) ==
  IF round = 1 THEN PyRun(b, m, returned)[i - 1]
  ELSE PyRounds(PyRun(b, m, returned)[i - 1], b[i], m, returned)[round - 1]

\* What a call in a function returns in Python; label calls nothing.
Returned(f) == IF f = "main" THEN PyReturned(prog) ELSE [k \in Nat |-> <<>>]
EnvAt(w, f) == PyAt(Body(f), arg[w][f], Returned(f), pc[w][f].at, pc[w][f].round)

\* A function stands at a round of a statement or at the end.
InBody(w, f) ==
  \/ pc[w][f].at \in DOMAIN Body(f) /\ pc[w][f].round \in 1 .. Body(f)[pc[w][f].at].times
  \/ pc[w][f] = Place(Len(Body(f)) + 1, 1)

\* The variables of f point at the texts Python has in them.
Exact(w, f) == \A x \in Names : Text(w, locals[w][f][x]) = EnvAt(w, f)[x]

\* main waits for label at a call of it with this argument.
Waiting(w) ==
  /\ pc[w]["main"].at \in DOMAIN prog.main /\ Here(w, "main").op = "call"
  /\ arg[w]["label"] = Value(w, "main", Here(w, "main").arg)

\* The result is Python's, and as long as out_len says.
ResultExact(w) ==
  /\ Text(w, out[w].ptr) = PyMain(prog, arg[w]["main"])
  /\ out[w].len = Len(PyMain(prog, arg[w]["main"]))

CallInv(w) ==
  /\ \A f \in Functions : InBody(w, f)
  /\ active[w] = "label" => Waiting(w)
  /\ flaws[w] = {} =>
       /\ active[w] \in Functions => Exact(w, "main")
       /\ active[w] = "label" => Exact(w, "label")
       /\ active[w] = "copy" => ResultExact(w)

AnswersOf(w) ==
  \A i \in DOMAIN answers[w] :
    answers[w][i].flaws = {} => answers[w][i].text = PyMain(prog, answers[w][i].n)

ExactInv == TypeOK /\ \A w \in Workers : CallInv(w) /\ AnswersOf(w)

-----------------------------------------------------------------------------
\* The bodies and what calls return in Python have their types.
LEMMA PythonTyped ==
  ASSUME TypeOK, NEW f \in Functions
  PROVE  /\ Body(f) \in Seq(Stmts) /\ Returned(f) \in Returns
         /\ \A m \in Nat : PyReturned(prog)[m] = PyLabel(prog, m) /\ PyLabel(prog, m) \in Texts
<1>1. [k \in Nat |-> <<>>] \in Returns
  BY DEF Returns, Texts
<1>2. Body(f) \in Seq(Stmts) /\ prog.label \in Seq(Stmts) /\ prog.ret \in Atoms
  <2>1. Body("label") = prog.label /\ "label" \in Functions
    BY DEF Body, Functions
  <2> QED
    BY <2>1, Bodies DEF TypeOK
<1>3. ASSUME NEW m \in Nat PROVE PyLabel(prog, m) \in Texts
  <2> DEFINE env == PyRun(prog.label, m, [k \in Nat |-> <<>>])[Len(prog.label)]
  <2>1. Len(prog.label) \in 0 .. Len(prog.label)
    BY <1>2
  <2>2. env \in Envs
    BY <1>1, <1>2, <2>1, RunFollows
  <2>3. PyLabel(prog, m) = PyAtom(env, prog.ret)
    BY DEF PyLabel
  <2> HIDE DEF env
  <2> QED
    BY <1>2, <2>2, <2>3 DEF PyAtom, Atoms, Envs
<1>4. PyReturned(prog) \in Returns /\ \A m \in Nat : PyReturned(prog)[m] = PyLabel(prog, m)
  BY <1>3 DEF PyReturned, Returns
<1> QED
  BY <1>1, <1>2, <1>3, <1>4 DEF Returned

\* A statement of a body, and where it is.
LEMMA StatementsOf ==
  ASSUME NEW b \in Seq(Stmts), NEW i \in DOMAIN b
  PROVE  /\ Len(b) \in Nat /\ i \in 1 .. Len(b) /\ i - 1 \in 0 .. Len(b)
         /\ b[i] \in Stmts /\ b[i].times \in Nat \ {0}
<1>1. Len(b) \in Nat /\ i \in 1 .. Len(b) /\ b[i] \in Stmts
  OBVIOUS
<1>2. \A s \in Stmts : s.times \in Nat \ {0}
  BY DEF Stmts
<1> QED
  BY <1>1, <1>2

\* The variables before a statement are variables, and those after it the ones
\* before the next place.
LEMMA PlacesFollow ==
  ASSUME NEW b \in Seq(Stmts), NEW m \in Nat, NEW returned \in Returns,
         NEW i \in DOMAIN b, NEW r \in 1 .. b[i].times
  PROVE  /\ PyAt(b, m, returned, i, r) \in Envs
         /\ r < b[i].times =>
              PyAt(b, m, returned, i, r + 1) = PyAfter(PyAt(b, m, returned, i, r), b[i], m, returned)
         /\ ~(r < b[i].times) =>
              PyAt(b, m, returned, i + 1, 1) = PyAfter(PyAt(b, m, returned, i, r), b[i], m, returned)
<1> DEFINE run == PyRun(b, m, returned)
           env == run[i - 1]
           rounds == PyRounds(env, b[i], m, returned)
           n == b[i].times
<1>1. /\ Len(b) \in Nat /\ i \in 1 .. Len(b) /\ i - 1 \in 0 .. Len(b) /\ b[i] \in Stmts
      /\ n \in Nat
  BY StatementsOf
<1>2. env \in Envs /\ run[i] = rounds[n]
  BY <1>1, RunFollows
<1>3. /\ rounds[0] = env
      /\ \A k \in 1 .. n : rounds[k] = PyAfter(rounds[k - 1], b[i], m, returned)
      /\ \A k \in 0 .. n : rounds[k] \in Envs
  <2> HIDE DEF run, env
  <2> QED
    BY <1>1, <1>2, RoundsFollow
<1>4. PyAt(b, m, returned, i, r) = rounds[r - 1]
  BY <1>3 DEF PyAt
<1>5. r < n => PyAt(b, m, returned, i, r + 1) = rounds[r]
  <2>1. r + 1 # 1 /\ r + 1 - 1 = r
    OBVIOUS
  <2> QED
    BY <2>1 DEF PyAt
<1>6. ~(r < n) => PyAt(b, m, returned, i + 1, 1) = rounds[n] /\ r = n
  <2>1. i + 1 - 1 = i /\ n \in Int /\ r \in Int /\ r <= n
    BY <1>1
  <2> QED
    BY <1>2, <2>1 DEF PyAt
<1> HIDE DEF rounds, env, run, n
<1>7. r \in 1 .. n /\ r - 1 \in 0 .. n
  BY <1>1 DEF n
<1>8. rounds[r] = PyAfter(rounds[r - 1], b[i], m, returned) /\ rounds[r - 1] \in Envs
  BY <1>3, <1>7
<1> QED
  BY <1>4, <1>5, <1>6, <1>8 DEF n

\* A step that goes on stays in the body, and Python's variables after it are
\* those after the statement.
LEMMA StepFollows ==
  ASSUME TypeOK, NEW w \in Workers, NEW f \in Functions, InBody(w, f), ~Done(w, f),
         Step(w, f), UNCHANGED prog, arg'[w][f] = arg[w][f]
  PROVE  /\ InBody(w, f)'
         /\ \A g \in Functions \ {f} : pc'[w][g] = pc[w][g]
         /\ EnvAt(w, f) \in Envs
         /\ EnvAt(w, f)' = PyAfter(EnvAt(w, f), Here(w, f), arg[w][f], Returned(f))
<1> DEFINE b == Body(f)
           i == pc[w][f].at
           r == pc[w][f].round
<1>1. b \in Seq(Stmts) /\ Returned(f) \in Returns /\ arg[w][f] \in Nat
  BY PythonTyped DEF TypeOK
<1>2. i \in DOMAIN b /\ r \in 1 .. b[i].times /\ i \in Nat /\ r \in Nat
  <2>1. i \in DOMAIN b
    BY AtStatement, TypedOfTypeOK
  <2>2. i # Len(b) + 1
    BY <1>1, <2>1
  <2>3. i \in Nat /\ r \in Nat
    BY DEF TypeOK
  <2>4. pc[w][f] # Place(Len(b) + 1, 1)
    BY <2>2 DEF Place
  <2> QED
    BY <2>1, <2>3, <2>4 DEF InBody
<1>3. pc'[w][f] = Following(w, f) /\ \A g \in Functions \ {f} : pc'[w][g] = pc[w][g]
  BY DEF Step, TypeOK
<1>4. Following(w, f) = IF r < b[i].times THEN Place(i, r + 1) ELSE Place(i + 1, 1)
  BY DEF Following
<1>5. Body(f)' = b /\ Returned(f)' = Returned(f)
  BY DEF Body, Returned, PyReturned
<1>6. EnvAt(w, f) = PyAt(b, arg[w][f], Returned(f), i, r)
  BY DEF EnvAt
<1>7. EnvAt(w, f)' = PyAt(b, arg[w][f], Returned(f), pc'[w][f].at, pc'[w][f].round)
  BY <1>5 DEF EnvAt
<1>8. Here(w, f) = b[i]
  BY DEF Here
<1>9. b[i] \in Stmts /\ b[i].times \in Nat \ {0}
  BY <1>1, <1>2, StatementsOf
<1> HIDE DEF b, i, r
<1>10. CASE r < b[i].times
  <2>1. pc'[w][f].at = i /\ pc'[w][f].round = r + 1
    BY <1>3, <1>4, <1>10 DEF Place
  <2>2. EnvAt(w, f)' = PyAfter(EnvAt(w, f), b[i], arg[w][f], Returned(f)) /\ EnvAt(w, f) \in Envs
    BY <1>1, <1>2, <1>6, <1>7, <1>10, <2>1, PlacesFollow
  <2>3. InBody(w, f)'
    BY <1>2, <1>5, <1>9, <1>10, <2>1 DEF InBody
  <2> QED
    BY <1>3, <1>8, <2>2, <2>3
<1>11. CASE ~(r < b[i].times)
  <2>1. pc'[w][f] = Place(i + 1, 1) /\ pc'[w][f].at = i + 1 /\ pc'[w][f].round = 1
    BY <1>3, <1>4, <1>11 DEF Place
  <2>2. EnvAt(w, f)' = PyAfter(EnvAt(w, f), b[i], arg[w][f], Returned(f)) /\ EnvAt(w, f) \in Envs
    BY <1>1, <1>2, <1>6, <1>7, <1>11, <2>1, PlacesFollow
  <2>3. InBody(w, f)'
    <3>1. CASE i = Len(b)
      BY <1>5, <2>1, <3>1 DEF InBody
    <3>2. CASE i # Len(b)
      <4>1. i + 1 \in DOMAIN b
        BY <1>1, <1>2, <3>2
      <4>2. b[i + 1].times \in Nat \ {0}
        BY <1>1, <4>1, StatementsOf
      <4> QED
        BY <1>5, <2>1, <4>1, <4>2 DEF InBody
    <3> QED
      BY <3>1, <3>2
  <2> QED
    BY <1>3, <1>8, <2>2, <2>3
<1> QED
  BY <1>10, <1>11

-----------------------------------------------------------------------------
(* What the statements do to the texts                                     *)

\* Of all variables of worker w only x of f may point at another text.
OnlyChanged(w, f, x) ==
  \A g \in Functions, y \in Names :
    <<g, y>> # <<f, x>> => Text(w, locals[w][g][y])' = Text(w, locals[w][g][y])

\* A buffer of the worker's own holds what was written, and no other changes.
LEMMA WriteText ==
  ASSUME TypeOK, NEW w \in Workers, NEW s \in Sites, NEW t \in Texts, Len(t) < BufSize,
         Write(w, s, t)
  PROVE  /\ mem'[w][s] = t
         /\ \A z \in Sites : z # s => mem'[w][z] = mem[w][z]
<1>1. Cut(t) = t
  BY DEF Cut
<1>2. mem' = [mem EXCEPT ![w][s] = t]
  BY <1>1 DEF Write, Thread
<1> QED
  BY <1>2 DEF TypeOK

\* The constant is no buffer.
LEMMA ConstantIsNoSite == Constant \notin Sites
BY DEF Constant, Sites, Functions, JsonSite

\* A variable set to a buffer just written has its text; the others keep theirs
\* if none of them points there.
LEMMA BufferSet ==
  ASSUME TypeOK, NEW w \in Workers, NEW f \in Functions, NEW x \in Names,
         NEW s \in Sites, NEW t \in Texts, Len(t) < BufSize, ~PointedAt(w, s, f, x),
         Write(w, s, t), Assign(w, f, x, PointTo(s))
  PROVE  OnlyChanged(w, f, x) /\ Text(w, locals[w][f][x])' = t
<1>1. mem'[w][s] = t /\ \A z \in Sites : z # s => mem'[w][z] = mem[w][z]
  BY WriteText
<1>2. /\ locals'[w][f][x] = PointTo(s)
      /\ \A g \in Functions, y \in Names : <<g, y>> # <<f, x>> => locals'[w][g][y] = locals[w][g][y]
  BY DEF Assign, TypeOK
<1>3. PointTo(s).site = s /\ s # Constant
  BY ConstantIsNoSite DEF PointTo, Pointer
<1>4. Text(w, locals[w][f][x])' = t
  BY <1>1, <1>2, <1>3 DEF Text, Thread
<1>5. ASSUME NEW g \in Functions, NEW y \in Names, <<g, y>> # <<f, x>>
      PROVE  Text(w, locals[w][g][y])' = Text(w, locals[w][g][y])
  <2>1. locals'[w][g][y] = locals[w][g][y] /\ locals[w][g][y].site # s
    BY <1>2, <1>5 DEF PointedAt
  <2>2. locals[w][g][y].site \in Sites \cup {Constant}
    BY DEF TypeOK, Pointers
  <2> QED
    BY <1>1, <2>1, <2>2 DEF Text, Thread
<1> QED
  BY <1>4, <1>5 DEF OnlyChanged

\* A variable set to a pointer of before has its text, and the others keep theirs.
LEMMA PointerSet ==
  ASSUME TypeOK, NEW w \in Workers, NEW f \in Functions, NEW x \in Names, NEW p,
         UNCHANGED mem, Assign(w, f, x, p)
  PROVE  OnlyChanged(w, f, x) /\ Text(w, locals[w][f][x])' = Text(w, p)
<1>1. /\ locals'[w][f][x] = p
      /\ \A g \in Functions, y \in Names : <<g, y>> # <<f, x>> => locals'[w][g][y] = locals[w][g][y]
  BY DEF Assign, TypeOK
<1> QED
  BY <1>1 DEF OnlyChanged, Text, Thread

\* Operands have the texts and numbers Python gives them.
LEMMA OperandsExact ==
  ASSUME TypeOK, NEW w \in Workers, NEW f \in Functions, Exact(w, f)
  PROVE  /\ \A a \in Atoms : Text(w, Resolve(w, f, a)) = PyAtom(EnvAt(w, f), a)
         /\ \A k : Value(w, f, k) = PyInt(k, arg[w][f])
<1>1. ASSUME NEW a \in Atoms PROVE Text(w, Resolve(w, f, a)) = PyAtom(EnvAt(w, f), a)
  <2>1. CASE a.id = ""
    BY <2>1 DEF Resolve, PyAtom, Text, ConstantOf, Pointer
  <2>2. CASE a.id # ""
    <3>1. a.id \in Names
      BY <2>2 DEF Atoms
    <3> QED
      BY <2>2, <3>1 DEF Resolve, PyAtom, Exact
  <2> QED
    BY <2>1, <2>2
<1> QED
  BY <1>1 DEF Value, PyInt

\* What a statement leaves in its variable in Python.
LEMMA AfterValue ==
  ASSUME NEW env \in Envs, NEW s \in Stmts, NEW m \in Nat, NEW returned \in Returns
  PROVE  LET t == PyAfter(env, s, m, returned)[s.x]
         IN  /\ s.op = "bind"   => t = PyAtom(env, s.l)
             /\ s.op = "str"    => t = Digits(PyInt(s.arg, m))
             /\ s.op = "concat" => t = PyAtom(env, s.l) \o PyAtom(env, s.r)
             /\ s.op = "call"   => t = returned[PyInt(s.arg, m)]
<1>1. s.x \in Names /\ s.x \in DOMAIN env
  BY DEF Stmts, Envs
<1> QED
  BY <1>1 DEF PyAfter

\* A statement whose variable gets Python's text leaves the function exact.
LEMMA StatementExact ==
  ASSUME TypeOK, NEW w \in Workers, NEW f \in Functions, InBody(w, f), ~Done(w, f),
         Step(w, f), UNCHANGED prog, arg'[w][f] = arg[w][f], Exact(w, f),
         NEW x, x = Here(w, f).x, OnlyChanged(w, f, x),
         Text(w, locals[w][f][x])' = PyAfter(EnvAt(w, f), Here(w, f), arg[w][f], Returned(f))[x]
  PROVE  Exact(w, f)'
<1>1. Here(w, f) \in Stmts
  BY AtStatement, TypedOfTypeOK
<1>2. EnvAt(w, f) \in Envs /\ Returned(f) \in Returns /\ arg[w][f] \in Nat
  BY StepFollows, PythonTyped DEF TypeOK
<1>3. EnvAt(w, f)' = PyAfter(EnvAt(w, f), Here(w, f), arg[w][f], Returned(f))
  BY StepFollows
<1>4. \A y \in Names \ {x} : EnvAt(w, f)'[y] = EnvAt(w, f)[y]
  BY <1>1, <1>2, <1>3, AfterTyped
<1>5. \A y \in Names \ {x} : Text(w, locals[w][f][y])' = EnvAt(w, f)'[y]
  BY <1>4 DEF OnlyChanged, Exact
<1>6. \A y \in Names : Text(w, locals[w][f][y])' = EnvAt(w, f)'[y]
  BY <1>3, <1>5
<1> QED
  BY <1>6 DEF Exact

\* A function that does not move keeps its place and, with its texts, stays exact.
LEMMA StandingStays ==
  ASSUME NEW w \in Workers, NEW g \in Functions, UNCHANGED prog,
         pc'[w][g] = pc[w][g], arg'[w][g] = arg[w][g]
  PROVE  /\ InBody(w, g) => InBody(w, g)'
         /\ (\A y \in Names : Text(w, locals[w][g][y])' = Text(w, locals[w][g][y]))
            => (Exact(w, g) => Exact(w, g)')
<1>1. Body(g)' = Body(g) /\ Returned(g)' = Returned(g)
  BY DEF Body, Returned, PyReturned
<1>2. InBody(w, g) => InBody(w, g)'
  BY <1>1 DEF InBody
<1>3. EnvAt(w, g)' = EnvAt(w, g)
  BY <1>1 DEF EnvAt
<1> QED
  BY <1>2, <1>3 DEF Exact

-----------------------------------------------------------------------------
(* One lemma for each kind of step                                         *)

\* What a statement that may be flawed leaves in x when it is not.
LEMMA StrExact ==
  ASSUME TypeOK, NEW w \in Workers, NEW f \in Functions, Exact(w, f), ExecStr(w, f),
         flaws'[w] = {}, NEW x, x = Here(w, f).x
  PROVE  /\ OnlyChanged(w, f, x)
         /\ Text(w, locals[w][f][x])' = Digits(PyInt(Here(w, f).arg, arg[w][f]))
<1> DEFINE s == SiteOf(f, pc[w][f].at)
           t == Digits(Value(w, f, Here(w, f).arg))
<1>1. Write(w, s, t) /\ Assign(w, f, x, PointTo(s)) /\ ~Done(w, f)
  BY DEF ExecStr, At
<1>2. ~PointedAt(w, s, f, x) /\ ~(Len(t) >= BufSize)
  <2>1. flaws'[w] = flaws[w] \cup (IF PointedAt(w, s, f, x) THEN {"clobbered"} ELSE {})
                             \cup (IF Len(t) >= BufSize THEN {"truncated"} ELSE {})
    BY DEF ExecStr, TypeOK
  <2> HIDE DEF s, t
  <2> QED
    BY <2>1
<1>3. Here(w, f) \in Stmts /\ s \in Sites
  BY <1>1, AtStatement, TypedOfTypeOK, SiteTyped
<1>4. x \in Names /\ Value(w, f, Here(w, f).arg) = PyInt(Here(w, f).arg, arg[w][f])
  BY <1>3, OperandsExact DEF Stmts
<1>5. t \in Texts
  <2>1. Value(w, f, Here(w, f).arg) \in Nat
    BY <1>3 DEF Value, Stmts, TypeOK
  <2> QED
    BY <2>1 DEF Digits, Texts
<1>6. Len(t) < BufSize
  <2>1. Len(t) \in Nat
    BY <1>5 DEF Texts
  <2> QED
    BY <1>2, <2>1, StringsAssumption
<1> HIDE DEF s, t
<1>7. OnlyChanged(w, f, x) /\ Text(w, locals[w][f][x])' = t
  BY <1>1, <1>2, <1>3, <1>4, <1>5, <1>6, BufferSet
<1> QED
  BY <1>4, <1>7 DEF t

\* A concatenation that reads from no buffer it writes.
LEMMA ConcatExact ==
  ASSUME TypeOK, NEW w \in Workers, NEW f \in Functions, Exact(w, f), ExecConcat(w, f),
         flaws'[w] = {}, NEW x, x = Here(w, f).x
  PROVE  /\ OnlyChanged(w, f, x)
         /\ Text(w, locals[w][f][x])'
              = PyAtom(EnvAt(w, f), Here(w, f).l) \o PyAtom(EnvAt(w, f), Here(w, f).r)
<1> DEFINE s == SiteOf(f, pc[w][f].at)
           l == Resolve(w, f, Here(w, f).l)
           r == Resolve(w, f, Here(w, f).r)
<1>1. PICK t \in Concatenated(w, f, s) :
        /\ Write(w, s, t)
        /\ flaws' = [flaws EXCEPT ![w] = @
             \cup (IF PointedAt(w, s, f, x) \/ s \in {l.site, r.site} THEN {"clobbered"} ELSE {})
             \cup (IF Len(t) >= BufSize THEN {"truncated"} ELSE {})]
  BY DEF ExecConcat
<1>2. Assign(w, f, x, PointTo(s)) /\ ~Done(w, f)
  BY DEF ExecConcat, At
<1>3. ~PointedAt(w, s, f, x) /\ s # l.site /\ s # r.site /\ ~(Len(t) >= BufSize)
  <2>1. flaws'[w] = flaws[w]
             \cup (IF PointedAt(w, s, f, x) \/ s \in {l.site, r.site} THEN {"clobbered"} ELSE {})
             \cup (IF Len(t) >= BufSize THEN {"truncated"} ELSE {})
    BY <1>1 DEF TypeOK
  <2> HIDE DEF s, l, r
  <2> QED
    BY <2>1
<1>4. t = Text(w, l) \o Text(w, r)
  <2>1. PICK a \in (IF l.site = s THEN {Text(w, l), <<>>, Text(w, l)} ELSE {Text(w, l)}),
             b \in (IF r.site = s THEN {Text(w, r), <<>>, Text(w, l)} ELSE {Text(w, r)}) :
          t = a \o b
    BY <1>1 DEF Concatenated
  <2> HIDE DEF s, l, r
  <2> QED
    BY <1>3, <2>1
<1>5. Here(w, f) \in Stmts /\ s \in Sites
  BY <1>2, AtStatement, TypedOfTypeOK, SiteTyped
<1>6. x \in Names /\ Here(w, f).l \in Atoms /\ Here(w, f).r \in Atoms
  BY <1>5 DEF Stmts
<1>7. Text(w, l) \in Texts /\ Text(w, r) \in Texts
  BY <1>6, OperandsTyped
<1>8. t \in Texts /\ Len(t) < BufSize
  <2>1. t \in Texts
    BY <1>4, <1>7 DEF Texts
  <2>2. Len(t) \in Nat
    BY <2>1 DEF Texts
  <2> QED
    BY <1>3, <2>1, <2>2, StringsAssumption
<1>9. /\ Text(w, l) = PyAtom(EnvAt(w, f), Here(w, f).l)
      /\ Text(w, r) = PyAtom(EnvAt(w, f), Here(w, f).r)
  BY <1>6, OperandsExact
<1> HIDE DEF s
<1>10. OnlyChanged(w, f, x) /\ Text(w, locals[w][f][x])' = t
  BY <1>1, <1>2, <1>3, <1>5, <1>6, <1>8, BufferSet
<1> QED
  BY <1>4, <1>9, <1>10

\* So every statement but a call leaves its function exact, and the other as it is.
LEMMA ExecExact ==
  ASSUME TypeOK, NEW w \in Workers, NEW f \in Functions,
         ExecBind(w, f) \/ ExecStr(w, f) \/ ExecConcat(w, f),
         InBody(w, f), Exact(w, f), flaws'[w] = {}
  PROVE  Exact(w, f)' /\ \A g \in Functions : Exact(w, g) => Exact(w, g)'
<1>1. /\ ~Done(w, f) /\ Step(w, f) /\ UNCHANGED <<prog, arg>>
      /\ Here(w, f).op = "bind" \/ Here(w, f).op = "str" \/ Here(w, f).op = "concat"
  BY DEF ExecBind, ExecStr, ExecConcat, At, Here
<1>2. PICK x : x = Here(w, f).x
  OBVIOUS
<1>3. Here(w, f) \in Stmts
  BY <1>1, AtStatement, TypedOfTypeOK
<1>4. x \in Names /\ Here(w, f).l \in Atoms
  BY <1>2, <1>3 DEF Stmts
<1>5. EnvAt(w, f) \in Envs /\ Returned(f) \in Returns /\ arg[w][f] \in Nat
  <2>1. arg[w][f] \in Nat /\ arg'[w][f] = arg[w][f]
    BY <1>1 DEF TypeOK
  <2> QED
    BY <1>1, <2>1, StepFollows, PythonTyped
<1> DEFINE after == PyAfter(EnvAt(w, f), Here(w, f), arg[w][f], Returned(f))[x]
<1>6. OnlyChanged(w, f, x) /\ Text(w, locals[w][f][x])' = after
  <2>1. CASE ExecBind(w, f)
    <3>1. PICK p : p = Resolve(w, f, Here(w, f).l)
      OBVIOUS
    <3>2. OnlyChanged(w, f, x) /\ Text(w, locals[w][f][x])' = Text(w, p)
      BY <1>2, <1>4, <2>1, <3>1, PointerSet DEF ExecBind
    <3>3. Text(w, p) = PyAtom(EnvAt(w, f), Here(w, f).l)
      BY <1>4, <3>1, OperandsExact
    <3>4. after = PyAtom(EnvAt(w, f), Here(w, f).l)
      <4>1. Here(w, f).op = "bind"
        BY <2>1 DEF ExecBind, At, Here
      <4> QED
        BY <1>2, <1>3, <1>5, <4>1, AfterValue
    <3> QED
      BY <3>2, <3>3, <3>4
  <2>2. CASE ExecStr(w, f)
    <3>1. after = Digits(PyInt(Here(w, f).arg, arg[w][f]))
      <4>1. Here(w, f).op = "str"
        BY <2>2 DEF ExecStr, At, Here
      <4> QED
        BY <1>2, <1>3, <1>5, <4>1, AfterValue
    <3> QED
      BY <1>2, <2>2, <3>1, StrExact
  <2>3. CASE ExecConcat(w, f)
    <3>1. after = PyAtom(EnvAt(w, f), Here(w, f).l) \o PyAtom(EnvAt(w, f), Here(w, f).r)
      <4>1. Here(w, f).op = "concat"
        BY <2>3 DEF ExecConcat, At, Here
      <4> QED
        BY <1>2, <1>3, <1>5, <4>1, AfterValue
    <3> QED
      BY <1>2, <2>3, <3>1, ConcatExact
  <2> QED
    BY <2>1, <2>2, <2>3
<1>7. Exact(w, f)'
  BY <1>1, <1>2, <1>6, StatementExact
<1>8. ASSUME NEW g \in Functions \ {f}, Exact(w, g) PROVE Exact(w, g)'
  <2>1. pc'[w][g] = pc[w][g] /\ arg'[w][g] = arg[w][g]
    BY <1>1 DEF Step, TypeOK
  <2>2. \A y \in Names : Text(w, locals[w][g][y])' = Text(w, locals[w][g][y])
    BY <1>6 DEF OnlyChanged
  <2> QED
    BY <1>1, <1>8, <2>1, <2>2, StandingStays
<1> QED
  BY <1>7, <1>8

\* A function at its first place has Python's empty variables.
LEMMA FreshExact ==
  ASSUME TypeOK, NEW w \in Workers, NEW f \in Functions, UNCHANGED prog,
         pc'[w][f] = Place(1, 1), arg'[w][f] \in Nat, locals'[w][f] = NoLocals
  PROVE  InBody(w, f)' /\ Exact(w, f)'
<1> DEFINE b == Body(f)
           m == arg'[w][f]
<1>1. b \in Seq(Stmts) /\ Returned(f) \in Returns /\ m \in Nat
  BY PythonTyped
<1>2. Body(f)' = b /\ Returned(f)' = Returned(f)
  BY DEF Body, Returned, PyReturned
<1>3. pc'[w][f].at = 1 /\ pc'[w][f].round = 1
  BY DEF Place
<1>4. InBody(w, f)'
  <2>1. CASE Len(b) = 0
    <3>1. Len(b) + 1 = 1
      BY <2>1
    <3>2. pc'[w][f] = Place(Len(b) + 1, 1)
      BY <3>1
    <3> QED
      BY <1>2, <3>2 DEF InBody
  <2>2. CASE Len(b) # 0
    <3>1. 1 \in DOMAIN b
      BY <1>1, <2>2
    <3>2. b[1].times \in Nat \ {0}
      BY <1>1, <3>1, StatementsOf
    <3>3. 1 \in 1 .. b[1].times
      BY <3>2
    <3> QED
      BY <1>2, <1>3, <3>1, <3>3 DEF InBody
  <2> QED
    BY <2>1, <2>2
<1>5. EnvAt(w, f)' = PyAt(b, m, Returned(f), pc'[w][f].at, pc'[w][f].round)
  BY <1>2 DEF EnvAt
<1>6. PICK i : i = pc'[w][f].at /\ i - 1 = 0
  BY <1>3
<1>7. PyAt(b, m, Returned(f), i, 1) = PyRun(b, m, Returned(f))[i - 1]
  BY DEF PyAt
<1>8. PyRun(b, m, Returned(f))[0] = [x \in Names |-> <<>>]
  BY <1>1, RunFollows
<1>9. EnvAt(w, f)' = [x \in Names |-> <<>>]
  BY <1>3, <1>5, <1>6, <1>7, <1>8
<1>10. \A x \in Names : Text(w, locals[w][f][x])' = <<>>
  BY DEF NoLocals, ConstantOf, Pointer, Text
<1> QED
  BY <1>4, <1>9, <1>10 DEF Exact

\* A function at its end has Python's variables of the end.
LEMMA EndExact ==
  ASSUME TypeOK, NEW w \in Workers, NEW f \in Functions, InBody(w, f), Done(w, f)
  PROVE  EnvAt(w, f) = PyRun(Body(f), arg[w][f], Returned(f))[Len(Body(f))]
<1>1. Body(f) \in Seq(Stmts)
  BY PythonTyped
<1>2. Len(Body(f)) \in Nat /\ pc[w][f].at \notin DOMAIN Body(f)
  BY <1>1 DEF Done
<1>3. pc[w][f] = Place(Len(Body(f)) + 1, 1)
  BY <1>2 DEF InBody
<1>4. pc[w][f].at = Len(Body(f)) + 1 /\ pc[w][f].round = 1 /\ pc[w][f].at - 1 = Len(Body(f))
  BY <1>2, <1>3 DEF Place
<1> QED
  BY <1>4 DEF EnvAt, PyAt

\* A call of label: main waits, and label begins with Python's empty variables.
LEMMA CallExact ==
  ASSUME TypeOK, NEW w \in Workers, ExecCall(w), CallInv(w)
  PROVE  CallInv(w)'
<1>1. /\ UNCHANGED <<prog, mem, out, flaws>> /\ active[w] = "main" /\ active'[w] = "label"
      /\ pc'[w]["main"] = pc[w]["main"] /\ pc'[w]["label"] = Place(1, 1)
      /\ arg'[w]["main"] = arg[w]["main"]
      /\ arg'[w]["label"] = Value(w, "main", Here(w, "main").arg)
      /\ locals'[w]["main"] = locals[w]["main"] /\ locals'[w]["label"] = NoLocals
      /\ Here(w, "main").op = "call" /\ ~Done(w, "main")
  BY DEF ExecCall, At, Here, TypeOK, Functions
<1>2. "main" \in Functions /\ "label" \in Functions /\ \A f \in Functions : f = "main" \/ f = "label"
  BY DEF Functions
<1>3. pc[w]["main"].at \in DOMAIN Body("main") /\ Here(w, "main") \in Stmts
  BY <1>1, <1>2, AtStatement, TypedOfTypeOK
<1>4. Body("main") = prog.main /\ Body("main")' = prog.main
  BY <1>1 DEF Body
<1>5. Value(w, "main", Here(w, "main").arg) \in Nat
  <2>1. Here(w, "main").arg \in Nat \cup {Param}
    BY <1>3 DEF Stmts
  <2> QED
    BY <1>2, <2>1, OperandsTyped
<1>6. InBody(w, "label")' /\ Exact(w, "label")'
  BY <1>1, <1>2, <1>5, FreshExact
<1>7. \A y \in Names : Text(w, locals[w]["main"][y])' = Text(w, locals[w]["main"][y])
  BY <1>1 DEF Text, Thread
<1>8. InBody(w, "main")' /\ (Exact(w, "main") => Exact(w, "main")')
  BY <1>1, <1>2, <1>7, StandingStays DEF CallInv
<1>9. Waiting(w)'
  <2>1. Here(w, "main")' = Here(w, "main")
    BY <1>1, <1>4 DEF Here
  <2>2. Value(w, "main", Here(w, "main").arg)' = Value(w, "main", Here(w, "main").arg)
    BY <1>1, <2>1 DEF Value
  <2> QED
    BY <1>1, <1>3, <1>4, <2>1, <2>2 DEF Waiting
<1>10. flaws'[w] = {} => Exact(w, "main")'
  BY <1>1, <1>2, <1>8 DEF CallInv
<1>11. \A f \in Functions : InBody(w, f)'
  BY <1>2, <1>6, <1>8
<1> QED
  BY <1>1, <1>6, <1>9, <1>10, <1>11 DEF CallInv

\* The return of label: main's variable has what label returns in Python.
LEMMA ReturnExact ==
  ASSUME TypeOK, NEW w \in Workers, ExecReturn(w), CallInv(w)
  PROVE  CallInv(w)'
<1>1. /\ UNCHANGED <<prog, mem, arg, out, flaws>> /\ active[w] = "label" /\ active'[w] = "main"
      /\ Done(w, "label") /\ Step(w, "main")
  BY DEF ExecReturn, TypeOK
<1>2. "main" \in Functions /\ "label" \in Functions /\ \A f \in Functions : f = "main" \/ f = "label"
  BY DEF Functions
<1>3. PICK x : x = Here(w, "main").x
  OBVIOUS
<1>4. PICK p : p = Resolve(w, "label", prog.ret)
  OBVIOUS
<1>5. Waiting(w)
  BY <1>1 DEF CallInv
<1>6. ~Done(w, "main")
  <2>1. prog.main \in Seq(Stmts) /\ Body("main") = prog.main
    BY <1>2, PythonTyped DEF Body
  <2>2. pc[w]["main"].at \in 1 .. Len(prog.main) /\ Len(prog.main) \in Nat
    BY <1>5, <2>1 DEF Waiting
  <2> QED
    BY <2>1, <2>2 DEF Done
<1>7. Here(w, "main") \in Stmts /\ Here(w, "main").op = "call"
  BY <1>2, <1>5, <1>6, AtStatement, TypedOfTypeOK DEF Waiting
<1>8. x \in Names
  BY <1>3, <1>7 DEF Stmts
<1>9. /\ locals'[w]["main"] = [locals[w]["main"] EXCEPT ![x] = p]
      /\ pc'[w]["label"] = pc[w]["label"]
  BY <1>1, <1>2, <1>3, <1>4 DEF ExecReturn, TypeOK, Step
<1>10. InBody(w, "label")'
  BY <1>1, <1>2, <1>9, StandingStays DEF CallInv
<1>11. /\ InBody(w, "main")' /\ EnvAt(w, "main") \in Envs
       /\ EnvAt(w, "main")' = PyAfter(EnvAt(w, "main"), Here(w, "main"), arg[w]["main"], Returned("main"))
  BY <1>1, <1>2, <1>6, StepFollows DEF CallInv
<1>12. ASSUME flaws'[w] = {} PROVE Exact(w, "main")'
  <2>1. Exact(w, "main") /\ Exact(w, "label")
    BY <1>1, <1>2, <1>12 DEF CallInv
  <2>2. prog.ret \in Atoms
    BY <1>2, Bodies DEF TypeOK
  <2>3. Text(w, p) = PyAtom(EnvAt(w, "label"), prog.ret)
    BY <1>2, <1>4, <2>1, <2>2, OperandsExact
  <2>4. PyAtom(EnvAt(w, "label"), prog.ret) = PyLabel(prog, arg[w]["label"])
    <3>1. EnvAt(w, "label") = PyRun(Body("label"), arg[w]["label"], Returned("label"))[Len(Body("label"))]
      BY <1>1, <1>2, EndExact DEF CallInv
    <3>2. Body("label") = prog.label /\ Returned("label") = [k \in Nat |-> <<>>]
      BY DEF Body, Returned
    <3> QED
      BY <3>1, <3>2 DEF PyLabel
  <2>5. arg[w]["label"] = PyInt(Here(w, "main").arg, arg[w]["main"]) /\ arg[w]["label"] \in Nat
        /\ arg[w]["main"] \in Nat
    <3>1. arg[w]["label"] = Value(w, "main", Here(w, "main").arg)
      BY <1>5 DEF Waiting
    <3> QED
      BY <1>2, <3>1 DEF Value, PyInt, TypeOK
  <2>6. Returned("main")[arg[w]["label"]] = PyLabel(prog, arg[w]["label"])
    BY <1>2, <2>5, PythonTyped DEF Returned
  <2>7. EnvAt(w, "main")'[x] = Text(w, p)
    <3>1. Returned("main") \in Returns
      BY <1>2, PythonTyped
    <3>2. EnvAt(w, "main")'[x] = Returned("main")[PyInt(Here(w, "main").arg, arg[w]["main"])]
      BY <1>3, <1>7, <1>11, <2>5, <3>1, AfterValue
    <3> QED
      BY <2>3, <2>4, <2>5, <2>6, <3>2
  <2>8. ASSUME NEW y \in Names PROVE Text(w, locals[w]["main"][y])' = EnvAt(w, "main")'[y]
    <3>1. DOMAIN locals[w]["main"] = Names
      BY <1>2 DEF TypeOK
    <3>2. CASE y = x
      <4>1. locals'[w]["main"][y] = p
        BY <1>9, <3>1, <3>2
      <4> QED
        BY <1>1, <2>7, <3>2, <4>1 DEF Text, Thread
    <3>3. CASE y # x
      <4>1. locals'[w]["main"][y] = locals[w]["main"][y]
        BY <1>9, <3>1, <3>3
      <4>2. Text(w, locals[w]["main"][y])' = Text(w, locals[w]["main"][y])
        BY <1>1, <4>1 DEF Text, Thread
      <4>3. Text(w, locals[w]["main"][y]) = EnvAt(w, "main")[y]
        BY <2>1 DEF Exact
      <4>4. EnvAt(w, "main")'[y] = EnvAt(w, "main")[y]
        <5>1. Returned("main") \in Returns
          BY <1>2, PythonTyped
        <5> QED
          BY <1>3, <1>7, <1>11, <2>5, <3>3, <5>1, AfterTyped
      <4> QED
        BY <4>2, <4>3, <4>4
    <3> QED
      BY <3>2, <3>3
  <2> QED
    BY <2>8 DEF Exact
<1>13. \A f \in Functions : InBody(w, f)'
  BY <1>2, <1>10, <1>11
<1> QED
  BY <1>1, <1>12, <1>13 DEF CallInv

\* A statement that is no call.
LEMMA ExecInv ==
  ASSUME TypeOK, NEW w \in Workers, NEW f \in Functions,
         ExecBind(w, f) \/ ExecStr(w, f) \/ ExecConcat(w, f), CallInv(w)
  PROVE  CallInv(w)'
<1>1. /\ UNCHANGED <<prog, active, arg, out>> /\ active[w] = f /\ ~Done(w, f) /\ Step(w, f)
      /\ Here(w, f).op # "call"
  BY DEF ExecBind, ExecStr, ExecConcat, At, Here
<1>2. InBody(w, f)' /\ \A g \in Functions \ {f} : pc'[w][g] = pc[w][g]
  BY <1>1, StepFollows DEF CallInv
<1>3. \A g \in Functions : InBody(w, g)'
  <2>1. ASSUME NEW g \in Functions \ {f} PROVE InBody(w, g)'
    BY <1>1, <1>2, StandingStays DEF CallInv
  <2> QED
    BY <1>2, <2>1
<1>4. ASSUME active'[w] = "label" PROVE Waiting(w)'
  <2>1. f = "label" /\ Waiting(w)
    BY <1>1, <1>4 DEF CallInv
  <2>2. pc'[w]["main"] = pc[w]["main"]
    BY <1>2, <2>1 DEF Functions
  <2>3. Here(w, "main")' = Here(w, "main")
    BY <1>1, <2>2 DEF Here, Body
  <2>4. Value(w, "main", Here(w, "main").arg)' = Value(w, "main", Here(w, "main").arg)
    BY <1>1, <2>3 DEF Value
  <2> QED
    BY <1>1, <2>1, <2>2, <2>3, <2>4 DEF Waiting
<1>5. flaws'[w] = {} => flaws[w] = {}
  <2>1. flaws'[w] = flaws[w] \/ \E c : flaws'[w] = flaws[w] \cup c
    <3>1. CASE ExecBind(w, f)
      BY <3>1 DEF ExecBind
    <3>2. CASE ExecStr(w, f)
      <4>1. PICK c, d : flaws' = [flaws EXCEPT ![w] = @ \cup c \cup d]
        BY <3>2, Zenon DEF ExecStr
      <4>2. flaws'[w] = flaws[w] \cup (c \cup d)
        BY <4>1 DEF TypeOK
      <4> QED
        BY <4>2
    <3>3. CASE ExecConcat(w, f)
      <4>1. PICK c, d : flaws' = [flaws EXCEPT ![w] = @ \cup c \cup d]
        BY <3>3, Zenon DEF ExecConcat
      <4>2. flaws'[w] = flaws[w] \cup (c \cup d)
        BY <4>1 DEF TypeOK
      <4> QED
        BY <4>2
    <3> QED
      BY <3>1, <3>2, <3>3
  <2> QED
    BY <2>1
<1>6. ASSUME flaws'[w] = {} PROVE \A g \in Functions : Exact(w, g) => Exact(w, g)'
  <2>1. Exact(w, f)
    BY <1>1, <1>5, <1>6 DEF CallInv, Functions
  <2> QED
    BY <1>6, <2>1, <1>1, ExecExact DEF CallInv
<1>7. "main" \in Functions /\ "label" \in Functions /\ active'[w] # "copy"
  BY <1>1 DEF Functions
<1>8. active'[w] = active[w]
  BY <1>1
<1>9. flaws'[w] = {} => /\ active'[w] \in Functions => Exact(w, "main")'
                        /\ active'[w] = "label" => Exact(w, "label")'
  BY <1>5, <1>6, <1>7, <1>8 DEF CallInv
<1> QED
  BY <1>3, <1>4, <1>7, <1>9 DEF CallInv

\* Without a flaw the texts of the dict's values are Python's.
LEMMA EntriesExact ==
  ASSUME TypeOK, NEW w \in Workers, InBody(w, "main"), Done(w, "main"), Exact(w, "main"),
         \A i \in DOMAIN prog.dict : prog.dict[i].kind = "str" =>
            Escaped(EntryText(w, prog.dict[i])) = EntryText(w, prog.dict[i])
  PROVE  Json([i \in DOMAIN prog.dict |-> EntryText(w, prog.dict[i])])
           = PyMain(prog, arg[w]["main"])
<1> DEFINE env == PyRun(prog.main, arg[w]["main"], PyReturned(prog))[Len(prog.main)]
<1>1. EnvAt(w, "main") = env
  BY EndExact DEF Functions, Body, Returned
<1> HIDE DEF env
<1>2. \A x \in Names : Text(w, locals[w]["main"][x]) = env[x]
  BY <1>1 DEF Exact
<1>3. prog.dict \in Seq(Entries)
  BY StringsAssumption DEF TypeOK
<1>4. ASSUME NEW i \in DOMAIN prog.dict
      PROVE  EntryText(w, prog.dict[i]) = PyEntry(env, arg[w]["main"], prog.dict[i])
  <2>1. PICK e \in Entries : e = prog.dict[i]
    BY <1>3
  <2>2. e.kind = "lit" => EntryText(w, e) = PyEntry(env, arg[w]["main"], e)
    BY DEF EntryText, PyEntry
  <2>3. e.kind = "int" => EntryText(w, e) = PyEntry(env, arg[w]["main"], e)
    BY DEF EntryText, PyEntry
  <2>4. ASSUME e.kind = "str" PROVE EntryText(w, e) = PyEntry(env, arg[w]["main"], e)
    <3>1. e.atom.id \in Names
      BY <2>4 DEF Entries
    <3>2. EntryText(w, e) = env[e.atom.id]
      BY <1>2, <2>4, <3>1 DEF EntryText
    <3>3. Escaped(EntryText(w, e)) = EntryText(w, e)
      BY <2>1, <2>4
    <3>4. PyEntry(env, arg[w]["main"], e) = Escaped(env[e.atom.id])
      BY <2>4 DEF PyEntry
    <3> QED
      BY <3>2, <3>3, <3>4
  <2>5. e.kind \in {"lit", "int", "str"}
    BY DEF Entries
  <2> QED
    BY <2>1, <2>2, <2>3, <2>4, <2>5
<1>5. PyMain(prog, arg[w]["main"]) = Json([i \in DOMAIN prog.dict |-> PyEntry(env, arg[w]["main"], prog.dict[i])])
  BY DEF PyMain, env
<1>6. [i \in DOMAIN prog.dict |-> EntryText(w, prog.dict[i])]
        = [i \in DOMAIN prog.dict |-> PyEntry(env, arg[w]["main"], prog.dict[i])]
  BY <1>4
<1> QED
  BY <1>5, <1>6

\* The printed dict is what Python prints, and out_len its length.
LEMMA JsonExact ==
  ASSUME TypeOK, NEW w \in Workers, ExecJson(w), CallInv(w)
  PROVE  CallInv(w)'
<1> DEFINE t == Json([i \in DOMAIN prog.dict |-> EntryText(w, prog.dict[i])])
           py == PyMain(prog, arg[w]["main"])
<1>1. /\ UNCHANGED <<prog, pc, arg, locals>> /\ active[w] = "main" /\ active'[w] = "copy"
      /\ Done(w, "main")
  BY DEF ExecJson, TypeOK
<1>2. \A f \in Functions : InBody(w, f)'
  BY <1>1, StandingStays DEF CallInv
<1>3. t \in Texts
  BY EntriesTyped
<1>4. ASSUME flaws'[w] = {} PROVE ResultExact(w)'
  <2>1. /\ flaws[w] = {}
        /\ \A i \in DOMAIN prog.dict : prog.dict[i].kind = "str" =>
              Escaped(EntryText(w, prog.dict[i])) = EntryText(w, prog.dict[i])
        /\ \/ out'[w] = [ptr |-> ConstantOf(t), len |-> Len(t)]
           \/ /\ out'[w] = [ptr |-> PointTo(JsonSite), len |-> Len(t)]
              /\ Write(w, JsonSite, t) /\ ~(Len(t) >= BufSize)
    <3>1. CASE Static
      <4>1. flaws' = flaws /\ out' = [out EXCEPT ![w] = [ptr |-> ConstantOf(t), len |-> Len(t)]]
        BY <3>1 DEF ExecJson
      <4>2. out'[w] = [ptr |-> ConstantOf(t), len |-> Len(t)]
        BY <4>1 DEF TypeOK
      <4> QED
        BY <1>4, <3>1, <4>1, <4>2 DEF Static
    <3>2. CASE ~Static
      <4> DEFINE values == [i \in DOMAIN prog.dict |-> EntryText(w, prog.dict[i])]
                 raw == \E i \in DOMAIN values : prog.dict[i].kind = "str" /\ Escaped(values[i]) # values[i]
      <4>1. /\ out' = [out EXCEPT ![w] = [ptr |-> PointTo(JsonSite), len |-> Len(t)]]
            /\ Write(w, JsonSite, t)
            /\ flaws' = [flaws EXCEPT ![w] = @
                           \cup (IF raw THEN {"unescaped"} ELSE {})
                           \cup (IF Len(t) >= BufSize THEN {"truncated"} ELSE {})]
        BY <3>2 DEF ExecJson
      <4> HIDE DEF t, raw
      <4>2. out'[w] = [ptr |-> PointTo(JsonSite), len |-> Len(t)]
        BY <4>1 DEF TypeOK
      <4>3. flaws'[w] = flaws[w] \cup (IF raw THEN {"unescaped"} ELSE {})
                                 \cup (IF Len(t) >= BufSize THEN {"truncated"} ELSE {})
        BY <4>1 DEF TypeOK
      <4>4. flaws[w] = {} /\ ~raw /\ ~(Len(t) >= BufSize)
        BY <1>4, <4>3
      <4>5. \A i \in DOMAIN prog.dict : prog.dict[i].kind = "str" =>
              Escaped(EntryText(w, prog.dict[i])) = EntryText(w, prog.dict[i])
        BY <4>4 DEF raw
      <4> QED
        BY <4>1, <4>2, <4>4, <4>5
    <3> QED
      BY <3>1, <3>2
  <2>2. t = py
    <3>1. InBody(w, "main") /\ Exact(w, "main")
      BY <1>1, <2>1 DEF CallInv, Functions
    <3> QED
      BY <1>1, <2>1, <3>1, EntriesExact
  <2> HIDE DEF t, py
  <2>3. Text(w, out[w].ptr)' = t /\ out'[w].len = Len(t)
    <3>1. CASE out'[w] = [ptr |-> ConstantOf(t), len |-> Len(t)]
      BY <3>1 DEF Text, ConstantOf, Pointer
    <3>2. CASE out'[w] = [ptr |-> PointTo(JsonSite), len |-> Len(t)] /\ Write(w, JsonSite, t) /\ ~(Len(t) >= BufSize)
      <4>1. JsonSite \in Sites /\ JsonSite # Constant
        BY ConstantIsNoSite DEF Sites
      <4>2. Len(t) < BufSize
        <5>1. Len(t) \in Nat
          BY <1>3 DEF Texts
        <5> QED
          BY <3>2, <5>1, StringsAssumption
      <4>3. mem'[w][JsonSite] = t
        BY <1>3, <3>2, <4>1, <4>2, WriteText
      <4>4. out'[w].ptr.site = JsonSite /\ out'[w].len = Len(t)
        BY <3>2 DEF PointTo, Pointer
      <4> QED
        BY <4>1, <4>3, <4>4 DEF Text, Thread
    <3> QED
      BY <2>1, <3>1, <3>2
  <2>4. PyMain(prog, arg[w]["main"])' = py
    BY <1>1 DEF py
  <2> QED
    BY <2>2, <2>3, <2>4 DEF ResultExact
<1> QED
  BY <1>1, <1>2, <1>4 DEF CallInv, Functions

\* The copied bytes are the result, so the answer is Python's.
LEMMA CopyExact ==
  ASSUME TypeOK, NEW w \in Workers, CopyOut(w), CallInv(w), AnswersOf(w)
  PROVE  CallInv(w)' /\ AnswersOf(w)'
<1> DEFINE t == Text(w, out[w].ptr)
           a == [n |-> arg[w]["main"], text |-> Bytes(t, out[w].len), flaws |-> flaws[w]]
<1>1. /\ UNCHANGED <<prog, pc, arg, locals, flaws>> /\ active[w] = "copy" /\ active'[w] = "idle"
  BY DEF CopyOut, TypeOK
<1>2. CallInv(w)'
  <2>1. \A f \in Functions : InBody(w, f)'
    BY <1>1, StandingStays DEF CallInv
  <2> QED
    BY <1>1, <2>1 DEF CallInv, Functions
<1>3. answers'[w] = answers[w] \/ answers'[w] = Append(answers[w], a)
  BY DEF CopyOut, TypeOK
<1>4. ASSUME flaws[w] = {} PROVE Bytes(t, out[w].len) = PyMain(prog, arg[w]["main"])
  <2>1. t = PyMain(prog, arg[w]["main"]) /\ out[w].len = Len(PyMain(prog, arg[w]["main"]))
    BY <1>1, <1>4 DEF CallInv, ResultExact
  <2>2. t \in Texts
    BY OperandsTyped DEF TypeOK, Functions
  <2>3. out[w].len = Len(t)
    BY <2>1
  <2> HIDE DEF t
  <2>4. Bytes(t, Len(t)) = t
    BY <2>2 DEF Bytes, Texts
  <2> QED
    BY <2>1, <2>3, <2>4
<1>5. a.flaws = {} => a.text = PyMain(prog, a.n)
  BY <1>4
<1> HIDE DEF a
<1>6. answers[w] \in Seq([n : Nat, text : Texts, flaws : SUBSET Flaws])
  BY DEF TypeOK
<1>7. \A i \in DOMAIN answers'[w] : answers'[w][i] = a \/ (i \in DOMAIN answers[w] /\ answers'[w][i] = answers[w][i])
  <2>1. CASE answers'[w] = answers[w]
    BY <2>1
  <2>2. CASE answers'[w] = Append(answers[w], a)
    BY <1>6, <2>2
  <2> QED
    BY <1>3, <2>1, <2>2
<1>8. AnswersOf(w)'
  BY <1>1, <1>5, <1>7 DEF AnswersOf
<1> QED
  BY <1>2, <1>8

\* A new call starts with Python's empty variables.
LEMMA BeginExact ==
  ASSUME TypeOK, NEW w \in Workers, Begin(w), CallInv(w)
  PROVE  CallInv(w)'
<1>1. /\ UNCHANGED prog /\ active'[w] = "main" /\ pc'[w]["main"] = Place(1, 1)
      /\ pc'[w]["label"] = pc[w]["label"] /\ arg'[w]["label"] = arg[w]["label"]
      /\ locals'[w]["main"] = NoLocals
  BY DEF Begin, TypeOK, Functions
<1>2. arg'[w]["main"] \in Nat
  BY StringsAssumption DEF Begin, TypeOK, Functions
<1>3. InBody(w, "main")' /\ Exact(w, "main")'
  BY <1>1, <1>2, FreshExact DEF Functions
<1>4. InBody(w, "label")'
  BY <1>1, StandingStays DEF CallInv, Functions
<1> QED
  BY <1>1, <1>3, <1>4 DEF CallInv, Functions

-----------------------------------------------------------------------------
(* The steps together                                                      *)

\* A step of worker w leaves the calls of the others, and their answers, alone.
LEMMA OthersExact ==
  ASSUME TypeOK, NEW w \in Workers, WorkerStep(w), NEW v \in Workers \ {w}
  PROVE  (CallInv(v) => CallInv(v)') /\ (AnswersOf(v) => AnswersOf(v)')
<1>1. UNCHANGED prog
  BY DEF WorkerStep, Begin, Exec, ExecBind, ExecStr, ExecConcat, ExecCall, ExecReturn, ExecJson,
         CopyOut
<1>2. pc'[v] = pc[v]
  BY DEF WorkerStep, Begin, Exec, ExecBind, ExecStr, ExecConcat, ExecCall, ExecReturn, ExecJson,
         CopyOut, Step, TypeOK
<1>3. arg'[v] = arg[v]
  BY DEF WorkerStep, Begin, Exec, ExecBind, ExecStr, ExecConcat, ExecCall, ExecReturn, ExecJson,
         CopyOut, TypeOK
<1>4. active'[v] = active[v]
  BY DEF WorkerStep, Begin, Exec, ExecBind, ExecStr, ExecConcat, ExecCall, ExecReturn, ExecJson,
         CopyOut, TypeOK
<1>5. flaws'[v] = flaws[v]
  BY DEF WorkerStep, Begin, Exec, ExecBind, ExecStr, ExecConcat, ExecCall, ExecReturn, ExecJson,
         CopyOut, TypeOK
<1>6. answers'[v] = answers[v]
  BY DEF WorkerStep, Begin, Exec, ExecBind, ExecStr, ExecConcat, ExecCall, ExecReturn, ExecJson,
         CopyOut, TypeOK
<1>7. mem'[v] = mem[v] /\ locals'[v] = locals[v] /\ out'[v] = out[v]
  <2>1. Shape
    BY DEF TypeOK, Shape
  <2> QED
    BY <2>1, WorkerStepLocal DEF StepLocal, Untouched
<1>8. \A f \in Functions : (InBody(v, f) => InBody(v, f)') /\ (Exact(v, f) => Exact(v, f)')
  <2>1. \A f \in Functions, y \in Names : Text(v, locals[v][f][y])' = Text(v, locals[v][f][y])
    BY <1>7 DEF Text, Thread
  <2> QED
    BY <1>1, <1>2, <1>3, <2>1, StandingStays
<1>9. Waiting(v) => Waiting(v)'
  BY <1>1, <1>2, <1>3 DEF Waiting, Here, Body, Value
<1>10. ResultExact(v) => ResultExact(v)'
  BY <1>1, <1>3, <1>7 DEF ResultExact, Text, Thread
<1>11. CallInv(v) => CallInv(v)'
  BY <1>4, <1>5, <1>8, <1>9, <1>10 DEF CallInv, Functions
<1>12. AnswersOf(v) => AnswersOf(v)'
  BY <1>1, <1>6 DEF AnswersOf
<1> QED
  BY <1>11, <1>12

\* Every step of a worker keeps its own call and answers as they should be.
LEMMA OwnExact ==
  ASSUME TypeOK, NEW w \in Workers, WorkerStep(w), CallInv(w), AnswersOf(w)
  PROVE  CallInv(w)' /\ AnswersOf(w)'
<1>1. CASE CopyOut(w)
  BY <1>1, CopyExact
<1>2. CASE ~CopyOut(w)
  <2>1. UNCHANGED <<prog, answers>>
    BY <1>2 DEF WorkerStep, Begin, Exec, ExecBind, ExecStr, ExecConcat, ExecCall, ExecReturn, ExecJson
  <2>2. AnswersOf(w)'
    BY <2>1 DEF AnswersOf
  <2>3. CallInv(w)'
    BY <1>2, BeginExact, ExecInv, CallExact, ReturnExact, JsonExact DEF WorkerStep, Exec
  <2> QED
    BY <2>2, <2>3
<1> QED
  BY <1>1, <1>2

\* Unless something went wrong with a buffer in a call, what a worker's strings
\* point at is what Python's strings are, statement by statement.
LEMMA StringsInvariant == Spec => []ExactInv
<1>1. Init => ExactInv
  <2> SUFFICES ASSUME Init PROVE ExactInv
    OBVIOUS
  <2>1. TypeOK
    BY InitTyped
  <2>2. ASSUME NEW w \in Workers, NEW f \in Functions PROVE InBody(w, f)
    <3>1. Body(f) \in Seq(Stmts) /\ pc[w][f] = Place(1, 1)
      BY <2>1, PythonTyped DEF Init
    <3>2. CASE Len(Body(f)) = 0
      <4>1. Len(Body(f)) + 1 = 1
        BY <3>2
      <4>2. pc[w][f] = Place(Len(Body(f)) + 1, 1)
        BY <3>1, <4>1
      <4> QED
        BY <4>2 DEF InBody
    <3>3. CASE Len(Body(f)) # 0
      <4>1. 1 \in DOMAIN Body(f)
        BY <3>1, <3>3
      <4>2. Body(f)[1].times \in Nat \ {0}
        BY <3>1, <4>1, StatementsOf
      <4>3. 1 \in 1 .. Body(f)[1].times
        BY <4>2
      <4>4. pc[w][f].at = 1 /\ pc[w][f].round = 1
        BY <3>1 DEF Place
      <4> QED
        BY <4>1, <4>3, <4>4 DEF InBody
    <3> QED
      BY <3>2, <3>3
  <2>3. \A w \in Workers : CallInv(w)
    BY <2>2 DEF Init, CallInv, Functions
  <2>4. \A w \in Workers : AnswersOf(w)
    BY DEF Init, AnswersOf
  <2> QED
    BY <2>1, <2>3, <2>4 DEF ExactInv
<1>2. ExactInv /\ [Next]_vars => ExactInv'
  <2>1. ASSUME ExactInv, NEW w \in Workers, WorkerStep(w) PROVE ExactInv'
    <3>1. TypeOK'
      BY <2>1, StepTypes DEF ExactInv
    <3>2. CallInv(w)' /\ AnswersOf(w)'
      BY <2>1, OwnExact DEF ExactInv
    <3>3. \A v \in Workers \ {w} : CallInv(v)' /\ AnswersOf(v)'
      BY <2>1, OthersExact DEF ExactInv
    <3> QED
      BY <3>1, <3>2, <3>3 DEF ExactInv
  <2>2. ASSUME ExactInv, UNCHANGED vars PROVE ExactInv'
    <3>1. /\ prog' = prog /\ active' = active /\ pc' = pc /\ arg' = arg /\ locals' = locals
          /\ mem' = mem /\ out' = out /\ answers' = answers /\ flaws' = flaws
      BY <2>2 DEF vars
    <3>2. TypeOK'
      BY <2>2, <3>1 DEF ExactInv, TypeOK
    <3>3. ASSUME NEW v \in Workers PROVE CallInv(v)' /\ AnswersOf(v)'
      <4>1. CallInv(v) /\ AnswersOf(v)
        BY <2>2 DEF ExactInv
      <4>2. \A f \in Functions, y \in Names : Text(v, locals[v][f][y])' = Text(v, locals[v][f][y])
        BY <3>1 DEF Text, Thread
      <4>3. \A f \in Functions : (InBody(v, f) => InBody(v, f)') /\ (Exact(v, f) => Exact(v, f)')
        BY <3>1, <4>2, StandingStays
      <4>4. (Waiting(v) => Waiting(v)') /\ (ResultExact(v) => ResultExact(v)')
        BY <3>1 DEF Waiting, Here, Body, Value, ResultExact, Text, Thread
      <4>5. CallInv(v)'
        BY <3>1, <4>1, <4>3, <4>4 DEF CallInv, Functions
      <4>6. AnswersOf(v)'
        BY <3>1, <4>1 DEF AnswersOf
      <4> QED
        BY <4>5, <4>6
    <3> QED
      BY <3>2, <3>3 DEF ExactInv
  <2> QED
    BY <2>1, <2>2 DEF Next
<1> QED
  BY <1>1, <1>2, PTL DEF Spec

\* Every answer is the JSON text Python would give, whatever the library, the
\* number of workers and of calls and the size of the buffers, unless in its call
\* a buffer was written while something pointed at it, a text did not fit, or a
\* str needed escaping (emit_expr.rs, emit_function.rs, lib.rs of the runtime).
THEOREM AnswersAreExact == Spec => []AnswersExact
<1>1. ExactInv => AnswersExact
  BY DEF ExactInv, AnswersOf, AnswersExact
<1> QED
  BY <1>1, StringsInvariant, PTL

\* The answers a straight library gave, all without a clobbered buffer.
CleanAnswers ==
  Straight(prog) => \A w \in Workers : \A i \in DOMAIN answers[w] :
                      "clobbered" \notin answers[w][i].flaws

\* They stay so: a call hands its flaws to its answer.
LEMMA CleanStays ==
  ASSUME TypeOK, StraightNeverClobbers, CleanAnswers, [Next]_vars
  PROVE  CleanAnswers'
<1>1. CASE UNCHANGED vars
  BY <1>1 DEF vars, CleanAnswers, Straight
<1>2. ASSUME NEW w \in Workers, WorkerStep(w) PROVE CleanAnswers'
  <2>1. UNCHANGED prog
    BY <1>2 DEF WorkerStep, Begin, Exec, ExecBind, ExecStr, ExecConcat, ExecCall, ExecReturn, ExecJson,
                CopyOut
  <2>2. CASE ~CopyOut(w)
    <3>1. UNCHANGED answers
      BY <1>2, <2>2 DEF WorkerStep, Begin, Exec, ExecBind, ExecStr, ExecConcat, ExecCall, ExecReturn,
                        ExecJson
    <3> QED
      BY <2>1, <3>1 DEF CleanAnswers, Straight
  <2>3. CASE CopyOut(w)
    <3>1. PICK a : /\ answers' = answers \/ answers' = [answers EXCEPT ![w] = Append(@, a)]
                   /\ a.flaws = flaws[w]
      BY <2>3 DEF CopyOut
    <3>2. answers[w] \in Seq([n : Nat, text : Texts, flaws : SUBSET Flaws]) /\ DOMAIN answers = Workers
      BY DEF TypeOK
    <3>3. ASSUME NEW v \in Workers, NEW i \in DOMAIN answers'[v]
          PROVE  answers'[v][i] = a \/ (i \in DOMAIN answers[v] /\ answers'[v][i] = answers[v][i])
      <4>1. CASE v = w
        BY <3>1, <3>2, <3>3, <4>1
      <4>2. CASE v # w
        BY <3>1, <3>2, <3>3, <4>2
      <4> QED
        BY <4>1, <4>2
    <3>4. Straight(prog)' = Straight(prog)
      BY <2>1 DEF Straight
    <3> QED
      BY <3>1, <3>3, <3>4 DEF CleanAnswers, StraightNeverClobbers
  <2> QED
    BY <2>2, <2>3
<1> QED
  BY <1>1, <1>2 DEF Next

\* Only two things can make an answer of a straight library differ from Python's: a
\* text too long for its buffer and a str of the dict that needs escaping.
THEOREM StraightAnswersAreExact ==
  Spec => [](Straight(prog) =>
               \A w \in Workers : \A i \in DOMAIN answers[w] :
                 answers[w][i].flaws \cap {"truncated", "unescaped"} = {}
                   => answers[w][i].text = PyMain(prog, answers[w][i].n))
<1>1. Init => CleanAnswers
  BY DEF Init, CleanAnswers
<1>2. ASSUME TypeOK, CleanAnswers, AnswersExact, Straight(prog),
             NEW w \in Workers, NEW i \in DOMAIN answers[w],
             answers[w][i].flaws \cap {"truncated", "unescaped"} = {}
      PROVE  answers[w][i].text = PyMain(prog, answers[w][i].n)
  <2>1. answers[w][i].flaws \in SUBSET Flaws
    <3> DEFINE A == [n : Nat, text : Texts, flaws : SUBSET Flaws]
    <3>1. answers[w] \in Seq(A)
      BY <1>2 DEF TypeOK
    <3> HIDE DEF A
    <3>2. answers[w][i] \in A
      BY <1>2, <3>1
    <3> QED
      BY <3>2 DEF A
  <2>2. answers[w][i].flaws = {}
    BY <1>2, <2>1 DEF CleanAnswers, Flaws
  <2> QED
    BY <1>2, <2>2 DEF AnswersExact
<1>3. TypeOK /\ CleanAnswers /\ AnswersExact =>
        (Straight(prog) =>
           \A w \in Workers : \A i \in DOMAIN answers[w] :
             answers[w][i].flaws \cap {"truncated", "unescaped"} = {}
               => answers[w][i].text = PyMain(prog, answers[w][i].n))
  BY <1>2
<1> QED
  BY <1>1, <1>3, CleanStays, TypeCorrect, StraightNeverReuses, AnswersAreExact, PTL DEF Spec
=============================================================================
