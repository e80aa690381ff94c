---------------------------- MODULE NativeStrings ----------------------------
(***************************************************************************)
(* Strings in compiled code (celer-codegen) and on their way out of it     *)
(* (celer-runtime).  A str is a pointer.  str(), + and a dict that is not  *)
(* constant write into a buffer with one place in the program and one copy *)
(* per thread; nothing is ever allocated or freed.  Several tokio workers  *)
(* run the same library, each one call after the other.                    *)
(*                                                                         *)
(* A program is a route's function main(n), which returns a dict, and a    *)
(* helper label(m) it may call, which returns a str.  Statements have at   *)
(* most one operator, and may be the body of a loop over a constant range. *)
(* A letter is a number: 0 to 9 are the digits.                            *)
(***************************************************************************)
EXTENDS Integers, SequencesExt

CONSTANTS
  Workers,    \* the threads that run native code
  Programs,   \* the libraries: records [label, ret, main, dict]
  Names,      \* the str variables of a function
  Arguments,  \* the values of n
  BufSize,    \* STR_BUF_SIZE and SNPRINTF_BUF_SIZE
  MaxLength,  \* the longest body of a function
  MaxCalls    \* bound: calls each worker answers

Texts == Seq(Nat)

Quote     == 30
Backslash == 31
Comma     == 32
Open      == 33
Close     == 34
Junk      == 35  \* what lies behind a buffer

\* An operand is a literal or, with an id, a name.
Lit(t)  == [id |-> "", text |-> t]
Name(x) == [id |-> x, text |-> <<>>]
Atoms == [id : Names \cup {""}, text : Texts]

\* The int operand that stands for the function's own parameter.
Param == -1

\* x = l, x: str = str(arg), x = l + r (or x += r), x = label(arg), times times.
Stmt(op, x, l, r, arg, times) ==
  [op |-> op, x |-> x, l |-> l, r |-> r, arg |-> arg, times |-> times]
Stmts == [op : {"bind", "str", "concat", "call"}, x : Names, l : Atoms, r : Atoms,
          arg : Nat \cup {Param}, times : Nat \ {0}]

\* The values of the returned dict: literals, names of strs, the parameter.
Entry(kind, atom) == [kind |-> kind, atom |-> atom]
Entries == [kind : {"lit", "int"}, atom : Atoms]
           \cup [kind : {"str"}, atom : [id : Names, text : Texts]]

ASSUME StringsAssumption ==
  /\ BufSize \in Nat \ {0}
  /\ MaxLength \in Nat
  /\ MaxCalls \in Nat
  /\ Arguments \subseteq Nat
  /\ Programs \subseteq [label : Seq(Stmts), ret : Atoms, main : Seq(Stmts), dict : Seq(Entries)]
  /\ \A p \in Programs :
       /\ Len(p.label) <= MaxLength /\ Len(p.main) <= MaxLength
       /\ \A i \in DOMAIN p.label : p.label[i].op # "call"

-----------------------------------------------------------------------------
\* The functions of a library, and the buffers: one for each place that writes
\* one (BUFFER_COUNTER), one for the dict of main.
Functions == {"label", "main"}
JsonSite == <<"json", 1>>
Sites == (Functions \X (1 .. MaxLength)) \cup {JsonSite}

\* Variant: the counter starts again with each function.
SiteRestarted(f, i) == <<"main", i>>

SiteOf(f, i) == <<f, i>>

\* A pointer to a buffer of this thread, or to a constant.
Pointer(site, text) == [site |-> site, text |-> text]
Constant == <<"constant", 0>>
PointTo(site)  == Pointer(site, <<>>)
ConstantOf(t)  == Pointer(Constant, t)
Pointers == [site : Sites \cup {Constant}, text : Texts]

\* Variant: one byte less fits.
CutShort(t) == IF Len(t) < BufSize - 1 THEN t ELSE SubSeq(t, 1, BufSize - 2)
\* Variant: no limit.
Uncut(t) == t

\* What snprintf leaves of a text in a buffer, besides the final NUL.
Cut(t) == IF Len(t) < BufSize THEN t ELSE SubSeq(t, 1, BufSize - 1)

\* %lld of a parameter of one digit.
Digits(k) == <<k>>

\* escape_json, which only literals of a dict go through.
Escaped(t) ==
  FlattenSeq([i \in DOMAIN t |->
    IF t[i] \in {Quote, Backslash} THEN <<Backslash, t[i]>> ELSE <<t[i]>>])

\* The JSON text of a dict with these values.
Json(values) == <<Open>> \o FlattenSeq([i \in DOMAIN values |-> values[i] \o <<Comma>>]) \o <<Close>>

-----------------------------------------------------------------------------
VARIABLES
  prog,     \* the library
  active,   \* what each worker does: a function, copying the result, nothing
  pc,       \* the statement each function of each worker stands at
  arg,      \* the parameter of each function of each worker
  locals,   \* the str variables of each function of each worker
  mem,      \* the text in each worker's copy of each buffer
  out,      \* out_ptr and out_len of each worker's call
  answers,  \* the answers each worker gave: [n, text]
  flaws     \* what went wrong in each worker's call, for the properties

vars == <<prog, active, pc, arg, locals, mem, out, answers, flaws>>

Body(f) == IF f = "main" THEN prog.main ELSE prog.label

Place(i, round) == [at |-> i, round |-> round]
Done(w, f) == pc[w][f].at > Len(Body(f))

\* The round of a loop after this one, or the next statement.
Following(w, f) ==
  LET p == pc[w][f]
  IN  IF p.round < Body(f)[p.at].times THEN Place(p.at, p.round + 1) ELSE Place(p.at + 1, 1)

\* Variant: buffers are not thread-local.
AnyThread(w) == CHOOSE v \in Workers : TRUE

\* The thread whose copy of the buffers worker w uses: its own (TLS).
Thread(w) == w

Text(w, p) == IF p.site = Constant THEN p.text ELSE mem[Thread(w)][p.site]
Resolve(w, f, a) == IF a.id = "" THEN ConstantOf(a.text) ELSE locals[w][f][a.id]
Value(w, f, k) == IF k = Param THEN arg[w][f] ELSE k

Write(w, s, t) == mem' = [mem EXCEPT ![Thread(w)][s] = Cut(t)]
Assign(w, f, x, p) == locals' = [locals EXCEPT ![w][f][x] = p]
Step(w, f) == pc' = [pc EXCEPT ![w][f] = Following(w, f)]

\* A variable other than x of f points at buffer s.
PointedAt(w, s, f, x) ==
  \E g \in Functions, y \in Names : <<g, y>> # <<f, x>> /\ locals[w][g][y].site = s

NoLocals == [x \in Names |-> ConstantOf(<<>>)]
NoOut == [ptr |-> ConstantOf(<<>>), len |-> 0]

-----------------------------------------------------------------------------
\* call_typed on a worker: try_json_call with one int.
Begin(w) ==
  /\ active[w] = "idle"
  /\ Len(answers[w]) < MaxCalls
  /\ \E n \in Arguments : arg' = [arg EXCEPT ![w]["main"] = n]
  /\ active' = [active EXCEPT ![w] = "main"]
  /\ pc' = [pc EXCEPT ![w]["main"] = Place(1, 1)]
  /\ locals' = [locals EXCEPT ![w] = [f \in Functions |-> NoLocals]]
  /\ flaws' = [flaws EXCEPT ![w] = {}]
  /\ UNCHANGED <<prog, mem, out, answers>>

\* Function f of worker w stands at a statement of this kind.
At(w, f, op) == active[w] = f /\ ~Done(w, f) /\ Body(f)[pc[w][f].at].op = op
Here(w, f) == Body(f)[pc[w][f].at]

ExecBind(w, f) ==
  /\ At(w, f, "bind")
  /\ Assign(w, f, Here(w, f).x, Resolve(w, f, Here(w, f).l))
  /\ Step(w, f)
  /\ UNCHANGED <<prog, active, arg, mem, out, answers, flaws>>

\* emit_builtin_str: snprintf("%lld") into the buffer of this place.
ExecStr(w, f) ==
  LET s == SiteOf(f, pc[w][f].at)
      t == Digits(Value(w, f, Here(w, f).arg))
  IN  /\ At(w, f, "str")
      /\ Write(w, s, t)
      /\ Assign(w, f, Here(w, f).x, PointTo(s))
      /\ flaws' = [flaws EXCEPT ![w] = @
           \cup (IF PointedAt(w, s, f, Here(w, f).x) THEN {"clobbered"} ELSE {})
           \cup (IF Len(t) >= BufSize THEN {"truncated"} ELSE {})]
      /\ Step(w, f)
      /\ UNCHANGED <<prog, active, arg, out, answers>>

\* snprintf("%s%s") into a buffer it reads from is undefined: it may find the
\* operand as it was, empty, or already overwritten.
Concatenated(w, f, s) ==
  LET l == Resolve(w, f, Here(w, f).l)
      r == Resolve(w, f, Here(w, f).r)
      Read(p) == IF p.site = s THEN {Text(w, p), <<>>, Text(w, l)} ELSE {Text(w, p)}
  IN  {a \o b : a \in Read(l), b \in Read(r)}

\* emit_string_concat.
ExecConcat(w, f) ==
  LET s == SiteOf(f, pc[w][f].at)
      l == Resolve(w, f, Here(w, f).l)
      r == Resolve(w, f, Here(w, f).r)
  IN  /\ At(w, f, "concat")
      /\ \E t \in Concatenated(w, f, s) :
           /\ Write(w, s, t)
           /\ flaws' = [flaws EXCEPT ![w] = @
                \cup (IF PointedAt(w, s, f, Here(w, f).x) \/ s \in {l.site, r.site}
                      THEN {"clobbered"} ELSE {})
                \cup (IF Len(t) >= BufSize THEN {"truncated"} ELSE {})]
      /\ Assign(w, f, Here(w, f).x, PointTo(s))
      /\ Step(w, f)
      /\ UNCHANGED <<prog, active, arg, out, answers>>

\* emit_call: label begins with no locals of its own.
ExecCall(w) ==
  /\ At(w, "main", "call")
  /\ active' = [active EXCEPT ![w] = "label"]
  /\ arg' = [arg EXCEPT ![w]["label"] = Value(w, "main", Here(w, "main").arg)]
  /\ pc' = [pc EXCEPT ![w]["label"] = Place(1, 1)]
  /\ locals' = [locals EXCEPT ![w]["label"] = NoLocals]
  /\ UNCHANGED <<prog, mem, out, answers, flaws>>

\* label returns a pointer, mostly into one of its buffers.
ExecReturn(w) ==
  /\ active[w] = "label" /\ Done(w, "label")
  /\ active' = [active EXCEPT ![w] = "main"]
  /\ locals' = [locals EXCEPT ![w] =
       [f \in Functions |->
          IF f = "label" THEN NoLocals
          ELSE [locals[w]["main"] EXCEPT ![Here(w, "main").x] = Resolve(w, "label", prog.ret)]]]
  /\ Step(w, "main")
  /\ UNCHANGED <<prog, arg, mem, out, answers, flaws>>

\* plan_dict: a dict of literals is a constant.
Static == \A i \in DOMAIN prog.dict : prog.dict[i].kind = "lit"

EntryText(w, e) ==
  CASE e.kind = "lit" -> Escaped(e.atom.text)
    [] e.kind = "str" -> Text(w, locals[w]["main"][e.atom.id])
    [] e.kind = "int" -> Digits(arg[w]["main"])

\* emit_json_return: a constant, or snprintf into the function's own buffer;
\* out_len is what snprintf returns, the length the text would have.
ExecJson(w) ==
  LET values == [i \in DOMAIN prog.dict |-> EntryText(w, prog.dict[i])]
      t      == Json(values)
      raw    == \E i \in DOMAIN values : prog.dict[i].kind = "str" /\ Escaped(values[i]) # values[i]
  IN  /\ active[w] = "main" /\ Done(w, "main")
      /\ active' = [active EXCEPT ![w] = "copy"]
      /\ IF Static
         THEN /\ out' = [out EXCEPT ![w] = [ptr |-> ConstantOf(t), len |-> Len(t)]]
              /\ UNCHANGED <<mem, flaws>>
         ELSE /\ out' = [out EXCEPT ![w] = [ptr |-> PointTo(JsonSite), len |-> Len(t)]]
              /\ Write(w, JsonSite, t)
              /\ flaws' = [flaws EXCEPT ![w] = @
                   \cup (IF raw THEN {"unescaped"} ELSE {})
                   \cup (IF Len(t) >= BufSize THEN {"truncated"} ELSE {})]
      /\ UNCHANGED <<prog, pc, arg, locals, answers>>

\* The first k bytes from where t is.
Bytes(t, k) == [i \in 1 .. k |-> IF i <= Len(t) THEN t[i] ELSE Junk]

\* call_one_int: out_len bytes from out_ptr are copied, whatever is there; bytes
\* that are no UTF-8 make it an error.
CopyOut(w) ==
  LET t == Text(w, out[w].ptr)
  IN  /\ active[w] = "copy"
      /\ active' = [active EXCEPT ![w] = "idle"]
      /\ \/ answers' = [answers EXCEPT ![w] =
              Append(@, [n |-> arg[w]["main"], text |-> Bytes(t, out[w].len), flaws |-> flaws[w]])]
         \/ out[w].len > Len(t) /\ UNCHANGED answers
      /\ UNCHANGED <<prog, pc, arg, locals, mem, out, flaws>>

-----------------------------------------------------------------------------
Init ==
  /\ prog \in Programs
  /\ active = [w \in Workers |-> "idle"]
  /\ pc = [w \in Workers |-> [f \in Functions |-> Place(1, 1)]]
  /\ arg = [w \in Workers |-> [f \in Functions |-> 0]]
  /\ locals = [w \in Workers |-> [f \in Functions |-> NoLocals]]
  /\ mem = [w \in Workers |-> [s \in Sites |-> <<>>]]
  /\ out = [w \in Workers |-> NoOut]
  /\ answers = [w \in Workers |-> <<>>]
  /\ flaws = [w \in Workers |-> {}]

Exec(w) == \E f \in Functions : ExecBind(w, f) \/ ExecStr(w, f) \/ ExecConcat(w, f)

WorkerStep(w) ==
  Begin(w) \/ Exec(w) \/ ExecCall(w) \/ ExecReturn(w) \/ ExecJson(w) \/ CopyOut(w)

Next == \E w \in Workers : WorkerStep(w)

Spec == Init /\ [][Next]_vars

-----------------------------------------------------------------------------
(***************************************************************************)
(* Python's strings, which are values.                                     *)
(***************************************************************************)
PyAtom(env, a) == IF a.id = "" THEN a.text ELSE env[a.id]
PyInt(k, m) == IF k = Param THEN m ELSE k

\* The variables after a statement s with parameter m; returned is label.
PyAfter(env, s, m, returned) ==
  [env EXCEPT ![s.x] =
     CASE s.op = "bind"   -> PyAtom(env, s.l)
       [] s.op = "str"    -> Digits(PyInt(s.arg, m))
       [] s.op = "concat" -> PyAtom(env, s.l) \o PyAtom(env, s.r)
       [] s.op = "call"   -> returned[PyInt(s.arg, m)]]

\* A loop's statement: the variables after each round.
PyRounds(env, s, m, returned) ==
  LET after[k \in 0 .. s.times] == IF k = 0 THEN env ELSE PyAfter(after[k - 1], s, m, returned)
  IN  after

\* The variables after each statement of b.
PyRun(b, m, returned) ==
  LET after[i \in 0 .. Len(b)] ==
        IF i = 0 THEN [x \in Names |-> <<>>]
        ELSE PyRounds(after[i - 1], b[i], m, returned)[b[i].times]
  IN  after

PyLabel(p, m) == PyAtom(PyRun(p.label, m, [k \in Nat |-> <<>>])[Len(p.label)], p.ret)
PyReturned(p) == [m \in Nat |-> PyLabel(p, m)]

PyEntry(env, n, e) ==
  CASE e.kind = "lit" -> Escaped(e.atom.text)
    [] e.kind = "str" -> Escaped(env[e.atom.id])
    [] e.kind = "int" -> Digits(n)

\* The JSON text of main(n).
PyMain(p, n) ==
  LET env == PyRun(p.main, n, PyReturned(p))[Len(p.main)]
  IN  Json([i \in DOMAIN p.dict |-> PyEntry(env, n, p.dict[i])])

-----------------------------------------------------------------------------
(***************************************************************************)
(* Properties.                                                             *)
(***************************************************************************)
Flaws == {"clobbered", "truncated", "unescaped"}

\* Every variable has its type; a buffer keeps room for the final NUL.
TypeOK ==
  /\ prog \in Programs
  /\ active \in [Workers -> Functions \cup {"idle", "copy"}]
  /\ pc \in [Workers -> [Functions -> [at : Nat \ {0}, round : Nat \ {0}]]]
  /\ arg \in [Workers -> [Functions -> Nat]]
  /\ locals \in [Workers -> [Functions -> [Names -> Pointers]]]
  /\ mem \in [Workers -> [Sites -> Texts]]
  /\ \A w \in Workers : \A s \in Sites : Len(mem[w][s]) < BufSize
  /\ out \in [Workers -> [ptr : Pointers, len : Nat]]
  /\ answers \in [Workers -> Seq([n : Nat, text : Texts, flaws : SUBSET Flaws])]
  /\ flaws \in [Workers -> SUBSET Flaws]

\* An answer is the JSON Python would give, now and after any number of later
\* calls on any worker, unless in its call a buffer was written while something
\* still pointed at it, a text did not fit, or a str needed escaping.
AnswersExact ==
  \A w \in Workers : \A i \in DOMAIN answers[w] :
    answers[w][i].flaws = {} => answers[w][i].text = PyMain(prog, answers[w][i].n)

\* Every place that writes a buffer is passed once in a call.
Straight(p) ==
  /\ \A i \in DOMAIN p.label : p.label[i].times = 1
  /\ \A i \in DOMAIN p.main : p.main[i].times = 1
  /\ \A i, j \in DOMAIN p.main : p.main[i].op = "call" /\ p.main[j].op = "call" => i = j

\* Without loops and repeated calls of a helper no buffer is written while
\* something points at it: no two places share one, and nothing is left over
\* from the call before.
StraightNeverClobbers ==
  Straight(prog) => \A w \in Workers : "clobbered" \notin flaws[w]

\* What worker w can see of its own strings.
Seen(w) ==
  [strs |-> [f \in Functions |-> [x \in Names |-> Text(w, locals[w][f][x])]],
   result |-> Text(w, out[w].ptr)]

\* A step of one worker changes no string any other worker can reach.
WorkersIndependent ==
  [][\E w \in Workers : \A v \in Workers \ {w} : Seen(v)' = Seen(v)]_vars
=============================================================================
