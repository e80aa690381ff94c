-------------------------- MODULE BlockMachineProofs --------------------------
(***************************************************************************)
(* Verified code is memory safe and its values keep their width, whatever  *)
(* well-formed blocks a builder makes and for any width of the ints.       *)
(*                                                                         *)
(* The argument is that of dominance: while a call is at a block that no   *)
(* path from the entry reaches around a definition, the definition has     *)
(* been executed.                                                          *)
(***************************************************************************)
EXTENDS BlockMachine, FiniteRecursion, FiniteSetTheorems

\* The call is past definition d: after it in its block, or in a block that is
\* only reached through it.
Past(d) ==
  \/ pc.block = d[1] /\ pc.index > d[2]
  \/ pc.block # d[1] /\ pc.block \notin Around(code.blocks, d[1])

\* The cell defined at d may be used: a slot is there, and it is filled unless the
\* store right after the alloca is next.
Ready(c, d) ==
  LET slot == code.blocks[d[1]][d[2]].op = "alloca"
  IN  /\ slot => c \in slots
      /\ c \in DOMAIN mem \/ (slot /\ pc = [block |-> d[1], index |-> d[2] + 1])

\* The call stands at an instruction of a block that is reached at all.
Placed ==
  /\ pc.block \in Reachable(code.blocks, {1}, {})
  /\ pc.index \in DOMAIN code.blocks[pc.block]

\* What holds of a call.
CallInv ==
  /\ Placed
  /\ 1 \in DOMAIN mem
  /\ \A c \in 0..code.cells : \A d \in Definitions(code.blocks, c) : Past(d) => Ready(c, d)

MInv ==
  /\ MachineTypeOK
  /\ phase \in {"verify", "ready", "running"} => WellFormed(code)
  /\ phase \in {"ready", "running"} => Verifies(code.blocks)
  /\ phase \in {"infer", "codegen", "verify", "ready"} =>
       pc = [block |-> 1, index |-> 1] /\ slots = {} /\ DOMAIN mem = {}
  /\ phase = "running" => CallInv

-----------------------------------------------------------------------------
(* Arithmetic keeps the width                                              *)

\* What wraps around fits.
LEMMA WrapFits ==
  ASSUME NEW v \in Int
  PROVE  Fits(Wrap(v))
<1> DEFINE m == 2 * MaxInt + 2
           u == v + MaxInt + 1
<1>1. MaxInt \in Nat
  BY WidthAssumption
<1>2. m \in Nat \ {0} /\ u \in Int
  BY <1>1
<1>3. u % m \in 0..m - 1
  <2> HIDE DEF m, u
  <2> QED
    BY <1>2
<1>4. Wrap(v) = (u % m) - MaxInt - 1
  BY DEF Wrap
<1>5. PICK k \in 0..m - 1 : Wrap(v) = k - MaxInt - 1
  <2> HIDE DEF m, u
  <2> QED
    BY <1>3, <1>4
<1> QED
  BY <1>1, <1>5 DEF Fits

\* A division leaves a remainder smaller than the divisor.
LEMMA DivisionRemainder ==
  ASSUME NEW a \in Nat, NEW b \in Nat \ {0}, NEW q, q = a \div b
  PROVE  q \in Nat /\ 0 <= a - b * q /\ a - b * q <= a
<1>1. q \in Int /\ q >= 0
  OBVIOUS
<1>2. ASSUME NEW s, s = a % b PROVE 0 <= a - b * q
  BY <1>2
<1>3. b * q >= 0
  BY <1>1
<1> QED
  BY <1>1, <1>2, <1>3

\* The remainder of sdiv fits where its operands do.
LEMMA RemainderFits ==
  ASSUME NEW l, NEW r, Fits(l), Fits(r), r # 0
  PROVE  Quotient(l, r) \in Int /\ Fits(l - r * Quotient(l, r))
<1> DEFINE a == Magnitude(l)
           b == Magnitude(r)
           q == a \div b
<1>1. MaxInt \in Nat /\ l \in Int /\ r \in Int /\ -MaxInt - 1 <= l /\ l <= MaxInt
  BY WidthAssumption DEF Fits
<1>2. a \in Nat /\ b \in Nat \ {0} /\ a = (IF l < 0 THEN -l ELSE l) /\ b = (IF r < 0 THEN -r ELSE r)
  BY <1>1 DEF Magnitude
<1>3. Quotient(l, r) = IF (l < 0) = (r < 0) THEN q ELSE -q
  BY DEF Quotient
<1>q. q = a \div b
  OBVIOUS
<1> HIDE DEF a, b, q
<1>4. q \in Nat /\ 0 <= a - b * q /\ a - b * q <= a
  BY <1>2, <1>q, DivisionRemainder
<1>5. b * q \in Int
  BY <1>2, <1>4
<1>6. r * Quotient(l, r) = IF l < 0 THEN -(b * q) ELSE b * q
  <2>1. CASE l < 0 /\ r < 0
    <3>1. Quotient(l, r) = q /\ r = -b
      BY <1>1, <1>2, <1>3, <2>1
    <3> QED
      BY <1>2, <1>4, <2>1, <3>1
  <2>2. CASE l < 0 /\ ~(r < 0)
    <3>1. Quotient(l, r) = -q /\ r = b
      BY <1>1, <1>2, <1>3, <2>2
    <3> QED
      BY <1>2, <1>4, <2>2, <3>1
  <2>3. CASE ~(l < 0) /\ r < 0
    <3>1. Quotient(l, r) = -q /\ r = -b
      BY <1>1, <1>2, <1>3, <2>3
    <3> QED
      BY <1>2, <1>4, <2>3, <3>1
  <2>4. CASE ~(l < 0) /\ ~(r < 0)
    <3>1. Quotient(l, r) = q /\ r = b
      BY <1>1, <1>2, <1>3, <2>4
    <3> QED
      BY <1>2, <1>4, <2>4, <3>1
  <2> QED
    BY <2>1, <2>2, <2>3, <2>4
<1>7. Quotient(l, r) \in Int
  BY <1>3, <1>4
<1>8. PICK p \in Int : p = b * q /\ 0 <= a - p /\ a - p <= a
  BY <1>4, <1>5
<1>9. l - r * Quotient(l, r) = IF l < 0 THEN l + p ELSE l - p
  BY <1>1, <1>6, <1>8
<1>10. -MaxInt - 1 <= l - r * Quotient(l, r) /\ l - r * Quotient(l, r) <= MaxInt
  <2>1. CASE l < 0
    BY <1>1, <1>2, <1>8, <1>9, <2>1
  <2>2. CASE ~(l < 0)
    BY <1>1, <1>2, <1>8, <1>9, <2>2
  <2> QED
    BY <2>1, <2>2
<1>11. l - r * Quotient(l, r) \in Int
  BY <1>1, <1>8, <1>9
<1> QED
  BY <1>1, <1>7, <1>10, <1>11 DEF Fits

\* What an instruction computes from values that fit fits.
LEMMA NativeOpFits ==
  ASSUME NEW op \in Operators, NEW l, NEW r, Fits(l), Fits(r)
  PROVE  Fits(NativeOp(op, l, r))
<1>1. l \in Int /\ r \in Int /\ MaxInt \in Nat
  BY WidthAssumption DEF Fits
<1>2. CASE op = "atom"
  BY <1>2 DEF NativeOp
<1>3. CASE op = "add"
  <2>1. l + r \in Int
    BY <1>1
  <2> QED
    BY <1>3, <2>1, WrapFits DEF NativeOp
<1>4. CASE op = "sub"
  <2>1. l - r \in Int
    BY <1>1
  <2> QED
    BY <1>4, <2>1, WrapFits DEF NativeOp
<1>5. CASE op = "floordiv"
  <2>1. NativeOp(op, l, r) = IF r = 0 THEN 0 ELSE Wrap(Quotient(l, r))
    BY <1>5 DEF NativeOp
  <2>2. r # 0 => Fits(Wrap(Quotient(l, r)))
    BY RemainderFits, WrapFits
  <2>3. Fits(0)
    BY <1>1 DEF Fits
  <2> QED
    BY <2>1, <2>2, <2>3
<1>6. CASE op = "mod"
  <2>1. NativeOp(op, l, r) = IF r = 0 THEN l ELSE l - r * Quotient(l, r)
    BY <1>6 DEF NativeOp
  <2> QED
    BY <2>1, RemainderFits
<1>7. CASE op \in {"lt", "gt", "eq"}
  <2>1. NativeOp(op, l, r) = Compare(op, l, r)
    BY <1>7 DEF NativeOp
  <2>2. NativeOp(op, l, r) \in {0, 1}
    BY <2>1 DEF Compare
  <2>3. Fits(0) /\ Fits(1)
    BY WidthAssumption DEF Fits
  <2> QED
    BY <2>2, <2>3
<1> QED
  BY <1>2, <1>3, <1>4, <1>5, <1>6, <1>7 DEF Operators

-----------------------------------------------------------------------------
(* Reached blocks                                                          *)

\* G grows the sets within U, and each value of f is G of the one before.
Grows(U, G)       == G \in [SUBSET U -> SUBSET U] /\ \A x \in SUBSET U : x \subseteq G[x]
Repeats(f, n, G)  == \A j \in 1 .. n : f[j] = G[f[j - 1]]

\* A set that grows within a finite one is saturated after as many steps as that
\* has elements.
LEMMA Saturation ==
  ASSUME NEW U, IsFiniteSet(U), NEW n \in Nat, n = Cardinality(U),
         NEW G, Grows(U, G), NEW f, f[0] \in SUBSET U, Repeats(f, n, G)
  PROVE  f[n] \in SUBSET U /\ f[0] \subseteq f[n] /\ G[f[n]] = f[n]
<1> DEFINE Sound(k) == f[k] \in SUBSET U /\ f[0] \subseteq f[k]
           Grown(k) == G[f[k]] = f[k] \/ Cardinality(f[k]) >= k
           P == {k \in 0 .. n : Sound(k) /\ Grown(k)}
<1> USE DEF Grows, Repeats
<1>1. ASSUME NEW x \in SUBSET U
      PROVE  IsFiniteSet(x) /\ Cardinality(x) \in Nat /\ Cardinality(x) <= n /\ (Cardinality(x) = n => x = U)
  BY FS_Subset, FS_CardinalityType
<1>2. 0 \in P
  BY <1>1
<1>3. ASSUME NEW j \in 1 .. n, j - 1 \in P PROVE j \in P
  <2> DEFINE a == f[j - 1]
             b == f[j]
  <2>1. a \in SUBSET U /\ f[0] \subseteq a /\ (G[a] = a \/ Cardinality(a) >= j - 1)
    BY <1>3
  <2>2. b = G[a] /\ b \in SUBSET U /\ a \subseteq b
    BY <2>1
  <2>3. G[b] = b \/ Cardinality(b) >= j
    <3> HIDE DEF a, b
    <3>1. CASE G[a] = a
      BY <2>2, <3>1
    <3>2. CASE G[a] # a
      <4>1. Cardinality(a) >= j - 1 /\ a # b
        BY <2>1, <2>2, <3>2
      <4>2. IsFiniteSet(b) /\ a \in SUBSET b /\ Cardinality(a) \in Nat /\ Cardinality(b) \in Nat
        BY <1>1, <2>1, <2>2
      <4>3. Cardinality(a) <= Cardinality(b) /\ Cardinality(b) # Cardinality(a)
        BY <4>1, <4>2, FS_Subset
      <4> QED
        BY <4>1, <4>2, <4>3
    <3> QED
      BY <3>1, <3>2
  <2>4. j \in 0 .. n
    OBVIOUS
  <2> QED
    BY <2>1, <2>2, <2>3, <2>4
<1>4. n \in P
  <2> HIDE DEF P
  <2> QED
    BY <1>2, <1>3, Induction
<1>5. Sound(n) /\ (G[f[n]] = f[n] \/ Cardinality(f[n]) >= n)
  BY <1>4
<1>6. CASE Cardinality(f[n]) >= n
  <2>1. f[n] = U
    BY <1>1, <1>5, <1>6
  <2> QED
    BY <1>5, <2>1
<1> QED
  BY <1>5, <1>6

\* The blocks of a function jump within it.
JumpsWithin(blocks) == \A b \in DOMAIN blocks : Successors(blocks, b) \subseteq DOMAIN blocks

\* In one more step, y is reached from x.
StepOf(blocks, avoid, x, y) == y = x \cup ((UNION {Successors(blocks, b) : b \in x}) \ avoid)

\* What is reached after each step.
LEMMA ReachableSteps ==
  ASSUME NEW T, NEW blocks \in Seq(T), JumpsWithin(blocks),
         NEW seen \in SUBSET DOMAIN blocks, NEW avoid, NEW n, n = Len(blocks)
  PROVE  \E f : /\ f[0] = seen /\ f[n] = Reachable(blocks, seen, avoid)
                /\ \A j \in 1 .. n : StepOf(blocks, avoid, f[j - 1], f[j])
<1> DEFINE U == 1 .. n
           S == SUBSET U
           Next1(x) == (UNION {Successors(blocks, b) : b \in x}) \ avoid
           G == [x \in S |-> x \cup Next1(x)]
           After(f) == f = [k \in 0 .. n |-> IF k = 0 THEN seen ELSE f[k - 1] \cup Next1(f[k - 1])]
           F == [j \in 1 .. n |-> G]
<1>1. n \in Nat /\ U = DOMAIN blocks /\ seen \in S
  OBVIOUS
<1>2. Reachable(blocks, seen, avoid) = (CHOOSE f : After(f))[n]
  BY DEF Reachable
<1>3. ASSUME NEW x \in S PROVE Next1(x) \in S /\ G[x] = x \cup Next1(x) /\ G[x] \in S
  <2>1. Next1(x) \in S
    BY <1>1 DEF JumpsWithin
  <2> HIDE DEF Next1, S
  <2>2. G[x] = x \cup Next1(x)
    OBVIOUS
  <2> QED
    BY <2>1, <2>2 DEF S
<1> HIDE DEF U, S
<1>5. PICK g \in [0 .. n -> S] : Iterates(g, n, seen, F)
  <2>1. \A j \in 1 .. n : \A x \in S : F[j][x] \in S
    <3> HIDE DEF G
    <3> QED
      BY <1>3
  <2> HIDE DEF F
  <2> QED
    BY <1>1, <2>1, Recursion
<1>6. g[0] = seen /\ \A j \in 1 .. n : g[j] = g[j - 1] \cup Next1(g[j - 1])
  <2>1. ASSUME NEW j \in 1 .. n PROVE g[j] = G[g[j - 1]] /\ g[j - 1] \in S
    <3>1. j \in 1 .. n /\ j - 1 \in 0 .. n
      BY <1>1
    <3>2. g[j] = F[j][g[j - 1]]
      <4> HIDE DEF F
      <4> QED
        BY <1>5 DEF Iterates
    <3> HIDE DEF G
    <3> QED
      BY <1>5, <3>1, <3>2
  <2> HIDE DEF G, Next1, F
  <2> QED
    BY <1>3, <1>5, <2>1 DEF Iterates
<1>7. After(g)
  <2> HIDE DEF Next1
  <2>1. \A k \in 0 .. n : k = 0 \/ k \in 1 .. n
    BY <1>1
  <2>2. \A k \in 0 .. n : g[k] = IF k = 0 THEN seen ELSE g[k - 1] \cup Next1(g[k - 1])
    BY <1>6, <2>1
  <2> QED
    BY <1>5, <2>2
<1>8. PICK f : f = (CHOOSE h : After(h)) /\ After(f)
  <2> HIDE DEF After
  <2> QED
    BY <1>7
<1>9. f[0] = seen /\ \A j \in 1 .. n : f[j] = f[j - 1] \cup Next1(f[j - 1])
  <2> HIDE DEF Next1
  <2>1. \A k \in 0 .. n : f[k] = IF k = 0 THEN seen ELSE f[k - 1] \cup Next1(f[k - 1])
    BY <1>8
  <2>2. 0 \in 0 .. n /\ \A j \in 1 .. n : j \in 0 .. n /\ j # 0
    BY <1>1
  <2> QED
    BY <2>1, <2>2
<1> HIDE DEF G, After, F
<1>10. f[n] = Reachable(blocks, seen, avoid)
  BY <1>2, <1>8
<1>11. \A j \in 1 .. n : StepOf(blocks, avoid, f[j - 1], f[j])
  BY <1>9 DEF StepOf
<1> QED
  BY <1>9, <1>10, <1>11

\* What is reached contains where it starts, and is closed under the jumps that do
\* not enter what is avoided.
LEMMA ReachableClosed ==
  ASSUME NEW T, NEW blocks \in Seq(T), JumpsWithin(blocks),
         NEW seen \in SUBSET DOMAIN blocks, NEW avoid
  PROVE  LET R == Reachable(blocks, seen, avoid)
         IN  /\ seen \subseteq R /\ R \subseteq DOMAIN blocks
             /\ \A b \in R : Successors(blocks, b) \ avoid \subseteq R
<1>0. PICK n : n = Len(blocks)
  OBVIOUS
<1> DEFINE U == 1 .. n
           S == SUBSET U
           Next1(x) == (UNION {Successors(blocks, b) : b \in x}) \ avoid
           G == [x \in S |-> x \cup Next1(x)]
<1>1. n \in Nat /\ U = DOMAIN blocks /\ seen \in S /\ IsFiniteSet(U) /\ Cardinality(U) = n
  <2>1. n \in Nat /\ U = DOMAIN blocks /\ seen \in S
    BY <1>0
  <2>2. IsFiniteSet(U) /\ Cardinality(U) = n
    BY <2>1, FS_Interval
  <2> QED
    BY <2>1, <2>2
<1>3. ASSUME NEW x \in S PROVE Next1(x) \in S /\ G[x] = x \cup Next1(x) /\ G[x] \in S /\ x \subseteq G[x]
  <2>1. Next1(x) \in S
    BY <1>1 DEF JumpsWithin
  <2> HIDE DEF Next1, S
  <2>2. G[x] = x \cup Next1(x)
    OBVIOUS
  <2> QED
    BY <2>1, <2>2 DEF S
<1>4. G \in [S -> S]
  <2> HIDE DEF Next1, S
  <2>1. \A x \in S : x \cup Next1(x) \in S
    BY <1>3
  <2> QED
    BY <2>1
<1>8. PICK f : /\ f[0] = seen /\ f[n] = Reachable(blocks, seen, avoid)
               /\ \A j \in 1 .. n : StepOf(blocks, avoid, f[j - 1], f[j])
  BY <1>0, ReachableSteps
<1>9. f[0] = seen /\ \A j \in 1 .. n : f[j] = f[j - 1] \cup Next1(f[j - 1])
  BY <1>8 DEF StepOf
<1> HIDE DEF U, S, G, Next1
<1>10. ASSUME NEW j \in 1 .. n PROVE f[j] = G[f[j - 1]] /\ f[j] \in S
  <2> DEFINE P == {k \in 0 .. n : f[k] \in S}
  <2>1. 0 \in P
    BY <1>1, <1>9
  <2>2. ASSUME NEW i \in 1 .. n, i - 1 \in P PROVE i \in P /\ f[i] = G[f[i - 1]]
    <3>1. f[i - 1] \in S /\ i \in 0 .. n
      BY <1>1, <2>2
    <3> QED
      BY <1>3, <1>9, <3>1
  <2>3. \A i \in 0 .. n : i \in P
    <3> HIDE DEF P
    <3> QED
      BY <1>1, <2>1, <2>2, Induction
  <2>4. j - 1 \in 0 .. n /\ j \in 0 .. n
    BY <1>1
  <2> QED
    BY <2>2, <2>3, <2>4
<1>11. f[n] \in S /\ seen \subseteq f[n] /\ G[f[n]] = f[n]
  <2>1. f[0] \in SUBSET U /\ IsFiniteSet(U) /\ n \in Nat /\ n = Cardinality(U)
    BY <1>1, <1>9 DEF S
  <2>2. Grows(U, G)
    BY <1>3, <1>4 DEF Grows, S
  <2>3. Repeats(f, n, G)
    BY <1>10 DEF Repeats
  <2>4. f[n] \in SUBSET U /\ f[0] \subseteq f[n] /\ G[f[n]] = f[n]
    BY <2>1, <2>2, <2>3, Saturation
  <2> QED
    BY <1>9, <2>4 DEF S
<1>13. ASSUME NEW b \in f[n] PROVE Successors(blocks, b) \ avoid \subseteq f[n]
  <2>1. Next1(f[n]) \subseteq f[n]
    BY <1>3, <1>11
  <2> QED
    BY <2>1 DEF Next1
<1> QED
  BY <1>1, <1>8, <1>11, <1>13 DEF S

\* And it is the least such set.
LEMMA ReachableLeast ==
  ASSUME NEW T, NEW blocks \in Seq(T), JumpsWithin(blocks),
         NEW seen \in SUBSET DOMAIN blocks, NEW avoid,
         NEW Q, seen \subseteq Q, \A b \in Q : Successors(blocks, b) \ avoid \subseteq Q
  PROVE  Reachable(blocks, seen, avoid) \subseteq Q
<1>1. PICK n : n = Len(blocks) /\ n \in Nat
  OBVIOUS
<1>2. PICK f : /\ f[0] = seen /\ f[n] = Reachable(blocks, seen, avoid)
               /\ \A j \in 1 .. n : StepOf(blocks, avoid, f[j - 1], f[j])
  BY <1>1, ReachableSteps
<1> DEFINE P == {k \in 0 .. n : f[k] \subseteq Q}
<1>3. 0 \in P
  BY <1>1, <1>2
<1>4. ASSUME NEW j \in 1 .. n, j - 1 \in P PROVE j \in P
  <2>1. f[j - 1] \subseteq Q /\ j \in 0 .. n
    BY <1>1, <1>4
  <2>2. (UNION {Successors(blocks, b) : b \in f[j - 1]}) \ avoid \subseteq Q
    BY <2>1
  <2> QED
    BY <1>2, <2>1, <2>2 DEF StepOf
<1>5. \A k \in 0 .. n : k \in P
  <2> HIDE DEF P
  <2> QED
    BY <1>1, <1>3, <1>4, Induction
<1>6. n \in P
  BY <1>1, <1>5
<1> QED
  BY <1>2, <1>6

-----------------------------------------------------------------------------
(* Well-formed and verified code                                           *)

\* The instructions of well-formed code.
LEMMA InstrAt ==
  ASSUME NEW made, WellFormed(made), NEW b \in DOMAIN made.blocks, NEW k \in DOMAIN made.blocks[b]
  PROVE  /\ made.blocks[b][k] \in Instrs(made)
         /\ Targeted(made.blocks[b][k])
         /\ StoresToSlots(made.blocks, made.blocks[b][k])
         /\ FilledAtOnce(made.blocks[b], k)
<1> DEFINE A == Instrs(made)
<1>1. made.blocks \in Seq(Seq(A))
  BY DEF WellFormed
<1>2. made.blocks[b][k] \in A
  <2> HIDE DEF A
  <2>1. made.blocks[b] \in Seq(A)
    BY <1>1
  <2> QED
    BY <2>1
<1>3. Targeted(made.blocks[b][k]) /\ StoresToSlots(made.blocks, made.blocks[b][k]) /\ FilledAtOnce(made.blocks[b], k)
  BY DEF WellFormed
<1> QED
  BY <1>2, <1>3

\* The parts of an instruction.
LEMMA InstrParts ==
  ASSUME NEW made, NEW i \in Instrs(made)
  PROVE  /\ i.op \in {"alloca", "let", "store"} \cup Terminators
         /\ i.cell \in 0 .. made.cells
         /\ i.to \in Seq(DOMAIN made.blocks)
         /\ i.e.op \in Operators
         /\ i.e.l.cell \in 0 .. made.cells /\ i.e.r.cell \in 0 .. made.cells
         /\ Fits(i.e.l.val) /\ Fits(i.e.r.val)
<1> DEFINE C == 0 .. made.cells
           W == (-MaxInt - 1) .. MaxInt
           Ops == {"alloca", "let", "store"} \cup Terminators
           J == Seq(DOMAIN made.blocks)
           O == [cell : C, val : W]
           E == [op : Operators, l : O, r : O]
<1>1. i \in [op : Ops, cell : C, e : E, to : J]
  BY DEF Instrs
<1> HIDE DEF C, W, Ops, J
<1>2. i.op \in Ops /\ i.cell \in C /\ i.to \in J /\ i.e \in E
  BY <1>1
<1>3. i.e.op \in Operators /\ i.e.l \in O /\ i.e.r \in O
  BY <1>2
<1>4. i.e.l.cell \in C /\ i.e.r.cell \in C /\ i.e.l.val \in W /\ i.e.r.val \in W
  BY <1>3
<1> QED
  BY <1>2, <1>3, <1>4 DEF C, W, Ops, J, Fits

\* The last instruction of a closed block jumps to blocks of the function.
LEMMA ClosedJumpWithin ==
  ASSUME NEW made, WellFormed(made), \A b \in DOMAIN made.blocks : WellClosed(made.blocks[b])
  PROVE  /\ JumpsWithin(made.blocks)
         /\ \A b \in DOMAIN made.blocks :
              Len(made.blocks[b]) \in Nat /\ DOMAIN made.blocks[b] = 1 .. Len(made.blocks[b])
              /\ Len(made.blocks[b]) >= 1
<1> DEFINE A == Instrs(made)
<1>1. made.blocks \in Seq(Seq(A))
  BY DEF WellFormed
<1>2. ASSUME NEW b \in DOMAIN made.blocks
      PROVE  /\ Len(made.blocks[b]) \in Nat /\ DOMAIN made.blocks[b] = 1 .. Len(made.blocks[b])
             /\ Len(made.blocks[b]) >= 1
             /\ Successors(made.blocks, b) \subseteq DOMAIN made.blocks
  <2>1. made.blocks[b] \in Seq(A) /\ made.blocks[b] # <<>>
    <3> HIDE DEF A
    <3> QED
      BY <1>1 DEF WellClosed
  <2> HIDE DEF A
  <2>2. Len(made.blocks[b]) \in Nat /\ DOMAIN made.blocks[b] = 1 .. Len(made.blocks[b]) /\ Len(made.blocks[b]) >= 1
    BY <2>1
  <2>3. PICK k \in DOMAIN made.blocks[b] : k = Len(made.blocks[b])
    BY <2>2
  <2>4. made.blocks[b][k] \in Instrs(made)
    BY InstrAt
  <2>5. made.blocks[b][k].to \in Seq(DOMAIN made.blocks)
    BY <2>4, InstrParts
  <2>6. Successors(made.blocks, b) = {made.blocks[b][k].to[i] : i \in DOMAIN made.blocks[b][k].to}
    BY <2>3 DEF Successors
  <2> QED
    BY <2>2, <2>5, <2>6
<1> QED
  BY <1>2 DEF JumpsWithin

LEMMA JumpsStayWithin ==
  ASSUME NEW made, WellFormed(made), Verifies(made.blocks)
  PROVE  /\ JumpsWithin(made.blocks)
         /\ \A b \in DOMAIN made.blocks :
              Len(made.blocks[b]) \in Nat /\ DOMAIN made.blocks[b] = 1 .. Len(made.blocks[b])
              /\ Len(made.blocks[b]) >= 1
  BY ClosedJumpWithin DEF Verifies

\* Where a call stands.
LEMMA Standing ==
  ASSUME MInv, phase = "running"
  PROVE  /\ WellFormed(code) /\ Verifies(code.blocks) /\ CallInv
         /\ pc \in [block : DOMAIN code.blocks, index : Nat]
         /\ pc.index \in DOMAIN code.blocks[pc.block]
         /\ Current = code.blocks[pc.block][pc.index]
         /\ Current \in Instrs(code)
         /\ Targeted(Current)
         /\ StoresToSlots(code.blocks, Current)
         /\ Current.op \in Terminators <=> pc.index = Len(code.blocks[pc.block])
<1>1. WellFormed(code) /\ Verifies(code.blocks) /\ CallInv
  BY DEF MInv
<1>2. pc \in [block : DOMAIN code.blocks, index : Nat]
  BY DEF MInv, MachineTypeOK
<1>3. pc.block \in DOMAIN code.blocks /\ pc.index \in DOMAIN code.blocks[pc.block]
  BY <1>1, <1>2 DEF CallInv, Placed
<1>4. Current = code.blocks[pc.block][pc.index]
  BY DEF Current
<1>5. Current \in Instrs(code) /\ Targeted(Current) /\ StoresToSlots(code.blocks, Current)
  BY <1>1, <1>3, <1>4, InstrAt
<1>6. Current.op \in Terminators <=> pc.index = Len(code.blocks[pc.block])
  <2>1. WellClosed(code.blocks[pc.block])
    BY <1>1, <1>3 DEF Verifies
  <2> QED
    BY <1>3, <1>4, <2>1 DEF WellClosed
<1> QED
  BY <1>1, <1>2, <1>3, <1>4, <1>5, <1>6

\* A definition: where it is, and that what a slot is made for comes next.
LEMMA DefinitionAt ==
  ASSUME NEW made, WellFormed(made), NEW c, NEW d \in Definitions(made.blocks, c)
  PROVE  /\ d = <<d[1], d[2]>> /\ d[1] \in DOMAIN made.blocks /\ d[2] \in DOMAIN made.blocks[d[1]]
         /\ d[2] \in Nat /\ d[2] >= 1
         /\ made.blocks[d[1]][d[2]].op \in {"alloca", "let"} /\ made.blocks[d[1]][d[2]].cell = c
         /\ made.blocks[d[1]][d[2]].op = "alloca" =>
              /\ made.blocks[d[1]][d[2] + 1].op = "store" /\ made.blocks[d[1]][d[2] + 1].cell = c
              /\ c \notin {made.blocks[d[1]][d[2] + 1].e.l.cell, made.blocks[d[1]][d[2] + 1].e.r.cell}
<1>1. PICK b \in DOMAIN made.blocks : d \in {b} \X DOMAIN made.blocks[b]
  BY DEF Definitions
<1>2. d = <<d[1], d[2]>> /\ d[1] \in DOMAIN made.blocks /\ d[2] \in DOMAIN made.blocks[d[1]]
  BY <1>1
<1>3. made.blocks[d[1]][d[2]].op \in {"alloca", "let"} /\ made.blocks[d[1]][d[2]].cell = c
  BY DEF Definitions
<1>4. FilledAtOnce(made.blocks[d[1]], d[2])
  BY <1>2, InstrAt
<1>5. d[2] \in Nat /\ d[2] >= 1
  <2> DEFINE A == Instrs(made)
  <2>1. made.blocks \in Seq(Seq(A))
    BY DEF WellFormed
  <2> HIDE DEF A
  <2>2. made.blocks[d[1]] \in Seq(A)
    BY <1>2, <2>1
  <2> QED
    BY <1>2, <2>2
<1> QED
  BY <1>2, <1>3, <1>4, <1>5 DEF FilledAtOnce

-----------------------------------------------------------------------------
(* A call                                                                  *)

\* A call has executed the definition of each cell its instruction uses.
LEMMA UsesAreReady ==
  ASSUME MInv, phase = "running", NEW c \in CellsUsed(Current)
  PROVE  /\ c \in 0 .. code.cells
         /\ \E d \in Definitions(code.blocks, c) : Past(d) /\ Ready(c, d)
<1>1. /\ WellFormed(code) /\ Verifies(code.blocks) /\ CallInv
      /\ pc.index \in DOMAIN code.blocks[pc.block]
      /\ Current = code.blocks[pc.block][pc.index] /\ Current \in Instrs(code)
  BY Standing
<1>2. c \in 0 .. code.cells
  <2>1. Current.cell \in 0 .. code.cells /\ Current.e.l.cell \in 0 .. code.cells /\ Current.e.r.cell \in 0 .. code.cells
    BY <1>1, InstrParts
  <2> QED
    BY <2>1 DEF CellsUsed
<1>3. PICK d \in Definitions(code.blocks, c) :
        \/ d[1] = pc.block /\ d[2] < pc.index
        \/ d[1] # pc.block /\ pc.block \notin Around(code.blocks, d[1])
  <2>1. UsesDominated(code.blocks) /\ pc.block \in Reachable(code.blocks, {1}, {})
    BY <1>1 DEF Verifies, CallInv, Placed
  <2>2. c \in CellsUsed(code.blocks[pc.block][pc.index])
    BY <1>1
  <2> QED
    BY <1>1, <2>1, <2>2 DEF UsesDominated
<1>4. Past(d)
  <2>1. d[2] \in Nat /\ pc.index \in Nat
    BY <1>1, Standing, DefinitionAt
  <2> QED
    BY <1>3, <2>1 DEF Past
<1>5. Ready(c, d)
  BY <1>1, <1>2, <1>4 DEF CallInv
<1> QED
  BY <1>2, <1>4, <1>5

\* The invariant is what memory safety needs.
LEMMA SafeByInvariant ==
  ASSUME MInv
  PROVE  MemorySafe
<1> SUFFICES ASSUME phase = "running"
             PROVE  /\ {Current.e.l.cell, Current.e.r.cell} \ {0} \subseteq DOMAIN mem
                    /\ Current.op = "store" => Current.cell \in slots
  BY DEF MemorySafe
<1>1. /\ WellFormed(code) /\ CallInv /\ Current = code.blocks[pc.block][pc.index]
      /\ Targeted(Current) /\ StoresToSlots(code.blocks, Current)
  BY Standing
<1>2. ASSUME NEW c \in {Current.e.l.cell, Current.e.r.cell} \ {0} PROVE c \in DOMAIN mem
  <2>1. CASE c = 1
    BY <1>1, <2>1 DEF CallInv
  <2>2. CASE c # 1
    <3>1. c \in CellsUsed(Current)
      BY <1>2, <2>2 DEF CellsUsed
    <3>2. PICK d \in Definitions(code.blocks, c) : Ready(c, d)
      BY <3>1, UsesAreReady
    <3>3. CASE code.blocks[d[1]][d[2]].op = "alloca" /\ pc = [block |-> d[1], index |-> d[2] + 1]
      <4>1. Current = code.blocks[d[1]][d[2] + 1]
        BY <1>1, <3>3
      <4>2. c \notin {Current.e.l.cell, Current.e.r.cell}
        BY <1>1, <3>3, <4>1, DefinitionAt
      <4> QED
        BY <1>2, <4>2
    <3> QED
      BY <3>2, <3>3 DEF Ready
  <2> QED
    BY <2>1, <2>2
<1>3. ASSUME Current.op = "store" PROVE Current.cell \in slots
  <2>1. Current.cell \in CellsUsed(Current)
    BY <1>1, <1>3 DEF Targeted, CellsUsed
  <2>2. PICK d \in Definitions(code.blocks, Current.cell) : Ready(Current.cell, d)
    BY <2>1, UsesAreReady
  <2>3. code.blocks[d[1]][d[2]].op = "alloca"
    BY <1>1, <1>3 DEF StoresToSlots
  <2> QED
    BY <2>2, <2>3 DEF Ready
<1> QED
  BY <1>2, <1>3

\* What an instruction of a call computes fits.
LEMMA ComputedFits ==
  ASSUME MInv, phase = "running"
  PROVE  Fits(Computed(Current.e))
<1>1. /\ Current.e.op \in Operators
      /\ Fits(Current.e.l.val) /\ Fits(Current.e.r.val)
  BY Standing, InstrParts
<1>2. Fits(Load(Current.e.l)) /\ Fits(Load(Current.e.r))
  <2>1. {Current.e.l.cell, Current.e.r.cell} \ {0} \subseteq DOMAIN mem
    BY SafeByInvariant DEF MemorySafe
  <2>2. \A c \in DOMAIN mem : Fits(mem[c])
    BY DEF MInv, MachineTypeOK
  <2>3. Current.e.l.cell # 0 => Fits(mem[Current.e.l.cell])
    BY <2>1, <2>2
  <2>4. Current.e.r.cell # 0 => Fits(mem[Current.e.r.cell])
    BY <2>1, <2>2
  <2> QED
    BY <1>1, <2>3, <2>4 DEF Load
<1> QED
  BY <1>1, <1>2, NativeOpFits DEF Computed

\* A definition that a call is past after an instruction that is no jump it was past
\* before, or it is that instruction.
LEMMA PastAdvance ==
  ASSUME MInv, phase = "running", code' = code, Advance, NEW c,
         NEW d \in Definitions(code.blocks, c), Past(d)'
  PROVE  Past(d) \/ (d[1] = pc.block /\ d[2] = pc.index)
<1>1. /\ WellFormed(code) /\ pc \in [block : DOMAIN code.blocks, index : Nat]
  BY Standing
<1>2. pc'.block = pc.block /\ pc'.index = pc.index + 1 /\ pc.index \in Nat
  BY <1>1 DEF Advance
<1>3. d[2] \in Nat
  BY <1>1, DefinitionAt
<1>4. \/ pc.block = d[1] /\ pc.index + 1 > d[2]
      \/ pc.block # d[1] /\ pc.block \notin Around(code.blocks, d[1])
  BY <1>2 DEF Past
<1> QED
  BY <1>2, <1>3, <1>4 DEF Past

\* The instruction after one that is no jump is there.
LEMMA AdvancePlaced ==
  ASSUME MInv, phase = "running", code' = code, Advance, Current.op \notin Terminators
  PROVE  Placed' /\ pc' \in [block : DOMAIN code.blocks, index : Nat]
<1>1. /\ WellFormed(code) /\ Verifies(code.blocks) /\ CallInv
      /\ pc \in [block : DOMAIN code.blocks, index : Nat]
      /\ pc.index \in DOMAIN code.blocks[pc.block] /\ pc.index # Len(code.blocks[pc.block])
  BY Standing
<1>2. pc'.block = pc.block /\ pc'.index = pc.index + 1 /\ pc' \in [block : DOMAIN code.blocks, index : Nat]
  BY <1>1 DEF Advance
<1>3. DOMAIN code.blocks[pc.block] = 1 .. Len(code.blocks[pc.block]) /\ Len(code.blocks[pc.block]) \in Nat
  BY <1>1, JumpsStayWithin
<1>4. pc.index + 1 \in DOMAIN code.blocks[pc.block]
  BY <1>1, <1>3
<1>5. pc.block \in Reachable(code.blocks, {1}, {})
  BY <1>1 DEF CallInv, Placed
<1>6. pc'.block \in Reachable(code.blocks, {1}, {}) /\ pc'.index \in DOMAIN code.blocks[pc'.block]
  BY <1>2, <1>4, <1>5
<1> QED
  BY <1>2, <1>6 DEF Placed

\* An instruction that follows an alloca fills its slot.
LEMMA PendingStore ==
  ASSUME MInv, phase = "running", NEW c, NEW d \in Definitions(code.blocks, c), Ready(c, d), c \notin DOMAIN mem
  PROVE  Current.op = "store" /\ Current.cell = c
<1>1. WellFormed(code) /\ Current = code.blocks[pc.block][pc.index]
  BY Standing
<1>2. code.blocks[d[1]][d[2]].op = "alloca" /\ pc = [block |-> d[1], index |-> d[2] + 1]
  BY DEF Ready
<1>3. Current = code.blocks[d[1]][d[2] + 1]
  BY <1>1, <1>2
<1> QED
  BY <1>1, <1>2, <1>3, DefinitionAt

\* The definition at the instruction of a call is of its cell.
LEMMA DefinedHere ==
  ASSUME MInv, phase = "running", NEW c, NEW d \in Definitions(code.blocks, c),
         d[1] = pc.block, d[2] = pc.index
  PROVE  Current.op \in {"alloca", "let"} /\ Current.cell = c /\ Current = code.blocks[d[1]][d[2]]
<1>1. WellFormed(code) /\ Current = code.blocks[pc.block][pc.index]
  BY Standing
<1> QED
  BY <1>1, DefinitionAt

\* An alloca keeps what holds of a call.
LEMMA AllocaKeeps ==
  ASSUME MInv, ExecAlloca
  PROVE  CallInv'
<1>1. phase = "running" /\ Current.op = "alloca" /\ code' = code /\ Advance
  BY DEF ExecAlloca
<1>2. /\ WellFormed(code) /\ CallInv /\ Targeted(Current)
      /\ pc.block \in DOMAIN code.blocks /\ pc.index \in DOMAIN code.blocks[pc.block]
      /\ Current = code.blocks[pc.block][pc.index] /\ Current \in Instrs(code)
  BY <1>1, Standing
<1>3. slots' = slots \cup {Current.cell} /\ DOMAIN mem' = DOMAIN mem \ {Current.cell}
  BY DEF ExecAlloca
<1>4. Placed'
  BY <1>1, AdvancePlaced DEF Terminators
<1>5. (1 \in DOMAIN mem)'
  BY <1>1, <1>2, <1>3 DEF CallInv, Targeted
<1>6. ASSUME NEW c \in 0 .. code.cells, NEW d \in Definitions(code.blocks, c), Past(d)'
      PROVE  Ready(c, d)'
  <2>1. CASE d[1] = pc.block /\ d[2] = pc.index
    <3>1. Current.cell = c /\ Current = code.blocks[d[1]][d[2]]
      BY <1>1, <2>1, DefinedHere
    <3>2. pc' = [block |-> d[1], index |-> d[2] + 1]
      <4>1. pc = [block |-> pc.block, index |-> pc.index]
        BY <1>1, Standing
      <4> QED
        BY <1>1, <2>1, <4>1 DEF Advance
    <3> QED
      BY <1>1, <1>3, <3>1, <3>2 DEF Ready
  <2>2. CASE ~(d[1] = pc.block /\ d[2] = pc.index)
    <3>1. Past(d)
      BY <1>1, <1>6, <2>2, PastAdvance
    <3>2. Ready(c, d)
      BY <1>2, <3>1 DEF CallInv
    <3>3. c \in DOMAIN mem
      BY <1>1, <3>2, PendingStore
    <3>4. c # Current.cell
      <4>1. ASSUME c = Current.cell PROVE FALSE
        <5>1. <<pc.block, pc.index>> \in Definitions(code.blocks, c)
          BY <1>1, <1>2, <4>1 DEF Definitions
        <5>2. DefinedOnce(code.blocks, c)
          BY <1>2 DEF WellFormed
        <5>3. d = <<pc.block, pc.index>>
          BY <5>1, <5>2 DEF DefinedOnce
        <5> QED
          BY <2>2, <5>3
      <4> QED
        BY <4>1
    <3>5. c \in DOMAIN mem'
      BY <1>3, <3>3, <3>4
    <3>6. code.blocks[d[1]][d[2]].op = "alloca" => c \in slots'
      BY <1>3, <3>2 DEF Ready
    <3> QED
      BY <1>1, <3>5, <3>6 DEF Ready
  <2> QED
    BY <2>1, <2>2
<1> QED
  BY <1>1, <1>4, <1>5, <1>6 DEF CallInv

\* A write keeps what holds of a call.
LEMMA WriteKeeps ==
  ASSUME MInv, ExecWrite
  PROVE  CallInv'
<1>1. phase = "running" /\ Current.op \in {"let", "store"} /\ code' = code /\ slots' = slots /\ Advance
  BY DEF ExecWrite
<1>2. WellFormed(code) /\ CallInv
  BY <1>1, Standing
<1>3. DOMAIN mem' = DOMAIN mem \cup {Current.cell}
  BY DEF ExecWrite, Written
<1>4. Placed'
  BY <1>1, AdvancePlaced DEF Terminators
<1>5. (1 \in DOMAIN mem)'
  BY <1>2, <1>3 DEF CallInv
<1>6. ASSUME NEW c \in 0 .. code.cells, NEW d \in Definitions(code.blocks, c), Past(d)'
      PROVE  Ready(c, d)'
  <2>1. CASE d[1] = pc.block /\ d[2] = pc.index
    <3>1. Current.op = "let" /\ Current.cell = c /\ Current = code.blocks[d[1]][d[2]]
      BY <1>1, <2>1, DefinedHere
    <3> QED
      BY <1>1, <1>3, <3>1 DEF Ready
  <2>2. CASE ~(d[1] = pc.block /\ d[2] = pc.index)
    <3>1. Past(d)
      BY <1>1, <1>6, <2>2, PastAdvance
    <3>2. Ready(c, d)
      BY <1>2, <3>1 DEF CallInv
    <3>3. c \in DOMAIN mem'
      BY <1>1, <1>3, <3>2, PendingStore
    <3>4. code.blocks[d[1]][d[2]].op = "alloca" => c \in slots'
      BY <1>1, <3>2 DEF Ready
    <3> QED
      BY <1>1, <3>3, <3>4 DEF Ready
  <2> QED
    BY <2>1, <2>2
<1> QED
  BY <1>1, <1>4, <1>5, <1>6 DEF CallInv

\* A jump goes to a successor.
LEMMA BranchTarget ==
  ASSUME MInv, ExecBranch
  PROVE  /\ pc'.block \in Successors(code.blocks, pc.block) /\ pc'.index = 1
         /\ pc' \in [block : DOMAIN code.blocks, index : Nat]
<1>1. phase = "running" /\ Current.op \in {"br", "cbr"}
  BY DEF ExecBranch
<1>2. /\ WellFormed(code) /\ Targeted(Current) /\ Current \in Instrs(code)
      /\ Current = code.blocks[pc.block][pc.index]
      /\ pc.index = Len(code.blocks[pc.block])
  BY <1>1, Standing DEF Terminators
<1>3. Successors(code.blocks, pc.block) = {Current.to[i] : i \in DOMAIN Current.to}
  BY <1>2 DEF Successors
<1>4. Current.to \in Seq(DOMAIN code.blocks)
  BY <1>2, InstrParts
<1>5. (Current.op = "br" => Len(Current.to) = 1) /\ (Current.op = "cbr" => Len(Current.to) = 2)
  BY <1>2 DEF Targeted
<1>6. PICK i \in DOMAIN Current.to : pc' = [block |-> Current.to[i], index |-> 1]
  <2>1. CASE Current.op = "br" \/ Computed(Current.e) # 0
    <3>1. pc' = [block |-> Current.to[1], index |-> 1]
      BY <2>1 DEF ExecBranch, Goto
    <3>2. 1 \in DOMAIN Current.to
      BY <1>1, <1>4, <1>5
    <3> QED
      BY <3>1, <3>2
  <2>2. CASE ~(Current.op = "br" \/ Computed(Current.e) # 0)
    <3>1. pc' = [block |-> Current.to[2], index |-> 1]
      BY <2>2 DEF ExecBranch, Goto
    <3>2. 2 \in DOMAIN Current.to
      BY <1>1, <1>4, <1>5, <2>2
    <3> QED
      BY <3>1, <3>2
  <2> QED
    BY <2>1, <2>2
<1>7. Current.to[i] \in DOMAIN code.blocks
  BY <1>4, <1>6
<1> QED
  BY <1>3, <1>6, <1>7

\* What is not passed by before a jump is not passed by after it.
LEMMA PastBranch ==
  ASSUME MInv, phase = "running", ExecBranch, NEW c, NEW d \in Definitions(code.blocks, c), Past(d)'
  PROVE  Past(d)
<1>1. /\ WellFormed(code) /\ Verifies(code.blocks)
      /\ pc \in [block : DOMAIN code.blocks, index : Nat]
      /\ Current = code.blocks[pc.block][pc.index]
      /\ Current.op \in Terminators <=> pc.index = Len(code.blocks[pc.block])
      /\ code' = code /\ Current.op \in Terminators
  BY Standing DEF ExecBranch, Terminators
<1>2. /\ d[1] \in DOMAIN code.blocks /\ d[2] \in DOMAIN code.blocks[d[1]] /\ d[2] \in Nat /\ d[2] >= 1
      /\ code.blocks[d[1]][d[2]].op \in {"alloca", "let"}
  BY <1>1, DefinitionAt
<1>3. pc'.block \in Successors(code.blocks, pc.block) /\ pc'.index = 1
  BY BranchTarget
<1>4. pc'.block # d[1] /\ pc'.block \notin Around(code.blocks, d[1])
  BY <1>1, <1>2, <1>3 DEF Past
<1>5. CASE pc.block = d[1]
  <2>1. DOMAIN code.blocks[d[1]] = 1 .. Len(code.blocks[d[1]]) /\ Len(code.blocks[d[1]]) \in Nat
    BY <1>1, <1>2, JumpsStayWithin
  <2>2. d[2] # pc.index
    BY <1>1, <1>2, <1>5 DEF Terminators
  <2>3. pc.index > d[2]
    BY <1>1, <1>2, <1>5, <2>1, <2>2
  <2> QED
    BY <1>5, <2>3 DEF Past
<1>6. CASE pc.block # d[1]
  <2> DEFINE seen == {1} \ {d[1]}
             A == Instrs(code)
  <2>1. code.blocks \in Seq(Seq(A)) /\ code.blocks # <<>>
    BY <1>1 DEF WellFormed
  <2>2. JumpsWithin(code.blocks)
    BY <1>1, JumpsStayWithin
  <2>3. seen \in SUBSET DOMAIN code.blocks
    <3> HIDE DEF A
    <3> QED
      BY <2>1
  <2>4. \A b \in Reachable(code.blocks, seen, {d[1]}) :
          Successors(code.blocks, b) \ {d[1]} \subseteq Reachable(code.blocks, seen, {d[1]})
    <3> HIDE DEF A, seen
    <3> QED
      BY <2>1, <2>2, <2>3, ReachableClosed
  <2>5. pc.block \notin Around(code.blocks, d[1])
    BY <1>3, <1>4, <2>4 DEF Around
  <2> QED
    BY <1>6, <2>5 DEF Past
<1> QED
  BY <1>5, <1>6

\* A jump keeps what holds of a call.
LEMMA BranchKeeps ==
  ASSUME MInv, ExecBranch
  PROVE  CallInv'
<1>1. /\ phase = "running" /\ Current.op \in {"br", "cbr"}
      /\ code' = code /\ slots' = slots /\ mem' = mem
  BY DEF ExecBranch
<1>2. WellFormed(code) /\ Verifies(code.blocks) /\ CallInv
  BY <1>1, Standing
<1>3. /\ pc'.block \in Successors(code.blocks, pc.block) /\ pc'.index = 1
      /\ pc' \in [block : DOMAIN code.blocks, index : Nat]
  BY BranchTarget
<1>4. Placed'
  <2> DEFINE A == Instrs(code)
  <2>1. code.blocks \in Seq(Seq(A)) /\ code.blocks # <<>>
    BY <1>2 DEF WellFormed
  <2> HIDE DEF A
  <2>2. JumpsWithin(code.blocks)
    BY <1>2, JumpsStayWithin
  <2>3. {1} \in SUBSET DOMAIN code.blocks
    BY <2>1
  <2>4. \A b \in Reachable(code.blocks, {1}, {}) : Successors(code.blocks, b) \ {} \subseteq Reachable(code.blocks, {1}, {})
    BY <2>1, <2>2, <2>3, ReachableClosed
  <2>5. pc'.block \in Reachable(code.blocks, {1}, {})
    BY <1>2, <1>3, <2>4 DEF CallInv, Placed
  <2>6. pc'.block \in DOMAIN code.blocks
    BY <1>3
  <2>7. pc'.index \in DOMAIN code.blocks[pc'.block]
    BY <1>2, <1>3, <2>6, JumpsStayWithin
  <2> QED
    BY <1>1, <2>5, <2>7 DEF Placed
<1>5. ASSUME NEW c \in 0 .. code.cells, NEW d \in Definitions(code.blocks, c), Past(d)'
      PROVE  Ready(c, d)'
  <2>1. Past(d)
    BY <1>1, <1>5, PastBranch
  <2>2. Ready(c, d)
    BY <1>2, <2>1 DEF CallInv
  <2>3. c \in DOMAIN mem
    BY <1>1, <2>2, PendingStore
  <2> QED
    BY <1>1, <2>2, <2>3 DEF Ready
<1> QED
  BY <1>1, <1>2, <1>4, <1>5 DEF CallInv

\* The call begins at the first block, past no definition.
LEMMA EnterBegins ==
  ASSUME MInv, NEW n \in Inputs, Enter(n)
  PROVE  CallInv'
<1>1. /\ phase = "ready" /\ code' = code /\ pc' = pc /\ slots' = slots /\ mem' = [c \in {1} |-> n]
  BY DEF Enter
<1>2. WellFormed(code) /\ Verifies(code.blocks) /\ pc = [block |-> 1, index |-> 1]
  BY <1>1 DEF MInv
<1> DEFINE A == Instrs(code)
<1>3. code.blocks \in Seq(Seq(A)) /\ code.blocks # <<>>
  BY <1>2 DEF WellFormed
<1> HIDE DEF A
<1>4. 1 \in DOMAIN code.blocks /\ JumpsWithin(code.blocks)
  BY <1>2, <1>3, JumpsStayWithin
<1>5. 1 \in DOMAIN code.blocks[1]
  BY <1>2, <1>4, JumpsStayWithin
<1>6. ASSUME NEW seen \in SUBSET DOMAIN code.blocks, NEW avoid
      PROVE  seen \subseteq Reachable(code.blocks, seen, avoid)
  BY <1>3, <1>4, ReachableClosed
<1>7. Placed'
  <2>1. 1 \in Reachable(code.blocks, {1}, {})
    BY <1>4, <1>6
  <2> QED
    BY <1>1, <1>2, <1>5, <2>1 DEF Placed
<1>8. ASSUME NEW c \in 0 .. code.cells, NEW d \in Definitions(code.blocks, c), Past(d)' PROVE FALSE
  <2>1. d[2] \in Nat /\ d[2] >= 1
    BY <1>2, DefinitionAt
  <2>2. CASE d[1] = 1
    <3>1. pc'.block = 1 /\ pc'.index = 1
      BY <1>1, <1>2
    <3> QED
      BY <1>8, <2>1, <2>2, <3>1 DEF Past
  <2>3. CASE d[1] # 1
    <3>1. 1 \in Around(code.blocks, d[1])
      <4>1. {1} \ {d[1]} \in SUBSET DOMAIN code.blocks /\ 1 \in {1} \ {d[1]}
        BY <1>4, <2>3
      <4> QED
        BY <1>6, <4>1 DEF Around
    <3>2. pc'.block = 1 /\ code' = code
      BY <1>1, <1>2
    <3> QED
      BY <1>8, <2>3, <3>1, <3>2 DEF Past
  <2> QED
    BY <2>2, <2>3
<1> QED
  BY <1>1, <1>7, <1>8 DEF CallInv

-----------------------------------------------------------------------------
(* The invariant                                                           *)

\* The state stays well formed while a call runs.
LEMMA ExecTyped ==
  ASSUME MInv, Exec
  PROVE  MachineTypeOK'
<1>1. MachineTypeOK /\ phase = "running"
  BY DEF MInv, Exec, ExecAlloca, ExecWrite, ExecBranch, ExecReturn, ExecTrap
<1>2. /\ WellFormed(code) /\ Targeted(Current) /\ Current \in Instrs(code)
      /\ pc \in [block : DOMAIN code.blocks, index : Nat]
  BY <1>1, Standing
<1>3. Current.cell \in 0 .. code.cells
  BY <1>2, InstrParts
<1>4. code.cells \in Nat
  BY <1>2 DEF WellFormed
<1>5. ASSUME Current.op \in {"alloca", "let", "store"} PROVE Current.cell \in 1 .. code.cells
  BY <1>2, <1>3, <1>4, <1>5 DEF Targeted
<1>6. CASE ExecAlloca
  <2>1. /\ Current.op = "alloca" /\ Advance /\ UNCHANGED <<phase, code, input, result>>
        /\ slots' = slots \cup {Current.cell} /\ mem' = [c \in DOMAIN mem \ {Current.cell} |-> mem[c]]
    BY <1>6 DEF ExecAlloca
  <2>2. Placed' /\ pc' \in [block : DOMAIN code.blocks, index : Nat]
    BY <1>1, <2>1, AdvancePlaced DEF Terminators
  <2>3. slots' \subseteq 1 .. code.cells /\ DOMAIN mem' \subseteq 1 .. code.cells /\ \A c \in DOMAIN mem' : Fits(mem'[c])
    BY <1>1, <1>5, <2>1 DEF MachineTypeOK
  <2> QED
    BY <1>1, <2>1, <2>2, <2>3 DEF MachineTypeOK, Placed
<1>7. CASE ExecWrite
  <2>1. /\ Current.op \in {"let", "store"} /\ Advance /\ UNCHANGED <<phase, code, input, slots, result>>
        /\ mem' = [d \in DOMAIN mem \cup {Current.cell} |-> IF d = Current.cell THEN Computed(Current.e) ELSE mem[d]]
    BY <1>7 DEF ExecWrite, Written
  <2>2. Placed' /\ pc' \in [block : DOMAIN code.blocks, index : Nat]
    BY <1>1, <2>1, AdvancePlaced DEF Terminators
  <2>3. Fits(Computed(Current.e))
    BY <1>1, ComputedFits
  <2>4. DOMAIN mem' \subseteq 1 .. code.cells /\ \A c \in DOMAIN mem' : Fits(mem'[c])
    BY <1>1, <1>5, <2>1, <2>3 DEF MachineTypeOK
  <2> QED
    BY <1>1, <2>1, <2>2, <2>4 DEF MachineTypeOK, Placed
<1>8. CASE ExecBranch
  <2>1. UNCHANGED <<phase, code, input, slots, mem, result>>
    BY <1>8 DEF ExecBranch
  <2>2. pc'.index = 1 /\ pc' \in [block : DOMAIN code.blocks, index : Nat]
    BY <1>8, BranchTarget
  <2> QED
    BY <1>1, <2>1, <2>2 DEF MachineTypeOK
<1>9. CASE ExecReturn
  <2>1. phase' = "returned" /\ result' = Computed(Current.e) /\ UNCHANGED <<code, input, pc, slots, mem>>
    BY <1>9 DEF ExecReturn
  <2>2. Fits(Computed(Current.e))
    BY <1>1, ComputedFits
  <2> QED
    BY <1>1, <2>1, <2>2 DEF MachineTypeOK
<1>10. CASE ExecTrap
  <2>1. phase' = "trapped" /\ UNCHANGED <<code, input, pc, slots, mem, result>>
    BY <1>10 DEF ExecTrap
  <2> QED
    BY <1>1, <2>1 DEF MachineTypeOK
<1> QED
  BY <1>6, <1>7, <1>8, <1>9, <1>10 DEF Exec

\* Every step keeps the invariant.
LEMMA MachineStep ==
  ASSUME MInv, [MachineNext]_machine
  PROVE  MInv'
<1>1. CASE Emit
  <2>1. /\ phase = "codegen" /\ phase' = "verify" /\ WellFormed(code')
        /\ UNCHANGED <<input, pc, slots, mem, result>>
    BY <1>1 DEF Emit
  <2>2. pc = [block |-> 1, index |-> 1] /\ slots = {} /\ DOMAIN mem = {} /\ MachineTypeOK
    BY <2>1 DEF MInv
  <2> DEFINE A == Instrs(code')
  <2>3. code'.blocks \in Seq(Seq(A)) /\ code'.blocks # <<>>
    BY <2>1 DEF WellFormed
  <2> HIDE DEF A
  <2>4. 1 \in DOMAIN code'.blocks
    BY <2>3
  <2>5. MachineTypeOK'
    BY <2>1, <2>2, <2>4 DEF MachineTypeOK
  <2> QED
    BY <2>1, <2>2, <2>5 DEF MInv
<1>2. CASE Verify
  <2>1. /\ phase = "verify" /\ phase' = (IF Verifies(code.blocks) THEN "ready" ELSE "verify_failed")
        /\ UNCHANGED <<code, input, pc, slots, mem, result>>
    BY <1>2 DEF Verify
  <2>2. WellFormed(code) /\ pc = [block |-> 1, index |-> 1] /\ slots = {} /\ DOMAIN mem = {} /\ MachineTypeOK
    BY <2>1 DEF MInv
  <2>3. MachineTypeOK'
    BY <2>1, <2>2 DEF MachineTypeOK
  <2> QED
    BY <2>1, <2>2, <2>3 DEF MInv
<1>3. ASSUME NEW n \in Inputs, Enter(n) PROVE MInv'
  <2>1. /\ phase = "ready" /\ phase' = "running" /\ input' = n /\ mem' = [c \in {1} |-> n]
        /\ UNCHANGED <<code, pc, slots, result>>
    BY <1>3 DEF Enter
  <2>2. WellFormed(code) /\ Verifies(code.blocks) /\ MachineTypeOK
    BY <2>1 DEF MInv
  <2>3. DOMAIN mem' \subseteq 1 .. code.cells /\ \A c \in DOMAIN mem' : Fits(mem'[c])
    BY <2>1, <2>2, InputsAssumption DEF WellFormed
  <2>4. MachineTypeOK'
    BY <2>1, <2>2, <2>3 DEF MachineTypeOK
  <2>5. CallInv'
    BY <1>3, EnterBegins
  <2> QED
    BY <2>1, <2>2, <2>4, <2>5 DEF MInv
<1>4. CASE Exec
  <2>1. phase = "running" /\ code' = code /\ phase' \in {"running", "returned", "trapped"}
    BY <1>4 DEF Exec, ExecAlloca, ExecWrite, ExecBranch, ExecReturn, ExecTrap
  <2>2. WellFormed(code) /\ Verifies(code.blocks)
    BY <2>1, Standing
  <2>3. MachineTypeOK'
    BY <1>4, ExecTyped
  <2>4. phase' = "running" => CallInv'
    <3>1. phase' = "running" => ExecAlloca \/ ExecWrite \/ ExecBranch
      BY <1>4 DEF Exec, ExecReturn, ExecTrap
    <3> QED
      BY <3>1, AllocaKeeps, WriteKeeps, BranchKeeps
  <2> QED
    BY <2>1, <2>2, <2>3, <2>4 DEF MInv
<1>5. CASE Prepare
  <2>1. /\ phase \in {"infer", "codegen"} /\ phase' \in {"codegen", "infer_failed", "codegen_failed"}
        /\ UNCHANGED <<code, input, pc, slots, mem, result>>
    BY <1>5 DEF Prepare
  <2>2. MachineTypeOK'
    BY <2>1 DEF MInv, MachineTypeOK
  <2> QED
    BY <2>1, <2>2 DEF MInv
<1>6. CASE UNCHANGED machine
  <2>1. UNCHANGED <<phase, code, input, pc, slots, mem, result>>
    BY <1>6 DEF machine
  <2>2. MachineTypeOK' /\ (CallInv => CallInv')
    BY <2>1 DEF MInv, MachineTypeOK, CallInv, Placed, Past, Ready
  <2> QED
    BY <2>1, <2>2 DEF MInv
<1> QED
  BY <1>1, <1>2, <1>3, <1>4, <1>5, <1>6 DEF MachineNext

\* The machine starts in it.
LEMMA MachineStarts ==
  ASSUME MachineInit
  PROVE  MInv
<1>1. /\ phase = "infer" /\ code = [blocks |-> << <<>> >>, cells |-> 1] /\ input = 0
      /\ pc = [block |-> 1, index |-> 1] /\ slots = {} /\ mem = [c \in {} |-> 0] /\ result = 0
  BY DEF MachineInit, NotCalled
<1>2. DOMAIN mem = {} /\ Fits(0) /\ 1 \in DOMAIN code.blocks
  BY <1>1, WidthAssumption DEF Fits
<1>3. MachineTypeOK
  BY <1>1, <1>2 DEF MachineTypeOK
<1> QED
  BY <1>1, <1>2, <1>3 DEF MInv

LEMMA MachineInvariant == MachineSpec => []MInv
<1>1. MachineInit => MInv
  BY MachineStarts
<1>2. MInv /\ [MachineNext]_machine => MInv'
  BY MachineStep
<1> QED
  BY <1>1, <1>2, PTL DEF MachineSpec

\* Whatever a builder makes of typed instructions, the state of the machine is well
\* formed and every value in it fits the width of the native int.
THEOREM ValuesFit == MachineSpec => []MachineTypeOK
<1>1. MInv => MachineTypeOK
  BY DEF MInv
<1> QED
  BY <1>1, MachineInvariant, PTL

\* What the LLVM verifier lets through only reads cells that were written and only
\* stores to slots that were allocated, on every path and for every argument.
THEOREM VerifiedCodeIsMemorySafe == MachineSpec => []MemorySafe
<1>1. MInv => MemorySafe
  BY SafeByInvariant
<1> QED
  BY <1>1, MachineInvariant, PTL
=============================================================================
