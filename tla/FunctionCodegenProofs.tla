------------------------- MODULE FunctionCodegenProofs -------------------------
(***************************************************************************)
(* The code generator is a builder of BlockMachine, whatever functions it  *)
(* is given, whatever type inference lets through and whatever Python      *)
(* does: so what it compiles is memory safe, keeps the width of its ints   *)
(* and, for functions with hoisted assignments and no for in a loop, keeps *)
(* its stack bounded.  A plain function is always compiled.                *)
(*                                                                         *)
(* The blocks stay well formed under whatever is appended to the block at  *)
(* work, which the emitters below in the stack of frames rely on.  A slot  *)
(* is allocated once because its block is never jumped to again.  It is    *)
(* defined where it is used because its block is one of those that every   *)
(* path to the use passes, which each frame keeps of the block it goes on  *)
(* in.                                                                     *)
(***************************************************************************)
EXTENDS FunctionCodegen, BlockMachineProofs

-----------------------------------------------------------------------------
(* Sequences and instructions                                              *)

\* Sequences over a larger set.
LEMMA SeqGrows ==
  ASSUME NEW S, NEW T, S \subseteq T, NEW s \in Seq(S)
  PROVE  s \in Seq(T)
  OBVIOUS

LEMMA Appending ==
  ASSUME NEW T, NEW a \in Seq(T), NEW s \in Seq(T)
  PROVE  /\ a \o s \in Seq(T)
         /\ Len(a) \in Nat /\ Len(s) \in Nat /\ Len(a \o s) = Len(a) + Len(s)
         /\ DOMAIN a = 1 .. Len(a) /\ DOMAIN s = 1 .. Len(s) /\ DOMAIN (a \o s) = 1 .. (Len(a) + Len(s))
         /\ \A k \in 1 .. Len(a) : (a \o s)[k] = a[k]
         /\ \A k \in 1 .. Len(s) : (a \o s)[Len(a) + k] = s[k]
  OBVIOUS

LEMMA Replacing ==
  ASSUME NEW T, NEW a \in Seq(T), NEW i \in DOMAIN a, NEW t \in T
  PROVE  /\ [a EXCEPT ![i] = t] \in Seq(T)
         /\ DOMAIN [a EXCEPT ![i] = t] = DOMAIN a /\ Len([a EXCEPT ![i] = t]) = Len(a)
  OBVIOUS

LEMMA InDefinitions ==
  ASSUME NEW blocks, NEW c
  PROVE  /\ \A b \in DOMAIN blocks : \A k \in DOMAIN blocks[b] :
              <<b, k>> \in Definitions(blocks, c) <=>
                blocks[b][k].op \in {"alloca", "let"} /\ blocks[b][k].cell = c
         /\ \A d \in Definitions(blocks, c) :
              d = <<d[1], d[2]>> /\ d[1] \in DOMAIN blocks /\ d[2] \in DOMAIN blocks[d[1]]
              /\ blocks[d[1]][d[2]].op \in {"alloca", "let"} /\ blocks[d[1]][d[2]].cell = c
<1>1. ASSUME NEW b \in DOMAIN blocks, NEW k \in DOMAIN blocks[b]
      PROVE  <<b, k>> \in UNION {{x} \X DOMAIN blocks[x] : x \in DOMAIN blocks}
  OBVIOUS
<1>2. ASSUME NEW b \in DOMAIN blocks, NEW k \in DOMAIN blocks[b]
      PROVE <<b, k>> \in Definitions(blocks, c) <=>
                blocks[b][k].op \in {"alloca", "let"} /\ blocks[b][k].cell = c
  BY <1>1 DEF Definitions
<1>3. ASSUME NEW d \in Definitions(blocks, c)
      PROVE  d = <<d[1], d[2]>> /\ d[1] \in DOMAIN blocks /\ d[2] \in DOMAIN blocks[d[1]]
              /\ blocks[d[1]][d[2]].op \in {"alloca", "let"} /\ blocks[d[1]][d[2]].cell = c
  <2>1. PICK b \in DOMAIN blocks : d \in {b} \X DOMAIN blocks[b]
    BY DEF Definitions
  <2> QED
    BY <2>1 DEF Definitions
<1> QED
  BY <1>2, <1>3

\* Whatever an instruction of g is made of is there in h too.
Larger(g, h) ==
  /\ g.cells \in Nat /\ h.cells \in Nat /\ g.cells <= h.cells
  /\ DOMAIN g.blocks \subseteq DOMAIN h.blocks

LEMMA InstrsGrow ==
  ASSUME NEW g, NEW h, Larger(g, h)
  PROVE  Instrs(g) \subseteq Instrs(h)
<1> DEFINE W == (-MaxInt - 1) .. MaxInt
           Ops == {"alloca", "let", "store"} \cup Terminators
           O(x) == [cell : 0 .. x.cells, val : W]
           E(x) == [op : Operators, l : O(x), r : O(x)]
           I(x) == [op : Ops, cell : 0 .. x.cells, e : E(x), to : Seq(DOMAIN x.blocks)]
<1>1. Instrs(g) = I(g) /\ Instrs(h) = I(h)
  BY DEF Instrs
<1>2. 0 .. g.cells \subseteq 0 .. h.cells
  BY DEF Larger
<1> HIDE DEF W, Ops
<1>3. O(g) \subseteq O(h)
  BY <1>2
<1>4. E(g) \subseteq E(h)
  BY <1>3
<1>5. Seq(DOMAIN g.blocks) \subseteq Seq(DOMAIN h.blocks)
  BY SeqGrows DEF Larger
<1> HIDE DEF E, O
<1>6. I(g) \subseteq I(h)
  BY <1>2, <1>4, <1>5
<1> QED
  BY <1>1, <1>6

-----------------------------------------------------------------------------
(* Appending to a block                                                    *)

Defines(i) == i.op \in {"alloca", "let"}

\* Every definition of cell c is an alloca.
IsSlot(g, c) ==
  /\ c \in 2 .. g.cells
  /\ \A b \in DOMAIN g.blocks : \A k \in DOMAIN g.blocks[b] :
       Defines(g.blocks[b][k]) /\ g.blocks[b][k].cell = c => g.blocks[b][k].op = "alloca"

\* The instructions s may follow those of g: their results are new, and they store
\* to slots.
Follows(g, s) ==
  /\ \A k \in DOMAIN s :
       /\ Targeted(s[k]) /\ FilledAtOnce(s, k)
       /\ Defines(s[k]) => s[k].cell > g.cells
       /\ s[k].op = "store" =>
            \/ IsSlot(g, s[k].cell)
            \/ \E j \in DOMAIN s : s[j].op = "alloca" /\ s[j].cell = s[k].cell
  /\ \A j, k \in DOMAIN s : Defines(s[j]) /\ Defines(s[k]) /\ s[j].cell = s[k].cell => j = k

\* The blocks of g with the instructions s at the end of its own.
Lengthened(g, s) == [g.blocks EXCEPT ![g.at] = g.blocks[g.at] \o s]

\* h is g with the instructions s at the end of its block.
Appended(g, s, h) ==
  /\ Larger(g, h) /\ s \in Seq(Instrs(h))
  /\ g.at \in DOMAIN g.blocks
  /\ h.blocks = Lengthened(g, s)

\* Instruction k of block b of h is one of g, or instruction k - Len(..) of s.
LEMMA AppendedAt ==
  ASSUME NEW g, NEW s, NEW h, WellFormed(g), Appended(g, s, h)
  PROVE  /\ h.blocks \in Seq(Seq(Instrs(h))) /\ DOMAIN h.blocks = DOMAIN g.blocks
         /\ \A b \in DOMAIN g.blocks : \A k \in DOMAIN g.blocks[b] :
              k \in DOMAIN h.blocks[b] /\ h.blocks[b][k] = g.blocks[b][k]
         /\ Len(g.blocks[g.at]) \in Nat
         /\ \A j \in DOMAIN s : /\ Len(g.blocks[g.at]) + j \in DOMAIN h.blocks[g.at]
                                /\ h.blocks[g.at][Len(g.blocks[g.at]) + j] = s[j]
         /\ \A b \in DOMAIN h.blocks : \A k \in DOMAIN h.blocks[b] :
              \/ k \in DOMAIN g.blocks[b]
              \/ b = g.at /\ \E j \in DOMAIN s : k = Len(g.blocks[g.at]) + j
<1> DEFINE A == Instrs(h)
           a == g.blocks[g.at]
<1>1. g.blocks \in Seq(Seq(Instrs(g))) /\ Instrs(g) \subseteq A /\ s \in Seq(A)
  BY InstrsGrow DEF WellFormed, Appended
<1>2. g.blocks \in Seq(Seq(A))
  <2> DEFINE B == Instrs(g)
  <2>1. g.blocks \in Seq(Seq(B)) /\ B \subseteq A
    BY <1>1
  <2> HIDE DEF A, B
  <2>2. Seq(B) \subseteq Seq(A)
    BY <2>1, SeqGrows
  <2> QED
    BY <2>1, <2>2, SeqGrows
<1>3. g.at \in DOMAIN g.blocks /\ h.blocks = [g.blocks EXCEPT ![g.at] = a \o s]
  BY DEF Appended, Lengthened
<1> HIDE DEF A
<1>4. a \in Seq(A)
  BY <1>2, <1>3
<1>5. /\ a \o s \in Seq(A)
      /\ Len(a) \in Nat /\ Len(s) \in Nat
      /\ DOMAIN a = 1 .. Len(a) /\ DOMAIN s = 1 .. Len(s) /\ DOMAIN (a \o s) = 1 .. (Len(a) + Len(s))
      /\ \A k \in 1 .. Len(a) : (a \o s)[k] = a[k]
      /\ \A k \in 1 .. Len(s) : (a \o s)[Len(a) + k] = s[k]
  BY <1>1, <1>4, Appending
<1>6. PICK t : t = a \o s
  OBVIOUS
<1>7. h.blocks = [g.blocks EXCEPT ![g.at] = t] /\ t \in Seq(A)
  BY <1>3, <1>5, <1>6
<1>8. h.blocks \in Seq(Seq(A)) /\ DOMAIN h.blocks = DOMAIN g.blocks
  <2> DEFINE B == Seq(A)
  <2>1. t \in B /\ g.blocks \in Seq(B)
    BY <1>2, <1>7
  <2> HIDE DEF B, a
  <2>2. [g.blocks EXCEPT ![g.at] = t] \in Seq(B) /\ DOMAIN [g.blocks EXCEPT ![g.at] = t] = DOMAIN g.blocks
    BY <1>3, <2>1, Replacing
  <2> QED
    BY <1>7, <2>2 DEF B
<1>9. h.blocks[g.at] = t /\ \A b \in DOMAIN g.blocks : b # g.at => h.blocks[b] = g.blocks[b]
  BY <1>3, <1>7
<1>10. DOMAIN t = 1 .. (Len(a) + Len(s)) /\ (\A k \in 1 .. Len(a) : t[k] = a[k])
       /\ \A k \in 1 .. Len(s) : t[Len(a) + k] = s[k]
  BY <1>5, <1>6
<1>11. ASSUME NEW b \in DOMAIN g.blocks, NEW k \in DOMAIN g.blocks[b]
       PROVE  k \in DOMAIN h.blocks[b] /\ h.blocks[b][k] = g.blocks[b][k]
  <2>1. CASE b = g.at
    <3>1. k \in 1 .. Len(a) /\ k \in DOMAIN t /\ t[k] = a[k]
      BY <1>5, <1>10, <2>1
    <3> QED
      BY <1>9, <2>1, <3>1
  <2>2. CASE b # g.at
    BY <1>9, <2>2
  <2> QED
    BY <2>1, <2>2
<1>12. ASSUME NEW j \in DOMAIN s
       PROVE  Len(a) + j \in DOMAIN h.blocks[g.at] /\ h.blocks[g.at][Len(a) + j] = s[j]
  <2>1. j \in 1 .. Len(s) /\ Len(a) + j \in DOMAIN t /\ t[Len(a) + j] = s[j]
    <3> HIDE DEF a
    <3> QED
      BY <1>5, <1>10
  <2> HIDE DEF a
  <2> QED
    BY <1>9, <2>1
<1>13. ASSUME NEW b \in DOMAIN h.blocks, NEW k \in DOMAIN h.blocks[b]
       PROVE  \/ k \in DOMAIN g.blocks[b]
              \/ b = g.at /\ \E j \in DOMAIN s : k = Len(a) + j
  <2>1. CASE b = g.at
    <3>1. k \in 1 .. (Len(a) + Len(s))
      BY <1>9, <1>10, <2>1
    <3>2. CASE k <= Len(a)
      <4>1. k \in DOMAIN a
        BY <1>5, <3>1, <3>2
      <4> QED
        BY <2>1, <4>1
    <3>3. CASE ~(k <= Len(a))
      <4> HIDE DEF a
      <4>1. k - Len(a) \in 1 .. Len(s) /\ k = Len(a) + (k - Len(a))
        BY <1>5, <3>1, <3>3
      <4> QED
        BY <1>5, <2>1, <4>1
    <3> QED
      BY <3>2, <3>3
  <2>2. CASE b # g.at
    BY <1>8, <1>9, <2>2
  <2> QED
    BY <2>1, <2>2
<1> QED
  BY <1>5, <1>8, <1>11, <1>12, <1>13 DEF A

\* A cell of g.
Old(g, c) == c \in 0 .. g.cells

\* A definition in h is one in g, of an old cell, or one in s, of a new one.
LEMMA AppendedDefinitions ==
  ASSUME NEW g, NEW s, NEW h, WellFormed(g), Appended(g, s, h), Follows(g, s),
         NEW c, NEW d \in Definitions(h.blocks, c)
  PROVE  \/ Old(g, c) /\ d \in Definitions(g.blocks, c)
         \/ /\ ~Old(g, c)
            /\ \E j \in DOMAIN s : /\ d = <<g.at, Len(g.blocks[g.at]) + j>>
                                   /\ Defines(s[j]) /\ s[j].cell = c
<1>1. /\ d = <<d[1], d[2]>> /\ d[1] \in DOMAIN h.blocks /\ d[2] \in DOMAIN h.blocks[d[1]]
      /\ h.blocks[d[1]][d[2]].op \in {"alloca", "let"} /\ h.blocks[d[1]][d[2]].cell = c
  BY InDefinitions
<1>2. DOMAIN h.blocks = DOMAIN g.blocks
  BY AppendedAt
<1>3. CASE d[2] \in DOMAIN g.blocks[d[1]]
  <2>1. h.blocks[d[1]][d[2]] = g.blocks[d[1]][d[2]]
    BY <1>1, <1>2, <1>3, AppendedAt
  <2>2. <<d[1], d[2]>> \in Definitions(g.blocks, c)
    BY <1>1, <1>2, <1>3, <2>1, InDefinitions
  <2>3. g.blocks[d[1]][d[2]] \in Instrs(g)
    BY <1>1, <1>2, <1>3, InstrAt
  <2>4. Old(g, c)
    BY <1>1, <2>1, <2>3, InstrParts DEF Old
  <2> QED
    BY <1>1, <2>2, <2>4
<1>4. CASE ~(d[2] \in DOMAIN g.blocks[d[1]])
  <2>1. d[1] = g.at
    BY <1>1, <1>4, AppendedAt
  <2>2. PICK j \in DOMAIN s : d[2] = Len(g.blocks[g.at]) + j
    BY <1>1, <1>4, AppendedAt
  <2>3. h.blocks[d[1]][d[2]] = s[j]
    BY <2>1, <2>2, AppendedAt
  <2>4. Defines(s[j]) /\ s[j].cell = c
    BY <1>1, <2>3 DEF Defines
  <2>5. s[j].cell > g.cells
    BY <2>4 DEF Follows
  <2>6. ~Old(g, c)
    <3>1. g.cells \in Nat
      BY DEF Appended, Larger
    <3>2. s[j] \in Instrs(h)
      <4> DEFINE A == Instrs(h)
      <4>1. s \in Seq(A)
        BY DEF Appended
      <4> HIDE DEF A
      <4>2. s[j] \in A
        BY <4>1
      <4> QED
        BY <4>2 DEF A
    <3>3. s[j].cell \in 0 .. h.cells
      BY <3>2, InstrParts
    <3> QED
      BY <2>4, <2>5, <3>1, <3>3 DEF Old
  <2> QED
    BY <1>1, <2>1, <2>2, <2>4, <2>6
<1> QED
  BY <1>3, <1>4

\* What was a slot stays one, and every alloca makes one.
LEMMA AppendedSlots ==
  ASSUME NEW g, NEW s, NEW h, WellFormed(g), Appended(g, s, h), Follows(g, s)
  PROVE  /\ \A c : IsSlot(g, c) => IsSlot(h, c)
         /\ \A j \in DOMAIN s : s[j].op = "alloca" => IsSlot(h, s[j].cell)
<1>1. g.cells \in Nat /\ h.cells \in Nat /\ g.cells <= h.cells /\ g.cells >= 1
  BY DEF Appended, Larger, WellFormed
<1>2. ASSUME NEW c, NEW b \in DOMAIN h.blocks, NEW k \in DOMAIN h.blocks[b],
             Defines(h.blocks[b][k]), h.blocks[b][k].cell = c
      PROVE  /\ Old(g, c) => b \in DOMAIN g.blocks /\ k \in DOMAIN g.blocks[b]
                                      /\ h.blocks[b][k] = g.blocks[b][k]
             /\ ~Old(g, c) => \E i \in DOMAIN s : h.blocks[b][k] = s[i]
  <2>1. <<b, k>> \in Definitions(h.blocks, c)
    BY <1>2, InDefinitions DEF Defines
  <2>2. PICK d \in Definitions(h.blocks, c) : d = <<b, k>>
    BY <2>1
  <2>3. ASSUME Old(g, c) PROVE b \in DOMAIN g.blocks /\ k \in DOMAIN g.blocks[b] /\ h.blocks[b][k] = g.blocks[b][k]
    <3>1. d \in Definitions(g.blocks, c)
      BY <2>3, AppendedDefinitions
    <3>2. d[1] \in DOMAIN g.blocks /\ d[2] \in DOMAIN g.blocks[d[1]]
      BY <3>1, InDefinitions
    <3> QED
      BY <2>2, <3>2, AppendedAt
  <2>4. ASSUME ~Old(g, c) PROVE \E i \in DOMAIN s : h.blocks[b][k] = s[i]
    <3>1. PICK i \in DOMAIN s : d = <<g.at, Len(g.blocks[g.at]) + i>>
      BY <2>4, AppendedDefinitions
    <3>2. h.blocks[g.at][Len(g.blocks[g.at]) + i] = s[i]
      BY AppendedAt
    <3> QED
      BY <2>2, <3>1, <3>2
  <2> QED
    BY <2>3, <2>4
<1>3. ASSUME NEW c, IsSlot(g, c) PROVE IsSlot(h, c)
  <2>1. c \in 2 .. g.cells
    BY <1>3 DEF IsSlot
  <2>2. Old(g, c) /\ c \in 2 .. h.cells
    BY <1>1, <2>1 DEF Old
  <2>3. ASSUME NEW b \in DOMAIN h.blocks, NEW k \in DOMAIN h.blocks[b], Defines(h.blocks[b][k]), h.blocks[b][k].cell = c
        PROVE  h.blocks[b][k].op = "alloca"
    BY <1>2, <1>3, <2>2, <2>3 DEF IsSlot
  <2> QED
    BY <2>2, <2>3 DEF IsSlot
<1>4. ASSUME NEW j \in DOMAIN s, s[j].op = "alloca" PROVE IsSlot(h, s[j].cell)
  <2>1. Defines(s[j]) /\ s[j].cell > g.cells
    BY <1>4 DEF Follows, Defines
  <2>2. s[j] \in Instrs(h)
    <3> DEFINE A == Instrs(h)
    <3>1. s \in Seq(A)
      BY DEF Appended
    <3> HIDE DEF A
    <3>2. s[j] \in A
      BY <3>1
    <3> QED
      BY <3>2 DEF A
  <2>3. s[j].cell \in 0 .. h.cells
    BY <2>2, InstrParts
  <2>4. s[j].cell \in 2 .. h.cells /\ ~Old(g, s[j].cell)
    BY <1>1, <2>1, <2>3 DEF Old
  <2>5. ASSUME NEW b \in DOMAIN h.blocks, NEW k \in DOMAIN h.blocks[b], Defines(h.blocks[b][k]), h.blocks[b][k].cell = s[j].cell
        PROVE  h.blocks[b][k].op = "alloca"
    <3>1. PICK i \in DOMAIN s : h.blocks[b][k] = s[i]
      BY <1>2, <2>4, <2>5
    <3>2. i = j
      BY <2>1, <2>5, <3>1 DEF Follows
    <3> QED
      BY <1>4, <3>1, <3>2
  <2> QED
    BY <2>4, <2>5 DEF IsSlot
<1> QED
  BY <1>3, <1>4

\* Blocks stay well formed.
LEMMA AppendedWellFormed ==
  ASSUME NEW g, NEW s, NEW h, WellFormed(g), Appended(g, s, h), Follows(g, s)
  PROVE  WellFormed(h)
<1>1. h.cells \in Nat \ {0}
  BY DEF Appended, Larger, WellFormed
<1>2. h.blocks \in Seq(Seq(Instrs(h))) /\ DOMAIN h.blocks = DOMAIN g.blocks
  BY AppendedAt
<1>3. h.blocks # <<>>
  BY <1>2 DEF Appended
<1>4. ASSUME NEW c, NEW d \in Definitions(h.blocks, c), NEW e \in Definitions(h.blocks, c)
      PROVE  d = e
  <2>1. CASE Old(g, c)
    <3>1. d \in Definitions(g.blocks, c) /\ e \in Definitions(g.blocks, c)
      BY <2>1, AppendedDefinitions
    <3> QED
      BY <2>1, <3>1 DEF WellFormed, DefinedOnce, Old
  <2>2. CASE ~Old(g, c)
    <3>1. PICK i \in DOMAIN s : d = <<g.at, Len(g.blocks[g.at]) + i>> /\ Defines(s[i]) /\ s[i].cell = c
      BY <2>2, AppendedDefinitions
    <3>2. PICK j \in DOMAIN s : e = <<g.at, Len(g.blocks[g.at]) + j>> /\ Defines(s[j]) /\ s[j].cell = c
      BY <2>2, AppendedDefinitions
    <3>3. i = j
      BY <3>1, <3>2 DEF Follows
    <3> QED
      BY <3>1, <3>2, <3>3
  <2> QED
    BY <2>1, <2>2
<1>5. ASSUME NEW b \in DOMAIN h.blocks, NEW k \in DOMAIN h.blocks[b]
      PROVE  /\ Targeted(h.blocks[b][k])
             /\ StoresToSlots(h.blocks, h.blocks[b][k])
             /\ FilledAtOnce(h.blocks[b], k)
  <2>1. ASSUME NEW c, IsSlot(h, c), NEW d \in Definitions(h.blocks, c)
        PROVE  h.blocks[d[1]][d[2]].op = "alloca"
    BY <2>1, InDefinitions DEF IsSlot, Defines
  <2>2. CASE k \in DOMAIN g.blocks[b]
    <3>1. b \in DOMAIN g.blocks /\ h.blocks[b][k] = g.blocks[b][k]
      BY <1>2, <2>2, AppendedAt
    <3>2. /\ g.blocks[b][k] \in Instrs(g) /\ Targeted(g.blocks[b][k])
          /\ StoresToSlots(g.blocks, g.blocks[b][k]) /\ FilledAtOnce(g.blocks[b], k)
      BY <2>2, <3>1, InstrAt
    <3>3. StoresToSlots(h.blocks, h.blocks[b][k])
      <4> SUFFICES ASSUME h.blocks[b][k].op = "store", NEW d \in Definitions(h.blocks, h.blocks[b][k].cell)
                   PROVE  h.blocks[d[1]][d[2]].op = "alloca"
        BY DEF StoresToSlots
      <4>1. Old(g, h.blocks[b][k].cell)
        BY <3>1, <3>2, InstrParts DEF Old
      <4>2. d \in Definitions(g.blocks, h.blocks[b][k].cell)
        BY <4>1, AppendedDefinitions
      <4>3. g.blocks[d[1]][d[2]].op = "alloca"
        BY <3>1, <3>2, <4>2 DEF StoresToSlots
      <4>4. d[1] \in DOMAIN g.blocks /\ d[2] \in DOMAIN g.blocks[d[1]]
        BY <4>2, InDefinitions
      <4> QED
        BY <4>3, <4>4, AppendedAt
    <3>4. FilledAtOnce(h.blocks[b], k)
      <4>1. ASSUME k + 1 \in DOMAIN g.blocks[b]
            PROVE  k + 1 \in DOMAIN h.blocks[b] /\ h.blocks[b][k + 1] = g.blocks[b][k + 1]
        BY <3>1, <4>1, AppendedAt
      <4> QED
        BY <3>1, <3>2, <4>1 DEF FilledAtOnce
    <3> QED
      BY <3>1, <3>2, <3>3, <3>4
  <2>3. CASE ~(k \in DOMAIN g.blocks[b])
    <3>1. b = g.at
      BY <2>3, AppendedAt
    <3>2. PICK j \in DOMAIN s : k = Len(g.blocks[g.at]) + j
      BY <2>3, AppendedAt
    <3>3. h.blocks[b][k] = s[j]
      BY <3>1, <3>2, AppendedAt
    <3>4. Targeted(s[j]) /\ FilledAtOnce(s, j)
      BY DEF Follows
    <3>5. StoresToSlots(h.blocks, h.blocks[b][k])
      <4> SUFFICES ASSUME s[j].op = "store", NEW d \in Definitions(h.blocks, s[j].cell)
                   PROVE  h.blocks[d[1]][d[2]].op = "alloca"
        BY <3>3 DEF StoresToSlots
      <4>1. IsSlot(h, s[j].cell)
        BY AppendedSlots DEF Follows
      <4> QED
        BY <2>1, <4>1
    <3>6. FilledAtOnce(h.blocks[b], k)
      <4> SUFFICES ASSUME h.blocks[b][k].op = "alloca"
                   PROVE  /\ k + 1 \in DOMAIN h.blocks[b]
                          /\ h.blocks[b][k + 1].op = "store" /\ h.blocks[b][k + 1].cell = h.blocks[b][k].cell
                          /\ h.blocks[b][k].cell \notin {h.blocks[b][k + 1].e.l.cell, h.blocks[b][k + 1].e.r.cell}
        BY DEF FilledAtOnce
      <4>1. /\ j + 1 \in DOMAIN s /\ s[j + 1].op = "store" /\ s[j + 1].cell = s[j].cell
            /\ s[j].cell \notin {s[j + 1].e.l.cell, s[j + 1].e.r.cell}
        BY <3>3, <3>4 DEF FilledAtOnce
      <4>2. k + 1 = Len(g.blocks[g.at]) + (j + 1)
        <5>1. j \in Nat
          <6> DEFINE A == Instrs(h)
          <6>1. s \in Seq(A)
            BY DEF Appended
          <6> HIDE DEF A
          <6> QED
            BY <6>1
        <5>2. Len(g.blocks[g.at]) \in Nat
          BY AppendedAt
        <5> QED
          BY <3>2, <5>1, <5>2
      <4>3. k + 1 \in DOMAIN h.blocks[b] /\ h.blocks[b][k + 1] = s[j + 1]
        BY <3>1, <4>1, <4>2, AppendedAt
      <4> QED
        BY <3>3, <4>1, <4>3
    <3> QED
      BY <3>3, <3>4, <3>5, <3>6
  <2> QED
    BY <2>2, <2>3
<1> QED
  BY <1>1, <1>2, <1>3, <1>4, <1>5 DEF WellFormed, DefinedOnce

-----------------------------------------------------------------------------
(* The builder                                                             *)

IsBuild(g) == g = [blocks |-> g.blocks, at |-> g.at, cells |-> g.cells, locals |-> g.locals]

\* What holds of a builder between two steps.
Builder(g) ==
  /\ IsBuild(g) /\ WellFormed(g)
  /\ g.at \in DOMAIN g.blocks
  /\ \A x \in DOMAIN g.locals : IsSlot(g, g.locals[x])

\* Blocks, cells and slots are only added.
Later(g, h) == Larger(g, h) /\ \A c : IsSlot(g, c) => IsSlot(h, c)

LEMMA LaterStill ==
  ASSUME NEW g, NEW h, NEW k, Later(g, h), Later(h, k)
  PROVE  Later(g, k)
<1>1. Larger(g, k)
  BY DEF Later, Larger
<1> QED
  BY <1>1 DEF Later

LEMMA BuildFields ==
  ASSUME NEW g, IsBuild(g), NEW s, g.at \in DOMAIN g.blocks
  PROVE  /\ IsBuild(Build(g, s)) /\ Build(g, s).at = g.at /\ Build(g, s).cells = g.cells
         /\ Build(g, s).locals = g.locals
         /\ Build(g, s).blocks = Lengthened(g, s)
<1>1. PICK t : t = g.blocks[g.at] \o s
  OBVIOUS
<1>2. Build(g, s) = [g EXCEPT !.blocks[g.at] = t]
  BY <1>1 DEF Build
<1>3. Build(g, s) = [blocks |-> [g.blocks EXCEPT ![g.at] = t], at |-> g.at, cells |-> g.cells, locals |-> g.locals]
  BY <1>2 DEF IsBuild
<1>4. Lengthened(g, s) = [g.blocks EXCEPT ![g.at] = t]
  BY <1>1 DEF Lengthened
<1> QED
  BY <1>3, <1>4 DEF IsBuild

LEMMA PositionFields ==
  ASSUME NEW g, IsBuild(g), NEW b
  PROVE  /\ IsBuild(PositionAt(g, b)) /\ PositionAt(g, b).at = b /\ PositionAt(g, b).cells = g.cells
         /\ PositionAt(g, b).locals = g.locals /\ PositionAt(g, b).blocks = g.blocks
  BY DEF PositionAt, IsBuild

LEMMA NewCellsFields ==
  ASSUME NEW g, IsBuild(g), NEW k
  PROVE  /\ IsBuild(NewCells(g, k)) /\ NewCells(g, k).at = g.at /\ NewCells(g, k).cells = g.cells + k
         /\ NewCells(g, k).locals = g.locals /\ NewCells(g, k).blocks = g.blocks
  BY DEF NewCells, IsBuild

LEMMA SetLocalFields ==
  ASSUME NEW g, IsBuild(g), NEW x, NEW c
  PROVE  /\ IsBuild(SetLocal(g, x, c)) /\ SetLocal(g, x, c).at = g.at /\ SetLocal(g, x, c).cells = g.cells
         /\ SetLocal(g, x, c).blocks = g.blocks
         /\ SetLocal(g, x, c).locals = [y \in DOMAIN g.locals \cup {x} |-> IF y = x THEN c ELSE g.locals[y]]
  BY DEF SetLocal, IsBuild

LEMMA AppendBlocksFields ==
  ASSUME NEW g, IsBuild(g)
  PROVE  /\ IsBuild(AppendBlocks(g)) /\ AppendBlocks(g).at = g.at /\ AppendBlocks(g).cells = g.cells
         /\ AppendBlocks(g).locals = g.locals
         /\ AppendBlocks(g).blocks = g.blocks \o << <<>>, <<>>, <<>> >>
<1>1. PICK t : t = g.blocks \o << <<>>, <<>>, <<>> >>
  OBVIOUS
<1>2. AppendBlocks(g) = [g EXCEPT !.blocks = t]
  BY <1>1 DEF AppendBlocks
<1>3. AppendBlocks(g) = [blocks |-> t, at |-> g.at, cells |-> g.cells, locals |-> g.locals]
  BY <1>2 DEF IsBuild
<1> QED
  BY <1>1, <1>3 DEF IsBuild

\* Builders of the same blocks and cells have the same slots.
LEMMA SameBlocks ==
  ASSUME NEW g, NEW h, WellFormed(g), h.blocks = g.blocks, h.cells = g.cells
  PROVE  WellFormed(h) /\ Later(g, h)
<1>1. Instrs(h) = Instrs(g)
  BY DEF Instrs
<1>2. WellFormed(h)
  BY <1>1 DEF WellFormed
<1>3. Later(g, h)
  BY DEF Later, Larger, IsSlot, WellFormed
<1> QED
  BY <1>2, <1>3

LEMMA Positioned ==
  ASSUME NEW g, Builder(g), NEW b \in DOMAIN g.blocks, NEW h, h = PositionAt(g, b)
  PROVE  Builder(h) /\ Later(g, h) /\ h.at = b /\ h.blocks = g.blocks /\ h.cells = g.cells /\ h.locals = g.locals
<1>1. IsBuild(h) /\ h.at = b /\ h.cells = g.cells /\ h.locals = g.locals /\ h.blocks = g.blocks
  BY PositionFields DEF Builder
<1>2. WellFormed(h) /\ Later(g, h)
  BY <1>1, SameBlocks DEF Builder
<1> QED
  BY <1>1, <1>2 DEF Builder, Later

\* Three empty blocks.
LEMMA BlocksAppended ==
  ASSUME NEW g, Builder(g), NEW h, h = AppendBlocks(g)
  PROVE  /\ Builder(h) /\ Later(g, h) /\ h.at = g.at /\ h.cells = g.cells /\ h.locals = g.locals
         /\ Len(g.blocks) \in Nat /\ DOMAIN g.blocks = 1 .. Len(g.blocks)
         /\ DOMAIN h.blocks = 1 .. Len(g.blocks) + 3
         /\ \A b \in DOMAIN g.blocks : h.blocks[b] = g.blocks[b]
         /\ \A b \in DOMAIN h.blocks \ DOMAIN g.blocks : h.blocks[b] = <<>>
<1> DEFINE A == Instrs(h)
           B == Seq(A)
           n == Len(g.blocks)
           new == << <<>>, <<>>, <<>> >>
<1>1. IsBuild(h) /\ h.at = g.at /\ h.cells = g.cells /\ h.locals = g.locals /\ h.blocks = g.blocks \o new
  BY AppendBlocksFields DEF Builder
<1>2. WellFormed(g)
  BY DEF Builder
<1>3. n \in Nat /\ DOMAIN g.blocks = 1 .. n /\ DOMAIN h.blocks = 1 .. n + 3
      /\ (\A b \in 1 .. n : h.blocks[b] = g.blocks[b]) /\ \A b \in 1 .. 3 : h.blocks[n + b] = <<>>
  <2> DEFINE T == Seq(Instrs(g))
  <2>1. g.blocks \in Seq(T) /\ <<>> \in T
    BY <1>2 DEF WellFormed
  <2> HIDE DEF T
  <2>2. new \in Seq(T) /\ Len(new) = 3 /\ \A b \in 1 .. 3 : new[b] = <<>>
    BY <2>1
  <2> HIDE DEF new
  <2>a. PICK a : a = g.blocks
    OBVIOUS
  <2>b. a \in Seq(T) /\ new \in Seq(T)
    BY <2>1, <2>2, <2>a
  <2>c. /\ Len(a) \in Nat /\ DOMAIN a = 1 .. Len(a) /\ DOMAIN (a \o new) = 1 .. (Len(a) + Len(new))
        /\ (\A k \in 1 .. Len(a) : (a \o new)[k] = a[k])
        /\ \A k \in 1 .. Len(new) : (a \o new)[Len(a) + k] = new[k]
    BY <2>b, Appending
  <2>3. PICK t : t = a \o new
    OBVIOUS
  <2>4. /\ n \in Nat /\ DOMAIN g.blocks = 1 .. n /\ DOMAIN t = 1 .. (n + Len(new))
        /\ (\A b \in 1 .. n : t[b] = g.blocks[b]) /\ \A b \in 1 .. Len(new) : t[n + b] = new[b]
    BY <2>c, <2>3, <2>a
  <2>5. h.blocks = t
    BY <1>1, <2>3, <2>a
  <2> HIDE DEF n
  <2> QED
    BY <2>2, <2>4, <2>5
<1>4. \A b \in DOMAIN h.blocks \ DOMAIN g.blocks : h.blocks[b] = <<>>
  <2> HIDE DEF n
  <2> TAKE b \in DOMAIN h.blocks \ DOMAIN g.blocks
  <2>1. b - n \in 1 .. 3 /\ b = n + (b - n)
    BY <1>3
  <2> QED
    BY <1>3, <2>1
<1>5. Larger(g, h)
  <2> HIDE DEF n
  <2> QED
    BY <1>1, <1>2, <1>3 DEF Larger, WellFormed
<1>6. ASSUME NEW b \in DOMAIN h.blocks, NEW k \in DOMAIN h.blocks[b]
      PROVE  b \in DOMAIN g.blocks /\ h.blocks[b] = g.blocks[b]
  BY <1>3, <1>4
<1>7. ASSUME NEW c, NEW d \in Definitions(h.blocks, c) PROVE d \in Definitions(g.blocks, c)
  <2>1. /\ d = <<d[1], d[2]>> /\ d[1] \in DOMAIN h.blocks /\ d[2] \in DOMAIN h.blocks[d[1]]
        /\ h.blocks[d[1]][d[2]].op \in {"alloca", "let"} /\ h.blocks[d[1]][d[2]].cell = c
    BY InDefinitions
  <2>2. d[1] \in DOMAIN g.blocks /\ h.blocks[d[1]] = g.blocks[d[1]]
    BY <1>6, <2>1
  <2> QED
    BY <2>1, <2>2, InDefinitions
<1>8. h.blocks \in Seq(Seq(A))
  <2> DEFINE C == Instrs(g)
  <2>1. g.blocks \in Seq(Seq(C)) /\ C \subseteq A
    BY <1>2, <1>5, InstrsGrow DEF WellFormed
  <2> HIDE DEF A, C
  <2>2. Seq(C) \subseteq Seq(A)
    BY <2>1, SeqGrows
  <2>3. g.blocks \in Seq(B) /\ <<>> \in B
    BY <2>1, <2>2, SeqGrows
  <2> HIDE DEF B
  <2>4. new \in Seq(B)
    BY <2>3
  <2> HIDE DEF new
  <2>5. h.blocks \in Seq(B)
    BY <1>1, <2>3, <2>4, Appending
  <2> QED
    BY <2>5 DEF B
<1>9. WellFormed(h)
  <2>1. h.cells \in Nat \ {0} /\ h.blocks # <<>>
    <3>1. g.cells \in Nat \ {0} /\ 1 \in DOMAIN h.blocks
      BY <1>2, <1>3 DEF WellFormed
    <3> QED
      BY <1>1, <3>1
  <2>2. ASSUME NEW c \in 0 .. h.cells PROVE DefinedOnce(h.blocks, c)
    BY <1>1, <1>2, <1>7 DEF WellFormed, DefinedOnce
  <2>3. ASSUME NEW b \in DOMAIN h.blocks, NEW k \in DOMAIN h.blocks[b]
        PROVE  Targeted(h.blocks[b][k]) /\ StoresToSlots(h.blocks, h.blocks[b][k]) /\ FilledAtOnce(h.blocks[b], k)
    <3>1. b \in DOMAIN g.blocks /\ h.blocks[b] = g.blocks[b]
      BY <1>6
    <3>2. Targeted(g.blocks[b][k]) /\ StoresToSlots(g.blocks, g.blocks[b][k]) /\ FilledAtOnce(g.blocks[b], k)
      BY <1>2, <3>1, InstrAt
    <3>3. StoresToSlots(h.blocks, h.blocks[b][k])
      <4>1. ASSUME NEW c, NEW d \in Definitions(h.blocks, c)
            PROVE  d \in Definitions(g.blocks, c) /\ h.blocks[d[1]] = g.blocks[d[1]]
        BY <1>3, <1>7, InDefinitions
      <4> QED
        BY <3>1, <3>2, <4>1 DEF StoresToSlots
    <3> QED
      BY <3>1, <3>2, <3>3
  <2> QED
    BY <1>8, <2>1, <2>2, <2>3 DEF WellFormed
<1>10. ASSUME NEW c, IsSlot(g, c) PROVE IsSlot(h, c)
  BY <1>1, <1>6, <1>10 DEF IsSlot
<1>11. h.at \in DOMAIN h.blocks /\ \A x \in DOMAIN h.locals : IsSlot(h, h.locals[x])
  BY <1>1, <1>3, <1>10 DEF Builder
<1> HIDE DEF n
<1> QED
  BY <1>1, <1>3, <1>4, <1>5, <1>9, <1>10, <1>11 DEF Builder, Later, n

-----------------------------------------------------------------------------
(* Instructions                                                            *)

\* The expressions over the cells of g.
Exprs(g) ==
  LET Operands == [cell : 0 .. g.cells, val : (-MaxInt - 1) .. MaxInt]
  IN  [op : Operators, l : Operands, r : Operands]

LEMMA ExprsGrow ==
  ASSUME NEW g, NEW h, Larger(g, h)
  PROVE  Exprs(g) \subseteq Exprs(h)
<1> DEFINE W == (-MaxInt - 1) .. MaxInt
           O(x) == [cell : 0 .. x.cells, val : W]
<1>1. 0 .. g.cells \subseteq 0 .. h.cells
  BY DEF Larger
<1> HIDE DEF W
<1>2. O(g) \subseteq O(h)
  BY <1>1
<1>3. Exprs(g) = [op : Operators, l : O(g), r : O(g)] /\ Exprs(h) = [op : Operators, l : O(h), r : O(h)]
  BY DEF Exprs, W
<1> HIDE DEF O
<1> QED
  BY <1>2, <1>3

LEMMA ExprParts ==
  ASSUME NEW g, NEW op \in Operators, NEW l, NEW r,
         l \in [cell : 0 .. g.cells, val : (-MaxInt - 1) .. MaxInt],
         r \in [cell : 0 .. g.cells, val : (-MaxInt - 1) .. MaxInt]
  PROVE  Expr(op, l, r) \in Exprs(g)
  BY DEF Exprs, Expr

LEMMA SlotTyped ==
  ASSUME NEW g, NEW c \in 0 .. g.cells
  PROVE  /\ Slot(c) \in [cell : 0 .. g.cells, val : (-MaxInt - 1) .. MaxInt]
         /\ Slot(c).cell = c
         /\ Value(Slot(c)) \in Exprs(g)
<1>1. Slot(c) \in [cell : 0 .. g.cells, val : (-MaxInt - 1) .. MaxInt] /\ Slot(c).cell = c
  BY WidthAssumption DEF Slot, Operand
<1>2. "atom" \in Operators
  BY DEF Operators
<1> QED
  BY <1>1, <1>2, ExprParts DEF Value

LEMMA NoValueTyped ==
  ASSUME NEW g, g.cells \in Nat
  PROVE  NoValue \in Exprs(g)
<1>1. Operand(0, 0) \in [cell : 0 .. g.cells, val : (-MaxInt - 1) .. MaxInt]
  BY WidthAssumption DEF Operand
<1>2. "atom" \in Operators
  BY DEF Operators
<1> QED
  BY <1>1, <1>2, ExprParts DEF NoValue, Value

LEMMA ExprCells ==
  ASSUME NEW g, NEW e \in Exprs(g)
  PROVE  e.l.cell \in 0 .. g.cells /\ e.r.cell \in 0 .. g.cells
  BY DEF Exprs

\* The instructions the emitters use are typed.
LEMMA InstrTyped ==
  ASSUME NEW h, h.cells \in Nat, NEW e \in Exprs(h)
  PROVE  /\ \A c \in 0 .. h.cells : /\ Alloca(c) \in Instrs(h) /\ Let(c, e) \in Instrs(h)
                                    /\ Store(c, e) \in Instrs(h)
         /\ Ret(e) \in Instrs(h)
         /\ \A b \in DOMAIN h.blocks : Br(b) \in Instrs(h)
         /\ \A b, c \in DOMAIN h.blocks : CondBr(e, b, c) \in Instrs(h)
<1> DEFINE Ops == {"alloca", "let", "store"} \cup Terminators
           D == DOMAIN h.blocks
<1>1. Instrs(h) = [op : Ops, cell : 0 .. h.cells, e : Exprs(h), to : Seq(D)]
  BY DEF Instrs, Exprs
<1>2. ASSUME NEW op \in Ops, NEW c \in 0 .. h.cells, NEW x \in Exprs(h), NEW t \in Seq(D)
      PROVE  Instr(op, c, x, t) \in Instrs(h)
  <2> HIDE DEF Ops, D
  <2> QED
    BY <1>1 DEF Instr
<1>3. NoValue \in Exprs(h)
  BY NoValueTyped
<1>4. {"alloca", "let", "store", "br", "cbr", "ret"} \subseteq Ops /\ 0 \in 0 .. h.cells
  BY DEF Terminators
<1>5. <<>> \in Seq(D) /\ (\A b \in D : <<b>> \in Seq(D)) /\ \A b, c \in D : <<b, c>> \in Seq(D)
  <2> HIDE DEF D
  <2> QED
    OBVIOUS
<1> HIDE DEF Ops, D
<1>6. ASSUME NEW c \in 0 .. h.cells
      PROVE  Alloca(c) \in Instrs(h) /\ Let(c, e) \in Instrs(h) /\ Store(c, e) \in Instrs(h)
  BY <1>2, <1>3, <1>4, <1>5 DEF Alloca, Let, Store
<1>7. Ret(e) \in Instrs(h)
  BY <1>2, <1>3, <1>4, <1>5 DEF Ret
<1>8. ASSUME NEW b \in D PROVE Br(b) \in Instrs(h)
  BY <1>2, <1>3, <1>4, <1>5 DEF Br
<1>9. ASSUME NEW b \in D, NEW c \in D PROVE CondBr(e, b, c) \in Instrs(h)
  BY <1>2, <1>3, <1>4, <1>5 DEF CondBr
<1> QED
  BY <1>6, <1>7, <1>8, <1>9 DEF D

\* What they are.
LEMMA InstrFields ==
  ASSUME NEW c, NEW e, NEW b, NEW d
  PROVE  /\ Alloca(c).op = "alloca" /\ Alloca(c).cell = c /\ Alloca(c).to = <<>>
         /\ Let(c, e).op = "let" /\ Let(c, e).cell = c /\ Let(c, e).to = <<>>
         /\ Store(c, e).op = "store" /\ Store(c, e).cell = c /\ Store(c, e).e = e /\ Store(c, e).to = <<>>
         /\ Br(b).op = "br" /\ Br(b).to = <<b>> /\ CondBr(e, b, d).op = "cbr" /\ CondBr(e, b, d).to = <<b, d>>
         /\ Ret(e).op = "ret" /\ Ret(e).to = <<>>
  BY DEF Alloca, Let, Store, Br, CondBr, Ret, Instr

LEMMA InstrTargeted ==
  ASSUME NEW c, NEW e, NEW b, NEW d
  PROVE  /\ c \notin {0, 1} => Targeted(Alloca(c)) /\ Targeted(Let(c, e)) /\ Targeted(Store(c, e))
         /\ Targeted(Br(b)) /\ Targeted(CondBr(e, b, d)) /\ Targeted(Ret(e))
<1>1. c \notin {0, 1} => Targeted(Alloca(c)) /\ Targeted(Let(c, e)) /\ Targeted(Store(c, e))
  BY DEF Targeted, Alloca, Let, Store, Instr
<1>2. Len(<<b>>) = 1 /\ Len(<<b, d>>) = 2
  OBVIOUS
<1>3. Targeted(Br(b))
  BY <1>2 DEF Targeted, Br, Instr
<1>4. Targeted(CondBr(e, b, d))
  BY <1>2 DEF Targeted, CondBr, Instr
<1>5. Targeted(Ret(e))
  BY DEF Targeted, Ret, Instr
<1> QED
  BY <1>1, <1>3, <1>4, <1>5

\* The expressions of a statement whose names have slots.
LEMMA EmittedTyped ==
  ASSUME NEW g, Builder(g), NEW s, TypedStmt(s), Evaluated(g, s), NEW i \in DOMAIN s.args
  PROVE  Emitted(g, s.args[i]) \in Exprs(g)
<1> DEFINE e == s.args[i]
<1>1. e.op \in Operators /\ Fits(e.l.val) /\ Fits(e.r.val)
  BY DEF TypedStmt
<1>2. ASSUME NEW a, a.id # "" => a.id \in Names(e), Fits(a.val)
      PROVE  Resolve(g, a) \in [cell : 0 .. g.cells, val : (-MaxInt - 1) .. MaxInt]
  <2>1. CASE a.id = ""
    <3>1. a.val \in (-MaxInt - 1) .. MaxInt
      BY <1>2, WidthAssumption DEF Fits
    <3>2. g.cells \in Nat
      BY DEF Builder, WellFormed
    <3>3. PICK W : W = (-MaxInt - 1) .. MaxInt
      OBVIOUS
    <3>4. PICK C : C = 0 .. g.cells /\ 0 \in C
      BY <3>2
    <3>5. Resolve(g, a) \in [cell : C, val : W]
      BY <2>1, <3>1, <3>3, <3>4 DEF Resolve, Operand
    <3> QED
      BY <3>3, <3>4, <3>5
  <2>2. CASE a.id # ""
    <3>1. a.id \in ArgNames(s)
      BY <1>2, <2>2 DEF ArgNames
    <3>2. IsSlot(g, g.locals[a.id])
      BY <3>1 DEF Evaluated, HasLocal, Builder
    <3>3. g.locals[a.id] \in 0 .. g.cells
      BY <3>2 DEF IsSlot
    <3> QED
      BY <2>2, <3>3, SlotTyped DEF Resolve, GetLocal
  <2> QED
    BY <2>1, <2>2
<1>3. (e.l.id # "" => e.l.id \in Names(e)) /\ (e.r.id # "" => e.r.id \in Names(e))
  BY DEF Names
<1>4. /\ Resolve(g, e.l) \in [cell : 0 .. g.cells, val : (-MaxInt - 1) .. MaxInt]
      /\ Resolve(g, e.r) \in [cell : 0 .. g.cells, val : (-MaxInt - 1) .. MaxInt]
  BY <1>1, <1>2, <1>3
<1> QED
  BY <1>1, <1>4, ExprParts DEF Emitted

-----------------------------------------------------------------------------
(* Instructions into the block of the builder                              *)

\* h is g with the instructions s, as a builder.
Extends(g, s, h) ==
  /\ Builder(h) /\ Later(g, h) /\ Appended(g, s, h)
  /\ h.at = g.at /\ DOMAIN h.blocks = DOMAIN g.blocks

LEMMA BuilderExtends ==
  ASSUME NEW g, Builder(g), NEW s, NEW h, IsBuild(h), Appended(g, s, h), Follows(g, s),
         h.at = g.at, h.locals = g.locals
  PROVE  /\ Extends(g, s, h)
         /\ \A j \in DOMAIN s : s[j].op = "alloca" => IsSlot(h, s[j].cell)
<1>1. WellFormed(g) /\ g.at \in DOMAIN g.blocks /\ \A x \in DOMAIN g.locals : IsSlot(g, g.locals[x])
  BY DEF Builder
<1>2. WellFormed(h)
  BY <1>1, AppendedWellFormed
<1>3. /\ \A c : IsSlot(g, c) => IsSlot(h, c)
      /\ \A j \in DOMAIN s : s[j].op = "alloca" => IsSlot(h, s[j].cell)
  BY <1>1, AppendedSlots
<1>4. DOMAIN h.blocks = DOMAIN g.blocks
  BY <1>1, AppendedAt
<1>5. Builder(h)
  BY <1>1, <1>2, <1>3, <1>4 DEF Builder
<1>6. Later(g, h)
  BY <1>3 DEF Later, Appended
<1> QED
  BY <1>3, <1>4, <1>5, <1>6 DEF Extends

LEMMA ExtendedFields ==
  ASSUME NEW g, Builder(g), NEW k \in Nat, NEW s, NEW h, h = Build(NewCells(g, k), s)
  PROVE  /\ IsBuild(h) /\ h.at = g.at /\ h.cells = g.cells + k /\ h.locals = g.locals
         /\ h.blocks = Lengthened(g, s)
         /\ DOMAIN h.blocks = DOMAIN g.blocks /\ Larger(g, h)
<1> DEFINE n == NewCells(g, k)
<1>1. IsBuild(n) /\ n.at = g.at /\ n.cells = g.cells + k /\ n.locals = g.locals /\ n.blocks = g.blocks
  BY NewCellsFields DEF Builder
<1>2. g.at \in DOMAIN g.blocks /\ g.cells \in Nat
  BY DEF Builder, WellFormed
<1> HIDE DEF n
<1>3. h = Build(n, s)
  BY DEF n
<1>a. IsBuild(n) /\ n.at \in DOMAIN n.blocks
  BY <1>1, <1>2
<1>4. IsBuild(h) /\ h.at = n.at /\ h.cells = n.cells /\ h.locals = n.locals
      /\ h.blocks = Lengthened(n, s)
  BY <1>3, <1>a, BuildFields
<1>5. h.blocks = Lengthened(g, s)
  BY <1>1, <1>4 DEF Lengthened
<1>6. DOMAIN h.blocks = DOMAIN g.blocks
  BY <1>5 DEF Lengthened
<1>7. Larger(g, h)
  BY <1>1, <1>2, <1>4, <1>6 DEF Larger
<1> QED
  BY <1>1, <1>4, <1>5, <1>6, <1>7

\* Instructions with k new cells.
LEMMA Extended ==
  ASSUME NEW g, Builder(g), NEW k \in Nat, NEW s, NEW h, h = Build(NewCells(g, k), s),
         s \in Seq(Instrs(h)), Follows(g, s)
  PROVE  /\ Extends(g, s, h) /\ h.locals = g.locals /\ h.cells = g.cells + k
         /\ \A j \in DOMAIN s : s[j].op = "alloca" => IsSlot(h, s[j].cell)
<1>1. /\ IsBuild(h) /\ h.at = g.at /\ h.cells = g.cells + k /\ h.locals = g.locals
      /\ h.blocks = Lengthened(g, s) /\ Larger(g, h)
  BY ExtendedFields
<1>2. g.at \in DOMAIN g.blocks
  BY DEF Builder
<1>3. Appended(g, s, h)
  BY <1>1, <1>2 DEF Appended
<1> QED
  BY <1>1, <1>3, BuilderExtends

\* Instructions on the cells there are.
LEMMA ExtendedOnly ==
  ASSUME NEW g, Builder(g), NEW s, NEW h, h = Build(g, s), s \in Seq(Instrs(g)), Follows(g, s)
  PROVE  /\ Extends(g, s, h) /\ h.locals = g.locals /\ h.cells = g.cells
<1>1. g.at \in DOMAIN g.blocks /\ g.cells \in Nat /\ IsBuild(g)
  BY DEF Builder, WellFormed
<1>2. /\ IsBuild(h) /\ h.at = g.at /\ h.cells = g.cells /\ h.locals = g.locals
      /\ h.blocks = Lengthened(g, s)
  BY <1>1, BuildFields
<1>3. DOMAIN h.blocks = DOMAIN g.blocks
  BY <1>2 DEF Lengthened
<1>4. Instrs(h) = Instrs(g)
  BY <1>2, <1>3 DEF Instrs
<1>5. Larger(g, h)
  BY <1>1, <1>2, <1>3 DEF Larger
<1>6. Appended(g, s, h)
  <2>1. s \in Seq(Instrs(h))
    BY <1>4
  <2> QED
    BY <1>1, <1>2, <1>5, <2>1 DEF Appended
<1> QED
  BY <1>2, <1>6, BuilderExtends

\* One instruction without a result.
Plain(g, i) ==
  /\ i \in Instrs(g) /\ Targeted(i) /\ ~Defines(i)
  /\ i.op = "store" => IsSlot(g, i.cell)

LEMMA PlainFollows ==
  ASSUME NEW g, NEW i, Plain(g, i)
  PROVE  Follows(g, <<i>>) /\ <<i>> \in Seq(Instrs(g))
<1>1. <<i>> \in Seq(Instrs(g)) /\ DOMAIN <<i>> = {1} /\ <<i>>[1] = i
  <2>1. PICK A : A = Instrs(g) /\ i \in A
    BY DEF Plain
  <2>2. <<i>> \in Seq(A) /\ DOMAIN <<i>> = {1} /\ <<i>>[1] = i
    BY <2>1
  <2> QED
    BY <2>1, <2>2
<1>2. i.op # "alloca"
  BY DEF Plain, Defines
<1>3. FilledAtOnce(<<i>>, 1)
  BY <1>1, <1>2 DEF FilledAtOnce
<1>4. PICK s : s = <<i>>
  OBVIOUS
<1>5. DOMAIN s = {1} /\ s[1] = i /\ FilledAtOnce(s, 1)
  BY <1>1, <1>3, <1>4
<1>6. Follows(g, s)
  BY <1>5 DEF Plain, Follows
<1> QED
  BY <1>1, <1>4, <1>6

LEMMA OneMore ==
  ASSUME NEW g, Builder(g), NEW i, Plain(g, i), NEW h, h = Build(g, <<i>>)
  PROVE  Extends(g, <<i>>, h) /\ h.locals = g.locals /\ h.cells = g.cells
<1>1. Follows(g, <<i>>) /\ <<i>> \in Seq(Instrs(g))
  BY PlainFollows
<1> QED
  BY <1>1, ExtendedOnly

LEMMA PlainInstrs ==
  ASSUME NEW g, Builder(g), NEW e \in Exprs(g)
  PROVE  /\ \A c : IsSlot(g, c) => Plain(g, Store(c, e))
         /\ Plain(g, Ret(e))
         /\ \A b \in DOMAIN g.blocks : Plain(g, Br(b))
         /\ \A b, c \in DOMAIN g.blocks : Plain(g, CondBr(e, b, c))
<1>1. g.cells \in Nat
  BY DEF Builder, WellFormed
<1>2. ASSUME NEW c, IsSlot(g, c) PROVE Plain(g, Store(c, e))
  <2>1. c \in 0 .. g.cells /\ c \notin {0, 1}
    BY <1>2 DEF IsSlot
  <2>2. Store(c, e) \in Instrs(g)
    BY <1>1, <2>1, InstrTyped
  <2>3. Targeted(Store(c, e))
    BY <2>1, InstrTargeted
  <2>4. Store(c, e).op = "store" /\ Store(c, e).cell = c
    BY DEF Store, Instr
  <2> QED
    BY <1>2, <2>2, <2>3, <2>4 DEF Plain, Defines
<1>3. Plain(g, Ret(e))
  <2>1. Ret(e) \in Instrs(g)
    BY <1>1, InstrTyped
  <2>2. Targeted(Ret(e))
    BY InstrTargeted
  <2>3. Ret(e).op = "ret"
    BY DEF Ret, Instr
  <2> QED
    BY <2>1, <2>2, <2>3 DEF Plain, Defines
<1>4. ASSUME NEW b \in DOMAIN g.blocks PROVE Plain(g, Br(b))
  <2>1. Br(b) \in Instrs(g)
    BY <1>1, InstrTyped
  <2>2. Targeted(Br(b))
    BY InstrTargeted
  <2>3. Br(b).op = "br"
    BY DEF Br, Instr
  <2> QED
    BY <2>1, <2>2, <2>3 DEF Plain, Defines
<1>5. ASSUME NEW b \in DOMAIN g.blocks, NEW c \in DOMAIN g.blocks PROVE Plain(g, CondBr(e, b, c))
  <2>1. CondBr(e, b, c) \in Instrs(g)
    BY <1>1, InstrTyped
  <2>2. Targeted(CondBr(e, b, c))
    BY InstrTargeted
  <2>3. CondBr(e, b, c).op = "cbr"
    BY DEF CondBr, Instr
  <2> QED
    BY <2>1, <2>2, <2>3 DEF Plain, Defines
<1> QED
  BY <1>2, <1>3, <1>4, <1>5

\* A local of a slot.
LEMMA LocalSet ==
  ASSUME NEW g, Builder(g), NEW x, NEW c, IsSlot(g, c), NEW h, h = SetLocal(g, x, c)
  PROVE  /\ Builder(h) /\ Later(g, h) /\ h.at = g.at /\ h.blocks = g.blocks /\ h.cells = g.cells
         /\ DOMAIN h.locals = DOMAIN g.locals \cup {x}
<1>1. /\ IsBuild(h) /\ h.at = g.at /\ h.cells = g.cells /\ h.blocks = g.blocks
      /\ h.locals = [y \in DOMAIN g.locals \cup {x} |-> IF y = x THEN c ELSE g.locals[y]]
  BY SetLocalFields DEF Builder
<1>2. WellFormed(h) /\ Later(g, h)
  BY <1>1, SameBlocks DEF Builder
<1>3. \A y \in DOMAIN h.locals : IsSlot(g, h.locals[y])
  BY <1>1 DEF Builder
<1>4. \A y \in DOMAIN h.locals : IsSlot(h, h.locals[y])
  BY <1>2, <1>3 DEF Later
<1> QED
  BY <1>1, <1>2, <1>4 DEF Builder

-----------------------------------------------------------------------------
(* The statements                                                          *)

\* A slot with a value in it.
LEMMA FillFollows ==
  ASSUME NEW g, g.cells \in Nat, NEW c \in 2 .. g.cells + 1, c > g.cells, NEW e \in Exprs(g)
  PROVE  Follows(g, <<Alloca(c), Store(c, e)>>)
<1>1. PICK s : s = <<Alloca(c), Store(c, e)>>
  OBVIOUS
<1>2. DOMAIN s = {1, 2} /\ s[1] = Alloca(c) /\ s[2] = Store(c, e)
  BY <1>1
<1>3. /\ s[1].op = "alloca" /\ s[1].cell = c
      /\ s[2].op = "store" /\ s[2].cell = c /\ s[2].e = e
  BY <1>2 DEF Alloca, Store, Instr
<1>4. e.l.cell # c /\ e.r.cell # c
  BY ExprCells
<1>5. c \notin {0, 1}
  OBVIOUS
<1>6. Targeted(s[1]) /\ Targeted(s[2])
  BY <1>2, <1>5, InstrTargeted
<1>7. FilledAtOnce(s, 1)
  BY <1>2, <1>3, <1>4 DEF FilledAtOnce
<1>8. FilledAtOnce(s, 2)
  BY <1>2, <1>3 DEF FilledAtOnce
<1>9. Defines(s[1]) /\ ~Defines(s[2])
  BY <1>3 DEF Defines
<1>10. ASSUME NEW k \in DOMAIN s
       PROVE  /\ Targeted(s[k]) /\ FilledAtOnce(s, k)
              /\ Defines(s[k]) => s[k].cell > g.cells
              /\ s[k].op = "store" => \E j \in DOMAIN s : s[j].op = "alloca" /\ s[j].cell = s[k].cell
  BY <1>2, <1>3, <1>6, <1>7, <1>8, <1>9
<1>11. \A j, k \in DOMAIN s : Defines(s[j]) /\ Defines(s[k]) /\ s[j].cell = s[k].cell => j = k
  BY <1>2, <1>9
<1>12. Follows(g, s)
  BY <1>10, <1>11 DEF Follows
<1> QED
  BY <1>1, <1>12

\* What BindSlot makes of the blocks is m.
LEMMA SlotBound ==
  ASSUME NEW g, Builder(g), NEW x, NEW e \in Exprs(g), NEW h, h = BindSlot(g, x, e)
  PROVE  \E m : /\ Extends(g, <<Alloca(g.cells + 1), Store(g.cells + 1, e)>>, m)
                /\ m.cells = g.cells + 1 /\ m.locals = g.locals
                /\ h = SetLocal(m, x, g.cells + 1) /\ IsSlot(m, g.cells + 1)
<1>1. NewCells(g, 1).cells = g.cells + 1
  BY NewCellsFields DEF Builder
<1>2. PICK c : c = g.cells + 1
  OBVIOUS
<1>3. c \in 2 .. g.cells + 1 /\ c > g.cells /\ g.cells \in Nat
  BY <1>2 DEF Builder, WellFormed
<1>4. PICK s : s = <<Alloca(c), Store(c, e)>>
  OBVIOUS
<1>5. Follows(g, s)
  BY <1>3, <1>4, FillFollows
<1>6. PICK m : m = Build(NewCells(g, 1), s)
  OBVIOUS
<1>7. h = SetLocal(m, x, c)
  BY <1>1, <1>2, <1>4, <1>6 DEF BindSlot
<1>8. m.cells = c /\ Larger(g, m)
  BY <1>2, <1>6, ExtendedFields
<1>9. s \in Seq(Instrs(m)) /\ DOMAIN s = {1, 2} /\ s[1] = Alloca(c)
  <2>1. e \in Exprs(m) /\ c \in 0 .. m.cells /\ m.cells \in Nat
    BY <1>3, <1>8, ExprsGrow DEF Larger
  <2>2. Alloca(c) \in Instrs(m) /\ Store(c, e) \in Instrs(m)
    BY <2>1, InstrTyped
  <2>3. PICK A : A = Instrs(m)
    OBVIOUS
  <2>4. s \in Seq(A) /\ DOMAIN s = {1, 2} /\ s[1] = Alloca(c)
    BY <1>4, <2>2, <2>3
  <2> QED
    BY <2>3, <2>4
<1>10. /\ Extends(g, s, m) /\ m.locals = g.locals
       /\ \A j \in DOMAIN s : s[j].op = "alloca" => IsSlot(m, s[j].cell)
  BY <1>5, <1>6, <1>9, Extended
<1>11. IsSlot(m, c)
  BY <1>9, <1>10 DEF Alloca, Instr
<1> QED
  BY <1>2, <1>4, <1>7, <1>8, <1>10, <1>11

LEMMA BoundBuilder ==
  ASSUME NEW g, Builder(g), NEW x, NEW e \in Exprs(g), NEW h, h = BindSlot(g, x, e)
  PROVE  Builder(h) /\ Later(g, h) /\ h.at = g.at /\ DOMAIN h.locals = DOMAIN g.locals \cup {x}
<1>1. PICK m : /\ Extends(g, <<Alloca(g.cells + 1), Store(g.cells + 1, e)>>, m)
               /\ m.locals = g.locals
               /\ h = SetLocal(m, x, g.cells + 1) /\ IsSlot(m, g.cells + 1)
  BY SlotBound
<1>2. Builder(m) /\ Later(g, m) /\ m.at = g.at
  BY <1>1 DEF Extends
<1>3. Builder(h) /\ Later(m, h) /\ h.at = m.at /\ DOMAIN h.locals = DOMAIN m.locals \cup {x}
  BY <1>1, <1>2, LocalSet
<1> QED
  BY <1>1, <1>2, <1>3, LaterStill

\* A typed statement of a block with its names in slots.
Emittable(g, s) == TypedStmt(s) /\ Evaluated(g, s)

LEMMA ArgTyped ==
  ASSUME NEW g, Builder(g), NEW s, Emittable(g, s), NEW i \in 1 .. Arity(s.kind)
  PROVE  Emitted(g, s.args[i]) \in Exprs(g)
<1>1. i \in DOMAIN s.args /\ TypedStmt(s) /\ Evaluated(g, s)
  BY DEF Emittable, TypedStmt
<1> QED
  BY <1>1, EmittedTyped

LEMMA FirstArg ==
  ASSUME NEW g, Builder(g), NEW s, Emittable(g, s), s.kind \in {"assign", "aug", "if", "while", "return"}
  PROVE  Emitted(g, s.args[1]) \in Exprs(g)
<1>1. 1 \in 1 .. Arity(s.kind)
  BY DEF Arity
<1> QED
  BY <1>1, ArgTyped

LEMMA AssignBuilds ==
  ASSUME NEW g, Builder(g), NEW s, Emittable(g, s), s.kind = "assign", NEW h, h = EmitAssign(g, s)
  PROVE  Builder(h) /\ Later(g, h) /\ h.at = g.at /\ DOMAIN h.locals = DOMAIN g.locals \cup {s.target}
<1> DEFINE e == Emitted(g, s.args[1])
<1>1. e \in Exprs(g)
  BY FirstArg
<1>2. CASE HasLocal(g, s.target)
  <2>1. s.target \in DOMAIN g.locals /\ IsSlot(g, GetLocal(g, s.target))
    BY <1>2 DEF HasLocal, GetLocal, Builder
  <2>2. Plain(g, Store(GetLocal(g, s.target), e))
    BY <1>1, <2>1, PlainInstrs
  <2>3. h = Build(g, <<Store(GetLocal(g, s.target), e)>>)
    BY <1>2 DEF EmitAssign
  <2>4. Extends(g, <<Store(GetLocal(g, s.target), e)>>, h) /\ h.locals = g.locals
    BY <2>2, <2>3, OneMore
  <2> QED
    BY <2>1, <2>4 DEF Extends
<1>3. CASE ~HasLocal(g, s.target)
  <2>1. h = BindSlot(g, s.target, e)
    BY <1>3 DEF EmitAssign
  <2> QED
    BY <1>1, <2>1, BoundBuilder
<1> QED
  BY <1>2, <1>3

LEMMA AugAssignBuilds ==
  ASSUME NEW g, Builder(g), NEW s, Emittable(g, s), s.kind = "aug", NEW h, h = EmitAugAssign(g, s)
  PROVE  /\ Extends(g, <<Store(GetLocal(g, s.target), Emitted(g, s.args[1]))>>, h)
         /\ h.locals = g.locals /\ s.target \in DOMAIN g.locals
<1>1. Emitted(g, s.args[1]) \in Exprs(g)
  BY FirstArg
<1>a. 1 \in 1 .. Arity(s.kind)
  BY DEF Arity
<1>2. s.target # "" /\ s.args[1].l.id = s.target /\ 1 \in DOMAIN s.args
  <2>1. s.target # "" /\ s.args[1].l.id = s.target
    BY DEF Emittable, TypedStmt
  <2>2. DOMAIN s.args = 1 .. Arity(s.kind)
    BY DEF Emittable, TypedStmt
  <2> QED
    BY <1>a, <2>1, <2>2
<1>3. s.target \in ArgNames(s)
  BY <1>2 DEF ArgNames, Names
<1>4. s.target \in DOMAIN g.locals /\ IsSlot(g, GetLocal(g, s.target))
  BY <1>3 DEF Emittable, Evaluated, HasLocal, GetLocal, Builder
<1>5. Plain(g, Store(GetLocal(g, s.target), Emitted(g, s.args[1])))
  BY <1>1, <1>4, PlainInstrs
<1>6. h = Build(g, <<Store(GetLocal(g, s.target), Emitted(g, s.args[1]))>>)
  BY DEF EmitAugAssign
<1> QED
  BY <1>4, <1>5, <1>6, OneMore

\* The blocks of an if: those appended, with the branch in the block before them.
LEMMA IfOpened ==
  ASSUME NEW g, Builder(g), NEW s, Emittable(g, s), s.kind = "if", NEW h, h = EmitIf(g, s), NEW n, n = Len(g.blocks)
  PROVE  \E m : /\ Extends(AppendBlocks(g), <<CondBr(Emitted(g, s.args[1]), n + 1, n + 2)>>, m)
                /\ m.locals = g.locals /\ m.cells = g.cells /\ h = PositionAt(m, n + 1)
<1> DEFINE e == Emitted(g, s.args[1])
<1>1. e \in Exprs(g)
  BY FirstArg
<1>2. PICK k : k = AppendBlocks(g)
  OBVIOUS
<1>3. /\ Builder(k) /\ Later(g, k) /\ k.locals = g.locals /\ k.cells = g.cells
      /\ n \in Nat /\ DOMAIN k.blocks = 1 .. n + 3
  BY <1>2, BlocksAppended
<1>4. e \in Exprs(k)
  BY <1>1, <1>3, ExprsGrow DEF Later
<1>5. n + 1 \in DOMAIN k.blocks /\ n + 2 \in DOMAIN k.blocks
  BY <1>3
<1>6. Plain(k, CondBr(e, n + 1, n + 2))
  BY <1>3, <1>4, <1>5, PlainInstrs
<1>7. PICK m : m = Build(k, <<CondBr(e, n + 1, n + 2)>>)
  OBVIOUS
<1>8. Extends(k, <<CondBr(e, n + 1, n + 2)>>, m) /\ m.locals = k.locals /\ m.cells = k.cells
  BY <1>3, <1>6, <1>7, OneMore
<1>9. h = PositionAt(m, n + 1)
  BY <1>2, <1>7 DEF EmitIf
<1> QED
  BY <1>2, <1>3, <1>8, <1>9

LEMMA IfBuilds ==
  ASSUME NEW g, Builder(g), NEW s, Emittable(g, s), s.kind = "if", NEW h, h = EmitIf(g, s), NEW n, n = Len(g.blocks)
  PROVE  /\ Builder(h) /\ Later(g, h) /\ h.at = n + 1 /\ h.locals = g.locals
         /\ n \in Nat /\ DOMAIN g.blocks = 1 .. n /\ DOMAIN h.blocks = 1 .. n + 3
<1>1. PICK m : /\ Extends(AppendBlocks(g), <<CondBr(Emitted(g, s.args[1]), n + 1, n + 2)>>, m)
               /\ m.locals = g.locals /\ h = PositionAt(m, n + 1)
  BY IfOpened
<1>2. PICK k : k = AppendBlocks(g)
  OBVIOUS
<1>3. /\ Builder(k) /\ Later(g, k)
      /\ n \in Nat /\ DOMAIN g.blocks = 1 .. n /\ DOMAIN k.blocks = 1 .. n + 3
  BY <1>2, BlocksAppended
<1>4. Builder(m) /\ Later(k, m) /\ DOMAIN m.blocks = DOMAIN k.blocks
  BY <1>1, <1>2 DEF Extends
<1>5. n + 1 \in DOMAIN m.blocks
  BY <1>3, <1>4
<1>6. Builder(h) /\ Later(m, h) /\ h.at = n + 1 /\ h.blocks = m.blocks /\ h.locals = m.locals
  BY <1>1, <1>4, <1>5, Positioned
<1>7. Later(g, m)
  BY <1>3, <1>4, LaterStill
<1>8. Later(g, h)
  BY <1>6, <1>7, LaterStill
<1> QED
  BY <1>1, <1>3, <1>4, <1>6, <1>8

\* The blocks of a loop: those appended, a jump into the first of them, and the
\* branch there.
LEMMA LoopOpened ==
  ASSUME NEW g, Builder(g), NEW e \in Exprs(g), NEW h, h = OpenLoop(g, e), NEW n, n = Len(g.blocks)
  PROVE  \E m, l : /\ Extends(AppendBlocks(g), <<Br(n + 1)>>, m)
                   /\ Extends(PositionAt(m, n + 1), <<CondBr(e, n + 2, n + 3)>>, l)
                   /\ l.locals = g.locals /\ l.cells = g.cells /\ h = PositionAt(l, n + 2)
<1>1. PICK k : k = AppendBlocks(g)
  OBVIOUS
<1>2. /\ Builder(k) /\ Later(g, k) /\ k.locals = g.locals /\ k.cells = g.cells
      /\ n \in Nat /\ DOMAIN k.blocks = 1 .. n + 3
  BY <1>1, BlocksAppended
<1>3. e \in Exprs(k)
  BY <1>2, ExprsGrow DEF Later
<1>4. n + 1 \in DOMAIN k.blocks /\ n + 2 \in DOMAIN k.blocks /\ n + 3 \in DOMAIN k.blocks
  BY <1>2
<1>5. PICK m : m = Build(k, <<Br(n + 1)>>)
  OBVIOUS
<1>6. Plain(k, Br(n + 1))
  BY <1>2, <1>3, <1>4, PlainInstrs
<1>7. Extends(k, <<Br(n + 1)>>, m) /\ m.locals = k.locals /\ m.cells = k.cells
  BY <1>2, <1>5, <1>6, OneMore
<1>8. Builder(m) /\ Later(k, m) /\ DOMAIN m.blocks = DOMAIN k.blocks
  BY <1>7 DEF Extends
<1>9. PICK p : p = PositionAt(m, n + 1)
  OBVIOUS
<1>10. Builder(p) /\ Later(m, p) /\ p.blocks = m.blocks /\ p.locals = m.locals /\ p.cells = m.cells
  BY <1>4, <1>8, <1>9, Positioned
<1>11. e \in Exprs(p)
  <2>1. e \in Exprs(m)
    BY <1>3, <1>8, ExprsGrow DEF Later
  <2> QED
    BY <1>10, <2>1, ExprsGrow DEF Later
<1>12. Plain(p, CondBr(e, n + 2, n + 3))
  <2>1. n + 2 \in DOMAIN p.blocks /\ n + 3 \in DOMAIN p.blocks
    BY <1>4, <1>8, <1>10
  <2> QED
    BY <1>10, <1>11, <2>1, PlainInstrs
<1>13. PICK l : l = Build(p, <<CondBr(e, n + 2, n + 3)>>)
  OBVIOUS
<1>14. Extends(p, <<CondBr(e, n + 2, n + 3)>>, l) /\ l.locals = p.locals /\ l.cells = p.cells
  BY <1>10, <1>12, <1>13, OneMore
<1>15. h = PositionAt(l, n + 2)
  <2>1. PICK c : c = n + 1 /\ c + 1 = n + 2 /\ c + 2 = n + 3
    BY <1>2
  <2>2. h = PositionAt(Build(PositionAt(Build(AppendBlocks(g), <<Br(c)>>), c), <<CondBr(e, c + 1, c + 2)>>), c + 1)
    BY <2>1 DEF OpenLoop
  <2> QED
    BY <1>1, <1>5, <1>9, <1>13, <2>1, <2>2
<1> QED
  BY <1>1, <1>2, <1>7, <1>9, <1>10, <1>14, <1>15

LEMMA LoopBuilds ==
  ASSUME NEW g, Builder(g), NEW e \in Exprs(g), NEW h, h = OpenLoop(g, e), NEW n, n = Len(g.blocks)
  PROVE  /\ Builder(h) /\ Later(g, h) /\ h.at = n + 2 /\ h.locals = g.locals
         /\ n \in Nat /\ DOMAIN g.blocks = 1 .. n /\ DOMAIN h.blocks = 1 .. n + 3
<1>1. PICK m, l : /\ Extends(AppendBlocks(g), <<Br(n + 1)>>, m)
                  /\ Extends(PositionAt(m, n + 1), <<CondBr(e, n + 2, n + 3)>>, l)
                  /\ l.locals = g.locals /\ h = PositionAt(l, n + 2)
  BY LoopOpened
<1>2. PICK k : k = AppendBlocks(g)
  OBVIOUS
<1>3. /\ Builder(k) /\ Later(g, k)
      /\ n \in Nat /\ DOMAIN g.blocks = 1 .. n /\ DOMAIN k.blocks = 1 .. n + 3
  BY <1>2, BlocksAppended
<1>4. Builder(m) /\ Later(k, m) /\ DOMAIN m.blocks = DOMAIN k.blocks
  BY <1>1, <1>2 DEF Extends
<1>5. PICK p : p = PositionAt(m, n + 1)
  OBVIOUS
<1>6. n + 1 \in DOMAIN m.blocks /\ n + 2 \in DOMAIN m.blocks
  BY <1>3, <1>4
<1>7. Builder(p) /\ Later(m, p) /\ p.blocks = m.blocks
  BY <1>4, <1>5, <1>6, Positioned
<1>8. Builder(l) /\ Later(p, l) /\ DOMAIN l.blocks = DOMAIN p.blocks
  BY <1>1, <1>5 DEF Extends
<1>9. Builder(h) /\ Later(l, h) /\ h.at = n + 2 /\ h.blocks = l.blocks /\ h.locals = l.locals
  BY <1>1, <1>6, <1>7, <1>8, Positioned
<1>10. Later(g, h)
  <2>1. Later(g, m)
    BY <1>3, <1>4, LaterStill
  <2>2. Later(g, p)
    BY <1>7, <2>1, LaterStill
  <2>3. Later(g, l)
    BY <1>8, <2>2, LaterStill
  <2> QED
    BY <1>9, <2>3, LaterStill
<1> QED
  BY <1>1, <1>3, <1>4, <1>7, <1>8, <1>9, <1>10

\* Three registers, and a slot with a value in it.
RangeInstrs(c, e1, e2, e3) ==
  <<Let(c + 1, e1), Let(c + 2, e2), Let(c + 3, e3), Alloca(c + 4), Store(c + 4, Value(Slot(c + 1)))>>

LEMMA RangeFollows ==
  ASSUME NEW g, NEW c \in Nat \ {0}, g.cells = c, NEW e1, NEW e2, NEW e3
  PROVE  Follows(g, RangeInstrs(c, e1, e2, e3))
<1>1. PICK s : s = RangeInstrs(c, e1, e2, e3)
  OBVIOUS
<1>2. /\ DOMAIN s = {1, 2, 3, 4, 5} /\ s[1] = Let(c + 1, e1) /\ s[2] = Let(c + 2, e2)
      /\ s[3] = Let(c + 3, e3) /\ s[4] = Alloca(c + 4) /\ s[5] = Store(c + 4, Value(Slot(c + 1)))
  <2>1. s = <<Let(c + 1, e1), Let(c + 2, e2), Let(c + 3, e3), Alloca(c + 4), Store(c + 4, Value(Slot(c + 1)))>>
    BY <1>1 DEF RangeInstrs
  <2> QED
    BY <2>1
<1>3. /\ s[1].op = "let" /\ s[1].cell = c + 1 /\ s[2].op = "let" /\ s[2].cell = c + 2
      /\ s[3].op = "let" /\ s[3].cell = c + 3 /\ s[4].op = "alloca" /\ s[4].cell = c + 4
      /\ s[5].op = "store" /\ s[5].cell = c + 4 /\ s[5].e = Value(Slot(c + 1))
  BY <1>2 DEF Alloca, Let, Store, Instr
<1>4. s[5].e.l.cell = c + 1 /\ s[5].e.r.cell = c + 1
  BY <1>3 DEF Value, Slot, Operand, Expr
<1>5. FilledAtOnce(s, 4)
  <2>1. c + 4 # c + 1
    OBVIOUS
  <2>2. 4 + 1 = 5
    OBVIOUS
  <2> QED
    BY <1>2, <1>3, <1>4, <2>1, <2>2 DEF FilledAtOnce
<1>6. FilledAtOnce(s, 1) /\ FilledAtOnce(s, 2) /\ FilledAtOnce(s, 3) /\ FilledAtOnce(s, 5)
  BY <1>3 DEF FilledAtOnce
<1>7. Targeted(s[1]) /\ Targeted(s[2]) /\ Targeted(s[3]) /\ Targeted(s[4]) /\ Targeted(s[5])
  BY <1>3 DEF Targeted
<1>8. Defines(s[1]) /\ Defines(s[2]) /\ Defines(s[3]) /\ Defines(s[4]) /\ ~Defines(s[5])
  BY <1>3 DEF Defines
<1>9. ASSUME NEW k \in DOMAIN s
      PROVE  /\ Targeted(s[k]) /\ FilledAtOnce(s, k)
             /\ Defines(s[k]) => s[k].cell > g.cells
             /\ s[k].op = "store" => \E j \in DOMAIN s : s[j].op = "alloca" /\ s[j].cell = s[k].cell
  <2>1. Targeted(s[k]) /\ FilledAtOnce(s, k)
    BY <1>2, <1>5, <1>6, <1>7
  <2>2. Defines(s[k]) => s[k].cell > g.cells
    BY <1>2, <1>3, <1>8
  <2>3. s[k].op = "store" => \E j \in DOMAIN s : s[j].op = "alloca" /\ s[j].cell = s[k].cell
    BY <1>2, <1>3
  <2> QED
    BY <2>1, <2>2, <2>3
<1>10. ASSUME NEW j \in DOMAIN s, NEW k \in DOMAIN s, Defines(s[j]), Defines(s[k]), s[j].cell = s[k].cell
       PROVE  j = k
  BY <1>2, <1>3, <1>8, <1>10
<1>11. Follows(g, s)
  BY <1>9, <1>10 DEF Follows
<1> QED
  BY <1>1, <1>11

\* What EmitRange makes of the blocks is m.
LEMMA RangeMade ==
  ASSUME NEW g, Builder(g), NEW s, Emittable(g, s), s.kind = "for", NEW h, h = EmitRange(g, s), NEW c, c = g.cells
  PROVE  \E m : /\ Extends(g, RangeInstrs(c, Emitted(g, s.args[1]), Emitted(g, s.args[2]), Emitted(g, s.args[3])), m)
                /\ m.cells = c + 4 /\ m.locals = g.locals
                /\ h = SetLocal(m, s.target, c + 4) /\ IsSlot(m, c + 4)
<1>1. c \in Nat \ {0}
  BY DEF Builder, WellFormed
<1>2. PICK e1, e2, e3 : e1 = Emitted(g, s.args[1]) /\ e2 = Emitted(g, s.args[2]) /\ e3 = Emitted(g, s.args[3])
  OBVIOUS
<1>3. e1 \in Exprs(g) /\ e2 \in Exprs(g) /\ e3 \in Exprs(g)
  <2>1. 1 \in 1 .. Arity(s.kind) /\ 2 \in 1 .. Arity(s.kind) /\ 3 \in 1 .. Arity(s.kind)
    BY DEF Arity
  <2> QED
    BY <1>2, <2>1, ArgTyped
<1>4. PICK t : t = RangeInstrs(c, e1, e2, e3)
  OBVIOUS
<1>5. Follows(g, t)
  BY <1>1, <1>4, RangeFollows
<1>6. PICK m : m = Build(NewCells(g, 4), t)
  OBVIOUS
<1>7. h = SetLocal(m, s.target, c + 4)
  BY <1>2, <1>4, <1>6 DEF EmitRange, RangeInstrs
<1>8. m.cells = c + 4 /\ Larger(g, m)
  BY <1>6, ExtendedFields
<1>9. t \in Seq(Instrs(m)) /\ 4 \in DOMAIN t /\ t[4] = Alloca(c + 4)
  <2>1. e1 \in Exprs(m) /\ e2 \in Exprs(m) /\ e3 \in Exprs(m)
    BY <1>3, <1>8, ExprsGrow
  <2>2. c + 1 \in 0 .. m.cells /\ c + 2 \in 0 .. m.cells /\ c + 3 \in 0 .. m.cells /\ c + 4 \in 0 .. m.cells /\ m.cells \in Nat
    BY <1>1, <1>8
  <2>3. Let(c + 1, e1) \in Instrs(m) /\ Let(c + 2, e2) \in Instrs(m) /\ Let(c + 3, e3) \in Instrs(m)
    BY <2>1, <2>2, InstrTyped
  <2>4. Value(Slot(c + 1)) \in Exprs(m)
    BY <2>2, SlotTyped
  <2>5. Alloca(c + 4) \in Instrs(m) /\ Store(c + 4, Value(Slot(c + 1))) \in Instrs(m)
    BY <2>2, <2>4, InstrTyped
  <2>6. PICK A : A = Instrs(m)
    OBVIOUS
  <2>7. PICK i1, i2, i3, i4, i5 : /\ i1 = Let(c + 1, e1) /\ i2 = Let(c + 2, e2) /\ i3 = Let(c + 3, e3)
                                  /\ i4 = Alloca(c + 4) /\ i5 = Store(c + 4, Value(Slot(c + 1)))
    OBVIOUS
  <2>8. i1 \in A /\ i2 \in A /\ i3 \in A /\ i4 \in A /\ i5 \in A
    BY <2>3, <2>5, <2>6, <2>7
  <2>9. t = <<i1, i2, i3, i4, i5>>
    BY <1>4, <2>7 DEF RangeInstrs
  <2>10. t \in Seq(A) /\ 4 \in DOMAIN t /\ t[4] = i4
    BY <2>8, <2>9
  <2> QED
    BY <2>6, <2>7, <2>10
<1>10. /\ Extends(g, t, m) /\ m.locals = g.locals
       /\ \A j \in DOMAIN t : t[j].op = "alloca" => IsSlot(m, t[j].cell)
  BY <1>5, <1>6, <1>9, Extended
<1>11. IsSlot(m, c + 4)
  BY <1>9, <1>10 DEF Alloca, Instr
<1> QED
  BY <1>2, <1>4, <1>7, <1>8, <1>10, <1>11

LEMMA RangeBuilds ==
  ASSUME NEW g, Builder(g), NEW s, Emittable(g, s), s.kind = "for", NEW h, h = EmitRange(g, s)
  PROVE  /\ Builder(h) /\ Later(g, h) /\ h.at = g.at /\ DOMAIN h.locals = DOMAIN g.locals \cup {s.target}
         /\ DOMAIN h.blocks = DOMAIN g.blocks
         /\ h.cells = g.cells + 4 /\ IsSlot(h, g.cells + 4)
<1>1. PICK m : /\ Extends(g, RangeInstrs(g.cells, Emitted(g, s.args[1]), Emitted(g, s.args[2]), Emitted(g, s.args[3])), m)
               /\ m.cells = g.cells + 4 /\ m.locals = g.locals
               /\ h = SetLocal(m, s.target, g.cells + 4) /\ IsSlot(m, g.cells + 4)
  BY RangeMade
<1>2. Builder(m) /\ Later(g, m) /\ m.at = g.at /\ DOMAIN m.blocks = DOMAIN g.blocks
  BY <1>1 DEF Extends
<1>3. /\ Builder(h) /\ Later(m, h) /\ h.at = m.at /\ h.blocks = m.blocks /\ h.cells = m.cells
      /\ DOMAIN h.locals = DOMAIN m.locals \cup {s.target}
  BY <1>1, <1>2, LocalSet
<1>4. Later(g, h)
  BY <1>2, <1>3, LaterStill
<1>5. IsSlot(h, g.cells + 4)
  BY <1>1, <1>3 DEF Later
<1> QED
  BY <1>1, <1>2, <1>3, <1>4, <1>5

\* The test of a for compares its counter with the end of the range.
LEMMA ForTest ==
  ASSUME NEW g, Builder(g), g.cells >= 2
  PROVE  Expr("lt", Slot(g.cells), Slot(g.cells - 2)) \in Exprs(g)
<1>1. g.cells \in 0 .. g.cells /\ g.cells - 2 \in 0 .. g.cells
  BY DEF Builder, WellFormed
<1>2. "lt" \in Operators
  BY DEF Operators
<1> QED
  BY <1>1, <1>2, SlotTyped, ExprParts

LEMMA ForBuilds ==
  ASSUME NEW g, Builder(g), NEW s, Emittable(g, s), s.kind = "for", NEW h, h = EmitFor(g, s), NEW n, n = Len(g.blocks)
  PROVE  /\ Builder(h) /\ Later(g, h) /\ h.at = n + 2 /\ DOMAIN h.locals = DOMAIN g.locals \cup {s.target}
         /\ n \in Nat /\ DOMAIN g.blocks = 1 .. n /\ DOMAIN h.blocks = 1 .. n + 3
         /\ IsSlot(h, g.cells + 4)
<1>1. PICK k : k = EmitRange(g, s)
  OBVIOUS
<1>2. /\ Builder(k) /\ Later(g, k) /\ DOMAIN k.locals = DOMAIN g.locals \cup {s.target}
      /\ DOMAIN k.blocks = DOMAIN g.blocks /\ k.cells = g.cells + 4 /\ IsSlot(k, g.cells + 4)
  BY <1>1, RangeBuilds
<1>3. PICK e : e = Expr("lt", Slot(k.cells), Slot(k.cells - 2))
  OBVIOUS
<1>4. e \in Exprs(k)
  <2>1. k.cells >= 2
    BY <1>2 DEF Builder, WellFormed
  <2> QED
    BY <1>2, <1>3, <2>1, ForTest
<1>5. h = OpenLoop(k, e)
  BY <1>1, <1>3 DEF EmitFor
<1>6. Len(k.blocks) = n
  <2>1. PICK T : g.blocks \in Seq(T)
    BY DEF Builder, WellFormed
  <2>2. PICK U : k.blocks \in Seq(U)
    BY <1>2 DEF Builder, WellFormed
  <2> QED
    BY <1>2, <2>1, <2>2
<1>7. /\ Builder(h) /\ Later(k, h) /\ h.at = n + 2 /\ h.locals = k.locals
      /\ n \in Nat /\ DOMAIN k.blocks = 1 .. n /\ DOMAIN h.blocks = 1 .. n + 3
  BY <1>2, <1>4, <1>5, <1>6, LoopBuilds
<1>8. Later(g, h)
  BY <1>2, <1>7, LaterStill
<1> QED
  BY <1>2, <1>7, <1>8 DEF Later

-----------------------------------------------------------------------------
(* The ends of blocks                                                      *)

\* h is g, or g with one instruction more.
ClosedWith(g, i, h) ==
  \/ Terminated(g) /\ h = g
  \/ ~Terminated(g) /\ Extends(g, <<i>>, h) /\ h.locals = g.locals /\ h.cells = g.cells

\* Whatever happened to its block, the builder goes on.
LEMMA Itself ==
  ASSUME NEW g, Builder(g)
  PROVE  Later(g, g)
  BY DEF Later, Larger, Builder, WellFormed

LEMMA BranchBuilds ==
  ASSUME NEW g, Builder(g), NEW b \in DOMAIN g.blocks, NEW h, h = BranchUnlessTerminated(g, b)
  PROVE  ClosedWith(g, Br(b), h)
<1>1. Plain(g, Br(b))
  <2>1. g.cells \in Nat
    BY DEF Builder, WellFormed
  <2> QED
    BY <2>1, NoValueTyped, PlainInstrs
<1>2. CASE Terminated(g)
  BY <1>2 DEF BranchUnlessTerminated, ClosedWith
<1>3. CASE ~Terminated(g)
  <2>1. h = Build(g, <<Br(b)>>)
    BY <1>3 DEF BranchUnlessTerminated
  <2> QED
    BY <1>1, <1>3, <2>1, OneMore DEF ClosedWith
<1> QED
  BY <1>2, <1>3

LEMMA FallOffBuilds ==
  ASSUME NEW g, Builder(g), NEW h, h = EmitFallOff(g)
  PROVE  ClosedWith(g, Ret(NoValue), h)
<1>1. Plain(g, Ret(NoValue))
  <2>1. g.cells \in Nat
    BY DEF Builder, WellFormed
  <2> QED
    BY <2>1, NoValueTyped, PlainInstrs
<1>2. CASE Terminated(g)
  BY <1>2 DEF EmitFallOff, ClosedWith
<1>3. CASE ~Terminated(g)
  <2>1. h = Build(g, <<Ret(NoValue)>>)
    BY <1>3 DEF EmitFallOff
  <2> QED
    BY <1>1, <1>3, <2>1, OneMore DEF ClosedWith
<1> QED
  BY <1>2, <1>3

LEMMA ClosedBuilds ==
  ASSUME NEW g, Builder(g), NEW i, NEW h, ClosedWith(g, i, h)
  PROVE  /\ Builder(h) /\ Later(g, h) /\ h.at = g.at /\ h.locals = g.locals
         /\ DOMAIN h.blocks = DOMAIN g.blocks
  BY Itself DEF ClosedWith, Extends

\* The counter moves on, and the loop.
NextInstrs(c, cond) == <<Store(c, Expr("add", Slot(c), Slot(c - 1))), Br(cond)>>

LEMMA NextFollows ==
  ASSUME NEW g, Builder(g), NEW c, IsSlot(g, c), NEW b \in DOMAIN g.blocks
  PROVE  Follows(g, NextInstrs(c, b)) /\ NextInstrs(c, b) \in Seq(Instrs(g))
<1>1. g.cells \in Nat /\ c \in 2 .. g.cells
  BY DEF Builder, WellFormed, IsSlot
<1>2. c \in 0 .. g.cells /\ c - 1 \in 0 .. g.cells /\ "add" \in Operators
  BY <1>1 DEF Operators
<1>3. PICK e : e = Expr("add", Slot(c), Slot(c - 1))
  OBVIOUS
<1>4. e \in Exprs(g)
  BY <1>2, <1>3, SlotTyped, ExprParts
<1>5. Plain(g, Store(c, e)) /\ Plain(g, Br(b))
  BY <1>4, PlainInstrs
<1>6. PICK i, j : i = Store(c, e) /\ j = Br(b)
  OBVIOUS
<1>7. PICK s : s = <<i, j>>
  OBVIOUS
<1>8. NextInstrs(c, b) = s
  BY <1>3, <1>6, <1>7 DEF NextInstrs
<1>9. DOMAIN s = {1, 2} /\ s[1] = i /\ s[2] = j
  BY <1>7
<1>10. s \in Seq(Instrs(g))
  <2>1. PICK A : A = Instrs(g)
    OBVIOUS
  <2>2. i \in A /\ j \in A
    BY <1>5, <1>6, <2>1 DEF Plain
  <2> QED
    BY <1>7, <2>1, <2>2
<1>11. /\ Targeted(i) /\ ~Defines(i) /\ (i.op = "store" => IsSlot(g, i.cell))
       /\ Targeted(j) /\ ~Defines(j) /\ (j.op = "store" => IsSlot(g, j.cell))
  BY <1>5, <1>6 DEF Plain
<1>12. ASSUME NEW k \in DOMAIN s
       PROVE  /\ Targeted(s[k]) /\ ~Defines(s[k]) /\ (s[k].op = "store" => IsSlot(g, s[k].cell))
  BY <1>9, <1>11
<1>13. ASSUME NEW k \in DOMAIN s PROVE FilledAtOnce(s, k)
  BY <1>12 DEF FilledAtOnce, Defines
<1>14. Follows(g, s)
  BY <1>12, <1>13 DEF Follows
<1> QED
  BY <1>8, <1>10, <1>14

LEMMA NextBuilds ==
  ASSUME NEW g, Builder(g), NEW c, IsSlot(g, c), NEW b \in DOMAIN g.blocks, NEW h, h = EmitNext(g, c, b)
  PROVE  \/ Terminated(g) /\ h = g
         \/ /\ ~Terminated(g) /\ Extends(g, NextInstrs(c, b), h)
            /\ h.locals = g.locals /\ h.cells = g.cells
<1>1. CASE Terminated(g)
  BY <1>1 DEF EmitNext
<1>2. CASE ~Terminated(g)
  <2>1. PICK s : s = NextInstrs(c, b)
    OBVIOUS
  <2>2. h = Build(g, s)
    BY <1>2, <2>1 DEF EmitNext, NextInstrs
  <2>3. Follows(g, s) /\ s \in Seq(Instrs(g))
    BY <2>1, NextFollows
  <2> QED
    BY <1>2, <2>1, <2>2, <2>3, ExtendedOnly
<1> QED
  BY <1>1, <1>2

LEMMA NextKeeps ==
  ASSUME NEW g, Builder(g), NEW c, IsSlot(g, c), NEW b \in DOMAIN g.blocks, NEW h, h = EmitNext(g, c, b)
  PROVE  /\ Builder(h) /\ Later(g, h) /\ h.at = g.at /\ h.locals = g.locals
         /\ DOMAIN h.blocks = DOMAIN g.blocks
<1>1. CASE h = g
  BY <1>1, Itself
<1>2. CASE Extends(g, NextInstrs(c, b), h) /\ h.locals = g.locals
  BY <1>2 DEF Extends
<1> QED
  BY <1>1, <1>2, NextBuilds

\* The empty block a function begins with.
Empty == [blocks |-> << <<>> >>, at |-> 1, cells |-> 1, locals |-> [x \in {} |-> 0]]

LEMMA EmptyBuilder == Builder(Empty)
<1>1. PICK blocks : blocks = << <<>> >>
  OBVIOUS
<1>2. DOMAIN blocks = {1} /\ DOMAIN blocks[1] = {} /\ blocks # <<>>
  BY <1>1
<1>3. Empty.blocks = blocks /\ Empty.at = 1 /\ Empty.cells = 1 /\ DOMAIN Empty.locals = {} /\ IsBuild(Empty)
  BY <1>1 DEF Empty, IsBuild
<1>4. blocks \in Seq(Seq(Instrs(Empty)))
  <2>1. PICK A : A = Instrs(Empty)
    OBVIOUS
  <2>2. blocks \in Seq(Seq(A))
    BY <1>1
  <2> QED
    BY <2>1, <2>2
<1>5. ASSUME NEW c, NEW d \in Definitions(blocks, c) PROVE FALSE
  BY <1>2, InDefinitions
<1>6. WellFormed(Empty)
  BY <1>2, <1>3, <1>4, <1>5 DEF WellFormed, DefinedOnce
<1> QED
  BY <1>2, <1>3, <1>6 DEF Builder

LEMMA EntryBuilds == Builder(EntryBuild) /\ DOMAIN EntryBuild.locals = {"n"}
<1>1. Builder(Empty) /\ DOMAIN Empty.locals = {} /\ Empty.cells = 1
  BY EmptyBuilder DEF Empty
<1>2. 1 \in 0 .. Empty.cells
  BY <1>1
<1>3. Value(Slot(1)) \in Exprs(Empty)
  BY <1>2, SlotTyped
<1>4. EntryBuild = BindSlot(Empty, "n", Value(Slot(1)))
  BY DEF EntryBuild, Empty
<1> QED
  BY <1>1, <1>3, <1>4, BoundBuilder

-----------------------------------------------------------------------------
(* The frames                                                              *)

Kinds == {"body", "then", "else", "while", "for"}

\* A frame for statements of p jumps to blocks of g.
FrameSet(g, p) ==
  LET Blocks == Seq(Within(p.body))
  IN  [kind : Kinds, body : Blocks, i : Nat \ {0}, orelse : Blocks,
       to : DOMAIN g.blocks, exit : DOMAIN g.blocks, cell : Nat]

\* The outermost frame is that of the function, and a for knows its counter.
Stacked(fs, g, p) ==
  /\ fs \in Seq(FrameSet(g, p)) /\ fs # <<>>
  /\ fs[1].kind = "body"
  /\ \A i \in DOMAIN fs : fs[i].kind = "for" => IsSlot(g, fs[i].cell)

\* What holds of the compiler while it emits.
CInv ==
  /\ prog \in Programs
  /\ phase \in {"infer", "codegen"} => Builder(build) /\ Stacked(frames, build, prog)

LEMMA FramesGrow ==
  ASSUME NEW g, NEW h, NEW p, Larger(g, h)
  PROVE  FrameSet(g, p) \subseteq FrameSet(h, p)
<1> DEFINE B == Seq(Within(p.body))
           F(x) == [kind : Kinds, body : B, i : Nat \ {0}, orelse : B,
                    to : DOMAIN x.blocks, exit : DOMAIN x.blocks, cell : Nat]
<1>1. DOMAIN g.blocks \subseteq DOMAIN h.blocks
  BY DEF Larger
<1>2. FrameSet(g, p) = F(g) /\ FrameSet(h, p) = F(h)
  BY DEF FrameSet
<1> HIDE DEF B
<1>3. F(g) \subseteq F(h)
  BY <1>1
<1> QED
  BY <1>2, <1>3

LEMMA FrameMade ==
  ASSUME NEW g, NEW p, NEW kind \in Kinds, NEW b \in Seq(Within(p.body)), NEW o \in Seq(Within(p.body)),
         NEW to \in DOMAIN g.blocks, NEW exit \in DOMAIN g.blocks, NEW cell \in Nat
  PROVE  Frame(kind, b, o, to, exit, cell) \in FrameSet(g, p)
<1>1. PICK B : B = Seq(Within(p.body))
  OBVIOUS
<1>2. PICK D : D = DOMAIN g.blocks
  OBVIOUS
<1>3. FrameSet(g, p) = [kind : Kinds, body : B, i : Nat \ {0}, orelse : B, to : D, exit : D, cell : Nat]
  BY <1>1, <1>2 DEF FrameSet
<1> QED
  BY <1>1, <1>2, <1>3 DEF Frame

\* A frame goes on to its next statement.
Moved(f) == [f EXCEPT !.i = @ + 1]

LEMMA FrameFields ==
  ASSUME NEW g, NEW p, NEW f \in FrameSet(g, p)
  PROVE  /\ f.kind \in Kinds /\ f.body \in Seq(Within(p.body)) /\ f.orelse \in Seq(Within(p.body))
         /\ f.i \in Nat \ {0} /\ f.to \in DOMAIN g.blocks /\ f.exit \in DOMAIN g.blocks /\ f.cell \in Nat
         /\ Moved(f) \in FrameSet(g, p) /\ Moved(f).kind = f.kind /\ Moved(f).cell = f.cell
         /\ ElseFrame(f) \in FrameSet(g, p) /\ ElseFrame(f).kind = "else"
<1>1. PICK B : B = Seq(Within(p.body))
  OBVIOUS
<1>2. PICK D : D = DOMAIN g.blocks
  OBVIOUS
<1>3. PICK N : N = Nat \ {0}
  OBVIOUS
<1>4. FrameSet(g, p) = [kind : Kinds, body : B, i : N, orelse : B, to : D, exit : D, cell : Nat]
  BY <1>1, <1>2, <1>3 DEF FrameSet
<1>5. f.kind \in Kinds /\ f.body \in B /\ f.orelse \in B /\ f.i \in N /\ f.to \in D /\ f.exit \in D /\ f.cell \in Nat
  BY <1>4
<1>6. PICK j \in N : j = f.i + 1
  BY <1>3, <1>5
<1>7. Moved(f) = [f EXCEPT !.i = j]
  BY <1>6 DEF Moved
<1>8. /\ [f EXCEPT !.i = j] \in FrameSet(g, p)
      /\ [f EXCEPT !.i = j].kind = f.kind /\ [f EXCEPT !.i = j].cell = f.cell
  BY <1>4
<1>9. 1 \in N /\ "else" \in Kinds
  BY <1>3 DEF Kinds
<1>10. ElseFrame(f) \in FrameSet(g, p) /\ ElseFrame(f).kind = "else"
  <2>1. PICK b \in B, t \in D : b = f.orelse /\ t = f.to
    BY <1>5
  <2>2. ElseFrame(f) = [f EXCEPT !.kind = "else", !.body = b, !.i = 1, !.exit = t]
    BY <2>1 DEF ElseFrame
  <2>3. PICK K : K = Kinds /\ "else" \in K
    BY <1>9
  <2>4. f \in [kind : K, body : B, i : N, orelse : B, to : D, exit : D, cell : Nat]
    BY <1>4, <2>3
  <2>5. PICK e : e = [f EXCEPT !.kind = "else", !.body = b, !.i = 1, !.exit = t]
    OBVIOUS
  <2>6. e \in [kind : K, body : B, i : N, orelse : B, to : D, exit : D, cell : Nat] /\ e.kind = "else"
    BY <1>9, <2>3, <2>4, <2>5
  <2> QED
    BY <1>4, <2>2, <2>3, <2>5, <2>6
<1> QED
  BY <1>1, <1>2, <1>3, <1>5, <1>7, <1>8, <1>10

LEMMA StackedLater ==
  ASSUME NEW fs, NEW g, NEW h, NEW p, Stacked(fs, g, p), Later(g, h)
  PROVE  Stacked(fs, h, p)
<1>1. PICK F, G : F = FrameSet(g, p) /\ G = FrameSet(h, p)
  OBVIOUS
<1>2. F \subseteq G
  BY <1>1, FramesGrow DEF Later
<1>3. fs \in Seq(F)
  BY <1>1 DEF Stacked
<1>4. fs \in Seq(G)
  BY <1>2, <1>3, SeqGrows
<1>5. \A i \in DOMAIN fs : fs[i].kind = "for" => IsSlot(h, fs[i].cell)
  BY DEF Stacked, Later
<1> QED
  BY <1>1, <1>4, <1>5 DEF Stacked

\* The sequences made of the frames.
LEMMA StackSequences ==
  ASSUME NEW F, NEW fs \in Seq(F), fs # <<>>, NEW f \in F
  PROVE  /\ Len(fs) \in Nat \ {0} /\ DOMAIN fs = 1 .. Len(fs) /\ fs[Len(fs)] \in F
         /\ [fs EXCEPT ![Len(fs)] = f] \in Seq(F) /\ [fs EXCEPT ![Len(fs)] = f] # <<>>
         /\ DOMAIN [fs EXCEPT ![Len(fs)] = f] = DOMAIN fs
         /\ Append(fs, f) \in Seq(F) /\ Append(fs, f) # <<>>
         /\ DOMAIN Append(fs, f) = 1 .. Len(fs) + 1
         /\ Append(fs, f)[Len(fs) + 1] = f
         /\ \A i \in DOMAIN fs : Append(fs, f)[i] = fs[i]
<1>1. Len(fs) \in Nat \ {0} /\ DOMAIN fs = 1 .. Len(fs) /\ fs[Len(fs)] \in F
  OBVIOUS
<1>2. Len(fs) \in DOMAIN fs
  BY <1>1
<1>3. PICK t : t = [fs EXCEPT ![Len(fs)] = f]
  OBVIOUS
<1>4. t \in Seq(F) /\ DOMAIN t = DOMAIN fs
  BY <1>2, <1>3, Replacing
<1>5. t # <<>>
  BY <1>2, <1>4
<1>6. PICK a : a = Append(fs, f)
  OBVIOUS
<1>7. a \in Seq(F) /\ DOMAIN a = 1 .. Len(fs) + 1 /\ a[Len(fs) + 1] = f
  BY <1>1, <1>6
<1>8. a # <<>> /\ \A i \in DOMAIN fs : a[i] = fs[i]
  BY <1>1, <1>6, <1>7
<1> QED
  BY <1>1, <1>3, <1>4, <1>5, <1>6, <1>7, <1>8

LEMMA BelowSequence ==
  ASSUME NEW F, NEW fs \in Seq(F), Len(fs) > 1
  PROVE  /\ SubSeq(fs, 1, Len(fs) - 1) \in Seq(F) /\ SubSeq(fs, 1, Len(fs) - 1) # <<>>
         /\ DOMAIN SubSeq(fs, 1, Len(fs) - 1) = 1 .. Len(fs) - 1
         /\ \A i \in 1 .. Len(fs) - 1 : SubSeq(fs, 1, Len(fs) - 1)[i] = fs[i]
<1>1. PICK n \in Nat \ {0} : n = Len(fs) - 1 /\ n <= Len(fs)
  OBVIOUS
<1>2. PICK t : t = SubSeq(fs, 1, n)
  OBVIOUS
<1>3. t \in Seq(F)
  BY <1>1, <1>2
<1>4. Len(t) = n
  BY <1>1, <1>2
<1>5. \A i \in 1 .. n : t[i] = fs[i]
  BY <1>1, <1>2
<1>6. DOMAIN t = 1 .. n /\ t # <<>>
  BY <1>1, <1>3, <1>4
<1> QED
  BY <1>1, <1>2, <1>3, <1>5, <1>6

\* Another frame.
LEMMA StackedPush ==
  ASSUME NEW fs, NEW g, NEW p, Stacked(fs, g, p), NEW f \in FrameSet(g, p),
         f.kind = "for" => IsSlot(g, f.cell)
  PROVE  Stacked(Append(fs, f), g, p)
<1>1. PICK F : F = FrameSet(g, p)
  OBVIOUS
<1>2. fs \in Seq(F) /\ fs # <<>> /\ f \in F
  BY <1>1 DEF Stacked
<1>3. PICK t : t = Append(fs, f)
  OBVIOUS
<1>4. /\ Len(fs) \in Nat \ {0} /\ DOMAIN fs = 1 .. Len(fs)
      /\ t \in Seq(F) /\ t # <<>> /\ DOMAIN t = 1 .. Len(fs) + 1
      /\ t[Len(fs) + 1] = f /\ \A i \in DOMAIN fs : t[i] = fs[i]
  BY <1>2, <1>3, StackSequences
<1>5. t[1].kind = "body"
  <2>1. 1 \in DOMAIN fs
    BY <1>4
  <2> QED
    BY <1>4, <2>1 DEF Stacked
<1>6. ASSUME NEW i \in DOMAIN t, t[i].kind = "for" PROVE IsSlot(g, t[i].cell)
  <2>1. i \in DOMAIN fs \/ i = Len(fs) + 1
    BY <1>4
  <2> QED
    BY <1>4, <1>6, <2>1 DEF Stacked
<1>7. Stacked(t, g, p)
  BY <1>1, <1>4, <1>5, <1>6 DEF Stacked
<1> QED
  BY <1>3, <1>7

\* The innermost frame is one of them.
LEMMA TopFrame ==
  ASSUME NEW g, NEW p, Stacked(frames, g, p)
  PROVE  /\ Len(frames) \in Nat \ {0} /\ DOMAIN frames = 1 .. Len(frames)
         /\ Top \in FrameSet(g, p) /\ (Top.kind = "for" => IsSlot(g, Top.cell))
         /\ Top.kind # "body" => Len(frames) > 1
<1>1. PICK F : F = FrameSet(g, p)
  OBVIOUS
<1>2. frames \in Seq(F) /\ frames # <<>> /\ frames[1].kind = "body"
  BY <1>1 DEF Stacked
<1>3. Len(frames) \in Nat \ {0} /\ DOMAIN frames = 1 .. Len(frames)
  BY <1>2
<1>4. frames[Len(frames)] \in F /\ Len(frames) \in DOMAIN frames
  BY <1>2, <1>3
<1>5. Top.kind = "for" => IsSlot(g, Top.cell)
  BY <1>4 DEF Top, Stacked
<1>6. Top.kind # "body" => Len(frames) > 1
  BY <1>2, <1>3 DEF Top
<1> QED
  BY <1>1, <1>3, <1>4, <1>5, <1>6 DEF Top

\* The statement is behind.
LEMMA StackedPassed ==
  ASSUME NEW g, NEW p, Stacked(frames, g, p)
  PROVE  Stacked(Passed, g, p)
<1>1. PICK F : F = FrameSet(g, p)
  OBVIOUS
<1>2. frames \in Seq(F) /\ frames # <<>> /\ frames[1].kind = "body"
  BY <1>1 DEF Stacked
<1>3. PICK f : f = Moved(Top)
  OBVIOUS
<1>4. Top \in F /\ (Top.kind = "for" => IsSlot(g, Top.cell))
  BY <1>1, TopFrame
<1>5. f \in F /\ f.kind = Top.kind /\ f.cell = Top.cell
  <2>1. PICK u : u = Top /\ u \in FrameSet(g, p)
    BY <1>1, <1>4
  <2>2. Moved(u) \in FrameSet(g, p) /\ Moved(u).kind = u.kind /\ Moved(u).cell = u.cell
    BY <2>1, FrameFields
  <2> QED
    BY <1>1, <1>3, <2>1, <2>2
<1>6. PICK t : t = [frames EXCEPT ![Len(frames)] = f]
  OBVIOUS
<1>7. Passed = t
  BY <1>3, <1>6 DEF Passed, Top, Moved
<1>8. t \in Seq(F) /\ t # <<>> /\ DOMAIN t = DOMAIN frames
  BY <1>2, <1>5, <1>6, StackSequences
<1>9. ASSUME NEW i \in DOMAIN frames PROVE t[i].kind = frames[i].kind /\ t[i].cell = frames[i].cell
  BY <1>5, <1>6 DEF Top
<1>10. 1 \in DOMAIN frames
  BY <1>2
<1>11. Stacked(t, g, p)
  BY <1>1, <1>2, <1>8, <1>9, <1>10 DEF Stacked
<1> QED
  BY <1>7, <1>11

\* The innermost frame is done.
LEMMA StackedBelow ==
  ASSUME NEW g, NEW p, Stacked(frames, g, p), Top.kind # "body"
  PROVE  Stacked(Below, g, p)
<1>1. PICK F : F = FrameSet(g, p)
  OBVIOUS
<1>2. frames \in Seq(F) /\ frames[1].kind = "body" /\ Len(frames) > 1
  BY <1>1, TopFrame DEF Stacked
<1>3. PICK t : t = SubSeq(frames, 1, Len(frames) - 1)
  OBVIOUS
<1>4. /\ t \in Seq(F) /\ t # <<>> /\ DOMAIN t = 1 .. Len(frames) - 1
      /\ \A i \in 1 .. Len(frames) - 1 : t[i] = frames[i]
  BY <1>2, <1>3, BelowSequence
<1>5. 1 \in DOMAIN t /\ DOMAIN t \subseteq DOMAIN frames
  BY <1>2, <1>4
<1>6. Stacked(t, g, p)
  BY <1>1, <1>2, <1>4, <1>5 DEF Stacked
<1> QED
  BY <1>3, <1>6 DEF Below

-----------------------------------------------------------------------------
(* The steps of the compiler                                               *)

\* A statement of the function is typed, and so are its blocks.
LEMMA StatementTyped ==
  ASSUME NEW p \in Programs, NEW s \in Within(p.body)
  PROVE  TypedStmt(s) /\ s.body \in Seq(Within(p.body)) /\ s.orelse \in Seq(Within(p.body))
  BY ProgramsAssumption DEF Encloses

LEMMA HereTyped ==
  ASSUME CInv, NEW kind, AtStmt(kind)
  PROVE  /\ Builder(build) /\ Stacked(frames, build, prog)
         /\ Emittable(build, Here) /\ Here.kind = kind
         /\ Here \in Within(prog.body)
         /\ Here.body \in Seq(Within(prog.body)) /\ Here.orelse \in Seq(Within(prog.body))
<1>1. Builder(build) /\ Stacked(frames, build, prog) /\ prog \in Programs
  BY DEF CInv, AtStmt
<1>2. Top \in FrameSet(build, prog)
  BY <1>1, TopFrame
<1>3. Top.body \in Seq(Within(prog.body)) /\ Top.i \in DOMAIN Top.body
  BY <1>2, FrameFields DEF AtStmt
<1>4. Here \in Within(prog.body)
  <2>1. PICK W : W = Within(prog.body)
    OBVIOUS
  <2> QED
    BY <1>3, <2>1 DEF Here
<1>5. TypedStmt(Here) /\ Here.body \in Seq(Within(prog.body)) /\ Here.orelse \in Seq(Within(prog.body))
  BY <1>1, <1>4, StatementTyped
<1> QED
  BY <1>1, <1>4, <1>5 DEF AtStmt, Emittable

LEMMA Built ==
  ASSUME CInv, NEW h, Builder(h), NEW fs, Stacked(fs, h, prog), Builds(h, fs)
  PROVE  CInv'
  BY DEF CInv, Builds

\* A statement that leaves the frames alone.
LEMMA BuiltPassed ==
  ASSUME CInv, Stacked(frames, build, prog), NEW h, Builder(h), Later(build, h), Builds(h, Passed)
  PROVE  CInv'
<1>1. Stacked(Passed, build, prog)
  BY StackedPassed
<1>2. Stacked(Passed, h, prog)
  BY <1>1, StackedLater
<1> QED
  BY <1>2, Built

\* A statement with a block.
LEMMA BuiltPush ==
  ASSUME CInv, Stacked(frames, build, prog), NEW h, Builder(h), Later(build, h),
         NEW f \in FrameSet(h, prog), f.kind = "for" => IsSlot(h, f.cell), Builds(h, Append(Passed, f))
  PROVE  CInv'
<1>1. Stacked(Passed, build, prog)
  BY StackedPassed
<1>2. Stacked(Passed, h, prog)
  BY <1>1, StackedLater
<1>3. PICK fs : fs = Passed
  OBVIOUS
<1>4. Stacked(Append(fs, f), h, prog)
  BY <1>2, <1>3, StackedPush
<1> QED
  BY <1>3, <1>4, Built

LEMMA AssignStep ==
  ASSUME CInv, AssignStmt
  PROVE  CInv'
<1>1. AtStmt("assign") /\ Builds(EmitAssign(build, Here), Passed)
  BY DEF AssignStmt
<1>2. Builder(build) /\ Stacked(frames, build, prog) /\ Emittable(build, Here) /\ Here.kind = "assign"
  BY <1>1, HereTyped
<1>3. Builder(EmitAssign(build, Here)) /\ Later(build, EmitAssign(build, Here))
  BY <1>2, AssignBuilds
<1> QED
  BY <1>1, <1>2, <1>3, BuiltPassed

LEMMA AugAssignStep ==
  ASSUME CInv, AugAssignStmt
  PROVE  CInv'
<1>1. AtStmt("aug") /\ Builds(EmitAugAssign(build, Here), Passed)
  BY DEF AugAssignStmt
<1>2. Builder(build) /\ Stacked(frames, build, prog) /\ Emittable(build, Here) /\ Here.kind = "aug"
  BY <1>1, HereTyped
<1>3. Builder(EmitAugAssign(build, Here)) /\ Later(build, EmitAugAssign(build, Here))
  BY <1>2, AugAssignBuilds DEF Extends
<1> QED
  BY <1>1, <1>2, <1>3, BuiltPassed

LEMMA IfStep ==
  ASSUME CInv, IfStmt
  PROVE  CInv'
<1>1. AtStmt("if") /\ Builds(EmitIf(build, Here), Append(Passed, ThenFrame(build, Here)))
  BY DEF IfStmt
<1>2. /\ Builder(build) /\ Stacked(frames, build, prog) /\ Emittable(build, Here) /\ Here.kind = "if"
      /\ Here.body \in Seq(Within(prog.body)) /\ Here.orelse \in Seq(Within(prog.body))
  BY <1>1, HereTyped
<1>3. PICK n, h : n = Len(build.blocks) /\ h = EmitIf(build, Here)
  OBVIOUS
<1>4. Builder(h) /\ Later(build, h) /\ n \in Nat /\ DOMAIN h.blocks = 1 .. n + 3
  BY <1>2, <1>3, IfBuilds
<1>5. PICK f : f = ThenFrame(build, Here)
  OBVIOUS
<1>6. f = Frame("then", Here.body, Here.orelse, n + 3, n + 2, 0)
  BY <1>3, <1>5 DEF ThenFrame
<1>7. f \in FrameSet(h, prog) /\ f.kind # "for"
  <2>1. n + 3 \in DOMAIN h.blocks /\ n + 2 \in DOMAIN h.blocks /\ "then" \in Kinds
    BY <1>4 DEF Kinds
  <2>2. f \in FrameSet(h, prog)
    BY <1>2, <1>6, <2>1, FrameMade
  <2> QED
    BY <1>6, <2>2 DEF Frame
<1> QED
  BY <1>1, <1>2, <1>3, <1>4, <1>5, <1>7, BuiltPush

\* The frame of a loop.
LEMMA LoopFramed ==
  ASSUME NEW p, NEW g, NEW s, s.kind \in Kinds, s.body \in Seq(Within(p.body)), NEW cell \in Nat,
         NEW h, Len(g.blocks) + 1 \in DOMAIN h.blocks, Len(g.blocks) + 3 \in DOMAIN h.blocks
  PROVE  /\ LoopFrame(g, s, cell) \in FrameSet(h, p)
         /\ LoopFrame(g, s, cell).kind = s.kind /\ LoopFrame(g, s, cell).cell = cell
<1>0. PICK n, f : n = Len(g.blocks) /\ f = LoopFrame(g, s, cell)
  OBVIOUS
<1>1. f = Frame(s.kind, s.body, <<>>, n + 1, n + 3, cell)
  BY <1>0 DEF LoopFrame
<1>2. n + 3 \in DOMAIN h.blocks /\ n + 1 \in DOMAIN h.blocks /\ s.kind \in Kinds
  BY <1>0
<1>a. <<>> \in Seq(Within(p.body))
  OBVIOUS
<1>3. PICK none : none = <<>>
  OBVIOUS
<1>4. PICK k, b, to, exit : k = s.kind /\ b = s.body /\ to = n + 1 /\ exit = n + 3
  OBVIOUS
<1>5. f = Frame(k, b, none, to, exit, cell)
  BY <1>1, <1>3, <1>4
<1>b. /\ k \in Kinds /\ b \in Seq(Within(p.body)) /\ none \in Seq(Within(p.body))
      /\ to \in DOMAIN h.blocks /\ exit \in DOMAIN h.blocks /\ cell \in Nat
  BY <1>a, <1>2, <1>3, <1>4
<1>6. f \in FrameSet(h, p)
  BY <1>b, <1>5, FrameMade
<1> QED
  BY <1>0, <1>4, <1>5, <1>6 DEF Frame

LEMMA WhileStep ==
  ASSUME CInv, WhileStmt
  PROVE  CInv'
<1>1. AtStmt("while") /\ Builds(EmitWhile(build, Here), Append(Passed, LoopFrame(build, Here, 0)))
  BY DEF WhileStmt
<1>2. /\ Builder(build) /\ Stacked(frames, build, prog) /\ Emittable(build, Here) /\ Here.kind = "while"
      /\ Here.body \in Seq(Within(prog.body))
  BY <1>1, HereTyped
<1>3. PICK n, h, e : n = Len(build.blocks) /\ h = EmitWhile(build, Here) /\ e = Emitted(build, Here.args[1])
  OBVIOUS
<1>4. e \in Exprs(build) /\ h = OpenLoop(build, e)
  BY <1>2, <1>3, FirstArg DEF EmitWhile
<1>5. Builder(h) /\ Later(build, h) /\ n \in Nat /\ DOMAIN h.blocks = 1 .. n + 3
  BY <1>2, <1>3, <1>4, LoopBuilds
<1>6. PICK f : f = LoopFrame(build, Here, 0)
  OBVIOUS
<1>7. f \in FrameSet(h, prog) /\ f.kind = "while"
  <2>1. PICK s : s = Here
    OBVIOUS
  <2>2. s.kind \in Kinds /\ s.body \in Seq(Within(prog.body)) /\ 0 \in Nat
    BY <1>2, <2>1 DEF Kinds
  <2>3. n + 1 \in DOMAIN h.blocks /\ n + 3 \in DOMAIN h.blocks /\ n \in Nat
    BY <1>5
  <2> QED
    <3>1. f = LoopFrame(build, s, 0) /\ n = Len(build.blocks)
      BY <1>3, <1>6, <2>1
    <3>2. f \in FrameSet(h, prog) /\ f.kind = s.kind
      BY <2>2, <2>3, <3>1, LoopFramed
    <3> QED
      BY <1>2, <2>1, <3>2
<1> QED
  BY <1>1, <1>2, <1>3, <1>5, <1>6, <1>7, BuiltPush

LEMMA ForStep ==
  ASSUME CInv, ForStmt
  PROVE  CInv'
<1>1. AtStmt("for") /\ Builds(EmitFor(build, Here), Append(Passed, LoopFrame(build, Here, build.cells + 4)))
  BY DEF ForStmt
<1>2. /\ Builder(build) /\ Stacked(frames, build, prog) /\ Emittable(build, Here) /\ Here.kind = "for"
      /\ Here.body \in Seq(Within(prog.body))
  BY <1>1, HereTyped
<1>3. PICK n, h, c : n = Len(build.blocks) /\ h = EmitFor(build, Here) /\ c = build.cells + 4
  OBVIOUS
<1>4. Builder(h) /\ Later(build, h) /\ n \in Nat /\ DOMAIN h.blocks = 1 .. n + 3 /\ IsSlot(h, c)
  BY <1>2, <1>3, ForBuilds
<1>5. c \in Nat
  BY <1>4 DEF IsSlot
<1>6. PICK f : f = LoopFrame(build, Here, c)
  OBVIOUS
<1>7. f \in FrameSet(h, prog) /\ f.kind = "for" /\ f.cell = c
  <2>1. PICK s : s = Here
    OBVIOUS
  <2>2. s.kind \in Kinds /\ s.body \in Seq(Within(prog.body))
    BY <1>2, <2>1 DEF Kinds
  <2>3. n + 1 \in DOMAIN h.blocks /\ n + 3 \in DOMAIN h.blocks /\ n \in Nat
    BY <1>4
  <2> QED
    <3>1. f = LoopFrame(build, s, c) /\ n = Len(build.blocks)
      BY <1>3, <1>6, <2>1
    <3>2. f \in FrameSet(h, prog) /\ f.kind = s.kind /\ f.cell = c
      BY <1>5, <2>2, <2>3, <3>1, LoopFramed
    <3> QED
      BY <1>2, <2>1, <3>2
<1> QED
  BY <1>1, <1>2, <1>3, <1>4, <1>6, <1>7, BuiltPush

\* The loop that break and continue leave for is there.
LEMMA InnermostLoop ==
  ASSUME NEW g, NEW p, Stacked(frames, g, p), LoopsOpen # {}
  PROVE  /\ \E i \in LoopsOpen : CurrentLoop = frames[i] /\ \A j \in LoopsOpen : j <= i
         /\ \A kind : JumpTarget(kind) \in DOMAIN g.blocks
<1>1. PICK N : N = Len(frames)
  OBVIOUS
<1>2. N \in Nat /\ DOMAIN frames = 1 .. N
  BY <1>1, TopFrame
<1>3. PICK i \in LoopsOpen : \A j \in LoopsOpen : j <= i
  <2> DEFINE T == {N - i : i \in LoopsOpen}
  <2>1. LoopsOpen \subseteq 1 .. N
    BY <1>2 DEF LoopsOpen
  <2>a. ASSUME NEW i \in LoopsOpen PROVE N - i \in Nat
    BY <1>2, <2>1
  <2>2. T \in SUBSET Nat /\ T # {}
    BY <2>a
  <2> HIDE DEF T
  <2>3. PICK t \in T : \A u \in T : t <= u
    BY <2>2, LeastNatural
  <2>4. PICK i \in LoopsOpen : t = N - i
    BY DEF T
  <2>5. ASSUME NEW j \in LoopsOpen PROVE j <= i
    <3>1. N - j \in T
      BY DEF T
    <3>2. N - i <= N - j
      BY <2>3, <2>4, <3>1
    <3> QED
      BY <1>2, <2>1, <3>2
  <2> QED
    BY <2>5
<1>4. PICK m : m = CHOOSE k \in LoopsOpen : \A j \in LoopsOpen : j <= k
  OBVIOUS
<1>5. m \in LoopsOpen /\ \A j \in LoopsOpen : j <= m
  BY <1>3, <1>4
<1>6. CurrentLoop = frames[m]
  BY <1>4 DEF CurrentLoop
<1>7. CurrentLoop \in FrameSet(g, p)
  <2>1. PICK F : F = FrameSet(g, p)
    OBVIOUS
  <2>2. frames \in Seq(F) /\ m \in DOMAIN frames
    BY <1>5, <2>1 DEF Stacked, LoopsOpen
  <2> QED
    BY <1>6, <2>1, <2>2
<1>8. CurrentLoop.to \in DOMAIN g.blocks /\ CurrentLoop.exit \in DOMAIN g.blocks
  BY <1>7, FrameFields
<1> QED
  BY <1>5, <1>6, <1>8 DEF JumpTarget

\* An instruction that ends a block.
LEMMA JumpBuilds ==
  ASSUME NEW g, Builder(g)
  PROVE  /\ \A b \in DOMAIN g.blocks : Extends(g, <<Br(b)>>, Build(g, <<Br(b)>>))
                                       /\ Build(g, <<Br(b)>>).locals = g.locals
         /\ \A e \in Exprs(g) : Extends(g, <<Ret(e)>>, Build(g, <<Ret(e)>>))
                                /\ Build(g, <<Ret(e)>>).locals = g.locals
<1>1. ASSUME NEW b \in DOMAIN g.blocks
      PROVE  Extends(g, <<Br(b)>>, Build(g, <<Br(b)>>)) /\ Build(g, <<Br(b)>>).locals = g.locals
  <2>1. g.cells \in Nat
    BY DEF Builder, WellFormed
  <2>2. Plain(g, Br(b))
    BY <2>1, NoValueTyped, PlainInstrs
  <2> QED
    BY <2>2, OneMore
<1>2. ASSUME NEW e \in Exprs(g)
      PROVE  Extends(g, <<Ret(e)>>, Build(g, <<Ret(e)>>)) /\ Build(g, <<Ret(e)>>).locals = g.locals
  <2>1. Plain(g, Ret(e))
    BY PlainInstrs
  <2> QED
    BY <2>1, OneMore
<1> QED
  BY <1>1, <1>2

LEMMA JumpStep ==
  ASSUME CInv, JumpStmt
  PROVE  CInv'
<1>1. PICK kind \in {"break", "continue"} :
        AtStmt(kind) /\ LoopsOpen # {} /\ Builds(Build(build, <<Br(JumpTarget(kind))>>), Passed)
  BY DEF JumpStmt
<1>2. Builder(build) /\ Stacked(frames, build, prog)
  BY <1>1, HereTyped
<1>3. PICK b \in DOMAIN build.blocks : b = JumpTarget(kind)
  BY <1>1, <1>2, InnermostLoop
<1>4. PICK h : h = Build(build, <<Br(b)>>)
  OBVIOUS
<1>5. Builder(h) /\ Later(build, h)
  BY <1>2, <1>4, JumpBuilds DEF Extends
<1> QED
  BY <1>1, <1>2, <1>3, <1>4, <1>5, BuiltPassed

LEMMA ReturnStep ==
  ASSUME CInv, ReturnStmt
  PROVE  CInv'
<1>1. AtStmt("return") /\ Builds(Build(build, <<Ret(Emitted(build, Here.args[1]))>>), Passed)
  BY DEF ReturnStmt
<1>2. Builder(build) /\ Stacked(frames, build, prog) /\ Emittable(build, Here) /\ Here.kind = "return"
  BY <1>1, HereTyped
<1>3. PICK e \in Exprs(build) : e = Emitted(build, Here.args[1])
  BY <1>2, FirstArg
<1>4. PICK h : h = Build(build, <<Ret(e)>>)
  OBVIOUS
<1>5. Builder(h) /\ Later(build, h)
  BY <1>2, <1>4, JumpBuilds DEF Extends
<1> QED
  BY <1>1, <1>2, <1>3, <1>4, <1>5, BuiltPassed

LEMMA EndTyped ==
  ASSUME CInv, NEW kind, AtEnd(kind)
  PROVE  /\ Builder(build) /\ Stacked(frames, build, prog) /\ Top.kind = kind
         /\ Top \in FrameSet(build, prog)
         /\ Top.to \in DOMAIN build.blocks /\ Top.exit \in DOMAIN build.blocks
         /\ Top.kind = "for" => IsSlot(build, Top.cell)
<1>1. Builder(build) /\ Stacked(frames, build, prog) /\ Top.kind = kind
  BY DEF CInv, AtEnd
<1>2. Top \in FrameSet(build, prog) /\ (Top.kind = "for" => IsSlot(build, Top.cell))
  BY <1>1, TopFrame
<1> QED
  BY <1>1, <1>2, FrameFields

\* The block ends, and the builder goes on in another.
LEMMA EndBuilds ==
  ASSUME NEW g, Builder(g), NEW b \in DOMAIN g.blocks, NEW h,
         Builder(h), Later(g, h), NEW k, k = PositionAt(h, b)
  PROVE  Builder(k) /\ Later(g, k)
<1>1. b \in DOMAIN h.blocks
  BY DEF Later, Larger
<1>2. Builder(k) /\ Later(h, k)
  BY <1>1, Positioned
<1> QED
  BY <1>2, LaterStill

LEMMA ThenEndStep ==
  ASSUME CInv, ThenEnd
  PROVE  CInv'
<1>1. AtEnd("then") /\ Builds(PositionAt(BranchUnlessTerminated(build, Top.to), Top.exit), Append(Below, ElseFrame(Top)))
  BY DEF ThenEnd
<1>2. /\ Builder(build) /\ Stacked(frames, build, prog) /\ Top.kind = "then"
      /\ Top \in FrameSet(build, prog)
      /\ Top.to \in DOMAIN build.blocks /\ Top.exit \in DOMAIN build.blocks
  BY <1>1, EndTyped
<1>3. PICK h : h = BranchUnlessTerminated(build, Top.to)
  OBVIOUS
<1>4. Builder(h) /\ Later(build, h)
  <2>1. ClosedWith(build, Br(Top.to), h)
    BY <1>2, <1>3, BranchBuilds
  <2> QED
    BY <1>2, <2>1, ClosedBuilds
<1>5. PICK k : k = PositionAt(h, Top.exit)
  OBVIOUS
<1>6. Builder(k) /\ Later(build, k)
  BY <1>2, <1>4, <1>5, EndBuilds
<1>7. PICK fs : fs = Below /\ Stacked(fs, k, prog)
  <2>1. Stacked(Below, build, prog)
    BY <1>2, StackedBelow
  <2>2. Stacked(Below, k, prog)
    BY <1>6, <2>1, StackedLater
  <2> QED
    BY <2>2
<1>8. PICK f \in FrameSet(k, prog) : f = ElseFrame(Top) /\ f.kind = "else"
  <2>1. ElseFrame(Top) \in FrameSet(build, prog) /\ ElseFrame(Top).kind = "else"
    BY <1>2, FrameFields
  <2>2. FrameSet(build, prog) \subseteq FrameSet(k, prog)
    BY <1>6, FramesGrow DEF Later
  <2> QED
    BY <2>1, <2>2
<1>9. Stacked(Append(fs, f), k, prog)
  BY <1>7, <1>8, StackedPush
<1> QED
  BY <1>1, <1>3, <1>5, <1>6, <1>7, <1>8, <1>9, Built

\* The end of a frame that leaves no other.
LEMMA BuiltBelow ==
  ASSUME CInv, Stacked(frames, build, prog), Top.kind # "body",
         NEW h, Builder(h), Later(build, h), Builds(h, Below)
  PROVE  CInv'
<1>1. Stacked(Below, build, prog)
  BY StackedBelow
<1>2. Stacked(Below, h, prog)
  BY <1>1, StackedLater
<1> QED
  BY <1>2, Built

LEMMA ElseOrWhileEndStep ==
  ASSUME CInv, ElseOrWhileEnd
  PROVE  CInv'
<1>1. PICK kind \in {"else", "while"} :
        AtEnd(kind) /\ Builds(PositionAt(BranchUnlessTerminated(build, Top.to), Top.exit), Below)
  BY DEF ElseOrWhileEnd
<1>2. /\ Builder(build) /\ Stacked(frames, build, prog) /\ Top.kind = kind
      /\ Top.to \in DOMAIN build.blocks /\ Top.exit \in DOMAIN build.blocks
  BY <1>1, EndTyped
<1>3. PICK h : h = BranchUnlessTerminated(build, Top.to)
  OBVIOUS
<1>4. Builder(h) /\ Later(build, h)
  <2>1. ClosedWith(build, Br(Top.to), h)
    BY <1>2, <1>3, BranchBuilds
  <2> QED
    BY <1>2, <2>1, ClosedBuilds
<1>5. PICK k : k = PositionAt(h, Top.exit)
  OBVIOUS
<1>6. Builder(k) /\ Later(build, k)
  BY <1>2, <1>4, <1>5, EndBuilds
<1> QED
  BY <1>1, <1>2, <1>3, <1>5, <1>6, BuiltBelow

LEMMA ForEndStep ==
  ASSUME CInv, ForEnd
  PROVE  CInv'
<1>1. AtEnd("for") /\ Builds(PositionAt(EmitNext(build, Top.cell, Top.to), Top.exit), Below)
  BY DEF ForEnd
<1>2. /\ Builder(build) /\ Stacked(frames, build, prog) /\ Top.kind = "for"
      /\ Top.to \in DOMAIN build.blocks /\ Top.exit \in DOMAIN build.blocks
      /\ IsSlot(build, Top.cell)
  BY <1>1, EndTyped
<1>3. PICK h : h = EmitNext(build, Top.cell, Top.to)
  OBVIOUS
<1>4. Builder(h) /\ Later(build, h)
  BY <1>2, <1>3, NextKeeps
<1>5. PICK k : k = PositionAt(h, Top.exit)
  OBVIOUS
<1>6. Builder(k) /\ Later(build, k)
  BY <1>2, <1>4, <1>5, EndBuilds
<1> QED
  BY <1>1, <1>2, <1>3, <1>5, <1>6, BuiltBelow

\* What is handed over is well formed.
LEMMA HandedOver ==
  ASSUME NEW g, Builder(g), HandsOver(g)
  PROVE  WellFormed(code')
<1>1. PICK c : c = [blocks |-> g.blocks, cells |-> g.cells]
  OBVIOUS
<1>2. WellFormed(c)
  <2>1. c.blocks = g.blocks /\ c.cells = g.cells /\ WellFormed(g)
    BY <1>1 DEF Builder
  <2> QED
    BY <2>1, SameBlocks
<1>3. code' = c
  BY <1>1 DEF HandsOver
<1> QED
  BY <1>2, <1>3

LEMMA FunctionEndStep ==
  ASSUME CInv, FunctionEnd
  PROVE  WellFormed(code')
<1>1. AtEnd("body") /\ HandsOver(EmitFallOff(build))
  BY DEF FunctionEnd
<1>2. Builder(build)
  BY <1>1, EndTyped
<1>3. PICK h : h = EmitFallOff(build)
  OBVIOUS
<1>4. ClosedWith(build, Ret(NoValue), h)
  BY <1>2, <1>3, FallOffBuilds
<1>5. Builder(h)
  BY <1>2, <1>4, ClosedBuilds
<1> QED
  BY <1>1, <1>3, <1>5, HandedOver

LEMMA DictStep ==
  ASSUME CInv, DictReturned
  PROVE  WellFormed(code')
<1>1. AtStmt("return") /\ HandsOver(Build(build, <<Ret(Emitted(build, Here.args[1]))>>))
  BY DEF DictReturned
<1>2. Builder(build) /\ Emittable(build, Here) /\ Here.kind = "return"
  BY <1>1, HereTyped
<1>3. PICK e \in Exprs(build) : e = Emitted(build, Here.args[1])
  BY <1>2, FirstArg
<1>4. PICK h : h = Build(build, <<Ret(e)>>)
  OBVIOUS
<1>5. Builder(h)
  BY <1>2, <1>4, JumpBuilds DEF Extends
<1> QED
  BY <1>1, <1>3, <1>4, <1>5, HandedOver

\* Steps that leave the emitters.
LEMMA Leaving ==
  ASSUME CInv, prog' = prog, phase' \notin {"infer", "codegen"}
  PROVE  CInv'
  BY DEF CInv

LEMMA CompilerStarts ==
  ASSUME CompilerInit
  PROVE  CInv
<1>1. Builder(build) /\ prog \in Programs /\ frames = <<BodyFrame(prog)>>
  BY EntryBuilds DEF CompilerInit
<1>2. prog.body \in Seq(Within(prog.body)) /\ <<>> \in Seq(Within(prog.body))
  BY <1>1, ProgramsAssumption DEF Encloses
<1>3. 1 \in DOMAIN build.blocks
  BY <1>1 DEF Builder, WellFormed
<1>4. PICK f : f = BodyFrame(prog)
  OBVIOUS
<1>5. f \in FrameSet(build, prog) /\ f.kind = "body"
  <2>1. PICK b, o : b = prog.body /\ o = <<>>
    OBVIOUS
  <2>2. b \in Seq(Within(prog.body)) /\ o \in Seq(Within(prog.body))
    BY <1>2, <2>1
  <2>3. f = Frame("body", b, o, 1, 1, 0)
    BY <1>4, <2>1 DEF BodyFrame
  <2>4. "body" \in Kinds /\ 0 \in Nat
    BY DEF Kinds
  <2>5. f \in FrameSet(build, prog)
    BY <1>3, <2>2, <2>3, <2>4, FrameMade
  <2> QED
    BY <2>3, <2>5 DEF Frame
<1>6. Stacked(frames, build, prog)
  <2>1. PICK F : F = FrameSet(build, prog)
    OBVIOUS
  <2>2. PICK fs : fs = <<f>>
    OBVIOUS
  <2>3. fs \in Seq(F) /\ fs # <<>> /\ DOMAIN fs = {1} /\ fs[1] = f
    BY <1>5, <2>1, <2>2
  <2>4. Stacked(fs, build, prog)
    BY <1>5, <2>1, <2>3 DEF Stacked
  <2> QED
    BY <1>1, <1>4, <2>2, <2>4
<1> QED
  BY <1>1, <1>6 DEF CInv

\* Every step is one of the machine, and keeps the invariant.
LEMMA CompilerStep ==
  ASSUME CInv, [CompilerNext]_<<emitter, machine>>
  PROVE  CInv' /\ [MachineNext]_machine
<1>1. CASE Infer
  <2>1. CInv'
    BY <1>1 DEF Infer, CInv, emitter
  <2>2. Prepare
    BY <1>1 DEF Infer, Prepare
  <2> QED
    BY <2>1, <2>2 DEF MachineNext
<1>2. CASE AssignStmt
  BY <1>2, AssignStep DEF AssignStmt, Builds
<1>3. CASE AugAssignStmt
  BY <1>3, AugAssignStep DEF AugAssignStmt, Builds
<1>4. CASE IfStmt
  BY <1>4, IfStep DEF IfStmt, Builds
<1>5. CASE WhileStmt
  BY <1>5, WhileStep DEF WhileStmt, Builds
<1>6. CASE ForStmt
  BY <1>6, ForStep DEF ForStmt, Builds
<1>7. CASE JumpStmt
  BY <1>7, JumpStep DEF JumpStmt, Builds
<1>8. CASE ReturnStmt
  BY <1>8, ReturnStep DEF ReturnStmt, Builds
<1>9. CASE ThenEnd
  BY <1>9, ThenEndStep DEF ThenEnd, Builds
<1>10. CASE ElseOrWhileEnd
  BY <1>10, ElseOrWhileEndStep DEF ElseOrWhileEnd, Builds
<1>11. CASE ForEnd
  BY <1>11, ForEndStep DEF ForEnd, Builds
<1>12. CASE FunctionEnd
  <2>1. PICK g : HandsOver(g)
    BY <1>12 DEF FunctionEnd
  <2>2. phase = "codegen" /\ WellFormed(code')
    BY <1>12, FunctionEndStep DEF FunctionEnd, AtEnd
  <2>3. Emit
    BY <2>1, <2>2 DEF Emit, HandsOver
  <2>4. CInv'
    BY <2>1, Leaving DEF HandsOver
  <2> QED
    BY <2>3, <2>4 DEF MachineNext
<1>13. CASE DictReturned
  <2>1. PICK g : HandsOver(g)
    BY <1>13 DEF DictReturned
  <2>2. phase = "codegen" /\ WellFormed(code')
    BY <1>13, DictStep DEF DictReturned, AtStmt
  <2>3. Emit
    BY <2>1, <2>2 DEF Emit, HandsOver
  <2>4. CInv'
    BY <2>1, Leaving DEF HandsOver
  <2> QED
    BY <2>3, <2>4 DEF MachineNext
<1>14. CASE Fail
  <2>1. phase = "codegen"
    BY <1>14 DEF Fail, AtStmt, AtEnd
  <2>2. Prepare
    BY <1>14, <2>1 DEF Fail, Prepare
  <2>3. CInv'
    BY <1>14, Leaving DEF Fail, emitter
  <2> QED
    BY <2>2, <2>3 DEF MachineNext
<1>15. CASE (Verify \/ (\E n \in Inputs : Enter(n)) \/ Exec) /\ UNCHANGED emitter
  <2>1. MachineNext
    BY <1>15 DEF MachineNext
  <2>2. phase' \notin {"infer", "codegen"}
    BY <1>15 DEF Verify, Enter, Exec, ExecAlloca, ExecWrite, ExecBranch, ExecReturn, ExecTrap
  <2>3. CInv'
    BY <1>15, <2>2, Leaving DEF emitter
  <2> QED
    BY <2>1, <2>3
<1>16. CASE UNCHANGED <<emitter, machine>>
  BY <1>16 DEF CInv, emitter, machine
<1> QED
  BY <1>1, <1>2, <1>3, <1>4, <1>5, <1>6, <1>7, <1>8, <1>9, <1>10, <1>11, <1>12, <1>13, <1>14, <1>15, <1>16
     DEF CompilerNext, EmitStep

\* Whatever function is compiled, the blocks handed to the verifier are well formed:
\* the code generator is a builder of the machine.
THEOREM EmittersBuildForTheMachine == CompilerSpec => BuildsForTheMachine
<1>1. CompilerInit => CInv /\ MachineInit
  BY CompilerStarts DEF CompilerInit
<1>2. CInv /\ [CompilerNext]_<<emitter, machine>> => CInv' /\ [MachineNext]_machine
  BY CompilerStep
<1> QED
  BY <1>1, <1>2, PTL DEF CompilerSpec, BuildsForTheMachine, MachineSpec

\* So compiled functions that pass the verifier are memory safe, and their values
\* keep their width.
THEOREM CompiledCodeIsMemorySafe == CompilerSpec => []MemorySafe
<1>1. CompilerSpec => MachineSpec
  BY EmittersBuildForTheMachine DEF BuildsForTheMachine
<1> QED
  BY <1>1, VerifiedCodeIsMemorySafe, PTL

THEOREM CompiledValuesFit == CompilerSpec => []MachineTypeOK
<1>1. CompilerSpec => MachineSpec
  BY EmittersBuildForTheMachine DEF BuildsForTheMachine
<1> QED
  BY <1>1, ValuesFit, PTL

-----------------------------------------------------------------------------
(* Blocks that a call leaves for good                                      *)

IsLoop(f) == f.kind \in {"while", "for"}

\* The blocks that a block jumps to.
JumpsOf(block) ==
  UNION {{block[k].to[i] : i \in DOMAIN block[k].to} :
           k \in {l \in DOMAIN block : block[l].op \in Terminators}}

Allocates(block) == \E k \in DOMAIN block : block[k].op = "alloca"

\* Nothing follows a jump: what the verifier lets through.
TerminatorsLast(blocks) ==
  \A b \in DOMAIN blocks : \A k \in DOMAIN blocks[b] :
    blocks[b][k].op \in Terminators => k = Len(blocks[b])

\* From block b a call goes to blocks of S, and from those only to blocks of S: it does
\* not come back to b.
LeftFor(blocks, b, S) ==
  /\ S \subseteq DOMAIN blocks /\ b \notin S
  /\ JumpsOf(blocks[b]) \subseteq S
  /\ \A x \in S : JumpsOf(blocks[x]) \subseteq S

\* Even if more jumps to K are made.
Once(blocks, b, K) == \E S : LeftFor(blocks, b, S) /\ K \subseteq S

LEMMA InJumps ==
  ASSUME NEW s
  PROVE  \A x : x \in JumpsOf(s) <=>
           \E k \in DOMAIN s : s[k].op \in Terminators /\ \E i \in DOMAIN s[k].to : x = s[k].to[i]
  BY DEF JumpsOf

LEMMA NoJumps ==
  ASSUME NEW s, \A k \in DOMAIN s : s[k].op \notin Terminators
  PROVE  JumpsOf(s) = {}
  BY InJumps

LEMMA NothingInEmpty ==
  ASSUME NEW s, s = <<>>
  PROVE  JumpsOf(s) = {} /\ ~Allocates(s)
<1>1. DOMAIN s = {}
  OBVIOUS
<1> QED
  BY <1>1, NoJumps DEF Allocates

\* One instruction.
LEMMA OneInstr ==
  ASSUME NEW i, NEW s, s = <<i>>
  PROVE  /\ s # <<>>
         /\ i.op \notin Terminators => JumpsOf(s) = {}
         /\ \A x : x \in JumpsOf(s) => \E k \in DOMAIN i.to : x = i.to[k]
         /\ i.op # "alloca" => ~Allocates(s)
<1>1. s # <<>> /\ DOMAIN s = {1} /\ s[1] = i
  OBVIOUS
<1>2. i.op \notin Terminators => JumpsOf(s) = {}
  BY <1>1, NoJumps
<1>3. \A x : x \in JumpsOf(s) => \E k \in DOMAIN i.to : x = i.to[k]
  BY <1>1, InJumps
<1>4. i.op # "alloca" => ~Allocates(s)
  BY <1>1 DEF Allocates
<1> QED
  BY <1>1, <1>2, <1>3, <1>4

LEMMA OneBr ==
  ASSUME NEW b, NEW s, s = <<Br(b)>>
  PROVE  s # <<>> /\ JumpsOf(s) \subseteq {b} /\ ~Allocates(s)
<1>1. Br(b).to = <<b>> /\ Br(b).op = "br"
  BY DEF Br, Instr
<1>2. DOMAIN <<b>> = {1} /\ <<b>>[1] = b
  OBVIOUS
<1>3. \A x : x \in JumpsOf(s) => x = b
  BY <1>1, <1>2, OneInstr
<1> QED
  BY <1>1, <1>3, OneInstr

LEMMA OneCondBr ==
  ASSUME NEW e, NEW b, NEW c, NEW s, s = <<CondBr(e, b, c)>>
  PROVE  s # <<>> /\ JumpsOf(s) \subseteq {b, c} /\ ~Allocates(s)
<1>1. CondBr(e, b, c).to = <<b, c>> /\ CondBr(e, b, c).op = "cbr"
  BY DEF CondBr, Instr
<1>2. DOMAIN <<b, c>> = {1, 2} /\ <<b, c>>[1] = b /\ <<b, c>>[2] = c
  OBVIOUS
<1>3. \A x : x \in JumpsOf(s) => x \in {b, c}
  BY <1>1, <1>2, OneInstr
<1> QED
  BY <1>1, <1>3, OneInstr

LEMMA OneRet ==
  ASSUME NEW e, NEW s, s = <<Ret(e)>>
  PROVE  s # <<>> /\ JumpsOf(s) = {} /\ ~Allocates(s)
<1>1. Ret(e).to = <<>> /\ Ret(e).op = "ret"
  BY DEF Ret, Instr
<1>2. DOMAIN Ret(e).to = {}
  BY <1>1
<1>3. \A x : x \notin JumpsOf(s)
  BY <1>2, OneInstr
<1> QED
  BY <1>1, <1>3, OneInstr

\* What instructions at the end of a block change.
LEMMA AppendedJumps ==
  ASSUME NEW g, NEW s, NEW h, WellFormed(g), Appended(g, s, h)
  PROVE  /\ DOMAIN h.blocks = DOMAIN g.blocks /\ g.at \in DOMAIN g.blocks
         /\ \A b \in DOMAIN g.blocks : b # g.at => h.blocks[b] = g.blocks[b]
         /\ JumpsOf(h.blocks[g.at]) \subseteq JumpsOf(g.blocks[g.at]) \cup JumpsOf(s)
         /\ Allocates(h.blocks[g.at]) => Allocates(g.blocks[g.at]) \/ Allocates(s)
         /\ TerminatorsLast(h.blocks) =>
              TerminatorsLast(g.blocks) /\ (s # <<>> => JumpsOf(g.blocks[g.at]) = {})
<1>1. /\ DOMAIN h.blocks = DOMAIN g.blocks /\ g.at \in DOMAIN g.blocks
      /\ h.blocks \in Seq(Seq(Instrs(h)))
  BY AppendedAt DEF Appended
<1>2. \A b \in DOMAIN g.blocks : b # g.at => h.blocks[b] = g.blocks[b]
  BY DEF Appended, Lengthened
<1>3. ASSUME NEW k \in DOMAIN h.blocks[g.at]
      PROVE  \/ k \in DOMAIN g.blocks[g.at] /\ h.blocks[g.at][k] = g.blocks[g.at][k]
             \/ \E j \in DOMAIN s : h.blocks[g.at][k] = s[j]
  BY <1>1, AppendedAt
<1>4. JumpsOf(h.blocks[g.at]) \subseteq JumpsOf(g.blocks[g.at]) \cup JumpsOf(s)
  <2> SUFFICES ASSUME NEW x \in JumpsOf(h.blocks[g.at])
               PROVE  x \in JumpsOf(g.blocks[g.at]) \/ x \in JumpsOf(s)
    OBVIOUS
  <2>1. PICK k \in DOMAIN h.blocks[g.at] :
          /\ h.blocks[g.at][k].op \in Terminators
          /\ \E i \in DOMAIN h.blocks[g.at][k].to : x = h.blocks[g.at][k].to[i]
    BY InJumps
  <2> QED
    BY <1>3, <2>1, InJumps
<1>5. Allocates(h.blocks[g.at]) => Allocates(g.blocks[g.at]) \/ Allocates(s)
  BY <1>3 DEF Allocates
<1>6. ASSUME NEW b \in DOMAIN g.blocks
      PROVE  /\ DOMAIN h.blocks[b] = 1 .. Len(h.blocks[b]) /\ Len(h.blocks[b]) \in Nat
             /\ DOMAIN g.blocks[b] = 1 .. Len(g.blocks[b]) /\ Len(g.blocks[b]) \in Nat
  <2>1. PICK A : h.blocks \in Seq(Seq(A))
    BY <1>1
  <2>2. PICK B : g.blocks \in Seq(Seq(B))
    BY DEF WellFormed
  <2>3. h.blocks[b] \in Seq(A) /\ g.blocks[b] \in Seq(B)
    BY <1>1, <2>1, <2>2
  <2> QED
    BY <2>3
<1>7. ASSUME TerminatorsLast(h.blocks), NEW b \in DOMAIN g.blocks, NEW k \in DOMAIN g.blocks[b],
             g.blocks[b][k].op \in Terminators
      PROVE  k = Len(g.blocks[b]) /\ k = Len(h.blocks[b])
  <2>1. k \in DOMAIN h.blocks[b] /\ h.blocks[b][k] = g.blocks[b][k]
    BY AppendedAt
  <2>2. k = Len(h.blocks[b])
    BY <1>1, <1>7, <2>1 DEF TerminatorsLast
  <2>3. Len(g.blocks[b]) \in DOMAIN g.blocks[b] /\ k <= Len(g.blocks[b])
    BY <1>6
  <2>4. Len(g.blocks[b]) \in DOMAIN h.blocks[b]
    BY <2>3, AppendedAt
  <2>5. Len(g.blocks[b]) <= Len(h.blocks[b])
    BY <1>6, <2>4
  <2> QED
    BY <1>6, <2>2, <2>3, <2>5
<1>8. ASSUME TerminatorsLast(h.blocks), s # <<>> PROVE JumpsOf(g.blocks[g.at]) = {}
  <2>1. 1 \in DOMAIN s
    <3>1. PICK A : s \in Seq(A)
      BY DEF Appended
    <3> QED
      BY <1>8, <3>1
  <2>2. Len(g.blocks[g.at]) + 1 \in DOMAIN h.blocks[g.at]
    BY <2>1, AppendedAt
  <2>3. Len(g.blocks[g.at]) # Len(h.blocks[g.at])
    BY <1>1, <1>6, <2>2
  <2>4. \A k \in DOMAIN g.blocks[g.at] : g.blocks[g.at][k].op \notin Terminators
    BY <1>1, <1>7, <1>8, <2>3
  <2> QED
    BY <2>4, NoJumps
<1>9. TerminatorsLast(h.blocks) => TerminatorsLast(g.blocks)
  BY <1>7 DEF TerminatorsLast
<1> QED
  BY <1>1, <1>2, <1>4, <1>5, <1>8, <1>9

-----------------------------------------------------------------------------
(* Slots of blocks that a call leaves for good                             *)

AllOnce(blocks) == \A b \in DOMAIN blocks : Allocates(blocks[b]) => Once(blocks, b, {})

\* The call is after d in its block, or it does not come back to it.
Beyond(d) ==
  \/ pc.block = d[1] /\ pc.index > d[2]
  \/ \E S : LeftFor(code.blocks, d[1], S) /\ pc.block \in S

\* The slots of a call are behind it.
SlotsBehind ==
  \A c \in slots : \A d \in Definitions(code.blocks, c) :
    code.blocks[d[1]][d[2]].op = "alloca" /\ Beyond(d)

\* So none of them is allocated next.
LEMMA NoneTwice ==
  ASSUME MInv, phase = "running", SlotsBehind, Current.op = "alloca", Current.cell \in slots
  PROVE  FALSE
<1>1. /\ WellFormed(code) /\ pc \in [block : DOMAIN code.blocks, index : Nat]
      /\ pc.index \in DOMAIN code.blocks[pc.block]
      /\ Current = code.blocks[pc.block][pc.index]
  BY Standing
<1>2. pc.block \in DOMAIN code.blocks /\ pc.index \in Nat
  BY <1>1
<1>3. <<pc.block, pc.index>> \in Definitions(code.blocks, Current.cell)
  BY <1>1, <1>2, InDefinitions
<1>4. PICK d \in Definitions(code.blocks, Current.cell) : d[1] = pc.block /\ d[2] = pc.index
  BY <1>3
<1>5. Beyond(d)
  BY <1>4 DEF SlotsBehind
<1>6. ~(pc.index > d[2])
  BY <1>2, <1>4
<1> QED
  BY <1>4, <1>5, <1>6 DEF Beyond, LeftFor

\* A step within the block.
LEMMA BeyondAdvance ==
  ASSUME MInv, phase = "running", Advance, UNCHANGED code, NEW d, d[2] \in Nat, Beyond(d)
  PROVE  Beyond(d)'
<1>1. pc \in [block : DOMAIN code.blocks, index : Nat]
  BY Standing
<1>2. pc'.block = pc.block /\ pc'.index = pc.index + 1 /\ pc.index \in Nat
  BY <1>1 DEF Advance
<1>3. CASE pc.block = d[1] /\ pc.index > d[2]
  BY <1>2, <1>3 DEF Beyond
<1>4. CASE \E S : LeftFor(code.blocks, d[1], S) /\ pc.block \in S
  <2>1. PICK S : LeftFor(code.blocks, d[1], S) /\ pc.block \in S
    BY <1>4
  <2>2. LeftFor(code'.blocks, d[1], S) /\ pc'.block \in S
    BY <1>2, <2>1
  <2> QED
    BY <2>2 DEF Beyond
<1> QED
  BY <1>3, <1>4 DEF Beyond

\* A jump.
LEMMA BeyondBranch ==
  ASSUME MInv, ExecBranch, NEW d, Beyond(d), Once(code.blocks, d[1], {})
  PROVE  Beyond(d)'
<1>1. /\ WellFormed(code) /\ pc \in [block : DOMAIN code.blocks, index : Nat]
      /\ pc.index \in DOMAIN code.blocks[pc.block]
      /\ Current = code.blocks[pc.block][pc.index]
      /\ pc.index = Len(code.blocks[pc.block])
      /\ Current.op \in Terminators
  BY Standing DEF ExecBranch, Terminators
<1>2. pc'.block \in Successors(code.blocks, pc.block) /\ code' = code
  BY BranchTarget DEF ExecBranch
<1>3. pc'.block \in JumpsOf(code.blocks[pc.block])
  BY <1>1, <1>2, InJumps DEF Successors
<1>4. CASE pc.block = d[1]
  <2>1. PICK S : LeftFor(code.blocks, d[1], S)
    BY DEF Once
  <2>2. pc'.block \in S
    BY <1>3, <1>4, <2>1 DEF LeftFor
  <2>3. LeftFor(code'.blocks, d[1], S)
    BY <1>2, <2>1
  <2> QED
    BY <2>2, <2>3 DEF Beyond
<1>5. CASE pc.block # d[1]
  <2>1. PICK S : LeftFor(code.blocks, d[1], S) /\ pc.block \in S
    BY <1>5 DEF Beyond
  <2>2. pc'.block \in S
    BY <1>3, <2>1 DEF LeftFor
  <2>3. LeftFor(code'.blocks, d[1], S)
    BY <1>2, <2>1
  <2> QED
    BY <2>2, <2>3 DEF Beyond
<1> QED
  BY <1>4, <1>5

\* A call keeps its slots behind it.
LEMMA CallKeepsSlots ==
  ASSUME MInv, phase = "running", SlotsBehind, AllOnce(code.blocks), Exec
  PROVE  SlotsBehind'
<1>1. WellFormed(code)
  BY Standing
<1>2. ASSUME NEW c, NEW d \in Definitions(code.blocks, c)
      PROVE  d[1] \in DOMAIN code.blocks /\ d[2] \in DOMAIN code.blocks[d[1]] /\ d[2] \in Nat
  BY <1>1, DefinitionAt
<1>3. CASE ExecAlloca
  <2>1. /\ pc \in [block : DOMAIN code.blocks, index : Nat]
        /\ pc.index \in DOMAIN code.blocks[pc.block]
        /\ Current = code.blocks[pc.block][pc.index]
        /\ Current \in Instrs(code)
    BY <1>3, Standing DEF ExecAlloca
  <2>2. code' = code /\ slots' = slots \cup {Current.cell} /\ Advance /\ Current.op = "alloca"
    BY <1>3 DEF ExecAlloca
  <2>3. pc.block \in DOMAIN code.blocks /\ pc.index \in Nat
    BY <2>1
  <2>4. ASSUME NEW d \in Definitions(code.blocks, Current.cell)
        PROVE  code.blocks[d[1]][d[2]].op = "alloca" /\ Beyond(d)'
    <3>1. <<pc.block, pc.index>> \in Definitions(code.blocks, Current.cell)
      BY <2>1, <2>2, <2>3, InDefinitions
    <3>2. Current.cell \in 0 .. code.cells
      BY <2>1, InstrParts
    <3>3. d = <<pc.block, pc.index>>
      BY <1>1, <3>1, <3>2 DEF WellFormed, DefinedOnce
    <3>4. d[1] = pc.block /\ d[2] = pc.index
      BY <3>3
    <3>5. pc'.block = pc.block /\ pc'.index = pc.index + 1
      BY <2>1, <2>2 DEF Advance
    <3> QED
      BY <2>1, <2>2, <2>3, <3>4, <3>5 DEF Beyond
  <2>5. ASSUME NEW c \in slots, NEW d \in Definitions(code.blocks, c)
        PROVE  code.blocks[d[1]][d[2]].op = "alloca" /\ Beyond(d)'
    BY <1>2, <2>2, BeyondAdvance DEF SlotsBehind
  <2> QED
    BY <2>2, <2>4, <2>5 DEF SlotsBehind
<1>4. CASE ExecWrite
  <2>1. code' = code /\ slots' = slots /\ Advance
    BY <1>4 DEF ExecWrite
  <2>2. ASSUME NEW c \in slots, NEW d \in Definitions(code.blocks, c)
        PROVE  code.blocks[d[1]][d[2]].op = "alloca" /\ Beyond(d)'
    BY <1>2, <2>1, BeyondAdvance DEF SlotsBehind
  <2> QED
    BY <2>1, <2>2 DEF SlotsBehind
<1>5. CASE ExecBranch
  <2>1. code' = code /\ slots' = slots
    BY <1>5 DEF ExecBranch
  <2>2. ASSUME NEW c \in slots, NEW d \in Definitions(code.blocks, c)
        PROVE  code.blocks[d[1]][d[2]].op = "alloca" /\ Beyond(d)'
    <3>1. code.blocks[d[1]][d[2]].op = "alloca" /\ Beyond(d)
      BY <2>2 DEF SlotsBehind
    <3>2. Once(code.blocks, d[1], {})
      BY <1>2, <3>1 DEF AllOnce, Allocates
    <3> QED
      BY <1>5, <3>1, <3>2, BeyondBranch
  <2> QED
    BY <2>1, <2>2 DEF SlotsBehind
<1>6. CASE ExecReturn \/ ExecTrap
  <2>1. code' = code /\ slots' = slots /\ pc' = pc
    BY <1>6 DEF ExecReturn, ExecTrap
  <2> QED
    BY <2>1 DEF SlotsBehind, Beyond
<1> QED
  BY <1>3, <1>4, <1>5, <1>6 DEF Exec

-----------------------------------------------------------------------------
(* What the statements still to emit assign                                *)

\* W is closed: the blocks of its statements are of its statements.
HasBlocks(W, f) == Encloses(W, f.body) /\ Encloses(W, f.orelse)

\* The names the statements of frame f assign are in L.
Bound(f, L) ==
  \E W : HasBlocks(W, f) /\ \A s \in W :
    s.kind \in {"assign", "aug"} /\ s.target # "" => s.target \in L

ForFree(f) == \E W : HasBlocks(W, f) /\ \A s \in W : s.kind # "for"

\* Names assigned before the statement the outermost frame is at have slots, and so
\* have those assigned in the frames above it.
HoistedFrames(fs, L, p) ==
  /\ 1 \in DOMAIN fs /\ fs[1].body = p.body
  /\ \A i \in DOMAIN fs : fs[i].kind = "body" <=> i = 1
  /\ "n" \in L
  /\ \A j \in DOMAIN p.body : (j < fs[1].i /\ p.body[j].target # "") => p.body[j].target \in L
  /\ \A i \in DOMAIN fs : i # 1 => Bound(fs[i], L)

\* In a loop no for is left.
FlatFrames(fs) == \A i, j \in DOMAIN fs : (i <= j /\ IsLoop(fs[i])) => ForFree(fs[j])

Nested(fs, L, p) == HoistedFrames(fs, L, p) /\ FlatFrames(fs)

LEMMA EmptyBlock ==
  ASSUME NEW W, NEW b, b = <<>>
  PROVE  b \in Seq(W)
  OBVIOUS

LEMMA InBlock ==
  ASSUME NEW W, NEW b, b \in Seq(W), NEW k \in DOMAIN b
  PROVE  b[k] \in W /\ k \in Nat
  OBVIOUS

LEMMA BoundGrows ==
  ASSUME NEW f, NEW L, NEW M, L \subseteq M, Bound(f, L)
  PROVE  Bound(f, M)
  BY DEF Bound

LEMMA HoistedGrows ==
  ASSUME NEW fs, NEW L, NEW M, NEW p, L \subseteq M, HoistedFrames(fs, L, p)
  PROVE  HoistedFrames(fs, M, p)
<1>1. \A i \in DOMAIN fs : i # 1 => Bound(fs[i], M)
  BY BoundGrows DEF HoistedFrames
<1> QED
  BY <1>1 DEF HoistedFrames

LEMMA SameBlocksHeld ==
  ASSUME NEW f, NEW u, u.body = f.body, u.orelse = f.orelse
  PROVE  /\ \A L : Bound(f, L) => Bound(u, L)
         /\ ForFree(f) => ForFree(u)
  BY DEF Bound, ForFree, HasBlocks

LEMMA ElseHeld ==
  ASSUME NEW f, NEW u, u.body = f.orelse, u.orelse = f.orelse
  PROVE  /\ \A L : Bound(f, L) => Bound(u, L)
         /\ ForFree(f) => ForFree(u)
  BY DEF Bound, ForFree, HasBlocks

\* The blocks of a statement of the frame.
LEMMA ChildHeld ==
  ASSUME NEW f, NEW s, \E i \in DOMAIN f.body : s = f.body[i],
         NEW u, u.body = s.body, u.orelse \in {s.orelse, <<>>}
  PROVE  /\ \A L : Bound(f, L) => Bound(u, L)
         /\ ForFree(f) => ForFree(u)
         /\ \A L : Bound(f, L) /\ s.kind \in {"assign", "aug"} /\ s.target # "" => s.target \in L
         /\ ForFree(f) => s.kind # "for"
<1>1. ASSUME NEW W, HasBlocks(W, f) PROVE HasBlocks(W, u) /\ s \in W
  <2>1. f.body \in Seq(W) /\ \A t \in W : t.body \in Seq(W) /\ t.orelse \in Seq(W)
    BY <1>1 DEF HasBlocks, Encloses
  <2>2. s \in W
    BY <2>1
  <2>3. u.body \in Seq(W) /\ s.orelse \in Seq(W)
    BY <2>1, <2>2
  <2>6. u.orelse \in Seq(W)
    BY <2>3, EmptyBlock
  <2> QED
    BY <2>1, <2>2, <2>3, <2>6 DEF HasBlocks, Encloses
<1>2. \A L : Bound(f, L) => Bound(u, L)
  BY <1>1 DEF Bound
<1>3. ForFree(f) => ForFree(u)
  BY <1>1 DEF ForFree
<1>4. \A L : Bound(f, L) /\ s.kind \in {"assign", "aug"} /\ s.target # "" => s.target \in L
  BY <1>1 DEF Bound
<1>5. ForFree(f) => s.kind # "for"
  BY <1>1 DEF ForFree
<1> QED
  BY <1>2, <1>3, <1>4, <1>5

\* A loop of a function that is flat.
LEMMA LoopForFree ==
  ASSUME NEW p \in Programs, LoopsFlat(p.body), NEW s \in Within(p.body), s.kind \in {"while", "for"},
         NEW u, u.body = s.body, u.orelse = <<>>
  PROVE  ForFree(u)
<1>1. Encloses(Within(s.body), s.body)
  BY ProgramsAssumption
<1>2. Loops(s.body) = {}
  BY DEF LoopsFlat
<1>3. PICK W : W = Within(s.body)
  OBVIOUS
<1>4. \A t \in W : t.kind # "for"
  BY <1>2, <1>3 DEF Loops
<1>5. HasBlocks(W, u)
  <2>1. Encloses(W, u.body) /\ \A t \in W : t.body \in Seq(W) /\ t.orelse \in Seq(W)
    BY <1>1, <1>3 DEF Encloses
  <2>4. u.orelse \in Seq(W)
    BY EmptyBlock
  <2> QED
    BY <2>1, <2>4 DEF HasBlocks, Encloses
<1> QED
  BY <1>4, <1>5 DEF ForFree

\* A compound statement of the function's own block: what it assigns is assigned
\* before all of them.
LEMMA HoistedBound ==
  ASSUME NEW p \in Programs, Hoisted(p.body), NEW k \in DOMAIN p.body, NEW s, s = p.body[k],
         s.kind \in {"if", "while", "for"},
         NEW L, "n" \in L, \A j \in DOMAIN p.body : (j < k /\ p.body[j].target # "") => p.body[j].target \in L,
         NEW u, u.body = s.body, u.orelse \in {s.orelse, <<>>}
  PROVE  Bound(u, L)
<1> DEFINE b == p.body
           compound == {i \in DOMAIN b : b[i].kind \in {"if", "while", "for"}}
           before == {i \in DOMAIN b : \A j \in compound : i < j}
           nested == UNION {Assigned(b[i].body) \cup Assigned(b[i].orelse) : i \in compound}
           W == Within(s.body) \cup Within(s.orelse)
<1>1. p.body \in Seq(Within(p.body)) /\ s \in Within(p.body)
  <2>1. p.body \in Seq(Within(p.body))
    BY ProgramsAssumption DEF Encloses
  <2> QED
    BY <2>1, InBlock
<1>2. /\ Encloses(Within(s.body), s.body) /\ Encloses(Within(s.orelse), s.orelse)
      /\ \A t \in Within(p.body) : TypedStmt(t)
  BY <1>1, ProgramsAssumption
<1>3. nested \subseteq {"n"} \cup {b[i].target : i \in before}
  BY DEF Hoisted
<1>4. Assigned(s.body) \cup Assigned(s.orelse) \subseteq nested
  <2>1. k \in compound
    OBVIOUS
  <2> QED
    BY <2>1
<1>5. PICK V1, V2 : V1 = Within(s.body) /\ V2 = Within(s.orelse)
  OBVIOUS
<1>6. HasBlocks(V1 \cup V2, u)
  <2>1. /\ s.body \in Seq(V1) /\ s.orelse \in Seq(V2)
        /\ (\A t \in V1 : t.body \in Seq(V1) /\ t.orelse \in Seq(V1))
        /\ \A t \in V2 : t.body \in Seq(V2) /\ t.orelse \in Seq(V2)
    BY <1>2, <1>5 DEF Encloses
  <2> DEFINE V == V1 \cup V2
  <2>2. V1 \subseteq V /\ V2 \subseteq V
    OBVIOUS
  <2> HIDE DEF V
  <2>3. Seq(V1) \subseteq Seq(V) /\ Seq(V2) \subseteq Seq(V)
    BY <2>2, SeqGrows
  <2>4. ASSUME NEW t \in V PROVE t.body \in Seq(V) /\ t.orelse \in Seq(V)
    <3>1. t \in V1 \/ t \in V2
      BY DEF V
    <3> QED
      BY <2>1, <2>3, <3>1
  <2>5. u.body \in Seq(V) /\ s.orelse \in Seq(V)
    BY <2>1, <2>3
  <2>6. u.orelse \in Seq(V)
    BY <2>5, EmptyBlock
  <2>7. HasBlocks(V, u)
    BY <2>4, <2>5, <2>6 DEF HasBlocks, Encloses
  <2> QED
    BY <2>7 DEF V
<1>7. ASSUME NEW t \in V1 \cup V2, t.kind \in {"assign", "aug"}, t.target # ""
      PROVE  t.target \in L
  <2>1. t.target \in Assigned(s.body) \cup Assigned(s.orelse)
    BY <1>5, <1>7 DEF Assigned
  <2>2. t.target \in {"n"} \cup {b[i].target : i \in before}
    <3> HIDE DEF nested, before
    <3> QED
      BY <1>3, <1>4, <2>1
  <2>3. CASE t.target = "n"
    BY <2>3
  <2>4. ASSUME NEW i \in before, t.target = b[i].target PROVE t.target \in L
    <3>1. i \in DOMAIN b /\ i < k
      <4>1. k \in compound
        OBVIOUS
      <4> QED
        BY <4>1
    <3> QED
      BY <1>7, <2>4, <3>1
  <2> QED
    BY <2>2, <2>3, <2>4
<1> QED
  BY <1>6, <1>7 DEF Bound

\* The other fields of a frame, at its next statement and in its second branch.
LEMMA FrameKept ==
  ASSUME NEW g, NEW p, NEW f \in FrameSet(g, p)
  PROVE  /\ Moved(f).body = f.body /\ Moved(f).orelse = f.orelse /\ Moved(f).i = f.i + 1
         /\ Moved(f).to = f.to /\ Moved(f).exit = f.exit /\ Moved(f).kind = f.kind
         /\ ElseFrame(f).body = f.orelse /\ ElseFrame(f).orelse = f.orelse
         /\ ElseFrame(f).to = f.to /\ ElseFrame(f).exit = f.to /\ ElseFrame(f).kind = "else"
<1>1. PICK B, D, K, N : B = Seq(Within(p.body)) /\ D = DOMAIN g.blocks /\ K = Kinds /\ N = Nat \ {0}
  OBVIOUS
<1>2. f \in [kind : K, body : B, i : N, orelse : B, to : D, exit : D, cell : Nat]
  BY <1>1 DEF FrameSet
<1>3. PICK j : j = f.i + 1
  OBVIOUS
<1>4. PICK m : m = [f EXCEPT !.i = j]
  OBVIOUS
<1>5. Moved(f) = m
  BY <1>3, <1>4 DEF Moved
<1>6. /\ m.body = f.body /\ m.orelse = f.orelse /\ m.i = j
      /\ m.to = f.to /\ m.exit = f.exit /\ m.kind = f.kind
  BY <1>2, <1>4
<1>7. PICK b, t : b = f.orelse /\ t = f.to
  OBVIOUS
<1>8. PICK e : e = [f EXCEPT !.kind = "else", !.body = b, !.i = 1, !.exit = t]
  OBVIOUS
<1>9. ElseFrame(f) = e
  BY <1>7, <1>8 DEF ElseFrame
<1>10. e.body = b /\ e.orelse = f.orelse /\ e.to = f.to /\ e.exit = t /\ e.kind = "else"
  BY <1>2, <1>8
<1> QED
  BY <1>3, <1>5, <1>6, <1>7, <1>9, <1>10

\* The frames after a statement, and below the innermost.
LEMMA PassedAt ==
  ASSUME NEW g, NEW p, Stacked(frames, g, p), NEW N, N = Len(frames)
  PROVE  /\ N \in Nat \ {0} /\ DOMAIN frames = 1 .. N /\ DOMAIN Passed = 1 .. N
         /\ \A i \in 1 .. N : i # N => Passed[i] = frames[i]
         /\ Passed[N] = Moved(Top) /\ Top = frames[N]
<1>1. PICK F : F = FrameSet(g, p)
  OBVIOUS
<1>2. frames \in Seq(F) /\ frames # <<>>
  BY <1>1 DEF Stacked
<1>3. PICK f : f = Moved(Top)
  OBVIOUS
<1>4. PICK t : t = [frames EXCEPT ![N] = f]
  OBVIOUS
<1>5. Passed = t
  BY <1>3, <1>4 DEF Passed, Top, Moved
<1>6. N \in Nat \ {0} /\ DOMAIN frames = 1 .. N /\ N \in DOMAIN frames
  BY <1>2
<1>7. DOMAIN t = 1 .. N /\ t[N] = f /\ \A i \in 1 .. N : i # N => t[i] = frames[i]
  BY <1>4, <1>6
<1> QED
  BY <1>3, <1>5, <1>6, <1>7 DEF Top

LEMMA BelowAt ==
  ASSUME NEW g, NEW p, Stacked(frames, g, p), Top.kind # "body", NEW N, N = Len(frames)
  PROVE  /\ N \in Nat /\ N > 1 /\ DOMAIN frames = 1 .. N /\ DOMAIN Below = 1 .. N - 1
         /\ \A i \in 1 .. N - 1 : Below[i] = frames[i]
<1>1. PICK F : F = FrameSet(g, p)
  OBVIOUS
<1>2. frames \in Seq(F) /\ Len(frames) > 1 /\ N \in Nat /\ DOMAIN frames = 1 .. N
  BY <1>1, TopFrame DEF Stacked
<1>3. PICK t : t = SubSeq(frames, 1, Len(frames) - 1)
  OBVIOUS
<1>4. DOMAIN t = 1 .. N - 1 /\ \A i \in 1 .. N - 1 : t[i] = frames[i]
  BY <1>2, <1>3, BelowSequence
<1> QED
  BY <1>2, <1>3, <1>4 DEF Below

LEMMA PushedAt ==
  ASSUME NEW g, NEW p, NEW fs, Stacked(fs, g, p), NEW f, NEW N, N = Len(fs)
  PROVE  /\ N \in Nat \ {0} /\ DOMAIN fs = 1 .. N /\ DOMAIN Append(fs, f) = 1 .. N + 1
         /\ Append(fs, f)[N + 1] = f /\ \A i \in 1 .. N : Append(fs, f)[i] = fs[i]
<1>1. PICK F : F = FrameSet(g, p) \cup {f} /\ FrameSet(g, p) \subseteq F /\ f \in F
  <2> DEFINE F == FrameSet(g, p) \cup {f}
  <2>1. F = FrameSet(g, p) \cup {f} /\ FrameSet(g, p) \subseteq F /\ f \in F
    OBVIOUS
  <2> QED
    BY <2>1
<1>2. fs \in Seq(FrameSet(g, p)) /\ fs # <<>>
  BY DEF Stacked
<1>3. fs \in Seq(F)
  BY <1>1, <1>2, SeqGrows
<1> QED
  BY <1>1, <1>2, <1>3, StackSequences

LEMMA NextNatural ==
  ASSUME NEW j \in Nat, NEW q \in Nat, j < q + 1
  PROVE  j < q \/ j = q
  OBVIOUS

\* The outermost frame, and only that, is the function's own block.
LEMMA HoistedPassed ==
  ASSUME NEW g, NEW p, Stacked(frames, g, p), NEW L, HoistedFrames(frames, L, p), NEW M, L \subseteq M,
         Top.kind = "body" /\ Here.target # "" => Here.target \in M
  PROVE  HoistedFrames(Passed, M, p)
<1>1. PICK N, t, u : N = Len(frames) /\ t = Passed /\ u = Moved(Top)
  OBVIOUS
<1>2. /\ N \in Nat \ {0} /\ DOMAIN frames = 1 .. N /\ DOMAIN t = 1 .. N
      /\ \A i \in 1 .. N : i # N => t[i] = frames[i]
      /\ t[N] = u /\ Top = frames[N]
  <2>1. /\ N \in Nat \ {0} /\ DOMAIN frames = 1 .. N /\ DOMAIN Passed = 1 .. N
        /\ \A i \in 1 .. N : i # N => Passed[i] = frames[i]
        /\ Passed[N] = Moved(Top) /\ Top = frames[N]
    BY <1>1, PassedAt
  <2> QED
    BY <1>1, <2>1
<1>3. Top \in FrameSet(g, p)
  BY TopFrame
<1>4. u.body = Top.body /\ u.orelse = Top.orelse /\ u.i = Top.i + 1 /\ u.kind = Top.kind
  BY <1>1, <1>3, FrameKept
<1>5. Top.i \in Nat /\ Top.body \in Seq(Within(p.body))
  BY <1>3, FrameFields
<1>6. HoistedFrames(frames, M, p)
  BY HoistedGrows
<1>7. 1 \in DOMAIN t /\ t[1].body = p.body
  BY <1>2, <1>4, <1>6 DEF HoistedFrames
<1>8. \A i \in DOMAIN t : t[i].kind = frames[i].kind
  BY <1>2, <1>4
<1>9. ASSUME NEW j \in DOMAIN p.body, j < t[1].i, p.body[j].target # "" PROVE p.body[j].target \in M
  <2>1. CASE N # 1
    BY <1>2, <1>6, <1>9, <2>1 DEF HoistedFrames
  <2>2. CASE N = 1
    <3>1. Top.kind = "body" /\ Top.body = p.body /\ t[1].i = Top.i + 1 /\ Top = frames[1]
      BY <1>2, <1>4, <1>6, <2>2 DEF HoistedFrames
    <3>2. j \in Nat
      BY <1>5, <1>9, <3>1, InBlock
    <3>a. PICK q : q = Top.i /\ q \in Nat
      BY <1>5
    <3>b. j < q + 1
      BY <1>9, <3>1, <3>a
    <3>c. j < q \/ j = q
      BY <3>2, <3>a, <3>b, NextNatural
    <3>3. j < Top.i \/ j = Top.i
      BY <3>a, <3>c
    <3>4. CASE j = Top.i
      <4>1. Here = p.body[j]
        BY <3>1, <3>4 DEF Here
      <4> QED
        BY <1>9, <3>1, <4>1
    <3>5. CASE j < Top.i
      BY <1>6, <1>9, <3>1, <3>5 DEF HoistedFrames
    <3> QED
      BY <3>3, <3>4, <3>5
  <2> QED
    BY <2>1, <2>2
<1>10. ASSUME NEW i \in DOMAIN t
       PROVE  Bound(frames[i], M) => Bound(t[i], M)
  <2>1. CASE i = N
    BY <1>2, <1>4, <2>1, SameBlocksHeld
  <2>2. CASE i # N
    BY <1>2, <2>2
  <2> QED
    BY <2>1, <2>2
<1>11. \A i \in DOMAIN t : i # 1 => Bound(t[i], M)
  BY <1>2, <1>6, <1>10 DEF HoistedFrames
<1>13. \A i \in DOMAIN t : t[i].kind = "body" <=> i = 1
  BY <1>2, <1>6, <1>8 DEF HoistedFrames
<1>14. HoistedFrames(t, M, p)
  BY <1>6, <1>7, <1>9, <1>11, <1>13 DEF HoistedFrames
<1> QED
  BY <1>1, <1>14

LEMMA FlatPassed ==
  ASSUME NEW g, NEW p, Stacked(frames, g, p), FlatFrames(frames)
  PROVE  FlatFrames(Passed)
<1>1. PICK N, t, u : N = Len(frames) /\ t = Passed /\ u = Moved(Top)
  OBVIOUS
<1>2. /\ N \in Nat \ {0} /\ DOMAIN frames = 1 .. N /\ DOMAIN t = 1 .. N
      /\ \A i \in 1 .. N : i # N => t[i] = frames[i]
      /\ t[N] = u /\ Top = frames[N]
  BY <1>1, PassedAt
<1>3. u.body = Top.body /\ u.orelse = Top.orelse /\ u.kind = Top.kind
  BY <1>1, TopFrame, FrameKept
<1>4. \A i \in DOMAIN t : (IsLoop(t[i]) => IsLoop(frames[i])) /\ (ForFree(frames[i]) => ForFree(t[i]))
  <2>1. (IsLoop(u) => IsLoop(Top)) /\ (ForFree(Top) => ForFree(u))
    BY <1>3, SameBlocksHeld DEF IsLoop
  <2> QED
    BY <1>2, <2>1
<1>5. FlatFrames(t)
  BY <1>2, <1>4 DEF FlatFrames
<1> QED
  BY <1>1, <1>5

LEMMA NestedPassed ==
  ASSUME NEW g, NEW p, Stacked(frames, g, p), NEW L, Nested(frames, L, p), NEW M, L \subseteq M,
         Top.kind = "body" /\ Here.target # "" => Here.target \in M
  PROVE  Nested(Passed, M, p)
  BY HoistedPassed, FlatPassed DEF Nested

\* A frame above them.
LEMMA HoistedPush ==
  ASSUME NEW g, NEW p, NEW fs, Stacked(fs, g, p), NEW L, HoistedFrames(fs, L, p),
         NEW f, f.kind # "body", Bound(f, L)
  PROVE  HoistedFrames(Append(fs, f), L, p)
<1>1. PICK N, t : N = Len(fs) /\ t = Append(fs, f)
  OBVIOUS
<1>2. /\ N \in Nat \ {0} /\ DOMAIN fs = 1 .. N /\ DOMAIN t = 1 .. N + 1
      /\ t[N + 1] = f /\ \A i \in 1 .. N : t[i] = fs[i]
  BY <1>1, PushedAt
<1>3. 1 \in DOMAIN fs /\ 1 \in DOMAIN t /\ t[1] = fs[1]
  BY <1>2
<1>4. ASSUME NEW i \in DOMAIN t
      PROVE  \/ i \in DOMAIN fs /\ t[i] = fs[i] /\ i <= N
             \/ i = N + 1 /\ t[i] = f
  BY <1>2
<1>5. \A i \in DOMAIN t : t[i].kind = "body" <=> i = 1
  BY <1>2, <1>4 DEF HoistedFrames
<1>6. \A i \in DOMAIN t : i # 1 => Bound(t[i], L)
  BY <1>4 DEF HoistedFrames
<1>7. HoistedFrames(t, L, p)
  BY <1>3, <1>5, <1>6 DEF HoistedFrames
<1> QED
  BY <1>1, <1>7

LEMMA FlatPush ==
  ASSUME NEW g, NEW p, NEW fs, Stacked(fs, g, p), FlatFrames(fs), NEW f,
         IsLoop(f) \/ (\E i \in DOMAIN fs : IsLoop(fs[i])) => ForFree(f)
  PROVE  FlatFrames(Append(fs, f))
<1>1. PICK N, t : N = Len(fs) /\ t = Append(fs, f)
  OBVIOUS
<1>2. /\ N \in Nat \ {0} /\ DOMAIN fs = 1 .. N /\ DOMAIN t = 1 .. N + 1
      /\ t[N + 1] = f /\ \A i \in 1 .. N : t[i] = fs[i]
  BY <1>1, PushedAt
<1>3. ASSUME NEW i \in DOMAIN t
      PROVE  \/ i \in DOMAIN fs /\ t[i] = fs[i] /\ i <= N
             \/ i = N + 1 /\ t[i] = f
  BY <1>2
<1>4. ASSUME NEW i \in DOMAIN t, NEW j \in DOMAIN t, i <= j, IsLoop(t[i]) PROVE ForFree(t[j])
  <2>1. CASE j = N + 1 /\ t[j] = f
    BY <1>3, <1>4, <2>1
  <2>2. CASE j \in DOMAIN fs /\ t[j] = fs[j] /\ j <= N
    <3>1. i \in DOMAIN fs /\ t[i] = fs[i]
      BY <1>2, <1>3, <1>4, <2>2
    <3> QED
      BY <1>4, <2>2, <3>1 DEF FlatFrames
  <2> QED
    BY <1>3, <2>1, <2>2
<1>5. FlatFrames(t)
  BY <1>4 DEF FlatFrames
<1> QED
  BY <1>1, <1>5

LEMMA HoistedBelow ==
  ASSUME NEW g, NEW p, Stacked(frames, g, p), Top.kind # "body", NEW L, HoistedFrames(frames, L, p)
  PROVE  HoistedFrames(Below, L, p)
<1>1. PICK N, t : N = Len(frames) /\ t = Below
  OBVIOUS
<1>2. /\ N \in Nat /\ N > 1 /\ DOMAIN frames = 1 .. N /\ DOMAIN t = 1 .. N - 1
      /\ \A i \in 1 .. N - 1 : t[i] = frames[i]
  BY <1>1, BelowAt
<1>3. 1 \in DOMAIN t /\ \A i \in DOMAIN t : i \in DOMAIN frames /\ t[i] = frames[i]
  BY <1>2
<1>4. HoistedFrames(t, L, p)
  BY <1>3 DEF HoistedFrames
<1> QED
  BY <1>1, <1>4

LEMMA FlatBelow ==
  ASSUME NEW g, NEW p, Stacked(frames, g, p), Top.kind # "body", FlatFrames(frames)
  PROVE  FlatFrames(Below)
<1>1. PICK N, t : N = Len(frames) /\ t = Below
  OBVIOUS
<1>2. /\ N \in Nat /\ N > 1 /\ DOMAIN frames = 1 .. N /\ DOMAIN t = 1 .. N - 1
      /\ \A i \in 1 .. N - 1 : t[i] = frames[i]
  BY <1>1, BelowAt
<1>3. \A i \in DOMAIN t : i \in DOMAIN frames /\ t[i] = frames[i]
  BY <1>2
<1>4. FlatFrames(t)
  BY <1>3 DEF FlatFrames
<1> QED
  BY <1>1, <1>4

\* The innermost frame, and the statement it is at.
LEMMA AtTop ==
  ASSUME CInv, NEW kind, AtStmt(kind), NEW L, HoistedFrames(frames, L, prog)
  PROVE  /\ \E i \in DOMAIN Top.body : Here = Top.body[i]
         /\ Top \in FrameSet(build, prog) /\ Len(frames) \in DOMAIN frames
         /\ \A i \in DOMAIN frames : i <= Len(frames)
         /\ Top.kind = "body" =>
              /\ Len(frames) = 1 /\ Here.target = prog.body[Top.i].target /\ Here = prog.body[Top.i]
              /\ Top.i \in DOMAIN prog.body
              /\ \A j \in DOMAIN prog.body :
                   (j < Top.i /\ prog.body[j].target # "") => prog.body[j].target \in L
         /\ Top.kind # "body" => Bound(Top, L)
<1>1. Stacked(frames, build, prog)
  BY HereTyped
<1>2. PICK N : N = Len(frames)
  OBVIOUS
<1>3. N \in Nat \ {0} /\ DOMAIN frames = 1 .. N /\ Top = frames[N] /\ Top \in FrameSet(build, prog)
  BY <1>1, <1>2, PassedAt, TopFrame
<1>4. N \in DOMAIN frames /\ \A i \in DOMAIN frames : i <= N
  BY <1>3
<1>5. Top.i \in DOMAIN Top.body /\ Here = Top.body[Top.i]
  BY DEF AtStmt, Here
<1>6. ASSUME Top.kind = "body"
      PROVE  /\ N = 1 /\ Here = prog.body[Top.i] /\ Top.i \in DOMAIN prog.body
             /\ \A j \in DOMAIN prog.body :
                  (j < Top.i /\ prog.body[j].target # "") => prog.body[j].target \in L
  <2>1. N = 1 /\ Top = frames[1]
    BY <1>3, <1>4, <1>6 DEF HoistedFrames
  <2> QED
    BY <1>5, <2>1 DEF HoistedFrames
<1>7. Top.kind # "body" => Bound(Top, L)
  BY <1>3, <1>4 DEF HoistedFrames
<1> QED
  BY <1>2, <1>3, <1>4, <1>5, <1>6, <1>7

LEMMA TopForFree ==
  ASSUME NEW g, NEW p, Stacked(frames, g, p), FlatFrames(frames), \E i \in DOMAIN frames : IsLoop(frames[i])
  PROVE  ForFree(Top)
<1>1. PICK N : N = Len(frames)
  OBVIOUS
<1>2. N \in Nat \ {0} /\ DOMAIN frames = 1 .. N /\ Top = frames[N]
  BY <1>1, PassedAt
<1>3. N \in DOMAIN frames /\ \A i \in DOMAIN frames : i <= N
  BY <1>2
<1> QED
  BY <1>2, <1>3 DEF FlatFrames

\* The blocks of the statement the emitters are at.
LEMMA BlockHeld ==
  ASSUME CInv, NEW kind, AtStmt(kind), kind \in {"if", "while", "for"}, NEW L, HoistedFrames(frames, L, prog),
         Hoisted(prog.body), NEW f, f.body = Here.body, f.orelse \in {Here.orelse, <<>>}
  PROVE  Bound(f, L)
<1>1. CASE Top.kind = "body"
  <2>1. PICK k, s : k = Top.i /\ s = Here
    OBVIOUS
  <2>2. /\ k \in DOMAIN prog.body /\ s = prog.body[k]
        /\ \A j \in DOMAIN prog.body : (j < k /\ prog.body[j].target # "") => prog.body[j].target \in L
    BY <1>1, <2>1, AtTop
  <2>3. s.kind \in {"if", "while", "for"} /\ prog \in Programs /\ "n" \in L
    BY <2>1 DEF AtStmt, CInv, HoistedFrames
  <2> QED
    BY <2>1, <2>2, <2>3, HoistedBound
<1>2. CASE Top.kind # "body"
  <2>1. Bound(Top, L) /\ \E i \in DOMAIN Top.body : Here = Top.body[i]
    BY <1>2, AtTop
  <2> QED
    BY <2>1, ChildHeld
<1> QED
  BY <1>1, <1>2

LEMMA LoopHeld ==
  ASSUME CInv, NEW kind, AtStmt(kind), NEW L, Nested(frames, L, prog), LoopsFlat(prog.body),
         NEW f, f.body = Here.body, f.orelse \in {Here.orelse, <<>>},
         IsLoop(f) => f.kind = kind /\ f.orelse = <<>>,
         IsLoop(f) \/ \E i \in DOMAIN frames : IsLoop(frames[i])
  PROVE  ForFree(f)
<1>1. CASE IsLoop(f)
  <2>1. PICK s : s = Here
    OBVIOUS
  <2>2. s \in Within(prog.body) /\ s.kind \in {"while", "for"} /\ prog \in Programs
    BY <1>1, <2>1, HereTyped DEF IsLoop, CInv
  <2> QED
    BY <1>1, <2>1, <2>2, LoopForFree
<1>2. CASE \E i \in DOMAIN frames : IsLoop(frames[i])
  <2>1. ForFree(Top) /\ \E i \in DOMAIN Top.body : Here = Top.body[i]
    BY <1>2, HereTyped, AtTop, TopForFree DEF Nested
  <2> QED
    BY <2>1, ChildHeld
<1> QED
  BY <1>1, <1>2

\* Where a slot is made, no loop is open.
LEMMA SlotsOutside ==
  ASSUME CInv, NEW kind, AtStmt(kind), NEW L, Nested(frames, L, prog),
         kind = "for" \/ (kind = "assign" /\ Here.target \notin L)
  PROVE  \A i \in DOMAIN frames : ~IsLoop(frames[i])
<1>1. Here.kind = kind /\ TypedStmt(Here)
  BY HereTyped DEF Emittable
<1>2. PICK i \in DOMAIN Top.body : Here = Top.body[i]
  BY AtTop DEF Nested
<1>3. CASE kind = "for"
  <2>1. ~ForFree(Top)
    BY <1>1, <1>2, <1>3, ChildHeld
  <2> QED
    BY <2>1, HereTyped, TopForFree DEF Nested
<1>4. CASE kind = "assign" /\ Here.target \notin L
  <2>1. Here.target # ""
    BY <1>1, <1>4 DEF TypedStmt
  <2>2. ~Bound(Top, L)
    BY <1>1, <1>2, <1>4, <2>1, ChildHeld
  <2>3. Top.kind = "body" /\ Len(frames) = 1 /\ \A j \in DOMAIN frames : j <= 1
    BY <2>2, AtTop DEF Nested
  <2>4. DOMAIN frames = 1 .. 1 /\ Top = frames[1]
    <3>1. Stacked(frames, build, prog)
      BY HereTyped
    <3>2. PICK N : N = Len(frames)
      OBVIOUS
    <3>3. DOMAIN frames = 1 .. N /\ Top = frames[N]
      BY <3>1, <3>2, PassedAt
    <3> QED
      BY <2>3, <3>2, <3>3
  <2> QED
    BY <2>3, <2>4 DEF IsLoop
<1> QED
  BY <1>3, <1>4

\* Frames that know the same blocks.
SameRoles(fs, hs) ==
  /\ DOMAIN hs = DOMAIN fs
  /\ \A i \in DOMAIN fs : hs[i].kind = fs[i].kind /\ hs[i].to = fs[i].to /\ hs[i].exit = fs[i].exit

LEMMA PassedRoles ==
  ASSUME NEW g, NEW p, Stacked(frames, g, p)
  PROVE  SameRoles(frames, Passed)
<1>1. PICK N, fs : N = Len(frames) /\ fs = Passed
  OBVIOUS
<1>2. /\ N \in Nat \ {0} /\ DOMAIN frames = 1 .. N /\ DOMAIN fs = 1 .. N
      /\ \A i \in 1 .. N : i # N => fs[i] = frames[i]
      /\ fs[N] = Moved(Top) /\ Top = frames[N] /\ Top \in FrameSet(g, p)
  BY <1>1, PassedAt, TopFrame
<1>3. fs[N].kind = frames[N].kind /\ fs[N].to = frames[N].to /\ fs[N].exit = frames[N].exit
  BY <1>2, FrameKept
<1>4. SameRoles(frames, fs)
  BY <1>2, <1>3 DEF SameRoles
<1> QED
  BY <1>1, <1>4

\* A statement without a block.
LEMMA HoistedOn ==
  ASSUME CInv, NEW kind, AtStmt(kind), NEW h, Builds(h, Passed),
         HoistedFrames(frames, DOMAIN build.locals, prog),
         kind \in {"assign", "aug"} => Here.target \in DOMAIN h.locals,
         kind \in {"assign", "aug", "break", "continue", "return"},
         DOMAIN build.locals \subseteq DOMAIN h.locals
  PROVE  HoistedFrames(frames', DOMAIN build'.locals, prog')
<1>1. PICK L, M : L = DOMAIN build.locals /\ M = DOMAIN h.locals
  OBVIOUS
<1>2. Stacked(frames, build, prog) /\ TypedStmt(Here) /\ Here.kind = kind
  BY HereTyped DEF Emittable
<1>3. Here.target # "" => Here.target \in M
  BY <1>1, <1>2 DEF TypedStmt
<1>4. HoistedFrames(Passed, M, prog)
  BY <1>1, <1>2, <1>3, HoistedPassed
<1> QED
  BY <1>1, <1>4 DEF Builds

LEMMA NestedOn ==
  ASSUME CInv, NEW kind, AtStmt(kind), NEW h, Builds(h, Passed),
         Nested(frames, DOMAIN build.locals, prog),
         kind \in {"assign", "aug"} => Here.target \in DOMAIN h.locals,
         kind \in {"assign", "aug", "break", "continue", "return"},
         DOMAIN build.locals \subseteq DOMAIN h.locals
  PROVE  Nested(frames', DOMAIN build'.locals, prog')
<1>1. FlatFrames(frames')
  BY HereTyped, FlatPassed DEF Nested, Builds
<1>2. HoistedFrames(frames', DOMAIN build'.locals, prog')
  BY HoistedOn DEF Nested
<1> QED
  BY <1>1, <1>2 DEF Nested

\* A statement with one.
LEMMA HoistedIn ==
  ASSUME CInv, NEW kind, AtStmt(kind), kind \in {"if", "while", "for"},
         NEW f, NEW h, Builds(h, Append(Passed, f)),
         HoistedFrames(frames, DOMAIN build.locals, prog), Hoisted(prog.body),
         kind = "for" => Here.target \in DOMAIN h.locals,
         DOMAIN build.locals \subseteq DOMAIN h.locals,
         f.body = Here.body, f.orelse \in {Here.orelse, <<>>}, f.kind # "body"
  PROVE  HoistedFrames(frames', DOMAIN build'.locals, prog')
<1>1. PICK L, M, fs : L = DOMAIN build.locals /\ M = DOMAIN h.locals /\ fs = Passed
  OBVIOUS
<1>2. Stacked(frames, build, prog) /\ TypedStmt(Here) /\ Here.kind = kind
  BY HereTyped DEF Emittable
<1>3. Here.target # "" => Here.target \in M
  BY <1>1, <1>2 DEF TypedStmt
<1>4. HoistedFrames(fs, M, prog)
  BY <1>1, <1>2, <1>3, HoistedPassed
<1>5. Bound(f, M)
  BY <1>1, BlockHeld, BoundGrows
<1>6. Stacked(fs, build, prog)
  BY <1>1, <1>2, StackedPassed
<1>7. HoistedFrames(Append(fs, f), M, prog)
  BY <1>4, <1>5, <1>6, HoistedPush
<1> QED
  BY <1>1, <1>7 DEF Builds

LEMMA NestedIn ==
  ASSUME CInv, NEW kind, AtStmt(kind), kind \in {"if", "while", "for"},
         NEW f, NEW h, Builds(h, Append(Passed, f)),
         Nested(frames, DOMAIN build.locals, prog), Hoisted(prog.body), LoopsFlat(prog.body),
         kind = "for" => Here.target \in DOMAIN h.locals,
         DOMAIN build.locals \subseteq DOMAIN h.locals,
         f.body = Here.body, f.orelse \in {Here.orelse, <<>>}, f.kind # "body",
         IsLoop(f) => f.kind = kind /\ f.orelse = <<>>
  PROVE  Nested(frames', DOMAIN build'.locals, prog')
<1>1. PICK fs : fs = Passed
  OBVIOUS
<1>2. Stacked(frames, build, prog)
  BY HereTyped
<1>3. (\E i \in DOMAIN fs : IsLoop(fs[i])) => \E i \in DOMAIN frames : IsLoop(frames[i])
  <2>1. SameRoles(frames, fs)
    BY <1>1, <1>2, PassedRoles
  <2> QED
    BY <2>1 DEF SameRoles, IsLoop
<1>4. IsLoop(f) \/ (\E i \in DOMAIN fs : IsLoop(fs[i])) => ForFree(f)
  BY <1>3, LoopHeld
<1>5. Stacked(fs, build, prog) /\ FlatFrames(fs)
  BY <1>1, <1>2, StackedPassed, FlatPassed DEF Nested
<1>6. FlatFrames(frames')
  BY <1>1, <1>4, <1>5, FlatPush DEF Builds
<1>7. HoistedFrames(frames', DOMAIN build'.locals, prog')
  BY HoistedIn DEF Nested
<1> QED
  BY <1>6, <1>7 DEF Nested

\* The end of a block.
LEMMA HoistedOut ==
  ASSUME CInv, NEW kind, AtEnd(kind), kind # "body", NEW h, h.locals = build.locals,
         HoistedFrames(frames, DOMAIN build.locals, prog),
         \/ Builds(h, Below)
         \/ Builds(h, Append(Below, ElseFrame(Top)))
  PROVE  HoistedFrames(frames', DOMAIN build'.locals, prog')
<1>1. PICK L, fs, f, N : L = DOMAIN build.locals /\ fs = Below /\ f = ElseFrame(Top) /\ N = Len(frames)
  OBVIOUS
<1>2. Stacked(frames, build, prog) /\ Top.kind # "body" /\ Top \in FrameSet(build, prog)
  BY EndTyped
<1>3. HoistedFrames(fs, L, prog)
  BY <1>1, <1>2, HoistedBelow
<1>4. CASE Builds(h, Below)
  BY <1>1, <1>3, <1>4 DEF Builds
<1>5. CASE Builds(h, Append(Below, ElseFrame(Top)))
  <2>1. N \in Nat /\ N > 1 /\ DOMAIN frames = 1 .. N /\ Top = frames[N] /\ N \in DOMAIN frames
    BY <1>1, <1>2, BelowAt DEF Top
  <2>2. f.body = Top.orelse /\ f.orelse = Top.orelse /\ f.kind = "else"
    BY <1>1, <1>2, FrameKept
  <2>3. Bound(f, L)
    BY <1>1, <1>2, <2>1, <2>2, ElseHeld DEF HoistedFrames
  <2>4. Stacked(fs, build, prog) /\ f.kind # "body"
    BY <1>1, <1>2, <2>2, StackedBelow
  <2>5. HoistedFrames(Append(fs, f), L, prog)
    BY <1>3, <2>3, <2>4, HoistedPush
  <2> QED
    BY <1>1, <1>5, <2>5 DEF Builds
<1> QED
  BY <1>4, <1>5

LEMMA NestedOut ==
  ASSUME CInv, NEW kind, AtEnd(kind), kind # "body", NEW h, h.locals = build.locals,
         Nested(frames, DOMAIN build.locals, prog),
         \/ Builds(h, Below)
         \/ Builds(h, Append(Below, ElseFrame(Top)))
  PROVE  Nested(frames', DOMAIN build'.locals, prog')
<1>1. PICK fs, f : fs = Below /\ f = ElseFrame(Top)
  OBVIOUS
<1>2. Stacked(frames, build, prog) /\ Top.kind # "body" /\ Top \in FrameSet(build, prog)
  BY EndTyped
<1>3. FlatFrames(fs) /\ Stacked(fs, build, prog)
  BY <1>1, <1>2, FlatBelow, StackedBelow DEF Nested
<1>4. FlatFrames(Append(fs, f))
  <2>1. f.body = Top.orelse /\ f.orelse = Top.orelse /\ f.kind = "else"
    BY <1>1, <1>2, FrameKept
  <2>2. ~IsLoop(f)
    BY <2>1 DEF IsLoop
  <2>3. ASSUME NEW i \in DOMAIN fs, IsLoop(fs[i]) PROVE ForFree(f)
    <3>1. i \in DOMAIN frames /\ IsLoop(frames[i])
      <4>1. PICK N : N = Len(frames)
        OBVIOUS
      <4>2. /\ N \in Nat /\ N > 1 /\ DOMAIN frames = 1 .. N /\ DOMAIN fs = 1 .. N - 1
            /\ \A k \in 1 .. N - 1 : fs[k] = frames[k]
        BY <1>1, <1>2, <4>1, BelowAt
      <4> QED
        BY <2>3, <4>2
    <3>2. ForFree(Top)
      BY <1>2, <3>1, TopForFree DEF Nested
    <3> QED
      BY <2>1, <3>2, ElseHeld
  <2> QED
    BY <1>3, <2>2, <2>3, FlatPush
<1>5. FlatFrames(frames')
  BY <1>1, <1>3, <1>4 DEF Builds
<1>6. HoistedFrames(frames', DOMAIN build'.locals, prog')
  BY HoistedOut DEF Nested
<1> QED
  BY <1>5, <1>6 DEF Nested

-----------------------------------------------------------------------------
(* The blocks still to come to                                             *)

\* The emitters go on in the current block, and in the blocks the frames know.
Pending(g, fs) ==
  {b \in DOMAIN g.blocks :
     b = g.at \/ \E i \in DOMAIN fs : fs[i].kind # "body" /\ b \in {fs[i].to, fs[i].exit}}

\* Those of them that nothing was emitted to yet.
Fresh(f) ==
  IF f.kind = "body" THEN {} ELSE IF IsLoop(f) THEN {f.exit} ELSE {f.to, f.exit}

\* A block that allocates is left for good by a call when the emitters have left it;
\* they allocate outside of loops; and fresh blocks are empty, each of one frame.
Tidy(g, fs) ==
  /\ \A b \in DOMAIN g.blocks :
       b # g.at /\ Allocates(g.blocks[b]) => Once(g.blocks, b, Pending(g, fs))
  /\ Allocates(g.blocks[g.at]) =>
       JumpsOf(g.blocks[g.at]) = {} /\ \A i \in DOMAIN fs : ~IsLoop(fs[i])
  /\ \A i \in DOMAIN fs : \A b \in Fresh(fs[i]) :
       b \in DOMAIN g.blocks \ {g.at} /\ g.blocks[b] = <<>>
  /\ \A i, j \in DOMAIN fs : i # j => Fresh(fs[i]) \cap Fresh(fs[j]) = {}
  /\ \A i \in DOMAIN fs : /\ fs[i].kind = "then" => fs[i].to # fs[i].exit
                          /\ fs[i].kind = "else" => fs[i].to = fs[i].exit

\* The blocks of h are those of g, and more; only the current block of g got new
\* jumps, to blocks still to come to or new; what is to come then is among these.
Onwards(g, fs, h, hs) ==
  LET new == DOMAIN h.blocks \ DOMAIN g.blocks
  IN  /\ DOMAIN g.blocks \subseteq DOMAIN h.blocks
      /\ \A b \in DOMAIN g.blocks : b # g.at => h.blocks[b] = g.blocks[b]
      /\ JumpsOf(h.blocks[g.at]) \subseteq JumpsOf(g.blocks[g.at]) \cup Pending(g, fs) \cup new
      /\ \A b \in new : JumpsOf(h.blocks[b]) \subseteq new /\ ~Allocates(h.blocks[b])
      /\ Pending(h, hs) \subseteq Pending(g, fs) \cup new

LEMMA OnceKept ==
  ASSUME NEW g, NEW fs, NEW h, NEW hs, Onwards(g, fs, h, hs), g.at \in DOMAIN g.blocks,
         NEW b \in DOMAIN g.blocks, Once(g.blocks, b, Pending(g, fs))
  PROVE  Once(h.blocks, b, Pending(h, hs))
<1>1. PICK S : LeftFor(g.blocks, b, S) /\ Pending(g, fs) \subseteq S
  BY DEF Once
<1>2. PICK K, new : K = Pending(g, fs) /\ new = DOMAIN h.blocks \ DOMAIN g.blocks
  OBVIOUS
<1>3. PICK T : T = S \cup new
  OBVIOUS
<1>4. /\ DOMAIN g.blocks \subseteq DOMAIN h.blocks
      /\ \A x \in DOMAIN g.blocks : x # g.at => h.blocks[x] = g.blocks[x]
      /\ JumpsOf(h.blocks[g.at]) \subseteq JumpsOf(g.blocks[g.at]) \cup K \cup new
      /\ \A x \in new : JumpsOf(h.blocks[x]) \subseteq new
      /\ Pending(h, hs) \subseteq K \cup new
  BY <1>2 DEF Onwards
<1>5. /\ S \subseteq DOMAIN g.blocks /\ b \notin S /\ JumpsOf(g.blocks[b]) \subseteq S
      /\ \A x \in S : JumpsOf(g.blocks[x]) \subseteq S
  BY <1>1 DEF LeftFor
<1>6. g.at \in S
  BY <1>1 DEF Pending
<1>7. T \subseteq DOMAIN h.blocks /\ b \notin T /\ b # g.at
  BY <1>2, <1>3, <1>4, <1>5, <1>6
<1>8. JumpsOf(h.blocks[b]) \subseteq T
  BY <1>3, <1>4, <1>5, <1>7
<1>9. ASSUME NEW x \in T PROVE JumpsOf(h.blocks[x]) \subseteq T
  <2>1. CASE x \in new
    BY <1>3, <1>4, <2>1
  <2>2. CASE x \in S /\ x # g.at
    BY <1>3, <1>4, <1>5, <2>2
  <2>3. CASE x = g.at
    <3>1. JumpsOf(g.blocks[g.at]) \subseteq S /\ K \subseteq S
      BY <1>1, <1>2, <1>5, <1>6
    <3> QED
      BY <1>3, <1>4, <2>3, <3>1
  <2> QED
    BY <1>3, <2>1, <2>2, <2>3
<1>10. Pending(h, hs) \subseteq T
  BY <1>1, <1>2, <1>3, <1>4
<1>11. LeftFor(h.blocks, b, T)
  BY <1>7, <1>8, <1>9 DEF LeftFor
<1> QED
  BY <1>10, <1>11 DEF Once

\* What the emitters left stays left, if their last block is.
LEMMA LeftKept ==
  ASSUME NEW g, NEW fs, NEW h, NEW hs, Onwards(g, fs, h, hs), g.at \in DOMAIN g.blocks, Tidy(g, fs),
         h.at = g.at \/ (Allocates(h.blocks[g.at]) => Once(h.blocks, g.at, Pending(h, hs)))
  PROVE  \A b \in DOMAIN h.blocks :
           b # h.at /\ Allocates(h.blocks[b]) => Once(h.blocks, b, Pending(h, hs))
<1> TAKE b \in DOMAIN h.blocks
<1> SUFFICES ASSUME b # h.at, Allocates(h.blocks[b]) PROVE Once(h.blocks, b, Pending(h, hs))
  OBVIOUS
<1>1. b \in DOMAIN g.blocks
  BY DEF Onwards
<1>2. CASE b = g.at
  BY <1>2
<1>3. CASE b # g.at
  <2>1. h.blocks[b] = g.blocks[b]
    BY <1>1, <1>3 DEF Onwards
  <2>2. Once(g.blocks, b, Pending(g, fs))
    BY <1>1, <1>3, <2>1 DEF Tidy
  <2> QED
    BY <1>1, <2>2, OnceKept
<1> QED
  BY <1>2, <1>3

LEMMA TidyRoles ==
  ASSUME NEW g, NEW fs, NEW hs, SameRoles(fs, hs), Tidy(g, fs)
  PROVE  Tidy(g, hs)
<1>1. DOMAIN hs = DOMAIN fs
  BY DEF SameRoles
<1>2. ASSUME NEW i \in DOMAIN fs
      PROVE  /\ hs[i].kind = fs[i].kind /\ hs[i].to = fs[i].to /\ hs[i].exit = fs[i].exit
             /\ Fresh(hs[i]) = Fresh(fs[i]) /\ (IsLoop(hs[i]) <=> IsLoop(fs[i]))
  BY DEF SameRoles, Fresh, IsLoop
<1>3. Pending(g, hs) = Pending(g, fs)
  BY <1>1, <1>2 DEF Pending
<1> QED
  BY <1>1, <1>2, <1>3 DEF Tidy

\* m is g with jumps to blocks of J at the end of its block, and nothing allocated.
Grown(g, m, J) ==
  /\ m.at = g.at /\ g.at \in DOMAIN g.blocks /\ DOMAIN m.blocks = DOMAIN g.blocks
  /\ \A b \in DOMAIN g.blocks : b # g.at => m.blocks[b] = g.blocks[b]
  /\ JumpsOf(m.blocks[g.at]) \subseteq JumpsOf(g.blocks[g.at]) \cup J
  /\ Allocates(m.blocks[g.at]) => Allocates(g.blocks[g.at])
  /\ TerminatorsLast(m.blocks) => TerminatorsLast(g.blocks)

LEMMA GrownBy ==
  ASSUME NEW g, Builder(g), NEW s, NEW m, Extends(g, s, m), ~Allocates(s), NEW J, JumpsOf(s) \subseteq J
  PROVE  Grown(g, m, J)
<1>1. WellFormed(g) /\ Appended(g, s, m) /\ m.at = g.at
  BY DEF Builder, Extends
<1> QED
  BY <1>1, AppendedJumps DEF Grown

LEMMA GrownNot ==
  ASSUME NEW g, Builder(g), NEW J
  PROVE  Grown(g, g, J)
  BY DEF Grown, Builder

\* A statement without a slot of its own.
LEMMA TidyGrown ==
  ASSUME NEW g, NEW fs, NEW m, NEW J, Grown(g, m, J), Tidy(g, fs), J \subseteq Pending(g, fs),
         J # {} => \E i \in DOMAIN fs : IsLoop(fs[i])
  PROVE  Tidy(m, fs)
<1>1. Pending(m, fs) = Pending(g, fs)
  BY DEF Grown, Pending
<1>2. Onwards(g, fs, m, fs)
  BY <1>1 DEF Grown, Onwards
<1>3. \A b \in DOMAIN m.blocks :
        b # m.at /\ Allocates(m.blocks[b]) => Once(m.blocks, b, Pending(m, fs))
  BY <1>2, LeftKept DEF Grown
<1>4. ASSUME Allocates(m.blocks[m.at])
      PROVE  JumpsOf(m.blocks[m.at]) = {} /\ \A i \in DOMAIN fs : ~IsLoop(fs[i])
  <2>1. m.at = g.at /\ Allocates(g.blocks[g.at])
    BY <1>4 DEF Grown
  <2>2. JumpsOf(g.blocks[g.at]) = {} /\ \A i \in DOMAIN fs : ~IsLoop(fs[i])
    BY <2>1 DEF Tidy
  <2>3. J = {}
    BY <2>2
  <2> QED
    BY <2>1, <2>2, <2>3 DEF Grown
<1>5. ASSUME NEW i \in DOMAIN fs, NEW b \in Fresh(fs[i])
      PROVE  b \in DOMAIN m.blocks \ {m.at} /\ m.blocks[b] = <<>>
  <2>1. b \in DOMAIN g.blocks /\ b # g.at /\ g.blocks[b] = <<>>
    BY DEF Tidy
  <2> QED
    BY <2>1 DEF Grown
<1> QED
  BY <1>3, <1>4, <1>5 DEF Tidy

\* A slot, outside of loops.
LEMMA TidyFilled ==
  ASSUME NEW g, NEW fs, Builder(g), NEW s, NEW m, Extends(g, s, m), s # <<>>, JumpsOf(s) = {},
         TerminatorsLast(m.blocks), \A i \in DOMAIN fs : ~IsLoop(fs[i]), Tidy(g, fs)
  PROVE  Tidy(m, fs)
<1>1. WellFormed(g) /\ Appended(g, s, m) /\ m.at = g.at /\ g.at \in DOMAIN g.blocks
  BY DEF Builder, Extends
<1>2. /\ DOMAIN m.blocks = DOMAIN g.blocks
      /\ \A b \in DOMAIN g.blocks : b # g.at => m.blocks[b] = g.blocks[b]
      /\ JumpsOf(m.blocks[g.at]) = {} /\ JumpsOf(g.blocks[g.at]) = {}
  BY <1>1, AppendedJumps
<1>3. Pending(m, fs) = Pending(g, fs)
  BY <1>1, <1>2 DEF Pending
<1>4. Onwards(g, fs, m, fs)
  BY <1>2, <1>3 DEF Onwards
<1>5. \A b \in DOMAIN m.blocks :
        b # m.at /\ Allocates(m.blocks[b]) => Once(m.blocks, b, Pending(m, fs))
  BY <1>1, <1>4, LeftKept
<1>6. ASSUME NEW i \in DOMAIN fs, NEW b \in Fresh(fs[i])
      PROVE  b \in DOMAIN m.blocks \ {m.at} /\ m.blocks[b] = <<>>
  <2>1. b \in DOMAIN g.blocks /\ b # g.at /\ g.blocks[b] = <<>>
    BY DEF Tidy
  <2> QED
    BY <1>1, <1>2, <2>1
<1> QED
  BY <1>1, <1>2, <1>5, <1>6 DEF Tidy

\* Outside of loops, all that is known is fresh.
LEMMA KnownFresh ==
  ASSUME NEW g, NEW fs, Tidy(g, fs), NEW i \in DOMAIN fs, fs[i].kind # "body", ~IsLoop(fs[i]),
         NEW b, b \in {fs[i].to, fs[i].exit}
  PROVE  b \in DOMAIN g.blocks \ {g.at} /\ g.blocks[b] = <<>>
<1>1. b \in Fresh(fs[i])
  BY DEF Fresh
<1> QED
  BY <1>1 DEF Tidy

\* The frames hs are fs without f, the innermost, or with its second branch instead.
Closing(fs, f, hs) ==
  \E n \in DOMAIN fs :
    /\ f = fs[n] /\ f.kind # "body" /\ DOMAIN hs \subseteq DOMAIN fs
    /\ \A i \in DOMAIN hs : i # n => hs[i] = fs[i]
    /\ IF n \in DOMAIN hs
       THEN f.kind = "then" /\ hs[n].kind = "else" /\ hs[n].to = f.to /\ hs[n].exit = f.to
       ELSE f.kind \in {"else", "while", "for"}

\* The end of a block: it jumps to a block f knows, and the emitters go on in another.
LEMMA TidyClosed ==
  ASSUME NEW g, NEW fs, NEW f, NEW hs, Closing(fs, f, hs), Tidy(g, fs), NEW m, Grown(g, m, {f.to}),
         f.to \in DOMAIN g.blocks,
         NEW h, h.blocks = m.blocks, h.at = f.exit
  PROVE  Tidy(h, hs)
<1>1. PICK n \in DOMAIN fs :
        /\ f = fs[n] /\ f.kind # "body" /\ DOMAIN hs \subseteq DOMAIN fs
        /\ \A i \in DOMAIN hs : i # n => hs[i] = fs[i]
        /\ IF n \in DOMAIN hs
           THEN f.kind = "then" /\ hs[n].kind = "else" /\ hs[n].to = f.to /\ hs[n].exit = f.to
           ELSE f.kind \in {"else", "while", "for"}
  BY DEF Closing
<1>2. /\ g.at \in DOMAIN g.blocks /\ DOMAIN h.blocks = DOMAIN g.blocks
      /\ \A b \in DOMAIN g.blocks : b # g.at => h.blocks[b] = g.blocks[b]
      /\ JumpsOf(h.blocks[g.at]) \subseteq JumpsOf(g.blocks[g.at]) \cup {f.to}
      /\ Allocates(h.blocks[g.at]) => Allocates(g.blocks[g.at])
  BY DEF Grown
<1>3. f.exit \in Fresh(f)
  BY <1>1 DEF Fresh
<1>4. h.at \in DOMAIN g.blocks /\ h.at # g.at /\ h.blocks[h.at] = <<>>
  BY <1>1, <1>2, <1>3 DEF Tidy
<1>5. ASSUME NEW i \in DOMAIN hs, hs[i].kind # "body", NEW b \in {hs[i].to, hs[i].exit}
      PROVE  \E j \in DOMAIN fs : fs[j].kind # "body" /\ b \in {fs[j].to, fs[j].exit}
  BY <1>1, <1>5
<1>6. Pending(h, hs) \subseteq Pending(g, fs)
  BY <1>1, <1>2, <1>5 DEF Pending
<1>7. f.to \in Pending(g, fs)
  BY <1>1 DEF Pending
<1>8. Onwards(g, fs, h, hs)
  BY <1>2, <1>6, <1>7 DEF Onwards
<1>9. ASSUME Allocates(h.blocks[g.at]) PROVE Once(h.blocks, g.at, Pending(h, hs))
  <2>1. JumpsOf(g.blocks[g.at]) = {} /\ \A i \in DOMAIN fs : ~IsLoop(fs[i])
    BY <1>2, <1>9 DEF Tidy
  <2>2. PICK S : S = Pending(h, hs)
    OBVIOUS
  <2>3. ASSUME NEW b \in S PROVE b # g.at /\ JumpsOf(h.blocks[b]) = {}
    <3>1. CASE b = h.at
      BY <1>4, <3>1, NothingInEmpty
    <3>2. CASE b # h.at
      <4>1. PICK j \in DOMAIN fs : fs[j].kind # "body" /\ b \in {fs[j].to, fs[j].exit}
        BY <1>5, <2>2, <2>3, <3>2 DEF Pending
      <4>2. b \in DOMAIN g.blocks /\ b # g.at /\ g.blocks[b] = <<>>
        BY <2>1, <4>1, KnownFresh
      <4> QED
        BY <1>2, <4>2, NothingInEmpty
    <3> QED
      BY <3>1, <3>2
  <2>4. f.to \in S
    <3>1. CASE n \in DOMAIN hs
      BY <1>1, <1>2, <2>2, <3>1 DEF Pending
    <3>2. CASE n \notin DOMAIN hs
      <4>1. f.to = h.at
        <5>1. f.kind = "else" => f.exit = f.to
          BY <1>1 DEF Tidy
        <5>2. f.kind = "else"
          BY <1>1, <2>1, <3>2 DEF IsLoop
        <5> QED
          BY <5>1, <5>2
      <4> QED
        BY <1>2, <2>2, <4>1 DEF Pending
    <3> QED
      BY <3>1, <3>2
  <2>5. S \subseteq DOMAIN h.blocks
    BY <2>2 DEF Pending
  <2>6. LeftFor(h.blocks, g.at, S)
    BY <1>2, <2>1, <2>3, <2>4, <2>5 DEF LeftFor
  <2> QED
    BY <2>2, <2>6 DEF Once
<1>10. \A b \in DOMAIN h.blocks :
        b # h.at /\ Allocates(h.blocks[b]) => Once(h.blocks, b, Pending(h, hs))
  BY <1>2, <1>8, <1>9, LeftKept
<1>11. ~Allocates(h.blocks[h.at])
  BY <1>4, NothingInEmpty
<1>12. ASSUME NEW i \in DOMAIN hs, NEW b \in Fresh(hs[i])
      PROVE  b \in DOMAIN h.blocks \ {h.at} /\ h.blocks[b] = <<>> /\ b \in Fresh(fs[i])
  <2>1. b \in Fresh(fs[i]) /\ b # f.exit
    <3>1. CASE i = n
      <4>1. b = f.to /\ f.kind = "then" /\ b \in Fresh(f)
        BY <1>1, <1>12, <3>1 DEF Fresh, IsLoop
      <4> QED
        BY <1>1, <3>1, <4>1 DEF Tidy
    <3>2. CASE i # n
      <4>1. b \in Fresh(fs[i]) /\ i \in DOMAIN fs
        BY <1>1, <1>12, <3>2
      <4>2. Fresh(fs[i]) \cap Fresh(fs[n]) = {}
        BY <3>2, <4>1 DEF Tidy
      <4> QED
        BY <1>1, <1>3, <4>1, <4>2
    <3> QED
      BY <3>1, <3>2
  <2>2. b \in DOMAIN g.blocks /\ b # g.at /\ g.blocks[b] = <<>>
    BY <1>1, <2>1 DEF Tidy
  <2> QED
    BY <1>2, <2>1, <2>2
<1>13. ASSUME NEW i \in DOMAIN hs, NEW j \in DOMAIN hs, i # j PROVE Fresh(hs[i]) \cap Fresh(hs[j]) = {}
  <2>1. Fresh(hs[i]) \subseteq Fresh(fs[i]) /\ Fresh(hs[j]) \subseteq Fresh(fs[j])
    BY <1>12
  <2>2. Fresh(fs[i]) \cap Fresh(fs[j]) = {}
    BY <1>1, <1>13 DEF Tidy
  <2> QED
    BY <2>1, <2>2
<1>14. \A i \in DOMAIN hs : /\ hs[i].kind = "then" => hs[i].to # hs[i].exit
                            /\ hs[i].kind = "else" => hs[i].to = hs[i].exit
  BY <1>1 DEF Tidy
<1> QED
  BY <1>10, <1>11, <1>12, <1>13, <1>14 DEF Tidy

\* In h, the blocks of a statement were opened for frame f: what is new are those of
\* f, which are empty, and the current one, empty too; the block of g jumps to them.
Opened(g, h, f) ==
  LET new == DOMAIN h.blocks \ DOMAIN g.blocks
  IN  /\ g.at \in DOMAIN g.blocks /\ DOMAIN g.blocks \subseteq DOMAIN h.blocks
      /\ \A b \in DOMAIN g.blocks : b # g.at => h.blocks[b] = g.blocks[b]
      /\ JumpsOf(h.blocks[g.at]) \subseteq JumpsOf(g.blocks[g.at]) \cup new
      /\ Allocates(h.blocks[g.at]) => Allocates(g.blocks[g.at])
      /\ \A b \in new : JumpsOf(h.blocks[b]) \subseteq new /\ ~Allocates(h.blocks[b])
      /\ new = {h.at, f.to, f.exit} /\ h.blocks[h.at] = <<>> /\ f.kind \in {"then", "while", "for"}
      /\ \A b \in Fresh(f) : b # h.at /\ h.blocks[b] = <<>>
      /\ f.kind = "then" => f.to # f.exit

LEMMA TidyOpened ==
  ASSUME NEW g, NEW p, NEW fs, Stacked(fs, g, p), Tidy(g, fs), NEW h, NEW f, Opened(g, h, f)
  PROVE  Tidy(h, Append(fs, f))
<1>1. PICK N, hs, new : N = Len(fs) /\ hs = Append(fs, f) /\ new = DOMAIN h.blocks \ DOMAIN g.blocks
  OBVIOUS
<1>2. /\ N \in Nat \ {0} /\ DOMAIN fs = 1 .. N /\ DOMAIN hs = 1 .. N + 1
      /\ hs[N + 1] = f /\ \A i \in 1 .. N : hs[i] = fs[i]
  BY <1>1, PushedAt
<1>3. PICK m : m = N + 1 /\ m \in DOMAIN hs /\ hs[m] = f
  BY <1>2
<1>4. \A i \in DOMAIN hs : i = m \/ (i \in DOMAIN fs /\ hs[i] = fs[i])
  BY <1>2, <1>3
<1>5. /\ g.at \in DOMAIN g.blocks /\ DOMAIN g.blocks \subseteq DOMAIN h.blocks
      /\ \A b \in DOMAIN g.blocks : b # g.at => h.blocks[b] = g.blocks[b]
      /\ JumpsOf(h.blocks[g.at]) \subseteq JumpsOf(g.blocks[g.at]) \cup new
      /\ Allocates(h.blocks[g.at]) => Allocates(g.blocks[g.at])
      /\ \A b \in new : JumpsOf(h.blocks[b]) \subseteq new /\ ~Allocates(h.blocks[b])
      /\ new = {h.at, f.to, f.exit} /\ h.blocks[h.at] = <<>> /\ f.kind \in {"then", "while", "for"}
      /\ \A b \in Fresh(f) : b # h.at /\ h.blocks[b] = <<>>
      /\ f.kind = "then" => f.to # f.exit
  BY <1>1 DEF Opened
<1>6. \A b \in new : b \in DOMAIN h.blocks /\ b \notin DOMAIN g.blocks
  BY <1>1
<1>7. \A b \in Fresh(f) : b \in new
  BY <1>5 DEF Fresh
<1>8. ASSUME NEW b \in Pending(h, hs)
      PROVE  b \in new \/ \E j \in DOMAIN fs : fs[j].kind # "body" /\ b \in {fs[j].to, fs[j].exit}
  BY <1>3, <1>4, <1>5 DEF Pending
<1>9. Pending(h, hs) \subseteq Pending(g, fs) \cup new
  <2> SUFFICES ASSUME NEW b \in Pending(h, hs), b \notin new PROVE b \in Pending(g, fs)
    OBVIOUS
  <2>1. b \in DOMAIN g.blocks
    BY <1>1 DEF Pending
  <2> QED
    BY <1>8, <2>1 DEF Pending
<1>10. new \subseteq Pending(h, hs)
  BY <1>3, <1>5, <1>6 DEF Pending
<1>11. Onwards(g, fs, h, hs)
  BY <1>1, <1>5, <1>9 DEF Onwards
<1>12. ASSUME Allocates(h.blocks[g.at]) PROVE Once(h.blocks, g.at, Pending(h, hs))
  <2>1. JumpsOf(g.blocks[g.at]) = {} /\ \A i \in DOMAIN fs : ~IsLoop(fs[i])
    BY <1>5, <1>12 DEF Tidy
  <2>2. PICK S : S = Pending(h, hs)
    OBVIOUS
  <2>3. ASSUME NEW b \in S PROVE b # g.at /\ JumpsOf(h.blocks[b]) \subseteq S
    <3>1. CASE b \in new
      BY <1>5, <1>6, <1>10, <2>2, <3>1
    <3>2. CASE b \notin new
      <4>1. PICK j \in DOMAIN fs : fs[j].kind # "body" /\ b \in {fs[j].to, fs[j].exit}
        BY <1>8, <2>2, <3>2
      <4>2. b \in DOMAIN g.blocks /\ b # g.at /\ g.blocks[b] = <<>>
        BY <2>1, <4>1, KnownFresh
      <4> QED
        BY <1>5, <4>2, NothingInEmpty
    <3> QED
      BY <3>1, <3>2
  <2>4. JumpsOf(h.blocks[g.at]) \subseteq S
    BY <1>5, <1>10, <2>1, <2>2
  <2>5. S \subseteq DOMAIN h.blocks
    BY <2>2 DEF Pending
  <2>6. g.at \notin S
    BY <2>3
  <2>7. LeftFor(h.blocks, g.at, S)
    BY <2>3, <2>4, <2>5, <2>6 DEF LeftFor
  <2> QED
    BY <2>2, <2>7 DEF Once
<1>13. \A b \in DOMAIN h.blocks :
        b # h.at /\ Allocates(h.blocks[b]) => Once(h.blocks, b, Pending(h, hs))
  BY <1>5, <1>11, <1>12, LeftKept
<1>14. ~Allocates(h.blocks[h.at])
  BY <1>5, NothingInEmpty
<1>15. ASSUME NEW i \in DOMAIN hs, i # m
      PROVE  /\ i \in DOMAIN fs /\ hs[i] = fs[i]
             /\ \A b \in Fresh(fs[i]) :
                  b \in DOMAIN g.blocks /\ b \in DOMAIN h.blocks \ {h.at} /\ h.blocks[b] = <<>>
  <2>1. i \in DOMAIN fs /\ hs[i] = fs[i]
    BY <1>4, <1>15
  <2>2. ASSUME NEW b \in Fresh(fs[i]) PROVE b \in DOMAIN g.blocks /\ b # g.at /\ g.blocks[b] = <<>>
    BY <2>1 DEF Tidy
  <2>3. h.at \notin DOMAIN g.blocks
    BY <1>5, <1>6
  <2> QED
    BY <1>5, <2>1, <2>2, <2>3
<1>16. ASSUME NEW i \in DOMAIN hs, NEW b \in Fresh(hs[i])
      PROVE  b \in DOMAIN h.blocks \ {h.at} /\ h.blocks[b] = <<>>
  BY <1>3, <1>5, <1>6, <1>7, <1>15, <1>16
<1>17. ASSUME NEW i \in DOMAIN hs, NEW j \in DOMAIN hs, i # j PROVE Fresh(hs[i]) \cap Fresh(hs[j]) = {}
  <2>1. CASE i # m /\ j # m
    BY <1>15, <1>17, <2>1 DEF Tidy
  <2>2. CASE i = m /\ j # m
    BY <1>3, <1>6, <1>7, <1>15, <2>2
  <2>3. CASE i # m /\ j = m
    BY <1>3, <1>6, <1>7, <1>15, <2>3
  <2> QED
    BY <1>17, <2>1, <2>2, <2>3
<1>18. \A i \in DOMAIN hs : /\ hs[i].kind = "then" => hs[i].to # hs[i].exit
                            /\ hs[i].kind = "else" => hs[i].to = hs[i].exit
  BY <1>3, <1>5, <1>15 DEF Tidy
<1>19. Tidy(h, hs)
  BY <1>13, <1>14, <1>16, <1>17, <1>18 DEF Tidy
<1> QED
  BY <1>1, <1>19

LEMMA ThreeMore ==
  ASSUME NEW n \in Nat, NEW D, \A b : b \in D <=> b \in 1 .. n,
         NEW E, \A b : b \in E <=> b \in 1 .. n + 3
  PROVE  /\ E \ D = {n + 1, n + 2, n + 3} /\ D \subseteq E
         /\ n + 1 # n + 2 /\ n + 1 # n + 3 /\ n + 2 # n + 3
         /\ n + 1 \in E \ D /\ n + 2 \in E \ D /\ n + 3 \in E \ D
  OBVIOUS

\* Three blocks more.
LEMMA MoreBlocks ==
  ASSUME NEW g, Builder(g), NEW k, k = AppendBlocks(g), NEW n, n = Len(g.blocks)
  PROVE  /\ Builder(k) /\ k.at = g.at /\ g.at \in DOMAIN g.blocks
         /\ DOMAIN k.blocks \ DOMAIN g.blocks = {n + 1, n + 2, n + 3}
         /\ DOMAIN g.blocks \subseteq DOMAIN k.blocks
         /\ n + 1 # n + 2 /\ n + 1 # n + 3 /\ n + 2 # n + 3
         /\ n + 1 \in DOMAIN k.blocks \ DOMAIN g.blocks
         /\ n + 2 \in DOMAIN k.blocks \ DOMAIN g.blocks
         /\ n + 3 \in DOMAIN k.blocks \ DOMAIN g.blocks
         /\ \A b \in DOMAIN g.blocks : k.blocks[b] = g.blocks[b]
         /\ \A b \in DOMAIN k.blocks \ DOMAIN g.blocks : k.blocks[b] = <<>>
         /\ TerminatorsLast(k.blocks) => TerminatorsLast(g.blocks)
<1>1. /\ Builder(k) /\ k.at = g.at /\ n \in Nat
      /\ DOMAIN g.blocks = 1 .. n /\ DOMAIN k.blocks = 1 .. n + 3
      /\ \A b \in DOMAIN g.blocks : k.blocks[b] = g.blocks[b]
      /\ \A b \in DOMAIN k.blocks \ DOMAIN g.blocks : k.blocks[b] = <<>>
  BY BlocksAppended
<1>2. PICK D, E : D = DOMAIN g.blocks /\ E = DOMAIN k.blocks
  OBVIOUS
<1>3. /\ E \ D = {n + 1, n + 2, n + 3} /\ D \subseteq E
      /\ n + 1 # n + 2 /\ n + 1 # n + 3 /\ n + 2 # n + 3
      /\ n + 1 \in E \ D /\ n + 2 \in E \ D /\ n + 3 \in E \ D
  <2>1. (\A b : b \in D <=> b \in 1 .. n) /\ \A b : b \in E <=> b \in 1 .. n + 3
    BY <1>1, <1>2
  <2>2. PICK c \in Nat : c = n
    BY <1>1
  <2>3. (\A b : b \in D <=> b \in 1 .. c) /\ \A b : b \in E <=> b \in 1 .. c + 3
    BY <2>1, <2>2
  <2>4. /\ E \ D = {c + 1, c + 2, c + 3} /\ D \subseteq E
        /\ c + 1 # c + 2 /\ c + 1 # c + 3 /\ c + 2 # c + 3
        /\ c + 1 \in E \ D /\ c + 2 \in E \ D /\ c + 3 \in E \ D
    BY <2>3, ThreeMore
  <2> QED
    BY <2>2, <2>4
<1>4. TerminatorsLast(k.blocks) => TerminatorsLast(g.blocks)
  BY <1>1, <1>2, <1>3 DEF TerminatorsLast
<1>5. g.at \in DOMAIN g.blocks
  BY DEF Builder
<1> QED
  BY <1>1, <1>2, <1>3, <1>4, <1>5

LEMMA IfOpens ==
  ASSUME NEW g, Builder(g), NEW s, Emittable(g, s), s.kind = "if", NEW h, h = EmitIf(g, s),
         NEW n, n = Len(g.blocks), NEW f, f.kind = "then", f.to = n + 3, f.exit = n + 2
  PROVE  Opened(g, h, f) /\ (TerminatorsLast(h.blocks) => TerminatorsLast(g.blocks))
<1>1. PICK k, t : k = AppendBlocks(g) /\ t = <<CondBr(Emitted(g, s.args[1]), n + 1, n + 2)>>
  OBVIOUS
<1>2. PICK m : Extends(k, t, m) /\ h = PositionAt(m, n + 1)
  BY <1>1, IfOpened
<1>3. PICK D, E : D = DOMAIN g.blocks /\ E = DOMAIN k.blocks
  OBVIOUS
<1>4. PICK b1, b2, b3 : b1 = n + 1 /\ b2 = n + 2 /\ b3 = n + 3
  OBVIOUS
<1>5. /\ Builder(k) /\ k.at = g.at /\ g.at \in D /\ E \ D = {b1, b2, b3} /\ D \subseteq E
      /\ b1 # b2 /\ b1 # b3 /\ b2 # b3 /\ b1 \in E \ D /\ b2 \in E \ D /\ b3 \in E \ D
      /\ \A b \in D : k.blocks[b] = g.blocks[b]
      /\ \A b \in E \ D : k.blocks[b] = <<>>
      /\ TerminatorsLast(k.blocks) => TerminatorsLast(g.blocks)
  BY <1>1, <1>3, <1>4, MoreBlocks
<1>6. Grown(k, m, {b1, b2})
  <2>1. ~Allocates(t) /\ JumpsOf(t) \subseteq {b1, b2}
    BY <1>1, <1>4, OneCondBr
  <2> QED
    BY <1>2, <1>5, <2>1, GrownBy
<1>7. h.blocks = m.blocks /\ h.at = b1
  <2>1. Builder(m) /\ b1 \in DOMAIN m.blocks
    BY <1>2, <1>3, <1>5, <1>6 DEF Extends, Grown
  <2> QED
    BY <1>2, <1>4, <2>1, Positioned
<1>8. /\ DOMAIN h.blocks = E
      /\ \A b \in D : b # g.at => h.blocks[b] = g.blocks[b]
      /\ \A b \in E \ D : h.blocks[b] = <<>>
      /\ JumpsOf(h.blocks[g.at]) \subseteq JumpsOf(g.blocks[g.at]) \cup (E \ D)
      /\ Allocates(h.blocks[g.at]) => Allocates(g.blocks[g.at])
      /\ TerminatorsLast(h.blocks) => TerminatorsLast(g.blocks)
  BY <1>3, <1>5, <1>6, <1>7 DEF Grown
<1>9. \A b \in E \ D : JumpsOf(h.blocks[b]) \subseteq E \ D /\ ~Allocates(h.blocks[b])
  BY <1>8, NothingInEmpty
<1>10. Fresh(f) = {b2, b3} /\ f.kind \in {"then", "while", "for"}
  BY <1>4 DEF Fresh, IsLoop
<1>11. Opened(g, h, f)
  BY <1>3, <1>4, <1>5, <1>7, <1>8, <1>9, <1>10 DEF Opened
<1> QED
  BY <1>8, <1>11

LEMMA LoopOpens ==
  ASSUME NEW g, Builder(g), NEW e \in Exprs(g), NEW h, h = OpenLoop(g, e),
         NEW n, n = Len(g.blocks), NEW f, IsLoop(f), f.to = n + 1, f.exit = n + 3
  PROVE  Opened(g, h, f) /\ (TerminatorsLast(h.blocks) => TerminatorsLast(g.blocks))
<1>1. PICK k, t, u : k = AppendBlocks(g) /\ t = <<Br(n + 1)>> /\ u = <<CondBr(e, n + 2, n + 3)>>
  OBVIOUS
<1>2. PICK m, l : Extends(k, t, m) /\ Extends(PositionAt(m, n + 1), u, l) /\ h = PositionAt(l, n + 2)
  BY <1>1, LoopOpened
<1>3. PICK D, E : D = DOMAIN g.blocks /\ E = DOMAIN k.blocks
  OBVIOUS
<1>4. PICK b1, b2, b3 : b1 = n + 1 /\ b2 = n + 2 /\ b3 = n + 3
  OBVIOUS
<1>5. /\ Builder(k) /\ k.at = g.at /\ g.at \in D /\ E \ D = {b1, b2, b3} /\ D \subseteq E
      /\ b1 # b2 /\ b1 # b3 /\ b2 # b3 /\ b1 \in E \ D /\ b2 \in E \ D /\ b3 \in E \ D
      /\ \A b \in D : k.blocks[b] = g.blocks[b]
      /\ \A b \in E \ D : k.blocks[b] = <<>>
      /\ TerminatorsLast(k.blocks) => TerminatorsLast(g.blocks)
  BY <1>1, <1>3, <1>4, MoreBlocks
<1>6. Grown(k, m, {b1})
  <2>1. ~Allocates(t) /\ JumpsOf(t) \subseteq {b1}
    BY <1>1, <1>4, OneBr
  <2> QED
    BY <1>2, <1>5, <2>1, GrownBy
<1>7. PICK p : p = PositionAt(m, b1)
  OBVIOUS
<1>8. Builder(p) /\ p.blocks = m.blocks /\ p.at = b1 /\ DOMAIN m.blocks = E
  <2>1. Builder(m) /\ DOMAIN m.blocks = E /\ b1 \in DOMAIN m.blocks
    BY <1>2, <1>3, <1>5, <1>6 DEF Extends, Grown
  <2> QED
    BY <1>7, <2>1, Positioned
<1>9. Grown(p, l, {b2, b3})
  <2>1. ~Allocates(u) /\ JumpsOf(u) \subseteq {b2, b3}
    BY <1>1, <1>4, OneCondBr
  <2>2. Extends(p, u, l)
    BY <1>2, <1>4, <1>7
  <2> QED
    BY <1>8, <2>1, <2>2, GrownBy
<1>10. h.blocks = l.blocks /\ h.at = b2
  <2>1. Builder(l)
    BY <1>2 DEF Extends
  <2>2. b2 \in DOMAIN l.blocks
    BY <1>5, <1>8, <1>9 DEF Grown
  <2> QED
    BY <1>2, <1>4, <2>1, <2>2, Positioned
<1>11. /\ \A b \in D : b # g.at => m.blocks[b] = g.blocks[b]
       /\ \A b \in E \ D : m.blocks[b] = <<>>
       /\ JumpsOf(m.blocks[g.at]) \subseteq JumpsOf(g.blocks[g.at]) \cup (E \ D)
       /\ Allocates(m.blocks[g.at]) => Allocates(g.blocks[g.at])
       /\ TerminatorsLast(m.blocks) => TerminatorsLast(g.blocks)
  BY <1>3, <1>5, <1>6 DEF Grown
<1>12. /\ DOMAIN h.blocks = E
       /\ \A b \in E : b # b1 => h.blocks[b] = m.blocks[b]
       /\ JumpsOf(h.blocks[b1]) \subseteq JumpsOf(m.blocks[b1]) \cup {b2, b3}
       /\ Allocates(h.blocks[b1]) => Allocates(m.blocks[b1])
       /\ TerminatorsLast(h.blocks) => TerminatorsLast(m.blocks)
  BY <1>8, <1>9, <1>10 DEF Grown
<1>13. \A b \in D : b \in E /\ b # b1
  BY <1>5
<1>14. \A b \in E \ D : JumpsOf(m.blocks[b]) = {} /\ ~Allocates(m.blocks[b])
  BY <1>11, NothingInEmpty
<1>15. ASSUME NEW b \in E \ D
       PROVE  /\ JumpsOf(h.blocks[b]) \subseteq E \ D /\ ~Allocates(h.blocks[b])
              /\ b # b1 => h.blocks[b] = <<>>
  <2>1. CASE b = b1
    BY <1>5, <1>12, <1>14, <2>1
  <2>2. CASE b # b1
    BY <1>11, <1>12, <1>14, <2>2
  <2> QED
    BY <2>1, <2>2
<1>16. Fresh(f) = {b3} /\ f.kind \in {"then", "while", "for"} /\ f.kind # "then"
  BY <1>4 DEF Fresh, IsLoop
<1>17. E \ D = {h.at, f.to, f.exit}
  BY <1>4, <1>5, <1>10
<1>18. /\ \A b \in D : b # g.at => h.blocks[b] = g.blocks[b]
       /\ JumpsOf(h.blocks[g.at]) \subseteq JumpsOf(g.blocks[g.at]) \cup (E \ D)
       /\ Allocates(h.blocks[g.at]) => Allocates(g.blocks[g.at])
  BY <1>5, <1>11, <1>12, <1>13
<1>19. Opened(g, h, f)
  BY <1>3, <1>5, <1>10, <1>12, <1>15, <1>16, <1>17, <1>18 DEF Opened
<1> QED
  BY <1>11, <1>12, <1>19

-----------------------------------------------------------------------------
(* Regular functions are emitted tidily                                    *)

LEMMA TidySame ==
  ASSUME NEW g, NEW fs, NEW h, h.blocks = g.blocks, h.at = g.at, Tidy(g, fs)
  PROVE  Tidy(h, fs)
<1>1. Pending(h, fs) = Pending(g, fs)
  BY DEF Pending
<1> QED
  BY <1>1 DEF Tidy

\* A slot is made without a jump.
LEMMA BindGrows ==
  ASSUME NEW g, Builder(g), NEW x, NEW e \in Exprs(g), NEW h, h = BindSlot(g, x, e)
  PROVE  \E t, m : /\ Extends(g, t, m) /\ t # <<>> /\ JumpsOf(t) = {}
                   /\ h.blocks = m.blocks /\ h.at = m.at
<1>1. PICK c : c = g.cells + 1
  OBVIOUS
<1>2. PICK t : t = <<Alloca(c), Store(c, e)>>
  OBVIOUS
<1>3. PICK m : Extends(g, t, m) /\ h = SetLocal(m, x, c) /\ IsSlot(m, c)
  BY <1>1, <1>2, SlotBound
<1>4. h.blocks = m.blocks /\ h.at = m.at
  BY <1>3, LocalSet DEF Extends
<1>5. DOMAIN t = {1, 2} /\ t[1] = Alloca(c) /\ t[2] = Store(c, e) /\ t # <<>>
  BY <1>2
<1>6. \A k \in DOMAIN t : t[k].op \in {"alloca", "store"}
  BY <1>5 DEF Alloca, Store, Instr
<1>7. JumpsOf(t) = {}
  BY <1>6, NoJumps DEF Terminators
<1> QED
  BY <1>3, <1>4, <1>5, <1>7

\* An assignment stores to the slot of its name, or makes it.
LEMMA AssignGrows ==
  ASSUME NEW g, Builder(g), NEW s, Emittable(g, s), s.kind = "assign", NEW h, h = EmitAssign(g, s)
  PROVE  \/ Grown(g, h, {})
         \/ /\ s.target \notin DOMAIN g.locals
            /\ \E t, m : /\ Extends(g, t, m) /\ t # <<>> /\ JumpsOf(t) = {}
                         /\ h.blocks = m.blocks /\ h.at = m.at
<1> DEFINE e == Emitted(g, s.args[1])
<1>1. e \in Exprs(g)
  BY FirstArg
<1>2. CASE HasLocal(g, s.target)
  <2>1. s.target \in DOMAIN g.locals /\ IsSlot(g, GetLocal(g, s.target))
    BY <1>2 DEF HasLocal, GetLocal, Builder
  <2>2. PICK i : i = Store(GetLocal(g, s.target), e)
    OBVIOUS
  <2>3. Plain(g, i)
    BY <1>1, <2>1, <2>2, PlainInstrs
  <2>4. h = Build(g, <<i>>)
    BY <1>2, <2>2 DEF EmitAssign
  <2>5. PICK t : t = <<i>>
    OBVIOUS
  <2>6. Extends(g, t, h)
    BY <2>3, <2>4, <2>5, OneMore
  <2>7. i.op = "store" /\ "store" \notin Terminators
    BY <2>2 DEF Store, Instr, Terminators
  <2>8. JumpsOf(t) = {} /\ ~Allocates(t)
    BY <2>5, <2>7, OneInstr
  <2> QED
    BY <2>6, <2>8, GrownBy
<1>3. CASE ~HasLocal(g, s.target)
  <2>1. h = BindSlot(g, s.target, e)
    BY <1>3 DEF EmitAssign
  <2>2. s.target \notin DOMAIN g.locals
    BY <1>3 DEF HasLocal
  <2> QED
    BY <1>1, <2>1, <2>2, BindGrows
<1> QED
  BY <1>2, <1>3

LEMMA AugAssignGrows ==
  ASSUME NEW g, Builder(g), NEW s, Emittable(g, s), s.kind = "aug", NEW h, h = EmitAugAssign(g, s)
  PROVE  Grown(g, h, {})
<1>1. PICK i : i = Store(GetLocal(g, s.target), Emitted(g, s.args[1]))
  OBVIOUS
<1>2. PICK t : t = <<i>>
  OBVIOUS
<1>3. Extends(g, t, h)
  BY <1>1, <1>2, AugAssignBuilds
<1>4. i.op = "store" /\ "store" \notin Terminators
  BY <1>1 DEF Store, Instr, Terminators
<1>5. JumpsOf(t) = {} /\ ~Allocates(t)
  BY <1>2, <1>4, OneInstr
<1> QED
  BY <1>3, <1>5, GrownBy

\* A range makes a slot.
LEMMA RangeGrows ==
  ASSUME NEW g, Builder(g), NEW s, Emittable(g, s), s.kind = "for", NEW h, h = EmitRange(g, s)
  PROVE  \E t, m : /\ Extends(g, t, m) /\ t # <<>> /\ JumpsOf(t) = {}
                   /\ h.blocks = m.blocks /\ h.at = m.at
<1>1. PICK c, e1, e2, e3 : /\ c = g.cells /\ e1 = Emitted(g, s.args[1]) /\ e2 = Emitted(g, s.args[2])
                           /\ e3 = Emitted(g, s.args[3])
  OBVIOUS
<1>2. PICK t : t = RangeInstrs(c, e1, e2, e3)
  OBVIOUS
<1>3. PICK m : Extends(g, t, m) /\ h = SetLocal(m, s.target, c + 4) /\ IsSlot(m, c + 4)
  BY <1>1, <1>2, RangeMade
<1>4. h.blocks = m.blocks /\ h.at = m.at
  BY <1>3, LocalSet DEF Extends
<1>5. /\ DOMAIN t = {1, 2, 3, 4, 5} /\ t[1] = Let(c + 1, e1) /\ t[2] = Let(c + 2, e2)
      /\ t[3] = Let(c + 3, e3) /\ t[4] = Alloca(c + 4) /\ t[5] = Store(c + 4, Value(Slot(c + 1)))
      /\ t # <<>>
  BY <1>2 DEF RangeInstrs
<1>6. \A k \in DOMAIN t : t[k].op \in {"let", "alloca", "store"}
  BY <1>5 DEF Let, Alloca, Store, Instr
<1>7. JumpsOf(t) = {}
  BY <1>6, NoJumps DEF Terminators
<1> QED
  BY <1>3, <1>4, <1>5, <1>7

\* Each statement of a regular function, emitted where the blocks are tidy.
Regular(p) == Hoisted(p.body) /\ LoopsFlat(p.body)

EInv == Nested(frames, DOMAIN build.locals, prog) /\ (TerminatorsLast(build.blocks) => Tidy(build, frames))

LEMMA GoesOn ==
  ASSUME Stacked(frames, build, prog), NEW h, Builds(h, Passed),
         TerminatorsLast(h.blocks) => Tidy(h, frames), Nested(frames', DOMAIN build'.locals, prog')
  PROVE  EInv'
<1>1. PICK fs : fs = Passed
  OBVIOUS
<1>2. SameRoles(frames, fs)
  BY <1>1, PassedRoles
<1>3. TerminatorsLast(h.blocks) => Tidy(h, fs)
  BY <1>2, TidyRoles
<1> QED
  BY <1>1, <1>3 DEF EInv, Builds

LEMMA GrowsTidy ==
  ASSUME EInv, NEW h, NEW J, Grown(build, h, J), J \subseteq Pending(build, frames),
         J # {} => \E i \in DOMAIN frames : IsLoop(frames[i])
  PROVE  TerminatorsLast(h.blocks) => Tidy(h, frames)
<1> SUFFICES ASSUME TerminatorsLast(h.blocks) PROVE Tidy(h, frames)
  OBVIOUS
<1>1. Tidy(build, frames)
  BY DEF EInv, Grown
<1> QED
  BY <1>1, TidyGrown

LEMMA TidyAssign ==
  ASSUME CInv, EInv, AssignStmt
  PROVE  EInv'
<1>1. AtStmt("assign") /\ Builds(EmitAssign(build, Here), Passed)
  BY DEF AssignStmt
<1>2. Builder(build) /\ Stacked(frames, build, prog) /\ Emittable(build, Here) /\ Here.kind = "assign"
  BY <1>1, HereTyped
<1>3. PICK h : h = EmitAssign(build, Here)
  OBVIOUS
<1>4. DOMAIN h.locals = DOMAIN build.locals \cup {Here.target}
  BY <1>2, <1>3, AssignBuilds
<1>5. Nested(frames', DOMAIN build'.locals, prog')
  BY <1>1, <1>3, <1>4, NestedOn DEF EInv
<1>6. ASSUME TerminatorsLast(h.blocks) PROVE Tidy(h, frames)
  <2>1. CASE Grown(build, h, {})
    BY <1>6, <2>1, GrowsTidy
  <2>2. ASSUME Here.target \notin DOMAIN build.locals, NEW t, NEW m, Extends(build, t, m), t # <<>>,
               JumpsOf(t) = {}, h.blocks = m.blocks, h.at = m.at
        PROVE  Tidy(h, frames)
    <3>1. \A i \in DOMAIN frames : ~IsLoop(frames[i])
      BY <1>1, <2>2, SlotsOutside DEF EInv
    <3>2. TerminatorsLast(build.blocks)
      BY <1>2, <1>6, <2>2, AppendedJumps DEF Extends, Builder
    <3>3. Tidy(m, frames)
      BY <1>2, <1>6, <2>2, <3>1, <3>2, TidyFilled DEF EInv
    <3> QED
      BY <2>2, <3>3, TidySame
  <2> QED
    BY <1>2, <1>3, <2>1, <2>2, AssignGrows
<1> QED
  BY <1>1, <1>2, <1>3, <1>5, <1>6, GoesOn

LEMMA TidyAugAssign ==
  ASSUME CInv, EInv, AugAssignStmt
  PROVE  EInv'
<1>1. AtStmt("aug") /\ Builds(EmitAugAssign(build, Here), Passed)
  BY DEF AugAssignStmt
<1>2. Builder(build) /\ Stacked(frames, build, prog) /\ Emittable(build, Here) /\ Here.kind = "aug"
  BY <1>1, HereTyped
<1>3. PICK h : h = EmitAugAssign(build, Here)
  OBVIOUS
<1>4. h.locals = build.locals /\ Here.target \in DOMAIN build.locals
  BY <1>2, <1>3, AugAssignBuilds
<1>5. Nested(frames', DOMAIN build'.locals, prog')
  BY <1>1, <1>3, <1>4, NestedOn DEF EInv
<1>6. Grown(build, h, {})
  BY <1>2, <1>3, AugAssignGrows
<1>7. TerminatorsLast(h.blocks) => Tidy(h, frames)
  BY <1>6, GrowsTidy
<1> QED
  BY <1>1, <1>2, <1>3, <1>5, <1>7, GoesOn

LEMMA TidyJump ==
  ASSUME CInv, EInv, JumpStmt
  PROVE  EInv'
<1>1. PICK kind \in {"break", "continue"} :
        AtStmt(kind) /\ LoopsOpen # {} /\ Builds(Build(build, <<Br(JumpTarget(kind))>>), Passed)
  BY DEF JumpStmt
<1>2. Builder(build) /\ Stacked(frames, build, prog)
  BY <1>1, HereTyped
<1>3. PICK b \in DOMAIN build.blocks : b = JumpTarget(kind)
  BY <1>1, <1>2, InnermostLoop
<1>4. PICK i \in LoopsOpen : CurrentLoop = frames[i]
  BY <1>1, <1>2, InnermostLoop
<1>5. b \in {frames[i].to, frames[i].exit} /\ i \in DOMAIN frames /\ IsLoop(frames[i])
  BY <1>3, <1>4 DEF JumpTarget, LoopsOpen, IsLoop
<1>6. {b} \subseteq Pending(build, frames)
  BY <1>3, <1>5 DEF Pending, IsLoop
<1>7. PICK h, t : h = Build(build, <<Br(b)>>) /\ t = <<Br(b)>>
  OBVIOUS
<1>8. Extends(build, t, h) /\ h.locals = build.locals
  BY <1>2, <1>7, JumpBuilds
<1>9. Grown(build, h, {b})
  <2>1. JumpsOf(t) \subseteq {b} /\ ~Allocates(t)
    BY <1>7, OneBr
  <2> QED
    BY <1>2, <1>8, <2>1, GrownBy
<1>10. TerminatorsLast(h.blocks) => Tidy(h, frames)
  BY <1>5, <1>6, <1>9, GrowsTidy
<1>11. Builds(h, Passed)
  BY <1>1, <1>3, <1>7
<1>12. Nested(frames', DOMAIN build'.locals, prog')
  BY <1>1, <1>8, <1>11, NestedOn DEF EInv
<1> QED
  BY <1>2, <1>10, <1>11, <1>12, GoesOn

\* A return, wherever it is.
LEMMA ReturnGrows ==
  ASSUME NEW g, Builder(g), NEW e \in Exprs(g), NEW h, h = Build(g, <<Ret(e)>>)
  PROVE  Grown(g, h, {}) /\ h.locals = g.locals
<1>1. PICK t : t = <<Ret(e)>>
  OBVIOUS
<1>2. Extends(g, t, h) /\ h.locals = g.locals
  BY <1>1, JumpBuilds
<1>3. JumpsOf(t) \subseteq {} /\ ~Allocates(t)
  BY <1>1, OneRet
<1> QED
  BY <1>2, <1>3, GrownBy

LEMMA TidyReturn ==
  ASSUME CInv, EInv, ReturnStmt
  PROVE  EInv'
<1>1. AtStmt("return") /\ Builds(Build(build, <<Ret(Emitted(build, Here.args[1]))>>), Passed)
  BY DEF ReturnStmt
<1>2. Builder(build) /\ Stacked(frames, build, prog) /\ Emittable(build, Here) /\ Here.kind = "return"
  BY <1>1, HereTyped
<1>3. PICK e \in Exprs(build) : e = Emitted(build, Here.args[1])
  BY <1>2, FirstArg
<1>4. PICK h : h = Build(build, <<Ret(e)>>)
  OBVIOUS
<1>5. Grown(build, h, {}) /\ h.locals = build.locals
  BY <1>2, <1>4, ReturnGrows
<1>6. TerminatorsLast(h.blocks) => Tidy(h, frames)
  BY <1>5, GrowsTidy
<1>7. Builds(h, Passed)
  BY <1>1, <1>3, <1>4
<1>8. Nested(frames', DOMAIN build'.locals, prog')
  BY <1>1, <1>5, <1>7, NestedOn DEF EInv
<1> QED
  BY <1>2, <1>6, <1>7, <1>8, GoesOn

\* A statement with a block.
LEMMA GoesIn ==
  ASSUME CInv, Stacked(frames, build, prog), NEW g, NEW h, NEW f, Builder(g), Later(build, g),
         Builds(h, Append(Passed, f)), TerminatorsLast(g.blocks) => Tidy(g, frames),
         Opened(g, h, f), TerminatorsLast(h.blocks) => TerminatorsLast(g.blocks),
         Nested(frames', DOMAIN build'.locals, prog')
  PROVE  EInv'
<1>1. PICK fs : fs = Passed
  OBVIOUS
<1>2. SameRoles(frames, fs) /\ Stacked(fs, build, prog)
  BY <1>1, PassedRoles, StackedPassed
<1>3. Stacked(fs, g, prog)
  BY <1>2, StackedLater
<1>4. ASSUME TerminatorsLast(h.blocks) PROVE Tidy(h, Append(fs, f))
  <2>1. Tidy(g, fs)
    BY <1>2, <1>4, TidyRoles
  <2> QED
    BY <1>3, <2>1, TidyOpened
<1> QED
  BY <1>1, <1>4 DEF EInv, Builds

LEMMA TidyIf ==
  ASSUME CInv, EInv, Regular(prog), IfStmt
  PROVE  EInv'
<1>1. AtStmt("if") /\ Builds(EmitIf(build, Here), Append(Passed, ThenFrame(build, Here)))
  BY DEF IfStmt
<1>2. Builder(build) /\ Stacked(frames, build, prog) /\ Emittable(build, Here) /\ Here.kind = "if"
  BY <1>1, HereTyped
<1>3. PICK n, h : n = Len(build.blocks) /\ h = EmitIf(build, Here)
  OBVIOUS
<1>4. PICK f : f = ThenFrame(build, Here)
  OBVIOUS
<1>5. /\ f.kind = "then" /\ f.to = n + 3 /\ f.exit = n + 2
      /\ f.body = Here.body /\ f.orelse = Here.orelse
  BY <1>3, <1>4 DEF ThenFrame, Frame
<1>6. Opened(build, h, f) /\ (TerminatorsLast(h.blocks) => TerminatorsLast(build.blocks))
  BY <1>2, <1>3, <1>5, IfOpens
<1>7. h.locals = build.locals
  BY <1>2, <1>3, IfBuilds
<1>8. Builds(h, Append(Passed, f))
  BY <1>1, <1>3, <1>4
<1>9. f.kind # "body" /\ ~IsLoop(f)
  BY <1>5 DEF IsLoop
<1>10. Nested(frames', DOMAIN build'.locals, prog')
  BY <1>1, <1>5, <1>7, <1>8, <1>9, NestedIn DEF EInv, Regular
<1>11. Later(build, build)
  BY <1>2, Itself
<1> QED
  BY <1>2, <1>6, <1>8, <1>10, <1>11, GoesIn DEF EInv

LEMMA LoopFrameFields ==
  ASSUME NEW g, NEW s, NEW c, NEW n, n = Len(g.blocks), NEW f, f = LoopFrame(g, s, c)
  PROVE  /\ f.kind = s.kind /\ f.to = n + 1 /\ f.exit = n + 3
         /\ f.body = s.body /\ f.orelse = <<>>
<1>1. PICK none : none = <<>>
  OBVIOUS
<1>2. f = Frame(s.kind, s.body, none, n + 1, n + 3, c)
  BY <1>1 DEF LoopFrame
<1> QED
  BY <1>1, <1>2 DEF Frame

LEMMA TidyWhile ==
  ASSUME CInv, EInv, Regular(prog), WhileStmt
  PROVE  EInv'
<1>1. AtStmt("while") /\ Builds(EmitWhile(build, Here), Append(Passed, LoopFrame(build, Here, 0)))
  BY DEF WhileStmt
<1>2. Builder(build) /\ Stacked(frames, build, prog) /\ Emittable(build, Here) /\ Here.kind = "while"
  BY <1>1, HereTyped
<1>3. PICK n, h, e : n = Len(build.blocks) /\ h = EmitWhile(build, Here) /\ e = Emitted(build, Here.args[1])
  OBVIOUS
<1>4. e \in Exprs(build) /\ h = OpenLoop(build, e)
  BY <1>2, <1>3, FirstArg DEF EmitWhile
<1>5. PICK f : f = LoopFrame(build, Here, 0)
  OBVIOUS
<1>6. /\ f.kind = "while" /\ f.to = n + 1 /\ f.exit = n + 3
      /\ f.body = Here.body /\ f.orelse = <<>>
  BY <1>2, <1>3, <1>5, LoopFrameFields
<1>7. IsLoop(f) /\ f.kind # "body"
  BY <1>6 DEF IsLoop
<1>8. Opened(build, h, f) /\ (TerminatorsLast(h.blocks) => TerminatorsLast(build.blocks))
  BY <1>2, <1>3, <1>4, <1>6, <1>7, LoopOpens
<1>9. h.locals = build.locals
  BY <1>2, <1>4, LoopBuilds
<1>10. Builds(h, Append(Passed, f))
  BY <1>1, <1>3, <1>5
<1>11. Nested(frames', DOMAIN build'.locals, prog')
  BY <1>1, <1>6, <1>7, <1>9, <1>10, NestedIn DEF EInv, Regular
<1>12. Later(build, build)
  BY <1>2, Itself
<1> QED
  BY <1>2, <1>8, <1>10, <1>11, <1>12, GoesIn DEF EInv

LEMMA TidyFor ==
  ASSUME CInv, EInv, Regular(prog), ForStmt
  PROVE  EInv'
<1>1. AtStmt("for") /\ Builds(EmitFor(build, Here), Append(Passed, LoopFrame(build, Here, build.cells + 4)))
  BY DEF ForStmt
<1>2. Builder(build) /\ Stacked(frames, build, prog) /\ Emittable(build, Here) /\ Here.kind = "for"
  BY <1>1, HereTyped
<1>3. PICK n, h, c : n = Len(build.blocks) /\ h = EmitFor(build, Here) /\ c = build.cells + 4
  OBVIOUS
<1>4. PICK r : r = EmitRange(build, Here)
  OBVIOUS
<1>5. /\ Builder(r) /\ Later(build, r) /\ DOMAIN r.blocks = DOMAIN build.blocks
      /\ r.cells = build.cells + 4
  BY <1>2, <1>4, RangeBuilds
<1>6. PICK e : e = Expr("lt", Slot(r.cells), Slot(r.cells - 2))
  OBVIOUS
<1>7. e \in Exprs(r) /\ h = OpenLoop(r, e)
  <2>1. build.cells \in Nat
    BY <1>2 DEF Builder, WellFormed
  <2>2. r.cells >= 2
    BY <1>5, <2>1
  <2> QED
    BY <1>3, <1>4, <1>5, <1>6, <2>2, ForTest DEF EmitFor
<1>8. Len(r.blocks) = n
  <2>1. PICK T : build.blocks \in Seq(T)
    BY <1>2 DEF Builder, WellFormed
  <2>2. PICK U : r.blocks \in Seq(U)
    BY <1>5 DEF Builder, WellFormed
  <2> QED
    BY <1>3, <1>5, <2>1, <2>2
<1>9. PICK f : f = LoopFrame(build, Here, c)
  OBVIOUS
<1>10. /\ f.kind = "for" /\ f.to = n + 1 /\ f.exit = n + 3
       /\ f.body = Here.body /\ f.orelse = <<>>
  BY <1>2, <1>3, <1>9, LoopFrameFields
<1>11. IsLoop(f) /\ f.kind # "body"
  BY <1>10 DEF IsLoop
<1>12. Opened(r, h, f) /\ (TerminatorsLast(h.blocks) => TerminatorsLast(r.blocks))
  BY <1>5, <1>7, <1>8, <1>10, <1>11, LoopOpens
<1>13. ASSUME TerminatorsLast(r.blocks) PROVE Tidy(r, frames)
  <2>1. PICK t, m : /\ Extends(build, t, m) /\ t # <<>> /\ JumpsOf(t) = {}
                    /\ r.blocks = m.blocks /\ r.at = m.at
    BY <1>2, <1>4, RangeGrows
  <2>2. \A i \in DOMAIN frames : ~IsLoop(frames[i])
    BY <1>1, SlotsOutside DEF EInv
  <2>3. TerminatorsLast(build.blocks)
    BY <1>2, <1>13, <2>1, AppendedJumps DEF Extends, Builder
  <2>4. Tidy(m, frames)
    BY <1>2, <1>13, <2>1, <2>2, <2>3, TidyFilled DEF EInv
  <2> QED
    BY <2>1, <2>4, TidySame
<1>14. DOMAIN h.locals = DOMAIN build.locals \cup {Here.target}
  BY <1>2, <1>3, ForBuilds
<1>15. Builds(h, Append(Passed, f))
  BY <1>1, <1>3, <1>9
<1>16. Nested(frames', DOMAIN build'.locals, prog')
  BY <1>1, <1>10, <1>11, <1>14, <1>15, NestedIn DEF EInv, Regular
<1> QED
  BY <1>2, <1>5, <1>12, <1>13, <1>15, <1>16, GoesIn

LEMMA BelowCloses ==
  ASSUME NEW g, NEW p, Stacked(frames, g, p), Top.kind \in {"else", "while", "for"}
  PROVE  Closing(frames, Top, Below)
<1>1. PICK N, hs : N = Len(frames) /\ hs = Below
  OBVIOUS
<1>2. /\ N \in Nat /\ N > 1 /\ DOMAIN frames = 1 .. N /\ DOMAIN hs = 1 .. N - 1
      /\ \A i \in 1 .. N - 1 : hs[i] = frames[i]
  BY <1>1, BelowAt
<1>3. N \in DOMAIN frames /\ N \notin DOMAIN hs /\ DOMAIN hs \subseteq DOMAIN frames
  BY <1>2
<1>4. Top = frames[N]
  BY <1>1 DEF Top
<1>5. Closing(frames, Top, hs)
  BY <1>2, <1>3, <1>4 DEF Closing
<1> QED
  BY <1>1, <1>5

LEMMA ElseCloses ==
  ASSUME NEW g, NEW p, Stacked(frames, g, p), Top.kind = "then"
  PROVE  Closing(frames, Top, Append(Below, ElseFrame(Top)))
<1>1. PICK N, fs, f : N = Len(frames) /\ fs = Below /\ f = ElseFrame(Top)
  OBVIOUS
<1>a. PICK hs : hs = Append(fs, f)
  OBVIOUS
<1>2. /\ N \in Nat /\ N > 1 /\ DOMAIN frames = 1 .. N /\ DOMAIN fs = 1 .. N - 1
      /\ \A i \in 1 .. N - 1 : fs[i] = frames[i]
  BY <1>1, BelowAt
<1>3. Stacked(fs, g, p)
  BY <1>1, StackedBelow
<1>4. PICK M : M = Len(fs)
  OBVIOUS
<1>5. /\ M \in Nat \ {0} /\ DOMAIN fs = 1 .. M /\ DOMAIN hs = 1 .. M + 1
      /\ hs[M + 1] = f /\ \A i \in 1 .. M : hs[i] = fs[i]
  BY <1>a, <1>3, <1>4, PushedAt
<1>6. M + 1 = N
  BY <1>2, <1>5
<1>7. /\ N \in DOMAIN frames /\ N \in DOMAIN hs /\ hs[N] = f
      /\ \A i \in DOMAIN hs : i \in DOMAIN frames /\ (i # N => hs[i] = frames[i])
  BY <1>2, <1>5, <1>6
<1>8. Top \in FrameSet(g, p) /\ Top = frames[N]
  BY <1>1, TopFrame DEF Top
<1>9. f.to = Top.to /\ f.exit = Top.to /\ f.kind = "else"
  BY <1>1, <1>8, FrameKept
<1>10. Closing(frames, Top, hs)
  BY <1>7, <1>8, <1>9 DEF Closing
<1> QED
  BY <1>1, <1>a, <1>10

LEMMA BranchGrows ==
  ASSUME NEW g, Builder(g), NEW b \in DOMAIN g.blocks, NEW m, m = BranchUnlessTerminated(g, b)
  PROVE  Grown(g, m, {b}) /\ Builder(m) /\ m.locals = g.locals
<1>1. ClosedWith(g, Br(b), m)
  BY BranchBuilds
<1>2. Builder(m) /\ m.locals = g.locals
  BY <1>1, ClosedBuilds
<1>3. PICK t : t = <<Br(b)>>
  OBVIOUS
<1>4. JumpsOf(t) \subseteq {b} /\ ~Allocates(t)
  BY <1>3, OneBr
<1>5. m = g \/ Extends(g, t, m)
  BY <1>1, <1>3 DEF ClosedWith
<1> QED
  BY <1>2, <1>4, <1>5, GrownBy, GrownNot

LEMMA NextGrows ==
  ASSUME NEW g, Builder(g), NEW c, IsSlot(g, c), NEW b \in DOMAIN g.blocks, NEW m, m = EmitNext(g, c, b)
  PROVE  Grown(g, m, {b}) /\ Builder(m) /\ m.locals = g.locals
<1>1. Builder(m) /\ m.locals = g.locals
  BY NextKeeps
<1>2. PICK t : t = NextInstrs(c, b)
  OBVIOUS
<1>3. m = g \/ Extends(g, t, m)
  BY <1>2, NextBuilds
<1>4. PICK i, j : i = Store(c, Expr("add", Slot(c), Slot(c - 1))) /\ j = Br(b)
  OBVIOUS
<1>5. t = <<i, j>>
  BY <1>2, <1>4 DEF NextInstrs
<1>6. DOMAIN t = {1, 2} /\ t[1] = i /\ t[2] = j
  BY <1>5
<1>7. i.op = "store" /\ j.op = "br" /\ j.to = <<b>> /\ "store" \notin Terminators
  BY <1>4 DEF Store, Br, Instr, Terminators
<1>8. DOMAIN <<b>> = {1} /\ <<b>>[1] = b
  OBVIOUS
<1>9. ASSUME NEW x \in JumpsOf(t) PROVE x = b
  <2>1. PICK k \in DOMAIN t : t[k].op \in Terminators /\ \E l \in DOMAIN t[k].to : x = t[k].to[l]
    BY InJumps
  <2>2. t[k] = j
    BY <1>6, <1>7, <2>1
  <2> QED
    BY <1>7, <1>8, <2>1, <2>2
<1>10. ~Allocates(t)
  BY <1>6, <1>7 DEF Allocates
<1>11. JumpsOf(t) \subseteq {b}
  BY <1>9
<1> QED
  BY <1>1, <1>3, <1>10, <1>11, GrownBy, GrownNot

LEMMA GoesOut ==
  ASSUME CInv, EInv, NEW kind, AtEnd(kind), kind # "body",
         NEW m, Grown(build, m, {Top.to}), Builder(m), m.locals = build.locals,
         NEW hs, Closing(frames, Top, hs), Builds(PositionAt(m, Top.exit), hs),
         hs = Below \/ hs = Append(Below, ElseFrame(Top))
  PROVE  EInv'
<1>1. PICK h : h = PositionAt(m, Top.exit)
  OBVIOUS
<1>2. /\ Builder(build) /\ Stacked(frames, build, prog) /\ Top.kind = kind
      /\ Top.to \in DOMAIN build.blocks /\ Top.exit \in DOMAIN build.blocks
  BY EndTyped
<1>3. Top.exit \in DOMAIN m.blocks
  BY <1>2 DEF Grown
<1>4. h.blocks = m.blocks /\ h.at = Top.exit /\ h.locals = build.locals
  BY <1>1, <1>3, Positioned
<1>5. ASSUME TerminatorsLast(h.blocks) PROVE Tidy(h, hs)
  <2>1. TerminatorsLast(build.blocks)
    BY <1>4, <1>5 DEF Grown
  <2>2. Tidy(build, frames)
    BY <2>1 DEF EInv
  <2>3. PICK f : f = Top
    OBVIOUS
  <2>4. Tidy(h, hs)
    BY <1>2, <1>4, <2>2, <2>3, TidyClosed
  <2> QED
    BY <2>4
<1>6. Builds(h, Below) \/ Builds(h, Append(Below, ElseFrame(Top)))
  BY <1>1
<1>7. Nested(frames', DOMAIN build'.locals, prog')
  BY <1>2, <1>4, <1>6, NestedOut DEF EInv
<1> QED
  BY <1>1, <1>5, <1>7 DEF EInv, Builds

LEMMA TidyThenEnd ==
  ASSUME CInv, EInv, ThenEnd
  PROVE  EInv'
<1>1. AtEnd("then") /\ Builds(PositionAt(BranchUnlessTerminated(build, Top.to), Top.exit), Append(Below, ElseFrame(Top)))
  BY DEF ThenEnd
<1>2. /\ Builder(build) /\ Stacked(frames, build, prog) /\ Top.kind = "then"
      /\ Top.to \in DOMAIN build.blocks
  BY <1>1, EndTyped
<1>3. PICK m : m = BranchUnlessTerminated(build, Top.to)
  OBVIOUS
<1>4. Grown(build, m, {Top.to}) /\ Builder(m) /\ m.locals = build.locals
  BY <1>2, <1>3, BranchGrows
<1>5. PICK hs : hs = Append(Below, ElseFrame(Top))
  OBVIOUS
<1>6. Closing(frames, Top, hs)
  BY <1>2, <1>5, ElseCloses
<1> QED
  BY <1>1, <1>3, <1>4, <1>5, <1>6, GoesOut

LEMMA TidyElseOrWhileEnd ==
  ASSUME CInv, EInv, ElseOrWhileEnd
  PROVE  EInv'
<1>1. PICK kind \in {"else", "while"} :
        AtEnd(kind) /\ Builds(PositionAt(BranchUnlessTerminated(build, Top.to), Top.exit), Below)
  BY DEF ElseOrWhileEnd
<1>2. /\ Builder(build) /\ Stacked(frames, build, prog) /\ Top.kind = kind
      /\ Top.to \in DOMAIN build.blocks
  BY <1>1, EndTyped
<1>3. PICK m : m = BranchUnlessTerminated(build, Top.to)
  OBVIOUS
<1>4. Grown(build, m, {Top.to}) /\ Builder(m) /\ m.locals = build.locals
  BY <1>2, <1>3, BranchGrows
<1>5. PICK hs : hs = Below
  OBVIOUS
<1>6. Closing(frames, Top, hs)
  BY <1>2, <1>5, BelowCloses
<1> QED
  BY <1>1, <1>3, <1>4, <1>5, <1>6, GoesOut

LEMMA TidyForEnd ==
  ASSUME CInv, EInv, ForEnd
  PROVE  EInv'
<1>1. AtEnd("for") /\ Builds(PositionAt(EmitNext(build, Top.cell, Top.to), Top.exit), Below)
  BY DEF ForEnd
<1>2. /\ Builder(build) /\ Stacked(frames, build, prog) /\ Top.kind = "for"
      /\ Top.to \in DOMAIN build.blocks /\ IsSlot(build, Top.cell)
  BY <1>1, EndTyped
<1>3. PICK m, b, c : m = EmitNext(build, Top.cell, Top.to) /\ b = Top.to /\ c = Top.cell
  OBVIOUS
<1>4. Grown(build, m, {b}) /\ Builder(m) /\ m.locals = build.locals
  BY <1>2, <1>3, NextGrows
<1>5. PICK hs : hs = Below
  OBVIOUS
<1>6. Closing(frames, Top, hs)
  BY <1>2, <1>5, BelowCloses
<1> QED
  BY <1>1, <1>3, <1>4, <1>5, <1>6, GoesOut

\* The emitters of a regular function are done: what allocates is left for good.
LEMMA HandedOverOnce ==
  ASSUME EInv, NEW h, Grown(build, h, {}), TerminatorsLast(h.blocks)
  PROVE  AllOnce(h.blocks)
<1>1. Tidy(h, frames)
  BY GrowsTidy
<1>2. ASSUME NEW b \in DOMAIN h.blocks, Allocates(h.blocks[b]) PROVE Once(h.blocks, b, {})
  <2>1. CASE b = h.at
    <3>1. JumpsOf(h.blocks[b]) = {}
      BY <1>1, <1>2, <2>1 DEF Tidy
    <3>2. PICK S : S = {}
      OBVIOUS
    <3>3. LeftFor(h.blocks, b, S)
      BY <3>1, <3>2 DEF LeftFor
    <3> QED
      BY <3>2, <3>3 DEF Once
  <2>2. CASE b # h.at
    <3>1. Once(h.blocks, b, Pending(h, frames))
      BY <1>1, <1>2, <2>2 DEF Tidy
    <3> QED
      BY <3>1 DEF Once
  <2> QED
    BY <2>1, <2>2
<1> QED
  BY <1>2 DEF AllOnce

-----------------------------------------------------------------------------
(* The stack stays bounded                                                 *)

\* The function is emitted tidily, blocks that allocate are left for good, and the
\* call has its slots behind it.
SInv ==
  Regular(prog) =>
    /\ phase \in {"infer", "codegen"} => EInv
    /\ phase \in {"verify", "ready", "running"} /\ TerminatorsLast(code.blocks) => AllOnce(code.blocks)
    /\ phase = "running" => SlotsBehind

LEMMA VerifiedEndsLast ==
  ASSUME NEW blocks, Verifies(blocks)
  PROVE  TerminatorsLast(blocks)
  BY DEF Verifies, WellClosed, TerminatorsLast

LEMMA TidyStart ==
  ASSUME CompilerInit
  PROVE  SInv
<1>1. Builder(build) /\ prog \in Programs /\ build = EntryBuild /\ DOMAIN build.locals = {"n"}
  BY EntryBuilds DEF CompilerInit
<1>2. PICK f : f = BodyFrame(prog)
  OBVIOUS
<1>3. frames = <<f>> /\ f.kind = "body" /\ f.body = prog.body /\ f.i = 1
  BY <1>2 DEF CompilerInit, BodyFrame, Frame
<1>4. DOMAIN frames = {1} /\ frames[1] = f
  BY <1>3
<1>5. ~IsLoop(f) /\ Fresh(f) = {}
  BY <1>3 DEF IsLoop, Fresh
<1>6. \A j \in DOMAIN prog.body : ~(j < 1)
  <2>1. prog.body \in Seq(Within(prog.body))
    BY <1>1, ProgramsAssumption DEF Encloses
  <2>2. PICK W : prog.body \in Seq(W)
    BY <2>1
  <2> QED
    BY <2>2
<1>7. Nested(frames, DOMAIN build.locals, prog)
  BY <1>1, <1>3, <1>4, <1>5, <1>6 DEF Nested, HoistedFrames, FlatFrames
<1>8. Builder(Empty) /\ Empty.cells = 1 /\ Empty.at = 1
  BY EmptyBuilder DEF Empty
<1>9. Tidy(Empty, frames)
  <2>1. PICK blocks : blocks = << <<>> >>
    OBVIOUS
  <2>2. Empty.blocks = blocks /\ DOMAIN blocks = {1} /\ blocks[1] = <<>>
    BY <2>1 DEF Empty
  <2>3. ~Allocates(blocks[1])
    BY <2>2, NothingInEmpty
  <2> QED
    BY <1>3, <1>4, <1>5, <1>8, <2>2, <2>3 DEF Tidy
<1>10. PICK t, m : /\ Extends(Empty, t, m) /\ t # <<>> /\ JumpsOf(t) = {}
                   /\ build.blocks = m.blocks /\ build.at = m.at
  <2>1. 1 \in 0 .. Empty.cells
    BY <1>8
  <2>2. Value(Slot(1)) \in Exprs(Empty)
    BY <1>8, <2>1, SlotTyped
  <2>3. EntryBuild = BindSlot(Empty, "n", Value(Slot(1)))
    BY DEF EntryBuild, Empty
  <2> QED
    BY <1>1, <1>8, <2>2, <2>3, BindGrows
<1>11. ASSUME TerminatorsLast(build.blocks) PROVE Tidy(build, frames)
  <2>1. TerminatorsLast(m.blocks) /\ \A i \in DOMAIN frames : ~IsLoop(frames[i])
    BY <1>4, <1>5, <1>10, <1>11
  <2>2. Tidy(m, frames)
    BY <1>8, <1>9, <1>10, <2>1, TidyFilled
  <2> QED
    BY <1>10, <2>2, TidySame
<1>12. phase = "infer"
  BY DEF CompilerInit, MachineInit
<1> QED
  BY <1>7, <1>11, <1>12 DEF SInv, EInv

\* A step of the emitters that hands nothing over.
LEMMA TidyEmitting ==
  ASSUME CInv, EInv, Regular(prog),
         \/ AssignStmt \/ AugAssignStmt \/ IfStmt \/ WhileStmt \/ ForStmt \/ JumpStmt \/ ReturnStmt
         \/ ThenEnd \/ ElseOrWhileEnd \/ ForEnd
  PROVE  EInv'
  BY TidyAssign, TidyAugAssign, TidyIf, TidyWhile, TidyFor, TidyJump, TidyReturn,
     TidyThenEnd, TidyElseOrWhileEnd, TidyForEnd

LEMMA FallOffGrows ==
  ASSUME NEW g, Builder(g), NEW h, h = EmitFallOff(g)
  PROVE  Grown(g, h, {})
<1>1. ClosedWith(g, Ret(NoValue), h)
  BY FallOffBuilds
<1>2. PICK t : t = <<Ret(NoValue)>>
  OBVIOUS
<1>3. JumpsOf(t) \subseteq {} /\ ~Allocates(t)
  BY <1>2, OneRet
<1>4. h = g \/ Extends(g, t, h)
  BY <1>1, <1>2 DEF ClosedWith
<1> QED
  BY <1>3, <1>4, GrownBy, GrownNot

LEMMA HandsOverOnce ==
  ASSUME CInv, EInv, FunctionEnd \/ DictReturned
  PROVE  TerminatorsLast(code'.blocks) => AllOnce(code'.blocks)
<1>1. PICK h : Grown(build, h, {}) /\ HandsOver(h)
  <2>1. CASE FunctionEnd
    <3>1. AtEnd("body") /\ HandsOver(EmitFallOff(build))
      BY <2>1 DEF FunctionEnd
    <3>2. Builder(build)
      BY <3>1, EndTyped
    <3> QED
      BY <3>1, <3>2, FallOffGrows
  <2>2. CASE DictReturned
    <3>1. AtStmt("return") /\ HandsOver(Build(build, <<Ret(Emitted(build, Here.args[1]))>>))
      BY <2>2 DEF DictReturned
    <3>2. Builder(build) /\ Emittable(build, Here) /\ Here.kind = "return"
      BY <3>1, HereTyped
    <3>3. PICK e \in Exprs(build) : e = Emitted(build, Here.args[1])
      BY <3>2, FirstArg
    <3> QED
      BY <3>1, <3>2, <3>3, ReturnGrows
  <2> QED
    BY <2>1, <2>2
<1>2. TerminatorsLast(h.blocks) => AllOnce(h.blocks)
  BY <1>1, HandedOverOnce
<1>3. code'.blocks = h.blocks
  BY <1>1 DEF HandsOver
<1> QED
  BY <1>2, <1>3

LEMMA TidyNext ==
  ASSUME CInv, MInv, SInv, [CompilerNext]_<<emitter, machine>>
  PROVE  SInv'
<1> SUFFICES ASSUME Regular(prog)' PROVE
      /\ phase' \in {"infer", "codegen"} => EInv'
      /\ phase' \in {"verify", "ready", "running"} /\ TerminatorsLast(code'.blocks) => AllOnce(code'.blocks)
      /\ phase' = "running" => SlotsBehind'
  BY DEF SInv
<1>1. prog' = prog
  BY DEF CompilerNext, EmitStep, Infer, AssignStmt, AugAssignStmt, IfStmt, WhileStmt, ForStmt, JumpStmt,
         ReturnStmt, ThenEnd, ElseOrWhileEnd, ForEnd, FunctionEnd, DictReturned, Fail, Builds, HandsOver, emitter
<1>2. Regular(prog)
  BY <1>1
<1>3. /\ phase \in {"infer", "codegen"} => EInv
      /\ phase \in {"verify", "ready", "running"} /\ TerminatorsLast(code.blocks) => AllOnce(code.blocks)
      /\ phase = "running" => SlotsBehind
  BY <1>2 DEF SInv
<1>4. CASE Infer
  <2>1. EInv /\ phase' \notin {"verify", "ready", "running"}
    BY <1>3, <1>4 DEF Infer
  <2>2. UNCHANGED <<build, frames, prog>>
    BY <1>4 DEF Infer, emitter
  <2>3. EInv'
    BY <2>1, <2>2 DEF EInv
  <2> QED
    BY <2>1, <2>3
<1>5. CASE \/ AssignStmt \/ AugAssignStmt \/ IfStmt \/ WhileStmt \/ ForStmt \/ JumpStmt \/ ReturnStmt
           \/ ThenEnd \/ ElseOrWhileEnd \/ ForEnd
  <2>1. phase = "codegen" /\ phase' = "codegen"
    BY <1>5 DEF AssignStmt, AugAssignStmt, IfStmt, WhileStmt, ForStmt, JumpStmt, ReturnStmt,
                ThenEnd, ElseOrWhileEnd, ForEnd, AtStmt, AtEnd, Builds, machine
  <2>2. EInv'
    BY <1>2, <1>3, <1>5, <2>1, TidyEmitting
  <2> QED
    BY <2>1, <2>2
<1>6. CASE FunctionEnd \/ DictReturned
  <2>1. phase = "codegen" /\ phase' = "verify"
    BY <1>6 DEF FunctionEnd, DictReturned, AtStmt, AtEnd, HandsOver
  <2>2. TerminatorsLast(code'.blocks) => AllOnce(code'.blocks)
    BY <1>3, <1>6, <2>1, HandsOverOnce
  <2> QED
    BY <2>1, <2>2
<1>7. CASE Fail
  BY <1>7 DEF Fail
<1>8. CASE Verify
  <2>1. phase = "verify" /\ code' = code /\ phase' \in {"ready", "verify_failed"}
    BY <1>8 DEF Verify
  <2> QED
    BY <1>3, <2>1
<1>9. ASSUME NEW n \in Inputs, Enter(n)
      PROVE  /\ phase' \in {"infer", "codegen"} => EInv'
             /\ phase' \in {"verify", "ready", "running"} /\ TerminatorsLast(code'.blocks) => AllOnce(code'.blocks)
             /\ phase' = "running" => SlotsBehind'
  <2>1. phase = "ready" /\ phase' = "running" /\ code' = code /\ slots' = slots
    BY <1>9 DEF Enter
  <2>2. slots = {}
    BY <2>1 DEF MInv
  <2>3. SlotsBehind'
    BY <2>1, <2>2 DEF SlotsBehind
  <2> QED
    BY <1>3, <2>1, <2>3
<1>10. CASE Exec
  <2>1. phase = "running" /\ code' = code /\ phase' \in {"running", "returned", "trapped"}
    BY <1>10 DEF Exec, ExecAlloca, ExecWrite, ExecBranch, ExecReturn, ExecTrap
  <2>2. TerminatorsLast(code.blocks)
    BY <2>1, VerifiedEndsLast DEF MInv
  <2>3. AllOnce(code.blocks) /\ SlotsBehind
    BY <1>3, <2>1, <2>2
  <2>4. SlotsBehind'
    BY <1>10, <2>1, <2>3, CallKeepsSlots
  <2> QED
    BY <2>1, <2>3, <2>4
<1>11. CASE UNCHANGED <<emitter, machine>>
  <2>1. UNCHANGED <<build, frames, prog, phase, code, slots, pc>>
    BY <1>11 DEF emitter, machine
  <2> QED
    BY <1>3, <2>1 DEF EInv, SlotsBehind, Beyond
<1> QED
  BY <1>4, <1>5, <1>6, <1>7, <1>8, <1>9, <1>10, <1>11 DEF CompilerNext, EmitStep

LEMMA SlotsOnce ==
  ASSUME MInv, SInv
  PROVE  StackBounded
<1> SUFFICES ASSUME phase = "running", Current.op = "alloca", Current.cell \in slots,
                    Hoisted(prog.body), LoopsFlat(prog.body)
             PROVE  FALSE
  BY DEF StackBounded
<1>1. SlotsBehind
  BY DEF SInv, Regular
<1> QED
  BY <1>1, NoneTwice

\* In a call of a function whose nested assignments are hoisted and which has no for in
\* a loop, no stack slot is allocated twice.
THEOREM CompiledStackIsBounded == CompilerSpec => []StackBounded
<1>1. CompilerSpec => []MInv
  <2>1. CompilerSpec => MachineSpec
    BY EmittersBuildForTheMachine DEF BuildsForTheMachine
  <2> QED
    BY <2>1, MachineInvariant, PTL
<1>2. CompilerInit => CInv /\ SInv
  BY CompilerStarts, TidyStart
<1>3. CInv /\ MInv /\ SInv /\ [CompilerNext]_<<emitter, machine>> => CInv' /\ SInv'
  BY CompilerStep, TidyNext
<1>4. MInv /\ SInv => StackBounded
  BY SlotsOnce
<1> QED
  BY <1>1, <1>2, <1>3, <1>4, PTL DEF CompilerSpec

-----------------------------------------------------------------------------
(* The pipeline                                                            *)

\* The pipeline is the compiler, with an inference of its own, and with Python
\* beside it.
LEMMA PipelineSteps ==
  ASSUME [Next]_vars
  PROVE  [CompilerNext]_<<emitter, machine>>
<1>1. CASE InferNames \/ EmitStep
  BY <1>1 DEF InferNames, CompilerNext
<1>2. CASE (Verify \/ Exec) /\ UNCHANGED <<emitter, expected>>
  BY <1>2 DEF CompilerNext
<1>3. CASE (\E n \in Inputs : Call(n)) /\ UNCHANGED emitter
  BY <1>3 DEF Call, CompilerNext
<1>4. CASE UNCHANGED vars
  BY <1>4 DEF vars
<1> QED
  BY <1>1, <1>2, <1>3, <1>4 DEF Next

LEMMA PipelineCompiles == Spec => CompilerSpec
<1>1. Init => CompilerInit
  BY DEF Init
<1>2. [Next]_vars => [CompilerNext]_<<emitter, machine>>
  BY PipelineSteps
<1> QED
  BY <1>1, <1>2, PTL DEF Spec, CompilerSpec

\* The blocks of every compiled function are well formed when the verifier gets them:
\* what the theorems on the machine need to know of the emitters.
THEOREM CodegenBuildsForTheMachine == Spec => BuildsForTheMachine
  BY PipelineCompiles, EmittersBuildForTheMachine, PTL

\* A call of a compiled function over ints, in which a comparison is only ever tested
\* (so that every slot is as wide as what is stored in it), reads only cells that were
\* written and stores only to slots that were allocated.
THEOREM CodegenIsMemorySafe == Spec => []MemorySafe
  BY PipelineCompiles, CompiledCodeIsMemorySafe, PTL

\* Its values fit the native int.
THEOREM CodegenValuesFit == Spec => []MachineTypeOK
  BY PipelineCompiles, CompiledValuesFit, PTL

\* It allocates no slot twice unless the function assigns first in a branch or loop,
\* or has a for in a loop.
THEOREM CodegenStackIsBounded == Spec => []StackBounded
  BY PipelineCompiles, CompiledStackIsBounded, PTL

-----------------------------------------------------------------------------
(* Definitions that come before their uses                                 *)

\* A[b] are blocks that every path from the entry to b passes.
Dominate(A, blocks) ==
  /\ A[1] = {1}
  /\ \A b \in DOMAIN blocks : b \in A[b]
  /\ \A b \in DOMAIN blocks : \A y \in JumpsOf(blocks[b]) : A[y] \subseteq {y} \cup A[b]

\* Every use comes after a definition, in its block or one of those before it.
UsesCovered(A, blocks) ==
  \A b \in DOMAIN blocks : \A k \in DOMAIN blocks[b] : \A c \in CellsUsed(blocks[b][k]) :
    \E d \in Definitions(blocks, c) : (d[1] = b /\ d[2] < k) \/ (d[1] # b /\ d[1] \in A[b])

Sound(A, blocks) == Dominate(A, blocks) /\ UsesCovered(A, blocks) /\ TerminatorsLast(blocks)

\* A path around block a only passes blocks that a does not come before.
LEMMA AroundAvoids ==
  ASSUME NEW T, NEW blocks \in Seq(Seq(T)), JumpsWithin(blocks), 1 \in DOMAIN blocks,
         NEW A, Dominate(A, blocks), \A b \in DOMAIN blocks : WellClosed(blocks[b]),
         NEW a, NEW b \in Around(blocks, a)
  PROVE  a \notin A[b]
<1> DEFINE Q == {x \in DOMAIN blocks : a \notin A[x]}
<1>1. {1} \ {a} \subseteq Q
  BY DEF Dominate
<1>2. ASSUME NEW x \in Q, NEW y \in Successors(blocks, x) \ {a} PROVE y \in Q
  <2>1. x \in DOMAIN blocks /\ a \notin A[x] /\ y \in DOMAIN blocks
    BY <1>2 DEF JumpsWithin
  <2>2. PICK k \in DOMAIN blocks[x] : k = Len(blocks[x]) /\ blocks[x][k].op \in Terminators
    <3>1. blocks[x] \in Seq(T) /\ blocks[x] # <<>>
      BY <2>1 DEF WellClosed
    <3>2. Len(blocks[x]) \in DOMAIN blocks[x]
      BY <3>1
    <3> QED
      BY <2>1, <3>2 DEF WellClosed
  <2>3. y \in JumpsOf(blocks[x])
    BY <2>2, <1>2, InJumps DEF Successors
  <2> QED
    BY <1>2, <2>1, <2>3 DEF Dominate
<1>3. Reachable(blocks, {1} \ {a}, {a}) \subseteq Q
  <2> HIDE DEF Q
  <2>1. {1} \ {a} \in SUBSET DOMAIN blocks
    OBVIOUS
  <2>2. \A x \in Q : Successors(blocks, x) \ {a} \subseteq Q
    BY <1>2
  <2> QED
    BY <1>1, <2>1, <2>2, ReachableLeast
<1> QED
  BY <1>3 DEF Around

\* So the verifier lets such blocks through.
LEMMA SoundVerifies ==
  ASSUME NEW made, WellFormed(made), NEW A, Sound(A, made.blocks),
         \A b \in DOMAIN made.blocks : WellClosed(made.blocks[b])
  PROVE  Verifies(made.blocks)
<1>1. PICK T : made.blocks \in Seq(Seq(T)) /\ made.blocks # <<>>
  BY DEF WellFormed
<1>2. 1 \in DOMAIN made.blocks /\ {1} \in SUBSET DOMAIN made.blocks
  BY <1>1
<1>3. JumpsWithin(made.blocks)
  BY ClosedJumpWithin
<1>4. Reachable(made.blocks, {1}, {}) \subseteq DOMAIN made.blocks
  BY <1>1, <1>2, <1>3, ReachableClosed
<1>5. ASSUME NEW b \in Reachable(made.blocks, {1}, {}), NEW k \in DOMAIN made.blocks[b],
             NEW c \in CellsUsed(made.blocks[b][k])
      PROVE  \E d \in Definitions(made.blocks, c) :
               (d[1] = b /\ d[2] < k) \/ (d[1] # b /\ b \notin Around(made.blocks, d[1]))
  <2>1. PICK d \in Definitions(made.blocks, c) : (d[1] = b /\ d[2] < k) \/ (d[1] # b /\ d[1] \in A[b])
    BY <1>4, <1>5 DEF Sound, UsesCovered
  <2>2. d[1] \in A[b] => b \notin Around(made.blocks, d[1])
    BY <1>1, <1>2, <1>3, AroundAvoids DEF Sound
  <2> QED
    BY <2>1, <2>2
<1> QED
  BY <1>5 DEF Verifies, UsesDominated
\* Cell c is defined in a block of K.
DefinedIn(blocks, c, K) == \E d \in Definitions(blocks, c) : d[1] \in K

LEMMA DefinedMore ==
  ASSUME NEW blocks, NEW c, NEW K, DefinedIn(blocks, c, K), NEW L, K \subseteq L
  PROVE  DefinedIn(blocks, c, L)
  BY DEF DefinedIn

\* What is defined in g is defined in h.
Keeps(g, h) == \A c, K : DefinedIn(g.blocks, c, K) => DefinedIn(h.blocks, c, K)

LEMMA KeepsStill ==
  ASSUME NEW g, NEW h, NEW k, Keeps(g, h), Keeps(h, k)
  PROVE  Keeps(g, k)
  BY DEF Keeps

LEMMA KeepsSame ==
  ASSUME NEW g, NEW h, h.blocks = g.blocks
  PROVE  Keeps(g, h)
  BY DEF Keeps

\* Definitions stay where they are.
LEMMA DefinitionKept ==
  ASSUME NEW g, NEW s, NEW h, WellFormed(g), Appended(g, s, h), NEW c, NEW d \in Definitions(g.blocks, c)
  PROVE  /\ d \in Definitions(h.blocks, c) /\ d = <<d[1], d[2]>>
         /\ d[1] \in DOMAIN g.blocks /\ d[2] \in DOMAIN g.blocks[d[1]]
<1>1. /\ d = <<d[1], d[2]>> /\ d[1] \in DOMAIN g.blocks /\ d[2] \in DOMAIN g.blocks[d[1]]
      /\ g.blocks[d[1]][d[2]].op \in {"alloca", "let"} /\ g.blocks[d[1]][d[2]].cell = c
  BY InDefinitions
<1>2. /\ d[1] \in DOMAIN h.blocks /\ d[2] \in DOMAIN h.blocks[d[1]]
      /\ h.blocks[d[1]][d[2]] = g.blocks[d[1]][d[2]]
  BY <1>1, AppendedAt
<1>3. <<d[1], d[2]>> \in Definitions(h.blocks, c)
  BY <1>1, <1>2, InDefinitions
<1> QED
  BY <1>1, <1>3

\* The results of s are defined in its block.
LEMMA DefinedAppended ==
  ASSUME NEW g, NEW s, NEW h, WellFormed(g), Appended(g, s, h)
  PROVE  /\ Keeps(g, h)
         /\ \A j \in DOMAIN s : Defines(s[j]) =>
              <<g.at, Len(g.blocks[g.at]) + j>> \in Definitions(h.blocks, s[j].cell)
         /\ \A j \in DOMAIN s : Defines(s[j]) => DefinedIn(h.blocks, s[j].cell, {g.at})
<1>1. Keeps(g, h)
  BY DefinitionKept DEF Keeps, DefinedIn
<1>2. ASSUME NEW j \in DOMAIN s, Defines(s[j])
      PROVE  <<g.at, Len(g.blocks[g.at]) + j>> \in Definitions(h.blocks, s[j].cell)
  <2>1. PICK k : k = Len(g.blocks[g.at]) + j
    OBVIOUS
  <2>2. g.at \in DOMAIN h.blocks /\ k \in DOMAIN h.blocks[g.at] /\ h.blocks[g.at][k] = s[j]
    BY <2>1, AppendedAt DEF Appended
  <2>3. <<g.at, k>> \in Definitions(h.blocks, s[j].cell)
    BY <1>2, <2>2, InDefinitions DEF Defines
  <2> QED
    BY <2>1, <2>3
<1>3. ASSUME NEW j \in DOMAIN s, Defines(s[j]) PROVE DefinedIn(h.blocks, s[j].cell, {g.at})
  BY <1>2, <1>3 DEF DefinedIn
<1> QED
  BY <1>1, <1>2, <1>3

\* The cells s uses are defined before it, or earlier in it.
Served(A, g, s) ==
  \A k \in DOMAIN s : \A c \in CellsUsed(s[k]) :
    \/ DefinedIn(g.blocks, c, A[g.at])
    \/ \E j \in DOMAIN s : j < k /\ Defines(s[j]) /\ s[j].cell = c

LEMMA ServedAppended ==
  ASSUME NEW A, NEW g, NEW s, NEW h, WellFormed(g), Appended(g, s, h),
         UsesCovered(A, g.blocks), Served(A, g, s)
  PROVE  UsesCovered(A, h.blocks)
<1> SUFFICES ASSUME NEW b \in DOMAIN h.blocks, NEW k \in DOMAIN h.blocks[b], NEW c \in CellsUsed(h.blocks[b][k])
             PROVE  \E d \in Definitions(h.blocks, c) :
                      (d[1] = b /\ d[2] < k) \/ (d[1] # b /\ d[1] \in A[b])
  BY DEF UsesCovered
<1>1. b \in DOMAIN g.blocks
  BY AppendedAt
<1>2. PICK n \in Nat : n = Len(g.blocks[g.at])
  BY AppendedAt
<1>3. CASE k \in DOMAIN g.blocks[b]
  <2>1. c \in CellsUsed(g.blocks[b][k])
    BY <1>1, <1>3, AppendedAt
  <2>2. PICK d \in Definitions(g.blocks, c) : (d[1] = b /\ d[2] < k) \/ (d[1] # b /\ d[1] \in A[b])
    BY <1>1, <1>3, <2>1 DEF UsesCovered
  <2> QED
    BY <2>2, DefinitionKept
<1>4. CASE b = g.at /\ \E j \in DOMAIN s : k = n + j
  <2>1. PICK j \in DOMAIN s : k = n + j
    BY <1>4
  <2>2. h.blocks[b][k] = s[j]
    BY <1>2, <1>4, <2>1, AppendedAt
  <2>3. \A i \in DOMAIN s : i \in Nat /\ i >= 1
    <3>1. PICK T : s \in Seq(T)
      BY DEF Appended
    <3> QED
      BY <3>1
  <2>4. CASE DefinedIn(g.blocks, c, A[g.at])
    <3>1. PICK d \in Definitions(g.blocks, c) : d[1] \in A[g.at]
      BY <2>4 DEF DefinedIn
    <3>2. d[1] = b => d[2] \in DOMAIN g.blocks[g.at]
      BY <1>4, DefinitionKept
    <3>3. DOMAIN g.blocks[g.at] = 1 .. n
      <4>1. PICK T : g.blocks \in Seq(Seq(T))
        BY DEF WellFormed
      <4>2. g.blocks[g.at] \in Seq(T)
        BY <4>1 DEF Appended
      <4> QED
        BY <1>2, <4>2
    <3>4. d[1] = b => d[2] < k
      BY <2>1, <2>3, <3>2, <3>3
    <3> QED
      BY <1>4, <3>1, <3>4, DefinitionKept
  <2>5. CASE \E i \in DOMAIN s : i < j /\ Defines(s[i]) /\ s[i].cell = c
    <3>1. PICK i \in DOMAIN s : i < j /\ Defines(s[i]) /\ s[i].cell = c
      BY <2>5
    <3>2. PICK m : m = n + i
      OBVIOUS
    <3>3. <<b, m>> \in Definitions(h.blocks, c)
      BY <1>2, <1>4, <3>1, <3>2, DefinedAppended
    <3>4. m < k
      BY <2>1, <2>3, <3>1, <3>2
    <3> QED
      BY <3>3, <3>4
  <2> QED
    BY <2>2, <2>4, <2>5 DEF Served
<1> QED
  BY <1>2, <1>3, <1>4, AppendedAt

\* A jump is the last of the instructions s.
JumpLast(s) == \A k \in DOMAIN s : s[k].op \in Terminators => k = Len(s)

LEMMA JumpLastAppended ==
  ASSUME NEW g, NEW s, NEW h, WellFormed(g), Appended(g, s, h), ~Terminated(g),
         TerminatorsLast(g.blocks), JumpLast(s)
  PROVE  TerminatorsLast(h.blocks)
<1> SUFFICES ASSUME NEW b \in DOMAIN h.blocks, NEW k \in DOMAIN h.blocks[b],
                    h.blocks[b][k].op \in Terminators
             PROVE  k = Len(h.blocks[b])
  BY DEF TerminatorsLast
<1>1. b \in DOMAIN g.blocks /\ g.at \in DOMAIN g.blocks
  BY AppendedAt DEF Appended
<1>2. CASE b # g.at
  <2>1. h.blocks[b] = g.blocks[b]
    BY <1>1, <1>2, AppendedJumps
  <2> QED
    BY <1>1, <2>1 DEF TerminatorsLast
<1>3. CASE b = g.at
  <2>1. PICK T : g.blocks[g.at] \in Seq(T) /\ s \in Seq(T)
    <3>1. g.blocks \in Seq(Seq(Instrs(g))) /\ s \in Seq(Instrs(h))
      BY DEF WellFormed, Appended
    <3>2. g.blocks[g.at] \in Seq(Instrs(g) \cup Instrs(h)) /\ s \in Seq(Instrs(g) \cup Instrs(h))
      BY <1>1, <3>1, SeqGrows
    <3> QED
      BY <3>2
  <2>2. h.blocks[b] = g.blocks[g.at] \o s
    BY <1>1, <1>3 DEF Appended, Lengthened
  <2>3. PICK n \in Nat : n = Len(g.blocks[g.at]) /\ DOMAIN g.blocks[g.at] = 1 .. n
    BY <2>1
  <2>4. Len(h.blocks[b]) = n + Len(s)
    BY <2>1, <2>2, <2>3, Appending
  <2>5. CASE k \in DOMAIN g.blocks[b]
    <3>1. g.blocks[g.at][k].op \in Terminators
      BY <1>1, <1>3, <2>5, AppendedAt
    <3>2. k = n
      BY <1>1, <1>3, <2>3, <2>5, <3>1 DEF TerminatorsLast
    <3>3. g.blocks[g.at] # <<>>
      BY <1>3, <2>5
    <3> QED
      BY <2>3, <3>1, <3>2, <3>3 DEF Terminated
  <2>6. CASE \E j \in DOMAIN s : k = n + j
    <3>1. PICK j \in DOMAIN s : k = n + j
      BY <2>6
    <3>2. h.blocks[b][k] = s[j]
      BY <1>3, <2>3, <3>1, AppendedAt
    <3>3. j = Len(s)
      BY <3>2 DEF JumpLast
    <3> QED
      BY <2>4, <3>1, <3>3
  <2> QED
    BY <1>3, <2>3, <2>5, <2>6, AppendedAt, SMTT(30)
<1> QED
  BY <1>2, <1>3

\* Instructions at the end of an open block, which only jump where A lets them.
LEMMA SoundAppended ==
  ASSUME NEW A, NEW g, NEW s, NEW h, WellFormed(g), Appended(g, s, h), ~Terminated(g), Sound(A, g.blocks),
         JumpLast(s), Served(A, g, s), \A y \in JumpsOf(s) : A[y] \subseteq {y} \cup A[g.at]
  PROVE  Sound(A, h.blocks)
<1>1. Dominate(A, h.blocks)
  <2>1. DOMAIN h.blocks = DOMAIN g.blocks /\ A[1] = {1} /\ \A b \in DOMAIN g.blocks : b \in A[b]
    BY AppendedJumps DEF Sound, Dominate
  <2>2. ASSUME NEW b \in DOMAIN g.blocks, NEW y \in JumpsOf(h.blocks[b]) PROVE A[y] \subseteq {y} \cup A[b]
    <3>1. CASE b = g.at
      BY <2>2, <3>1, AppendedJumps DEF Sound, Dominate
    <3>2. CASE b # g.at
      <4>1. h.blocks[b] = g.blocks[b]
        BY <3>2, AppendedJumps
      <4> QED
        BY <2>2, <4>1 DEF Sound, Dominate
    <3> QED
      BY <3>1, <3>2
  <2> QED
    BY <2>1, <2>2 DEF Dominate
<1>2. UsesCovered(A, h.blocks)
  BY ServedAppended DEF Sound
<1>3. TerminatorsLast(h.blocks)
  BY JumpLastAppended DEF Sound
<1> QED
  BY <1>1, <1>2, <1>3 DEF Sound

\* h is g with more in its block.
Worked(A, g, h) ==
  /\ Sound(A, h.blocks) /\ Keeps(g, h)
  /\ h.at = g.at /\ g.at \in DOMAIN g.blocks /\ DOMAIN h.blocks = DOMAIN g.blocks
  /\ \A b \in DOMAIN g.blocks : b # g.at => h.blocks[b] = g.blocks[b]

LEMMA ExtendsWorks ==
  ASSUME NEW A, NEW g, Builder(g), NEW s, NEW h, Extends(g, s, h), ~Terminated(g), Sound(A, g.blocks),
         JumpLast(s), Served(A, g, s), \A y \in JumpsOf(s) : A[y] \subseteq {y} \cup A[g.at]
  PROVE  Worked(A, g, h)
<1>1. WellFormed(g) /\ Appended(g, s, h) /\ h.at = g.at
  BY DEF Builder, Extends
<1>2. Sound(A, h.blocks)
  BY <1>1, SoundAppended
<1>3. Keeps(g, h)
  BY <1>1, DefinedAppended
<1>4. /\ DOMAIN h.blocks = DOMAIN g.blocks /\ g.at \in DOMAIN g.blocks
      /\ \A b \in DOMAIN g.blocks : b # g.at => h.blocks[b] = g.blocks[b]
  BY <1>1, AppendedJumps
<1> QED
  BY <1>1, <1>2, <1>3, <1>4 DEF Worked

Ended(block) == block # <<>> /\ block[Len(block)].op \in Terminators

\* The last instruction is that of s.
LEMMA LastAppended ==
  ASSUME NEW g, Builder(g), NEW s, s # <<>>, NEW h, Extends(g, s, h)
  PROVE  /\ Ended(h.blocks[g.at]) <=> s[Len(s)].op \in Terminators
         /\ Terminated(h) <=> s[Len(s)].op \in Terminators
<1>1. WellFormed(g) /\ Appended(g, s, h) /\ h.at = g.at /\ g.at \in DOMAIN g.blocks
  BY DEF Builder, Extends
<1>2. PICK T : g.blocks[g.at] \in Seq(T) /\ s \in Seq(T)
  <2>1. g.blocks \in Seq(Seq(Instrs(g))) /\ s \in Seq(Instrs(h))
    BY <1>1 DEF WellFormed, Appended
  <2>2. g.blocks[g.at] \in Seq(Instrs(g) \cup Instrs(h)) /\ s \in Seq(Instrs(g) \cup Instrs(h))
    BY <1>1, <2>1, SeqGrows
  <2> QED
    BY <2>2
<1>3. h.blocks[g.at] = g.blocks[g.at] \o s
  BY <1>1 DEF Appended, Lengthened
<1>4. PICK n \in Nat : n = Len(g.blocks[g.at])
  BY <1>2
<1>5. PICK m \in Nat : m = Len(s) /\ m \in DOMAIN s
  BY <1>2
<1>6. Len(h.blocks[g.at]) = n + m
  BY <1>2, <1>3, <1>4, <1>5, Appending
<1>7. h.blocks[g.at][n + m] = s[m]
  <2>1. \A j \in DOMAIN s : h.blocks[g.at][Len(g.blocks[g.at]) + j] = s[j]
    BY <1>1, AppendedAt
  <2> QED
    BY <1>4, <1>5, <2>1
<1>8. h.blocks[g.at] # <<>>
  BY <1>2, <1>3, <1>5
<1> QED
  BY <1>1, <1>5, <1>6, <1>7, <1>8 DEF Ended, Terminated

-----------------------------------------------------------------------------
(* What instructions use                                                   *)

\* The cells that e reads are defined in blocks of K.
Reads(g, e, K) == \A c \in {e.l.cell, e.r.cell} \ {0, 1} : DefinedIn(g.blocks, c, K)

\* The names of s have slots that were made in blocks before the one at work.
Readable(A, g, s) == \A x \in ArgNames(s) : DefinedIn(g.blocks, g.locals[x], A[g.at])

LEMMA ResolvedCell ==
  ASSUME NEW g, NEW a
  PROVE  Resolve(g, a).cell = 0 \/ (a.id # "" /\ Resolve(g, a).cell = g.locals[a.id])
  BY DEF Resolve, Operand, Slot, GetLocal

LEMMA EmittedReads ==
  ASSUME NEW A, NEW g, NEW s, NEW i \in DOMAIN s.args, Readable(A, g, s)
  PROVE  Reads(g, Emitted(g, s.args[i]), A[g.at])
<1>1. PICK e : e = s.args[i]
  OBVIOUS
<1>2. Emitted(g, e).l = Resolve(g, e.l) /\ Emitted(g, e).r = Resolve(g, e.r)
  BY DEF Emitted, Expr
<1>3. ASSUME NEW a, a \in {e.l, e.r}, Resolve(g, a).cell \notin {0, 1}
      PROVE  DefinedIn(g.blocks, Resolve(g, a).cell, A[g.at])
  <2>1. a.id # "" /\ Resolve(g, a).cell = g.locals[a.id]
    BY <1>3, ResolvedCell
  <2>2. a.id \in Names(e)
    BY <1>3, <2>1 DEF Names
  <2>3. a.id \in ArgNames(s)
    BY <1>1, <2>2 DEF ArgNames
  <2> QED
    BY <2>1, <2>3 DEF Readable
<1> QED
  BY <1>1, <1>2, <1>3 DEF Reads

LEMMA InstrUses ==
  /\ \A c : Alloca(c).op = "alloca" /\ Alloca(c).cell = c /\ CellsUsed(Alloca(c)) = {}
  /\ \A c, e : /\ Let(c, e).op = "let" /\ Let(c, e).cell = c
               /\ CellsUsed(Let(c, e)) = {e.l.cell, e.r.cell} \ {0, 1}
  /\ \A c, e : /\ Store(c, e).op = "store" /\ Store(c, e).cell = c
               /\ CellsUsed(Store(c, e)) = {e.l.cell, e.r.cell, c} \ {0, 1}
  /\ \A b : Br(b).op = "br" /\ Br(b).to = <<b>> /\ CellsUsed(Br(b)) = {}
  /\ \A e, b, c : /\ CondBr(e, b, c).op = "cbr" /\ CondBr(e, b, c).to = <<b, c>>
                  /\ CellsUsed(CondBr(e, b, c)) = {e.l.cell, e.r.cell} \ {0, 1}
  /\ \A e : /\ Ret(e).op = "ret" /\ Ret(e).to = <<>>
            /\ CellsUsed(Ret(e)) = {e.l.cell, e.r.cell} \ {0, 1}
  /\ CellsUsed(Ret(NoValue)) = {}
<1>1. NoValue.l.cell = 0 /\ NoValue.r.cell = 0
  BY DEF NoValue, Value, Operand, Expr
<1>2. ASSUME NEW c PROVE Alloca(c).op = "alloca" /\ Alloca(c).cell = c /\ CellsUsed(Alloca(c)) = {}
  BY <1>1 DEF Alloca, Instr, CellsUsed
<1>3. ASSUME NEW c, NEW e
      PROVE  /\ Let(c, e).op = "let" /\ Let(c, e).cell = c
             /\ CellsUsed(Let(c, e)) = {e.l.cell, e.r.cell} \ {0, 1}
  BY DEF Let, Instr, CellsUsed
<1>4. ASSUME NEW c, NEW e
      PROVE  /\ Store(c, e).op = "store" /\ Store(c, e).cell = c
             /\ CellsUsed(Store(c, e)) = {e.l.cell, e.r.cell, c} \ {0, 1}
  BY DEF Store, Instr, CellsUsed
<1>5. ASSUME NEW b PROVE Br(b).op = "br" /\ Br(b).to = <<b>> /\ CellsUsed(Br(b)) = {}
  BY <1>1 DEF Br, Instr, CellsUsed
<1>6. ASSUME NEW e, NEW b, NEW c
      PROVE  /\ CondBr(e, b, c).op = "cbr" /\ CondBr(e, b, c).to = <<b, c>>
             /\ CellsUsed(CondBr(e, b, c)) = {e.l.cell, e.r.cell} \ {0, 1}
  BY DEF CondBr, Instr, CellsUsed
<1>7. ASSUME NEW e
      PROVE  Ret(e).op = "ret" /\ Ret(e).to = <<>> /\ CellsUsed(Ret(e)) = {e.l.cell, e.r.cell} \ {0, 1}
  BY DEF Ret, Instr, CellsUsed
<1>8. CellsUsed(Ret(NoValue)) = {}
  BY <1>1, <1>7
<1> QED
  BY <1>2, <1>3, <1>4, <1>5, <1>6, <1>7, <1>8

\* One instruction.
LEMMA OneWorks ==
  ASSUME NEW A, NEW g, Builder(g), NEW i, NEW h, Extends(g, <<i>>, h), ~Terminated(g), Sound(A, g.blocks),
         \A c \in CellsUsed(i) : DefinedIn(g.blocks, c, A[g.at]),
         i.op \in Terminators => \A k \in DOMAIN i.to : A[i.to[k]] \subseteq {i.to[k]} \cup A[g.at]
  PROVE  /\ Worked(A, g, h)
         /\ Ended(h.blocks[g.at]) <=> i.op \in Terminators
         /\ Terminated(h) <=> i.op \in Terminators
<1>1. PICK s : s = <<i>>
  OBVIOUS
<1>2. s # <<>> /\ DOMAIN s = {1} /\ s[1] = i /\ Len(s) = 1
  BY <1>1
<1>3. JumpLast(s)
  BY <1>2 DEF JumpLast
<1>4. Served(A, g, s)
  BY <1>2 DEF Served
<1>5. \A y \in JumpsOf(s) : A[y] \subseteq {y} \cup A[g.at]
  BY <1>1, OneInstr
<1>6. Worked(A, g, h)
  BY <1>1, <1>3, <1>4, <1>5, ExtendsWorks
<1> QED
  BY <1>1, <1>2, <1>6, LastAppended

-----------------------------------------------------------------------------
(* Statements without blocks                                               *)

LEMMA WorkedAlike ==
  ASSUME NEW A, NEW g, NEW m, Worked(A, g, m), NEW h, h.blocks = m.blocks, h.at = m.at
  PROVE  Worked(A, g, h) /\ (Terminated(h) <=> Terminated(m))
  BY DEF Worked, Keeps, Terminated

\* h is g with a slot for x, which is defined where g writes.
Binds(A, g, h, x) ==
  /\ Worked(A, g, h) /\ ~Terminated(h)
  /\ DOMAIN h.locals = DOMAIN g.locals \cup {x}
  /\ \A y \in DOMAIN g.locals : y # x => h.locals[y] = g.locals[y]
  /\ DefinedIn(h.blocks, h.locals[x], {g.at})

\* A slot with a value in it.
LEMMA BindWorks ==
  ASSUME NEW A, NEW g, Builder(g), ~Terminated(g), Sound(A, g.blocks), NEW x, NEW e \in Exprs(g),
         Reads(g, e, A[g.at]), NEW h, h = BindSlot(g, x, e)
  PROVE  Binds(A, g, h, x)
<1>1. PICK c : c = g.cells + 1
  OBVIOUS
<1>2. PICK m : /\ Extends(g, <<Alloca(c), Store(c, e)>>, m)
               /\ m.locals = g.locals /\ h = SetLocal(m, x, c)
  BY <1>1, SlotBound
<1>3. PICK s : s = <<Alloca(c), Store(c, e)>>
  OBVIOUS
<1>4. /\ s # <<>> /\ DOMAIN s = {1, 2} /\ Len(s) = 2 /\ s[1] = Alloca(c) /\ s[2] = Store(c, e)
  BY <1>3
<1>5. /\ s[1].op = "alloca" /\ s[1].cell = c /\ s[2].op = "store"
      /\ CellsUsed(s[1]) = {} /\ CellsUsed(s[2]) = {e.l.cell, e.r.cell, c} \ {0, 1}
  BY <1>4, InstrUses
<1>6. s[1].op \notin Terminators /\ s[2].op \notin Terminators
  BY <1>5 DEF Terminators
<1>7. JumpLast(s) /\ JumpsOf(s) = {}
  BY <1>4, <1>6, NoJumps DEF JumpLast
<1>8. Served(A, g, s)
  <2>1. \A u \in CellsUsed(s[2]) : DefinedIn(g.blocks, u, A[g.at]) \/ u = c
    BY <1>5 DEF Reads
  <2>2. Defines(s[1])
    BY <1>5 DEF Defines
  <2>3. 1 < 2 /\ 1 \in DOMAIN s
    BY <1>4
  <2> QED
    BY <1>4, <1>5, <2>1, <2>2, <2>3 DEF Served
<1>9. Extends(g, s, m)
  BY <1>2, <1>3
<1>10. Worked(A, g, m)
  BY <1>7, <1>8, <1>9, ExtendsWorks
<1>11. ~Terminated(m)
  BY <1>4, <1>6, <1>9, LastAppended
<1>12. /\ h.at = m.at /\ h.blocks = m.blocks
       /\ h.locals = [y \in DOMAIN m.locals \cup {x} |-> IF y = x THEN c ELSE m.locals[y]]
  BY <1>2, <1>9, SetLocalFields DEF Extends, Builder
<1>13. DefinedIn(h.blocks, c, {g.at})
  <2>1. WellFormed(g) /\ Appended(g, s, m) /\ 1 \in DOMAIN s /\ Defines(s[1])
    BY <1>4, <1>5, <1>9 DEF Builder, Extends, Defines
  <2>2. DefinedIn(m.blocks, s[1].cell, {g.at})
    BY <2>1, DefinedAppended
  <2> QED
    BY <1>5, <1>12, <2>2
<1>14. h.locals[x] = c
  BY <1>12
<1> QED
  BY <1>2, <1>10, <1>11, <1>12, <1>13, <1>14, WorkedAlike DEF Binds

\* A cell that may be used.
LEMMA StoreUses ==
  ASSUME NEW A, NEW g, NEW c, NEW e, Reads(g, e, A[g.at]), DefinedIn(g.blocks, c, A[g.at])
  PROVE  \A u \in CellsUsed(Store(c, e)) : DefinedIn(g.blocks, u, A[g.at])
  BY InstrUses DEF Reads

LEMMA HasArgument ==
  ASSUME NEW g, NEW s, Emittable(g, s), s.kind \in {"assign", "aug", "if", "while", "return"}
  PROVE  1 \in DOMAIN s.args
<1>1. 1 \in 1 .. Arity(s.kind)
  BY DEF Arity
<1>2. DOMAIN s.args = 1 .. Arity(s.kind)
  BY DEF Emittable, TypedStmt
<1> QED
  BY <1>1, <1>2

LEMMA AssignWorks ==
  ASSUME NEW A, NEW g, Builder(g), ~Terminated(g), Sound(A, g.blocks),
         NEW s, Emittable(g, s), s.kind = "assign", Readable(A, g, s),
         s.target \in DOMAIN g.locals => DefinedIn(g.blocks, g.locals[s.target], A[g.at]),
         NEW h, h = EmitAssign(g, s)
  PROVE  /\ Worked(A, g, h) /\ ~Terminated(h)
         /\ DOMAIN h.locals = DOMAIN g.locals \cup {s.target}
         /\ \A y \in DOMAIN g.locals : h.locals[y] = g.locals[y]
         /\ s.target \notin DOMAIN g.locals => DefinedIn(h.blocks, h.locals[s.target], {g.at})
<1>1. PICK e \in Exprs(g) : e = Emitted(g, s.args[1])
  BY FirstArg
<1>2. 1 \in DOMAIN s.args
  BY HasArgument
<1>3. Reads(g, e, A[g.at])
  BY <1>1, <1>2, EmittedReads
<1>4. CASE s.target \in DOMAIN g.locals
  <2>1. PICK c : c = g.locals[s.target] /\ IsSlot(g, c)
    BY <1>4 DEF Builder
  <2>2. h = Build(g, <<Store(c, e)>>)
    BY <1>1, <1>4, <2>1 DEF EmitAssign, HasLocal, GetLocal
  <2>3. PICK i : i = Store(c, e)
    OBVIOUS
  <2>4. Plain(g, i)
    BY <2>1, <2>3, PlainInstrs
  <2>5. Extends(g, <<i>>, h) /\ h.locals = g.locals
    BY <2>2, <2>3, <2>4, OneMore
  <2>6. i.op = "store"
    BY <2>3, InstrUses
  <2>7. i.op \notin Terminators
    BY <2>6 DEF Terminators
  <2>8. \A u \in CellsUsed(i) : DefinedIn(g.blocks, u, A[g.at])
    BY <1>3, <1>4, <2>1, <2>3, StoreUses
  <2>9. Worked(A, g, h) /\ ~Terminated(h)
    BY <2>5, <2>7, <2>8, OneWorks
  <2> QED
    BY <1>4, <2>5, <2>9
<1>5. CASE s.target \notin DOMAIN g.locals
  <2>1. h = BindSlot(g, s.target, e)
    BY <1>1, <1>5 DEF EmitAssign, HasLocal
  <2>2. Binds(A, g, h, s.target)
    BY <1>3, <2>1, BindWorks
  <2> QED
    BY <1>5, <2>2 DEF Binds
<1> QED
  BY <1>4, <1>5

LEMMA AugAssignWorks ==
  ASSUME NEW A, NEW g, Builder(g), ~Terminated(g), Sound(A, g.blocks),
         NEW s, Emittable(g, s), s.kind = "aug", Readable(A, g, s),
         DefinedIn(g.blocks, g.locals[s.target], A[g.at]),
         NEW h, h = EmitAugAssign(g, s)
  PROVE  Worked(A, g, h) /\ ~Terminated(h) /\ h.locals = g.locals
<1>1. PICK e : e = Emitted(g, s.args[1])
  OBVIOUS
<1>2. 1 \in DOMAIN s.args
  BY HasArgument
<1>3. Reads(g, e, A[g.at])
  BY <1>1, <1>2, EmittedReads
<1>4. PICK i : i = Store(g.locals[s.target], e)
  OBVIOUS
<1>5. Extends(g, <<i>>, h) /\ h.locals = g.locals
  BY <1>1, <1>4, AugAssignBuilds DEF GetLocal
<1>6. i.op = "store"
  BY <1>4, InstrUses
<1>7. i.op \notin Terminators
  BY <1>6 DEF Terminators
<1>8. \A u \in CellsUsed(i) : DefinedIn(g.blocks, u, A[g.at])
  BY <1>3, <1>4, StoreUses
<1> QED
  BY <1>5, <1>7, <1>8, OneWorks

\* A jump to a block that comes after the same ones.
LEMMA BrWorks ==
  ASSUME NEW A, NEW g, Builder(g), ~Terminated(g), Sound(A, g.blocks),
         NEW b \in DOMAIN g.blocks, A[b] \subseteq {b} \cup A[g.at], NEW h, Extends(g, <<Br(b)>>, h)
  PROVE  Worked(A, g, h) /\ Terminated(h) /\ Ended(h.blocks[g.at])
<1>1. PICK i : i = Br(b)
  OBVIOUS
<1>2. i.op = "br" /\ i.to = <<b>> /\ CellsUsed(i) = {}
  BY <1>1, InstrUses
<1>3. i.op \in Terminators /\ DOMAIN i.to = {1} /\ i.to[1] = b
  BY <1>2 DEF Terminators
<1> QED
  BY <1>1, <1>2, <1>3, OneWorks

LEMMA RetWorks ==
  ASSUME NEW A, NEW g, Builder(g), ~Terminated(g), Sound(A, g.blocks),
         NEW e, e = NoValue \/ Reads(g, e, A[g.at]), NEW h, Extends(g, <<Ret(e)>>, h)
  PROVE  Worked(A, g, h) /\ Terminated(h) /\ Ended(h.blocks[g.at])
<1>1. PICK i : i = Ret(e)
  OBVIOUS
<1>2. i.op = "ret" /\ i.to = <<>>
  BY <1>1, InstrUses
<1>3. \A u \in CellsUsed(i) : DefinedIn(g.blocks, u, A[g.at])
  BY <1>1, InstrUses DEF Reads
<1>4. i.op \in Terminators /\ DOMAIN i.to = {}
  BY <1>2 DEF Terminators
<1> QED
  BY <1>1, <1>3, <1>4, OneWorks

-----------------------------------------------------------------------------
(* Statements with blocks                                                  *)

LEMMA JumpsInside ==
  ASSUME NEW g, WellFormed(g), NEW b \in DOMAIN g.blocks
  PROVE  JumpsOf(g.blocks[b]) \subseteq DOMAIN g.blocks
<1> SUFFICES ASSUME NEW x \in JumpsOf(g.blocks[b]) PROVE x \in DOMAIN g.blocks
  OBVIOUS
<1>1. PICK k \in DOMAIN g.blocks[b] : \E i \in DOMAIN g.blocks[b][k].to : x = g.blocks[b][k].to[i]
  BY InJumps
<1>2. g.blocks[b][k].to \in Seq(DOMAIN g.blocks)
  BY InstrAt, InstrParts
<1> QED
  BY <1>1, <1>2

\* A2 is A, and for the blocks h has more those before the block of g.
Widened(A, A2, g, h) ==
  /\ \A b \in DOMAIN g.blocks : A2[b] = A[b]
  /\ \A b \in DOMAIN h.blocks \ DOMAIN g.blocks : A2[b] = {b} \cup A[g.at]

LEMMA BlocksSound ==
  ASSUME NEW A, NEW g, Builder(g), Sound(A, g.blocks), NEW k, k = AppendBlocks(g)
  PROVE  \E A2 : Sound(A2, k.blocks) /\ Widened(A, A2, g, k) /\ Keeps(g, k)
<1>1. /\ DOMAIN g.blocks \subseteq DOMAIN k.blocks
      /\ \A b \in DOMAIN g.blocks : k.blocks[b] = g.blocks[b]
      /\ \A b \in DOMAIN k.blocks \ DOMAIN g.blocks : k.blocks[b] = <<>>
  <2>1. PICK n : n = Len(g.blocks)
    OBVIOUS
  <2> QED
    BY <2>1, MoreBlocks
<1>2. PICK A2 : A2 = [b \in DOMAIN k.blocks |-> IF b \in DOMAIN g.blocks THEN A[b] ELSE {b} \cup A[g.at]]
  OBVIOUS
<1>3. Widened(A, A2, g, k)
  BY <1>1, <1>2 DEF Widened
<1>4. \A b \in DOMAIN k.blocks \ DOMAIN g.blocks : JumpsOf(k.blocks[b]) = {} /\ DOMAIN k.blocks[b] = {}
  <2>1. ASSUME NEW t, t = <<>> PROVE JumpsOf(t) = {} /\ DOMAIN t = {}
    BY <2>1, NothingInEmpty
  <2> QED
    BY <1>1, <2>1
<1>5. WellFormed(g)
  BY DEF Builder
<1>6. Keeps(g, k)
  <2> SUFFICES ASSUME NEW c, NEW d \in Definitions(g.blocks, c) PROVE d \in Definitions(k.blocks, c)
    BY DEF Keeps, DefinedIn
  <2>1. /\ d = <<d[1], d[2]>> /\ d[1] \in DOMAIN g.blocks /\ d[2] \in DOMAIN g.blocks[d[1]]
        /\ g.blocks[d[1]][d[2]].op \in {"alloca", "let"} /\ g.blocks[d[1]][d[2]].cell = c
    BY InDefinitions
  <2>2. d[1] \in DOMAIN k.blocks /\ k.blocks[d[1]] = g.blocks[d[1]]
    BY <1>1, <2>1
  <2>3. <<d[1], d[2]>> \in Definitions(k.blocks, c)
    BY <2>1, <2>2, InDefinitions
  <2> QED
    BY <2>1, <2>3
<1>7. Dominate(A2, k.blocks)
  <2>1. 1 \in DOMAIN g.blocks
    <3>1. PICK T : g.blocks \in Seq(T) /\ g.blocks # <<>>
      BY <1>5 DEF WellFormed
    <3> QED
      BY <3>1
  <2>2. A2[1] = {1}
    BY <1>3, <2>1 DEF Widened, Sound, Dominate
  <2>3. \A b \in DOMAIN k.blocks : b \in A2[b]
    BY <1>3 DEF Widened, Sound, Dominate
  <2>4. ASSUME NEW b \in DOMAIN k.blocks, NEW y \in JumpsOf(k.blocks[b]) PROVE A2[y] \subseteq {y} \cup A2[b]
    <3>1. b \in DOMAIN g.blocks /\ k.blocks[b] = g.blocks[b]
      BY <1>1, <1>4, <2>4
    <3>2. y \in DOMAIN g.blocks
      BY <1>5, <2>4, <3>1, JumpsInside
    <3> QED
      BY <1>3, <2>4, <3>1, <3>2 DEF Widened, Sound, Dominate
  <2> QED
    BY <2>2, <2>3, <2>4 DEF Dominate
<1>8. UsesCovered(A2, k.blocks)
  <2> SUFFICES ASSUME NEW b \in DOMAIN k.blocks, NEW i \in DOMAIN k.blocks[b], NEW c \in CellsUsed(k.blocks[b][i])
               PROVE  \E d \in Definitions(k.blocks, c) :
                        (d[1] = b /\ d[2] < i) \/ (d[1] # b /\ d[1] \in A2[b])
    BY DEF UsesCovered
  <2>1. b \in DOMAIN g.blocks /\ k.blocks[b] = g.blocks[b]
    BY <1>1, <1>4
  <2>2. PICK d \in Definitions(g.blocks, c) : (d[1] = b /\ d[2] < i) \/ (d[1] # b /\ d[1] \in A[b])
    BY <2>1 DEF Sound, UsesCovered
  <2>3. /\ d = <<d[1], d[2]>> /\ d[1] \in DOMAIN g.blocks /\ d[2] \in DOMAIN g.blocks[d[1]]
        /\ g.blocks[d[1]][d[2]].op \in {"alloca", "let"} /\ g.blocks[d[1]][d[2]].cell = c
    BY InDefinitions
  <2>4. d[1] \in DOMAIN k.blocks /\ k.blocks[d[1]] = g.blocks[d[1]]
    BY <1>1, <2>3
  <2>5. <<d[1], d[2]>> \in Definitions(k.blocks, c)
    BY <2>3, <2>4, InDefinitions
  <2> QED
    BY <1>3, <2>1, <2>2, <2>3, <2>5 DEF Widened
<1>9. TerminatorsLast(k.blocks)
  BY <1>1, <1>4 DEF TerminatorsLast, Sound
<1> QED
  BY <1>3, <1>6, <1>7, <1>8, <1>9 DEF Sound

\* h is g with more blocks, and a jump into them.
Branched(A, A2, g, h) ==
  /\ Sound(A2, h.blocks) /\ Keeps(g, h) /\ Widened(A, A2, g, h)
  /\ DOMAIN g.blocks \subseteq DOMAIN h.blocks /\ h.at \in DOMAIN h.blocks \ DOMAIN g.blocks
  /\ \A b \in DOMAIN g.blocks : b # g.at => h.blocks[b] = g.blocks[b]
  /\ Ended(h.blocks[g.at]) /\ ~Terminated(h)

LEMMA ReadsKept ==
  ASSUME NEW g, NEW h, Keeps(g, h), NEW e, NEW K, Reads(g, e, K), NEW L, K \subseteq L
  PROVE  Reads(h, e, L)
  BY DefinedMore DEF Reads, Keeps

LEMMA CondBrWorks ==
  ASSUME NEW A, NEW g, Builder(g), ~Terminated(g), Sound(A, g.blocks), NEW e, Reads(g, e, A[g.at]),
         NEW b \in DOMAIN g.blocks, A[b] \subseteq {b} \cup A[g.at],
         NEW c \in DOMAIN g.blocks, A[c] \subseteq {c} \cup A[g.at], NEW h, Extends(g, <<CondBr(e, b, c)>>, h)
  PROVE  Worked(A, g, h) /\ Terminated(h) /\ Ended(h.blocks[g.at])
<1>1. PICK i : i = CondBr(e, b, c)
  OBVIOUS
<1>2. i.op = "cbr" /\ i.to = <<b, c>> /\ CellsUsed(i) = {e.l.cell, e.r.cell} \ {0, 1}
  BY <1>1, InstrUses
<1>3. i.op \in Terminators /\ DOMAIN i.to = {1, 2} /\ i.to[1] = b /\ i.to[2] = c
  BY <1>2 DEF Terminators
<1>4. \A u \in CellsUsed(i) : DefinedIn(g.blocks, u, A[g.at])
  BY <1>2 DEF Reads
<1>5. \A k \in DOMAIN i.to : A[i.to[k]] \subseteq {i.to[k]} \cup A[g.at]
  BY <1>3
<1> QED
  BY <1>1, <1>3, <1>4, <1>5, OneWorks

LEMMA IfBranches ==
  ASSUME NEW A, NEW g, Builder(g), ~Terminated(g), Sound(A, g.blocks),
         NEW s, Emittable(g, s), s.kind = "if", Readable(A, g, s), NEW h, h = EmitIf(g, s)
  PROVE  h.locals = g.locals /\ \E A2 : Branched(A, A2, g, h)
<1>1. PICK n : n = Len(g.blocks)
  OBVIOUS
<1>2. PICK e : e = Emitted(g, s.args[1])
  OBVIOUS
<1>3. PICK k : k = AppendBlocks(g)
  OBVIOUS
<1>4. PICK m : Extends(k, <<CondBr(e, n + 1, n + 2)>>, m) /\ m.locals = g.locals /\ h = PositionAt(m, n + 1)
  BY <1>1, <1>2, <1>3, IfOpened
<1>5. PICK b, c : b = n + 1 /\ c = n + 2
  OBVIOUS
<1>6. /\ Builder(k) /\ k.at = g.at /\ g.at \in DOMAIN g.blocks /\ DOMAIN g.blocks \subseteq DOMAIN k.blocks
      /\ b \in DOMAIN k.blocks \ DOMAIN g.blocks /\ c \in DOMAIN k.blocks \ DOMAIN g.blocks
      /\ \A x \in DOMAIN g.blocks : k.blocks[x] = g.blocks[x]
      /\ \A x \in DOMAIN k.blocks \ DOMAIN g.blocks : k.blocks[x] = <<>>
  BY <1>1, <1>3, <1>5, MoreBlocks
<1>7. PICK A2 : Sound(A2, k.blocks) /\ Widened(A, A2, g, k) /\ Keeps(g, k)
  BY <1>3, BlocksSound
<1>8. ~Terminated(k)
  BY <1>6 DEF Terminated
<1>9. Reads(k, e, A2[k.at])
  <2>1. 1 \in DOMAIN s.args
    BY HasArgument
  <2>2. Reads(g, e, A[g.at])
    BY <1>2, <2>1, EmittedReads
  <2>3. A2[k.at] = A[g.at]
    BY <1>6, <1>7 DEF Widened
  <2> QED
    BY <1>7, <2>2, <2>3, ReadsKept
<1>10. A2[b] \subseteq {b} \cup A2[k.at] /\ A2[c] \subseteq {c} \cup A2[k.at]
  BY <1>6, <1>7 DEF Widened
<1>11. Worked(A2, k, m) /\ Ended(m.blocks[k.at])
  BY <1>4, <1>5, <1>6, <1>7, <1>8, <1>9, <1>10, CondBrWorks
<1>12. h.blocks = m.blocks /\ h.at = b /\ h.locals = m.locals
  BY <1>4, <1>5, PositionFields DEF Extends, Builder
<1>13. h.blocks[h.at] = <<>>
  BY <1>6, <1>11, <1>12 DEF Worked
<1>14. Branched(A, A2, g, h)
  <2>1. Sound(A2, h.blocks) /\ Keeps(g, h)
    BY <1>7, <1>11, <1>12, KeepsStill, KeepsSame DEF Worked
  <2>2. Widened(A, A2, g, h) /\ DOMAIN h.blocks = DOMAIN k.blocks
    BY <1>7, <1>11, <1>12 DEF Worked, Widened
  <2>3. \A x \in DOMAIN g.blocks : x # g.at => h.blocks[x] = g.blocks[x]
    BY <1>6, <1>11, <1>12 DEF Worked
  <2>4. Ended(h.blocks[g.at]) /\ ~Terminated(h)
    BY <1>6, <1>11, <1>12, <1>13 DEF Terminated
  <2> QED
    BY <1>6, <1>12, <2>1, <2>2, <2>3, <2>4 DEF Branched
<1> QED
  BY <1>4, <1>12, <1>14

\* The test of a loop is before its body, in a block of its own.
LEMMA LoopBranches ==
  ASSUME NEW A, NEW g, Builder(g), ~Terminated(g), Sound(A, g.blocks),
         NEW e \in Exprs(g), Reads(g, e, A[g.at]), NEW h, h = OpenLoop(g, e)
  PROVE  h.locals = g.locals /\ \E A2 : Branched(A, A2, g, h) /\ Ended(h.blocks[Len(g.blocks) + 1])
<1>1. PICK n : n = Len(g.blocks)
  OBVIOUS
<1>2. PICK k : k = AppendBlocks(g)
  OBVIOUS
<1>3. PICK a, b, c : a = n + 1 /\ b = n + 2 /\ c = n + 3
  OBVIOUS
<1>4. PICK m, l : /\ Extends(k, <<Br(a)>>, m)
                  /\ Extends(PositionAt(m, a), <<CondBr(e, b, c)>>, l)
                  /\ l.locals = g.locals /\ h = PositionAt(l, b)
  BY <1>1, <1>2, <1>3, LoopOpened
<1>5. PICK t : t = PositionAt(m, a)
  OBVIOUS
<1>6. /\ Builder(k) /\ k.at = g.at /\ g.at \in DOMAIN g.blocks /\ DOMAIN g.blocks \subseteq DOMAIN k.blocks
      /\ a \in DOMAIN k.blocks \ DOMAIN g.blocks /\ b \in DOMAIN k.blocks \ DOMAIN g.blocks
      /\ c \in DOMAIN k.blocks \ DOMAIN g.blocks /\ a # b
      /\ \A x \in DOMAIN g.blocks : k.blocks[x] = g.blocks[x]
      /\ \A x \in DOMAIN k.blocks \ DOMAIN g.blocks : k.blocks[x] = <<>>
  BY <1>1, <1>2, <1>3, MoreBlocks
<1>7. PICK A2 : Sound(A2, k.blocks) /\ Widened(A, A2, g, k) /\ Keeps(g, k)
  BY <1>2, BlocksSound
<1>8. /\ A2[g.at] = A[g.at] /\ A2[a] = {a} \cup A[g.at]
      /\ A2[b] = {b} \cup A[g.at] /\ A2[c] = {c} \cup A[g.at]
  BY <1>6, <1>7 DEF Widened
<1>9. ~Terminated(k)
  BY <1>6 DEF Terminated
<1>10. Worked(A2, k, m) /\ Ended(m.blocks[k.at])
  <2>1. A2[a] \subseteq {a} \cup A2[k.at] /\ a \in DOMAIN k.blocks
    BY <1>6, <1>8
  <2> QED
    BY <1>4, <1>6, <1>7, <1>9, <2>1, BrWorks
<1>11. Builder(m) /\ DOMAIN m.blocks = DOMAIN k.blocks
  BY <1>4, <1>10 DEF Extends, Worked
<1>12. Builder(t) /\ t.blocks = m.blocks /\ t.at = a
  BY <1>5, <1>6, <1>11, Positioned
<1>13. t.blocks[a] = <<>> /\ ~Terminated(t)
  <2>1. m.blocks[a] = k.blocks[a]
    BY <1>6, <1>10 DEF Worked
  <2> QED
    BY <1>6, <1>12, <2>1 DEF Terminated
<1>14. Reads(t, e, A2[t.at])
  <2>1. Keeps(g, t)
    BY <1>7, <1>10, <1>12, KeepsStill, KeepsSame DEF Worked
  <2> QED
    BY <1>8, <1>12, <2>1, ReadsKept
<1>15. Worked(A2, t, l) /\ Ended(l.blocks[t.at])
  <2>1. Sound(A2, t.blocks)
    BY <1>10, <1>12 DEF Worked
  <2>2. b \in DOMAIN t.blocks /\ c \in DOMAIN t.blocks
    BY <1>6, <1>11, <1>12
  <2>3. A2[b] \subseteq {b} \cup A2[t.at] /\ A2[c] \subseteq {c} \cup A2[t.at]
    BY <1>8, <1>12
  <2>4. Extends(t, <<CondBr(e, b, c)>>, l)
    BY <1>4, <1>5
  <2> QED
    BY <1>12, <1>13, <1>14, <2>1, <2>2, <2>3, <2>4, CondBrWorks
<1>16. h.blocks = l.blocks /\ h.at = b /\ h.locals = l.locals
  BY <1>4, PositionFields DEF Extends, Builder
<1>17. /\ DOMAIN h.blocks = DOMAIN k.blocks
       /\ \A x \in DOMAIN k.blocks : x \notin {g.at, a} => h.blocks[x] = k.blocks[x]
       /\ h.blocks[g.at] = m.blocks[g.at]
  BY <1>6, <1>10, <1>11, <1>12, <1>15, <1>16 DEF Worked
<1>18. h.blocks[h.at] = <<>>
  BY <1>6, <1>16, <1>17
<1>19. Branched(A, A2, g, h)
  <2>1. Sound(A2, h.blocks) /\ Keeps(g, h)
    BY <1>7, <1>10, <1>12, <1>15, <1>16, KeepsStill, KeepsSame DEF Worked
  <2>2. Widened(A, A2, g, h)
    BY <1>7, <1>17 DEF Widened
  <2>3. \A x \in DOMAIN g.blocks : x # g.at => h.blocks[x] = g.blocks[x]
    BY <1>6, <1>17
  <2>4. Ended(h.blocks[g.at]) /\ ~Terminated(h)
    BY <1>6, <1>10, <1>17, <1>18 DEF Terminated
  <2> QED
    BY <1>6, <1>16, <1>17, <2>1, <2>2, <2>3, <2>4 DEF Branched
<1> QED
  BY <1>1, <1>3, <1>4, <1>12, <1>15, <1>16, <1>19

LEMMA LastArgument ==
  ASSUME NEW g, NEW s, Emittable(g, s), s.kind = "for"
  PROVE  1 \in DOMAIN s.args /\ 2 \in DOMAIN s.args /\ 3 \in DOMAIN s.args
<1>1. 1 \in 1 .. Arity(s.kind) /\ 2 \in 1 .. Arity(s.kind) /\ 3 \in 1 .. Arity(s.kind)
  BY DEF Arity
<1>2. DOMAIN s.args = 1 .. Arity(s.kind)
  BY DEF Emittable, TypedStmt
<1> QED
  BY <1>1, <1>2

\* The instructions of a range fill cells c + 2 to c + 4.
RangeServes(A, g, t, c) ==
  /\ Served(A, g, t) /\ JumpLast(t) /\ JumpsOf(t) = {}
  /\ t # <<>> /\ t[Len(t)].op \notin Terminators
  /\ 2 \in DOMAIN t /\ 3 \in DOMAIN t /\ 4 \in DOMAIN t
  /\ Defines(t[2]) /\ Defines(t[3]) /\ Defines(t[4])
  /\ t[2].cell = c + 2 /\ t[3].cell = c + 3 /\ t[4].cell = c + 4

LEMMA RangeServed ==
  ASSUME NEW A, NEW g, NEW e1, NEW e2, NEW e3,
         Reads(g, e1, A[g.at]), Reads(g, e2, A[g.at]), Reads(g, e3, A[g.at]),
         NEW c \in Nat, NEW t, t = RangeInstrs(c, e1, e2, e3)
  PROVE  RangeServes(A, g, t, c)
<1>1. PICK q1, q2, q3, q4 : q1 = c + 1 /\ q2 = c + 2 /\ q3 = c + 3 /\ q4 = c + 4
  OBVIOUS
<1>2. PICK v : v = Value(Slot(q1))
  OBVIOUS
<1>3. v.l.cell = q1 /\ v.r.cell = q1
  BY <1>2 DEF Value, Slot, Operand, Expr
<1>4. t = <<Let(q1, e1), Let(q2, e2), Let(q3, e3), Alloca(q4), Store(q4, v)>>
  BY <1>1, <1>2 DEF RangeInstrs
<1>5. /\ t # <<>> /\ DOMAIN t = {1, 2, 3, 4, 5} /\ Len(t) = 5
      /\ t[1] = Let(q1, e1) /\ t[2] = Let(q2, e2) /\ t[3] = Let(q3, e3)
      /\ t[4] = Alloca(q4) /\ t[5] = Store(q4, v)
  BY <1>4
<1>6. /\ t[1].op = "let" /\ t[1].cell = q1 /\ CellsUsed(t[1]) = {e1.l.cell, e1.r.cell} \ {0, 1}
      /\ t[2].op = "let" /\ t[2].cell = q2 /\ CellsUsed(t[2]) = {e2.l.cell, e2.r.cell} \ {0, 1}
      /\ t[3].op = "let" /\ t[3].cell = q3 /\ CellsUsed(t[3]) = {e3.l.cell, e3.r.cell} \ {0, 1}
      /\ t[4].op = "alloca" /\ t[4].cell = q4 /\ CellsUsed(t[4]) = {}
      /\ t[5].op = "store" /\ CellsUsed(t[5]) = {v.l.cell, v.r.cell, q4} \ {0, 1}
  BY <1>5, InstrUses
<1>7. \A j \in DOMAIN t : t[j].op \notin Terminators
  BY <1>5, <1>6 DEF Terminators
<1>8. Defines(t[1]) /\ Defines(t[2]) /\ Defines(t[3]) /\ Defines(t[4])
  BY <1>6 DEF Defines
<1>9. Served(A, g, t)
  <2> SUFFICES ASSUME NEW k \in DOMAIN t, NEW u \in CellsUsed(t[k])
               PROVE  \/ DefinedIn(g.blocks, u, A[g.at])
                      \/ \E j \in DOMAIN t : j < k /\ Defines(t[j]) /\ t[j].cell = u
    BY DEF Served
  <2>1. CASE k \in {1, 2, 3, 4}
    BY <1>6, <2>1 DEF Reads
  <2>2. CASE k = 5
    <3>1. u = q1 \/ u = q4
      BY <1>3, <1>6, <2>2
    <3>2. 1 \in DOMAIN t /\ 4 \in DOMAIN t /\ 1 < 5 /\ 4 < 5
      BY <1>5
    <3> QED
      BY <1>6, <1>8, <2>2, <3>1, <3>2
  <2> QED
    BY <1>5, <2>1, <2>2
<1>10. JumpLast(t) /\ JumpsOf(t) = {}
  BY <1>7, NoJumps DEF JumpLast
<1> QED
  BY <1>1, <1>5, <1>6, <1>7, <1>8, <1>9, <1>10 DEF RangeServes

LEMMA RangeWorks ==
  ASSUME NEW A, NEW g, Builder(g), ~Terminated(g), Sound(A, g.blocks),
         NEW s, Emittable(g, s), s.kind = "for", Readable(A, g, s),
         NEW h, h = EmitRange(g, s), NEW c \in Nat, c = g.cells
  PROVE  /\ Worked(A, g, h) /\ ~Terminated(h)
         /\ h.cells = c + 4
         /\ DOMAIN h.locals = DOMAIN g.locals \cup {s.target}
         /\ \A y \in DOMAIN g.locals : y # s.target => h.locals[y] = g.locals[y]
         /\ h.locals[s.target] = c + 4
         /\ DefinedIn(h.blocks, c + 2, {g.at}) /\ DefinedIn(h.blocks, c + 3, {g.at}) /\ DefinedIn(h.blocks, c + 4, {g.at})
<1>1. PICK e1, e2, e3 : e1 = Emitted(g, s.args[1]) /\ e2 = Emitted(g, s.args[2]) /\ e3 = Emitted(g, s.args[3])
  OBVIOUS
<1>2. Reads(g, e1, A[g.at]) /\ Reads(g, e2, A[g.at]) /\ Reads(g, e3, A[g.at])
  BY <1>1, LastArgument, EmittedReads
<1>3. PICK t : t = RangeInstrs(c, e1, e2, e3)
  OBVIOUS
<1>4. PICK m : /\ Extends(g, t, m) /\ m.cells = c + 4 /\ m.locals = g.locals
               /\ h = SetLocal(m, s.target, c + 4)
  BY <1>1, <1>3, RangeMade
<1>5. /\ Served(A, g, t) /\ JumpLast(t) /\ JumpsOf(t) = {}
      /\ t # <<>> /\ t[Len(t)].op \notin Terminators
      /\ 2 \in DOMAIN t /\ 3 \in DOMAIN t /\ 4 \in DOMAIN t
      /\ Defines(t[2]) /\ Defines(t[3]) /\ Defines(t[4])
      /\ t[2].cell = c + 2 /\ t[3].cell = c + 3 /\ t[4].cell = c + 4
  <2>1. RangeServes(A, g, t, c)
    BY <1>2, <1>3, RangeServed
  <2> QED
    BY <2>1 DEF RangeServes
<1>6. Worked(A, g, m) /\ ~Terminated(m)
  BY <1>4, <1>5, ExtendsWorks, LastAppended
<1>7. /\ h.at = m.at /\ h.blocks = m.blocks /\ h.cells = m.cells
      /\ h.locals = [y \in DOMAIN m.locals \cup {s.target} |-> IF y = s.target THEN c + 4 ELSE m.locals[y]]
  BY <1>4, SetLocalFields DEF Extends, Builder
<1>8. \A j \in DOMAIN t : Defines(t[j]) => DefinedIn(h.blocks, t[j].cell, {g.at})
  <2>1. WellFormed(g) /\ Appended(g, t, m)
    BY <1>4 DEF Builder, Extends
  <2>2. \A j \in DOMAIN t : Defines(t[j]) => DefinedIn(m.blocks, t[j].cell, {g.at})
    BY <1>5, <2>1, DefinedAppended
  <2> QED
    BY <1>7, <2>2
<1>9. Worked(A, g, h) /\ ~Terminated(h)
  BY <1>6, <1>7, WorkedAlike
<1>10. DefinedIn(h.blocks, c + 2, {g.at}) /\ DefinedIn(h.blocks, c + 3, {g.at}) /\ DefinedIn(h.blocks, c + 4, {g.at})
  BY <1>5, <1>8
<1> QED
  BY <1>4, <1>7, <1>9, <1>10

\* In h, a loop that counts x was opened, with its counter in cell c + 4.
Counts(A, g, h, x, c) ==
  /\ DOMAIN h.locals = DOMAIN g.locals \cup {x}
  /\ \A y \in DOMAIN g.locals : y # x => h.locals[y] = g.locals[y]
  /\ h.locals[x] = c + 4
  /\ DefinedIn(h.blocks, c + 3, {g.at}) /\ DefinedIn(h.blocks, c + 4, {g.at})
  /\ \E A2 : Branched(A, A2, g, h) /\ Ended(h.blocks[Len(g.blocks) + 1])

LEMMA ForBranches ==
  ASSUME NEW A, NEW g, Builder(g), ~Terminated(g), Sound(A, g.blocks),
         NEW s, Emittable(g, s), s.kind = "for", Readable(A, g, s),
         NEW h, h = EmitFor(g, s), NEW c \in Nat, c = g.cells
  PROVE  Counts(A, g, h, s.target, c)
<1>1. PICK r : r = EmitRange(g, s)
  OBVIOUS
<1>2. /\ Worked(A, g, r) /\ ~Terminated(r)
      /\ r.cells = c + 4
      /\ DOMAIN r.locals = DOMAIN g.locals \cup {s.target}
      /\ \A y \in DOMAIN g.locals : y # s.target => r.locals[y] = g.locals[y]
      /\ r.locals[s.target] = c + 4
      /\ DefinedIn(r.blocks, c + 2, {g.at}) /\ DefinedIn(r.blocks, c + 3, {g.at}) /\ DefinedIn(r.blocks, c + 4, {g.at})
  BY <1>1, RangeWorks
<1>3. Builder(r) /\ DOMAIN r.blocks = DOMAIN g.blocks
  BY <1>1, RangeBuilds
<1>4. PICK e : e = Expr("lt", Slot(r.cells), Slot(r.cells - 2))
  OBVIOUS
<1>5. c \in Nat \ {0}
  BY DEF Builder, WellFormed
<1>6. e \in Exprs(r)
  <2>1. r.cells >= 2
    BY <1>2, <1>5
  <2> QED
    BY <1>3, <1>4, <2>1, ForTest
<1>7. Reads(r, e, A[r.at])
  <2>1. PICK a, b : a = r.cells /\ b = r.cells - 2
    OBVIOUS
  <2>2. e.l.cell = a /\ e.r.cell = b
    BY <1>4, <2>1 DEF Slot, Operand, Expr
  <2>3. a = c + 4 /\ b = c + 2
    BY <1>2, <1>5, <2>1
  <2>4. DefinedIn(r.blocks, a, {g.at}) /\ DefinedIn(r.blocks, b, {g.at})
    BY <1>2, <2>3
  <2>5. {g.at} \subseteq A[r.at]
    BY <1>2 DEF Worked, Sound, Dominate
  <2> QED
    BY <2>2, <2>4, <2>5, DefinedMore DEF Reads
<1>8. h = OpenLoop(r, e)
  BY <1>1, <1>4 DEF EmitFor
<1>9. PICK n : n = Len(r.blocks) /\ n = Len(g.blocks)
  <2>1. PICK T : g.blocks \in Seq(T)
    BY DEF Builder, WellFormed
  <2>2. PICK U : r.blocks \in Seq(U)
    BY <1>3 DEF Builder, WellFormed
  <2> QED
    BY <1>3, <2>1, <2>2
<1>10. Sound(A, r.blocks)
  BY <1>2 DEF Worked
<1>11. PICK A2 : Branched(A, A2, r, h) /\ Ended(h.blocks[n + 1]) /\ h.locals = r.locals
  <2>1. h.locals = r.locals /\ \E A2 : Branched(A, A2, r, h) /\ Ended(h.blocks[Len(r.blocks) + 1])
    BY <1>2, <1>3, <1>6, <1>7, <1>8, <1>10, LoopBranches
  <2> QED
    BY <1>9, <2>1
<1>12. Branched(A, A2, g, h)
  <2>1. Keeps(g, h)
    BY <1>2, <1>11, KeepsStill DEF Worked, Branched
  <2>2. Widened(A, A2, g, h)
    BY <1>2, <1>3, <1>11 DEF Worked, Branched, Widened
  <2>3. \A b \in DOMAIN g.blocks : b # g.at => h.blocks[b] = g.blocks[b]
    BY <1>2, <1>3, <1>11 DEF Worked, Branched
  <2> QED
    BY <1>2, <1>3, <1>11, <2>1, <2>2, <2>3 DEF Worked, Branched
<1>13. DefinedIn(h.blocks, c + 3, {g.at}) /\ DefinedIn(h.blocks, c + 4, {g.at})
  BY <1>2, <1>11 DEF Keeps, Branched
<1> QED
  BY <1>2, <1>9, <1>11, <1>12, <1>13 DEF Counts

-----------------------------------------------------------------------------
(* The ends of blocks                                                      *)

LEMMA WorkedNot ==
  ASSUME NEW A, NEW g, Builder(g), Sound(A, g.blocks), Terminated(g)
  PROVE  Worked(A, g, g) /\ Ended(g.blocks[g.at])
  BY DEF Worked, Keeps, Builder, Terminated, Ended

LEMMA EndWorks ==
  ASSUME NEW A, NEW g, Builder(g), Sound(A, g.blocks),
         NEW b \in DOMAIN g.blocks, A[b] \subseteq {b} \cup A[g.at], NEW h, h = BranchUnlessTerminated(g, b)
  PROVE  Worked(A, g, h) /\ Ended(h.blocks[g.at]) /\ h.locals = g.locals
<1>1. ClosedWith(g, Br(b), h)
  BY BranchBuilds
<1>2. CASE Terminated(g) /\ h = g
  BY <1>2, WorkedNot
<1>3. CASE ~Terminated(g) /\ Extends(g, <<Br(b)>>, h) /\ h.locals = g.locals
  BY <1>3, BrWorks
<1> QED
  BY <1>1, <1>2, <1>3 DEF ClosedWith

LEMMA FallOffWorks ==
  ASSUME NEW A, NEW g, Builder(g), Sound(A, g.blocks), NEW h, h = EmitFallOff(g)
  PROVE  Worked(A, g, h) /\ Ended(h.blocks[g.at]) /\ h.locals = g.locals
<1>1. ClosedWith(g, Ret(NoValue), h)
  BY FallOffBuilds
<1>2. CASE Terminated(g) /\ h = g
  BY <1>2, WorkedNot
<1>3. CASE ~Terminated(g) /\ Extends(g, <<Ret(NoValue)>>, h) /\ h.locals = g.locals
  BY <1>3, RetWorks
<1> QED
  BY <1>1, <1>2, <1>3 DEF ClosedWith

LEMMA NextWorks ==
  ASSUME NEW A, NEW g, Builder(g), Sound(A, g.blocks), NEW c, IsSlot(g, c),
         DefinedIn(g.blocks, c, A[g.at]), DefinedIn(g.blocks, c - 1, A[g.at]),
         NEW b \in DOMAIN g.blocks, A[b] \subseteq {b} \cup A[g.at], NEW h, h = EmitNext(g, c, b)
  PROVE  Worked(A, g, h) /\ Ended(h.blocks[g.at]) /\ h.locals = g.locals
<1>1. \/ Terminated(g) /\ h = g
      \/ /\ ~Terminated(g) /\ Extends(g, NextInstrs(c, b), h)
         /\ h.locals = g.locals /\ h.cells = g.cells
  BY NextBuilds
<1>2. CASE Terminated(g) /\ h = g
  BY <1>2, WorkedNot
<1>3. CASE ~Terminated(g) /\ Extends(g, NextInstrs(c, b), h) /\ h.locals = g.locals
  <2>1. PICK p : p = c - 1
    OBVIOUS
  <2>2. PICK e : e = Expr("add", Slot(c), Slot(p))
    OBVIOUS
  <2>3. e.l.cell = c /\ e.r.cell = p
    BY <2>2 DEF Slot, Operand, Expr
  <2>4. PICK s : s = NextInstrs(c, b)
    OBVIOUS
  <2>5. s = <<Store(c, e), Br(b)>>
    BY <2>1, <2>2, <2>4 DEF NextInstrs
  <2>6. s # <<>> /\ DOMAIN s = {1, 2} /\ Len(s) = 2 /\ s[1] = Store(c, e) /\ s[2] = Br(b)
    BY <2>5
  <2>7. /\ s[1].op = "store" /\ CellsUsed(s[1]) = {e.l.cell, e.r.cell, c} \ {0, 1}
        /\ s[2].op = "br" /\ s[2].to = <<b>> /\ CellsUsed(s[2]) = {}
    BY <2>6, InstrUses
  <2>8. s[1].op \notin Terminators /\ s[2].op \in Terminators
    BY <2>7 DEF Terminators
  <2>9. JumpLast(s)
    BY <2>6, <2>8 DEF JumpLast
  <2>10. \A u \in CellsUsed(s[1]) : DefinedIn(g.blocks, u, A[g.at])
    BY <2>1, <2>3, <2>7
  <2>11. Served(A, g, s)
    BY <2>6, <2>7, <2>10 DEF Served
  <2>12. \A y \in JumpsOf(s) : A[y] \subseteq {y} \cup A[g.at]
    <3>1. DOMAIN s[2].to = {1} /\ s[2].to[1] = b
      BY <2>7
    <3>2. \A y \in JumpsOf(s) : y = b
      BY <2>6, <2>8, <3>1, InJumps
    <3> QED
      BY <3>2
  <2>13. Worked(A, g, h)
    BY <1>3, <2>4, <2>9, <2>11, <2>12, ExtendsWorks
  <2>14. Ended(h.blocks[g.at])
    BY <1>3, <2>4, <2>6, <2>8, LastAppended
  <2> QED
    BY <1>3, <2>13, <2>14
<1> QED
  BY <1>1, <1>2, <1>3

-----------------------------------------------------------------------------
(* Where the frames are                                                    *)

\* The names that have one slot, made in the function's own block.
Named(p) == Assigned(p.body) \cup {"n"}

Scopes(p) == ScopedWithin(p.body, {"n"})

\* The names in scope where frame i is.
InScope(R, fs, i) == ScopeAt(fs[i].body, R[i], fs[i].i)

\* No for of x, and no return, is left in the frame.
NoFor(f, x) == \E W : HasBlocks(W, f) /\ \A s \in W : s.kind = "for" => s.target # x
NoReturn(f) == \E W : HasBlocks(W, f) /\ \A s \in W : s.kind # "return"

\* Nothing follows a jump.
Live(b) == \A i \in 1 .. (Len(b) - 1) : b[i].kind \notin {"break", "continue", "return"}

\* A frame entered with the names S in scope.
Entered(S, f, p) ==
  /\ Scoped(f.body, S) \subseteq Scopes(p)
  /\ f.kind = "then" => Scoped(f.orelse, S) \subseteq Scopes(p)
  /\ Live(f.body) /\ Live(f.orelse)
  /\ f.kind # "body" /\ p.json => NoReturn(f)

\* Frame i was entered with the names R[i] in scope.
Sited(R, fs, p) ==
  /\ \A i \in DOMAIN fs : Entered(R[i], fs[i], p)
  /\ \A i, j \in DOMAIN fs : i < j => InScope(R, fs, i) \subseteq R[j]
  /\ \A i \in DOMAIN fs : (\A j \in DOMAIN fs : j <= i => ~IsLoop(fs[j])) =>
       fs[i].body \in Seq(InThisLoop(p.body)) /\ fs[i].orelse \in Seq(InThisLoop(p.body))
  /\ p.json => fs[1].i <= Len(p.body)

\* Blocks D[i] come before where frame i is, and before the blocks the next one knows.
Based(A, D, g, fs) ==
  /\ \A i \in DOMAIN fs : D[i] \subseteq A[g.at]
  /\ \A i, j \in DOMAIN fs : i <= j => D[i] \subseteq D[j]
  /\ \A i, j \in DOMAIN fs : j = i + 1 =>
       /\ D[i] \subseteq A[fs[j].to] /\ A[fs[j].to] \subseteq {fs[j].to} \cup D[i]
       /\ D[i] \subseteq A[fs[j].exit] /\ A[fs[j].exit] \subseteq {fs[j].exit} \cup D[i]

\* The names S have slots; one that is not assigned was made in K, and stays.
Known(K, S, g, f, p) ==
  \A x \in S : /\ x \in DOMAIN g.locals
               /\ x \notin Named(p) => DefinedIn(g.blocks, g.locals[x], K) /\ NoFor(f, x)

Slotted(D, R, g, fs, p) ==
  /\ \A x \in DOMAIN g.locals \cap Named(p) : DefinedIn(g.blocks, g.locals[x], D[1])
  /\ \A i \in DOMAIN fs : Known(D[i], InScope(R, fs, i), g, fs[i], p)
  /\ \A i, j \in DOMAIN fs : j = i + 1 =>
       /\ fs[j].kind = "then" => Known(D[i], R[j], g, fs[j], p)
       /\ fs[j].kind = "for" => /\ DefinedIn(g.blocks, fs[j].cell, D[i])
                                /\ DefinedIn(g.blocks, fs[j].cell - 1, D[i])

\* Blocks the emitters left are ended; those they will come to are empty, each of one frame.
Closed(g, fs) ==
  /\ Terminated(g) => \A i \in DOMAIN fs : i + 1 \notin DOMAIN fs => fs[i].i \notin DOMAIN fs[i].body
  /\ \A b \in DOMAIN g.blocks : b = g.at \/ Ended(g.blocks[b]) \/ \E i \in DOMAIN fs : b \in Fresh(fs[i])
  /\ \A i \in DOMAIN fs : \A b \in Fresh(fs[i]) : b \in DOMAIN g.blocks \ {g.at} /\ g.blocks[b] = <<>>
  /\ \A i, j \in DOMAIN fs : i # j => Fresh(fs[i]) \cap Fresh(fs[j]) = {}
  /\ \A i \in DOMAIN fs : /\ fs[i].kind = "then" => fs[i].to # fs[i].exit
                          /\ fs[i].kind = "else" => fs[i].to = fs[i].exit

\* The emitters are at work on blocks that are sound so far.
Compiles(A, D, R, g, fs, p) ==
  /\ Sound(A, g.blocks)
  /\ Sited(R, fs, p) /\ Based(A, D, g, fs) /\ Slotted(D, R, g, fs, p) /\ Closed(g, fs)

-----------------------------------------------------------------------------
(* Frames and scopes                                                       *)

\* E is D, with X for N.
Replaced(D, N, X, E) == E[N] = X /\ \A i \in Nat : i # N => E[i] = D[i]

LEMMA Updated ==
  ASSUME NEW D, NEW N \in Nat, NEW X
  PROVE  \E E : Replaced(D, N, X, E)
<1>1. PICK E : E = [i \in Nat |-> IF i = N THEN X ELSE D[i]]
  OBVIOUS
<1>2. Replaced(D, N, X, E)
  BY <1>1 DEF Replaced
<1> QED
  BY <1>2

LEMMA ScopeStarts ==
  ASSUME NEW b, NEW S
  PROVE  ScopeAt(b, S, 1) = S /\ \A i : S \subseteq ScopeAt(b, S, i)
  BY DEF ScopeAt

\* Only an assignment brings a name into scope.
LEMMA ScopeMoves ==
  ASSUME NEW b, NEW S, NEW i \in Nat \ {0}, NEW x \in ScopeAt(b, S, i + 1)
  PROVE  x \in ScopeAt(b, S, i) \/ (b[i].kind = "assign" /\ x = b[i].target)
<1>1. CASE x \in S
  BY <1>1 DEF ScopeAt
<1>2. CASE x \notin S
  <2>1. PICK j \in 1 .. i : b[j].kind = "assign" /\ x = b[j].target
    BY <1>2 DEF ScopeAt
  <2>2. j = i \/ j \in 1 .. (i - 1)
    BY <2>1
  <2> QED
    BY <2>1, <2>2 DEF ScopeAt
<1> QED
  BY <1>1, <1>2

\* The frames t are fs, the innermost at its next statement.
Stepped(fs, t, N) ==
  /\ N \in Nat \ {0} /\ DOMAIN fs = 1 .. N /\ DOMAIN t = 1 .. N
  /\ \A i \in 1 .. N : i # N => t[i] = fs[i]
  /\ fs[N].i \in Nat \ {0} /\ t[N].i = fs[N].i + 1
  /\ \A i \in 1 .. N :
       /\ t[i].body = fs[i].body /\ t[i].orelse = fs[i].orelse /\ t[i].kind = fs[i].kind
       /\ t[i].to = fs[i].to /\ t[i].exit = fs[i].exit /\ t[i].cell = fs[i].cell

LEMMA PassedSteps ==
  ASSUME NEW g, NEW p, Stacked(frames, g, p), NEW N, N = Len(frames)
  PROVE  Stepped(frames, Passed, N) /\ Top = frames[N]
<1>1. PICK t, u : t = Passed /\ u = Moved(Top)
  OBVIOUS
<1>2. /\ N \in Nat \ {0} /\ DOMAIN frames = 1 .. N /\ DOMAIN t = 1 .. N
      /\ \A i \in 1 .. N : i # N => t[i] = frames[i]
      /\ t[N] = u /\ Top = frames[N]
  BY <1>1, PassedAt
<1>3. Top \in FrameSet(g, p)
  BY TopFrame
<1>4. /\ u.body = Top.body /\ u.orelse = Top.orelse /\ u.i = Top.i + 1
      /\ u.to = Top.to /\ u.exit = Top.exit /\ u.kind = Top.kind /\ u.cell = Top.cell /\ Top.i \in Nat \ {0}
  BY <1>1, <1>3, FrameKept, FrameFields
<1>5. \A i \in 1 .. N :
       /\ t[i].body = frames[i].body /\ t[i].orelse = frames[i].orelse /\ t[i].kind = frames[i].kind
       /\ t[i].to = frames[i].to /\ t[i].exit = frames[i].exit /\ t[i].cell = frames[i].cell
  BY <1>2, <1>4
<1>6. Stepped(frames, t, N)
  BY <1>2, <1>4, <1>5 DEF Stepped
<1> QED
  BY <1>1, <1>2, <1>6

\* Frames with the same blocks.
LEMMA SameBlocksEntered ==
  ASSUME NEW f, NEW u, u.body = f.body, u.orelse = f.orelse
  PROVE  /\ \A x : NoFor(f, x) => NoFor(u, x)
         /\ NoReturn(f) => NoReturn(u)
         /\ \A S, p : u.kind = f.kind /\ Entered(S, f, p) => Entered(S, u, p)
<1>1. (\A x : NoFor(f, x) => NoFor(u, x)) /\ (NoReturn(f) => NoReturn(u))
  BY DEF NoFor, NoReturn, HasBlocks
<1> QED
  BY <1>1 DEF Entered

LEMMA KnownKept ==
  ASSUME NEW K, NEW S, NEW g, NEW f, NEW p, Known(K, S, g, f, p), NEW K2, K \subseteq K2,
         NEW h, Keeps(g, h), \A y \in S : y \in DOMAIN g.locals => y \in DOMAIN h.locals /\ h.locals[y] = g.locals[y],
         NEW u, u.body = f.body, u.orelse = f.orelse
  PROVE  Known(K2, S, h, u, p)
<1>1. SUFFICES ASSUME NEW x \in S
      PROVE  /\ x \in DOMAIN h.locals
             /\ x \notin Named(p) => DefinedIn(h.blocks, h.locals[x], K2) /\ NoFor(u, x)
  BY DEF Known
<1>2. x \in DOMAIN g.locals /\ x \in DOMAIN h.locals /\ h.locals[x] = g.locals[x]
  BY DEF Known
<1>3. ASSUME x \notin Named(p) PROVE DefinedIn(h.blocks, h.locals[x], K2) /\ NoFor(u, x)
  <2>1. DefinedIn(g.blocks, g.locals[x], K) /\ NoFor(f, x)
    BY <1>3 DEF Known
  <2>2. DefinedIn(h.blocks, h.locals[x], K)
    BY <1>2, <2>1 DEF Keeps
  <2> QED
    BY <2>1, <2>2, DefinedMore, SameBlocksEntered
<1> QED
  BY <1>2, <1>3

-----------------------------------------------------------------------------
(* The statement is behind                                                 *)

LEMMA SitedOn ==
  ASSUME NEW R, NEW fs, NEW p, Sited(R, fs, p), NEW t, NEW N, Stepped(fs, t, N),
         N = 1 /\ p.json => fs[N].i + 1 <= Len(p.body)
  PROVE  Sited(R, t, p)
<1>1. /\ N \in Nat \ {0} /\ DOMAIN fs = 1 .. N /\ DOMAIN t = 1 .. N
      /\ \A i \in 1 .. N : i # N => t[i] = fs[i]
      /\ \A i \in 1 .. N : t[i].body = fs[i].body /\ t[i].orelse = fs[i].orelse /\ t[i].kind = fs[i].kind
  BY DEF Stepped
<1>2. \A i \in DOMAIN t : Entered(R[i], t[i], p)
  <2> SUFFICES ASSUME NEW i \in DOMAIN t PROVE Entered(R[i], t[i], p)
    OBVIOUS
  <2>1. Entered(R[i], fs[i], p)
    BY <1>1 DEF Sited
  <2> QED
    BY <1>1, <2>1, SameBlocksEntered
<1>3. \A i, j \in DOMAIN t : i < j => InScope(R, t, i) \subseteq R[j]
  <2> SUFFICES ASSUME NEW i \in DOMAIN t, NEW j \in DOMAIN t, i < j PROVE InScope(R, t, i) \subseteq R[j]
    OBVIOUS
  <2>1. i # N /\ t[i] = fs[i]
    BY <1>1
  <2>2. InScope(R, t, i) = InScope(R, fs, i)
    BY <2>1 DEF InScope
  <2> QED
    BY <1>1, <2>2 DEF Sited
<1>4. \A i \in DOMAIN t : (\A j \in DOMAIN t : j <= i => ~IsLoop(t[j])) =>
        t[i].body \in Seq(InThisLoop(p.body)) /\ t[i].orelse \in Seq(InThisLoop(p.body))
  <2>1. \A i \in DOMAIN t : IsLoop(t[i]) <=> IsLoop(fs[i])
    BY <1>1 DEF IsLoop
  <2> QED
    BY <1>1, <2>1 DEF Sited
<1>5. p.json => t[1].i <= Len(p.body)
  <2>1. CASE N = 1
    BY <2>1 DEF Stepped
  <2>2. CASE N # 1
    BY <1>1, <2>2 DEF Sited
  <2> QED
    BY <2>1, <2>2
<1> QED
  BY <1>2, <1>3, <1>4, <1>5 DEF Sited

LEMMA BasedOn ==
  ASSUME NEW A, NEW D, NEW g, NEW fs, Based(A, D, g, fs), NEW t, NEW N, Stepped(fs, t, N),
         NEW D2, D2[N] = A[g.at], \A i \in Nat : i # N => D2[i] = D[i], NEW h, h.at = g.at
  PROVE  Based(A, D2, h, t)
<1>1. /\ N \in Nat \ {0} /\ DOMAIN fs = 1 .. N /\ DOMAIN t = 1 .. N
      /\ \A i \in 1 .. N : t[i].to = fs[i].to /\ t[i].exit = fs[i].exit
  BY DEF Stepped
<1>2. \A i \in DOMAIN t : D2[i] \subseteq A[h.at]
  BY <1>1 DEF Based
<1>3. ASSUME NEW i \in DOMAIN t, NEW j \in DOMAIN t, i <= j PROVE D2[i] \subseteq D2[j]
  <2>1. CASE j = N
    BY <1>2, <2>1
  <2>2. CASE j # N
    <3>1. i # N
      BY <1>1, <1>3, <2>2
    <3>2. D2[i] = D[i] /\ D2[j] = D[j]
      BY <1>1, <2>2, <3>1
    <3> QED
      BY <1>1, <1>3, <3>2 DEF Based
  <2> QED
    BY <2>1, <2>2
<1>4. ASSUME NEW i \in DOMAIN t, NEW j \in DOMAIN t, j = i + 1
      PROVE  /\ D2[i] \subseteq A[t[j].to] /\ A[t[j].to] \subseteq {t[j].to} \cup D2[i]
             /\ D2[i] \subseteq A[t[j].exit] /\ A[t[j].exit] \subseteq {t[j].exit} \cup D2[i]
  <2>1. i # N
    BY <1>1, <1>4
  <2>2. D2[i] = D[i]
    BY <1>1, <2>1
  <2> QED
    BY <1>1, <1>4, <2>2 DEF Based
<1> QED
  BY <1>2, <1>3, <1>4 DEF Based

\* Names keep their slots, and a new one is made in the function's own block.
SlotsStay(A, g, h, p, N) ==
  /\ \A y \in DOMAIN g.locals : y \in DOMAIN h.locals /\ h.locals[y] = g.locals[y]
  /\ \A y \in DOMAIN h.locals \ DOMAIN g.locals : N = 1 /\ DefinedIn(h.blocks, h.locals[y], A[g.at])

LEMMA SlottedOn ==
  ASSUME NEW A, NEW D, NEW R, NEW g, NEW fs, NEW p, Based(A, D, g, fs), Slotted(D, R, g, fs, p),
         NEW t, NEW N, Stepped(fs, t, N),
         NEW D2, D2[N] = A[g.at], \A i \in Nat : i # N => D2[i] = D[i],
         NEW h, Keeps(g, h), SlotsStay(A, g, h, p, N),
         NEW s, s = fs[N].body[fs[N].i], s.kind = "assign" => s.target \in DOMAIN h.locals \cap Named(p)
  PROVE  Slotted(D2, R, h, t, p)
<1>1. /\ N \in Nat \ {0} /\ DOMAIN fs = 1 .. N /\ DOMAIN t = 1 .. N
      /\ \A i \in 1 .. N : i # N => t[i] = fs[i]
      /\ fs[N].i \in Nat \ {0} /\ t[N].i = fs[N].i + 1
      /\ \A i \in 1 .. N : /\ t[i].body = fs[i].body /\ t[i].orelse = fs[i].orelse
                           /\ t[i].kind = fs[i].kind /\ t[i].cell = fs[i].cell
  BY DEF Stepped
<1>2. \A i \in 1 .. N : D[i] \subseteq D2[i] /\ (i # N => D2[i] = D[i])
  BY <1>1 DEF Based
<1>3. ASSUME NEW x \in DOMAIN h.locals \cap Named(p) PROVE DefinedIn(h.blocks, h.locals[x], D2[1])
  <2>1. CASE x \in DOMAIN g.locals
    <3>1. h.locals[x] = g.locals[x] /\ DefinedIn(g.blocks, g.locals[x], D[1])
      BY <1>3, <2>1 DEF SlotsStay, Slotted
    <3>2. DefinedIn(h.blocks, h.locals[x], D[1])
      BY <3>1 DEF Keeps
    <3>3. D[1] \subseteq D2[1]
      BY <1>1, <1>2
    <3> QED
      BY <3>2, <3>3, DefinedMore
  <2>2. CASE x \notin DOMAIN g.locals
    BY <1>3, <2>2 DEF SlotsStay
  <2> QED
    BY <2>1, <2>2
<1>4. ASSUME NEW i \in DOMAIN t PROVE Known(D2[i], InScope(R, t, i), h, t[i], p)
  <2>1. Known(D[i], InScope(R, fs, i), g, fs[i], p)
    BY <1>1 DEF Slotted
  <2>2. D[i] \subseteq D2[i] /\ t[i].body = fs[i].body /\ t[i].orelse = fs[i].orelse
    BY <1>1, <1>2
  <2>3. Known(D2[i], InScope(R, fs, i), h, t[i], p)
    BY <2>1, <2>2, KnownKept DEF SlotsStay
  <2>4. CASE i # N
    <3>1. InScope(R, t, i) = InScope(R, fs, i)
      BY <1>1, <2>4 DEF InScope
    <3> QED
      BY <2>3, <3>1
  <2>5. CASE i = N
    <3> SUFFICES ASSUME NEW x \in InScope(R, t, i)
        PROVE  /\ x \in DOMAIN h.locals
               /\ x \notin Named(p) => DefinedIn(h.blocks, h.locals[x], D2[i]) /\ NoFor(t[i], x)
      BY DEF Known
    <3>1. PICK k \in Nat \ {0} : k = fs[N].i
      BY <1>1
    <3>2. x \in ScopeAt(fs[N].body, R[N], k + 1)
      BY <1>1, <2>5, <3>1 DEF InScope
    <3>3. x \in InScope(R, fs, i) \/ (s.kind = "assign" /\ x = s.target)
      BY <2>5, <3>1, <3>2, ScopeMoves DEF InScope
    <3> QED
      BY <2>3, <3>3 DEF Known
  <2> QED
    BY <2>4, <2>5
<1>5. ASSUME NEW i \in DOMAIN t, NEW j \in DOMAIN t, j = i + 1
      PROVE  /\ t[j].kind = "then" => Known(D2[i], R[j], h, t[j], p)
             /\ t[j].kind = "for" => /\ DefinedIn(h.blocks, t[j].cell, D2[i])
                                     /\ DefinedIn(h.blocks, t[j].cell - 1, D2[i])
  <2>1. D[i] \subseteq D2[i] /\ t[j].body = fs[j].body /\ t[j].orelse = fs[j].orelse
    BY <1>1, <1>2
  <2>2. ASSUME t[j].kind = "then" PROVE Known(D2[i], R[j], h, t[j], p)
    <3>1. Known(D[i], R[j], g, fs[j], p)
      BY <1>1, <1>5, <2>2 DEF Slotted
    <3> QED
      BY <2>1, <3>1, KnownKept DEF SlotsStay
  <2>3. ASSUME t[j].kind = "for"
        PROVE  DefinedIn(h.blocks, t[j].cell, D2[i]) /\ DefinedIn(h.blocks, t[j].cell - 1, D2[i])
    <3>1. PICK c : c = fs[j].cell
      OBVIOUS
    <3>2. t[j].cell = c /\ DefinedIn(g.blocks, c, D[i]) /\ DefinedIn(g.blocks, c - 1, D[i])
      BY <1>1, <1>5, <2>3, <3>1 DEF Slotted
    <3>3. DefinedIn(h.blocks, c, D[i]) /\ DefinedIn(h.blocks, c - 1, D[i])
      BY <3>2 DEF Keeps
    <3> QED
      BY <2>1, <3>2, <3>3, DefinedMore
  <2> QED
    BY <2>2, <2>3
<1> QED
  BY <1>3, <1>4, <1>5 DEF Slotted

LEMMA ClosedOn ==
  ASSUME NEW g, NEW fs, Closed(g, fs), NEW t, NEW N, Stepped(fs, t, N),
         NEW h, h.at = g.at, DOMAIN h.blocks = DOMAIN g.blocks,
         \A b \in DOMAIN g.blocks : b # g.at => h.blocks[b] = g.blocks[b],
         Terminated(h) => t[N].i \notin DOMAIN t[N].body
  PROVE  Closed(h, t)
<1>1. /\ N \in Nat \ {0} /\ DOMAIN fs = 1 .. N /\ DOMAIN t = 1 .. N
      /\ \A i \in 1 .. N : t[i].kind = fs[i].kind /\ t[i].to = fs[i].to /\ t[i].exit = fs[i].exit
  BY DEF Stepped
<1>2. \A i \in DOMAIN t : Fresh(t[i]) = Fresh(fs[i])
  BY <1>1 DEF Fresh, IsLoop
<1>3. ASSUME Terminated(h), NEW i \in DOMAIN t, i + 1 \notin DOMAIN t PROVE t[i].i \notin DOMAIN t[i].body
  <2>1. i = N
    BY <1>1, <1>3
  <2> QED
    BY <1>3, <2>1
<1>4. \A b \in DOMAIN h.blocks : b = h.at \/ Ended(h.blocks[b]) \/ \E i \in DOMAIN t : b \in Fresh(t[i])
  <2> SUFFICES ASSUME NEW b \in DOMAIN h.blocks, b # h.at, ~ Ended(h.blocks[b])
      PROVE  \E i \in DOMAIN t : b \in Fresh(t[i])
    OBVIOUS
  <2>1. b \in DOMAIN g.blocks /\ b # g.at /\ ~Ended(g.blocks[b])
    OBVIOUS
  <2>2. PICK i \in DOMAIN fs : b \in Fresh(fs[i])
    BY <2>1 DEF Closed
  <2> QED
    BY <1>1, <1>2, <2>2
<1>5. ASSUME NEW i \in DOMAIN t, NEW b \in Fresh(t[i]) PROVE b \in DOMAIN h.blocks \ {h.at} /\ h.blocks[b] = <<>>
  <2>1. i \in DOMAIN fs /\ b \in Fresh(fs[i])
    BY <1>1, <1>2
  <2>2. b \in DOMAIN g.blocks \ {g.at} /\ g.blocks[b] = <<>>
    BY <2>1 DEF Closed
  <2> QED
    BY <2>2
<1>6. \A i, j \in DOMAIN t : i # j => Fresh(t[i]) \cap Fresh(t[j]) = {}
  BY <1>1, <1>2 DEF Closed
<1>7. \A i \in DOMAIN t : /\ t[i].kind = "then" => t[i].to # t[i].exit
                          /\ t[i].kind = "else" => t[i].to = t[i].exit
  BY <1>1 DEF Closed
<1> QED
  BY <1>3, <1>4, <1>5, <1>6, <1>7 DEF Closed

\* What the names of the statement the emitters are at stand for.
LEMMA HereScoped ==
  ASSUME Stacked(frames, build, prog), NEW A, NEW D, NEW R, Compiles(A, D, R, build, frames, prog),
         Infers(prog.body, {"n"}), Top.i \in DOMAIN Top.body, NEW N, N = Len(frames)
  PROVE  /\ <<Here, InScope(R, frames, N)>> \in Scopes(prog)
         /\ \A i \in DOMAIN frames : InScope(R, frames, i) \subseteq InScope(R, frames, N)
         /\ Known(D[N], InScope(R, frames, N), build, Top, prog)
         /\ \A i \in DOMAIN frames : D[i] \subseteq A[build.at]
         /\ Evaluated(build, Here) /\ Readable(A, build, Here) /\ ~Terminated(build)
<1>1. N \in Nat \ {0} /\ DOMAIN frames = 1 .. N /\ Top = frames[N]
  BY PassedSteps DEF Stepped
<1>2. <<Here, InScope(R, frames, N)>> \in Scoped(Top.body, R[N])
  BY <1>1 DEF Scoped, InScope, Here
<1>3. Scoped(Top.body, R[N]) \subseteq Scopes(prog)
  BY <1>1 DEF Compiles, Sited, Entered
<1>4. <<Here, InScope(R, frames, N)>> \in Scopes(prog)
  BY <1>2, <1>3
<1>5. ArgNames(Here) \subseteq InScope(R, frames, N)
  BY <1>4 DEF Infers, Scopes
<1>6. ASSUME NEW i \in DOMAIN frames PROVE InScope(R, frames, i) \subseteq InScope(R, frames, N)
  <2>1. CASE i = N
    BY <2>1
  <2>2. CASE i # N
    <3>1. i < N
      BY <1>1, <2>2
    <3>2. InScope(R, frames, i) \subseteq R[N]
      BY <1>1, <3>1 DEF Compiles, Sited
    <3>3. R[N] \subseteq InScope(R, frames, N)
      BY ScopeStarts DEF InScope
    <3> QED
      BY <3>2, <3>3
  <2> QED
    BY <2>1, <2>2
<1>7. Known(D[N], InScope(R, frames, N), build, Top, prog)
  BY <1>1 DEF Compiles, Slotted
<1>8. \A i \in DOMAIN frames : D[i] \subseteq A[build.at]
  BY DEF Compiles, Based
<1>9. Evaluated(build, Here)
  BY <1>5, <1>7 DEF Evaluated, HasLocal, Known
<1>10. Readable(A, build, Here)
  <2> SUFFICES ASSUME NEW x \in ArgNames(Here) PROVE DefinedIn(build.blocks, build.locals[x], A[build.at])
    BY DEF Readable
  <2>1. x \in InScope(R, frames, N) /\ x \in DOMAIN build.locals
    BY <1>5, <1>7 DEF Known
  <2>2. CASE x \in Named(prog)
    <3>1. DefinedIn(build.blocks, build.locals[x], D[1])
      BY <2>1, <2>2 DEF Compiles, Slotted
    <3>2. D[1] \subseteq A[build.at]
      BY <1>1, <1>8
    <3> QED
      BY <3>1, <3>2, DefinedMore
  <2>3. CASE x \notin Named(prog)
    <3>1. DefinedIn(build.blocks, build.locals[x], D[N])
      BY <1>7, <2>1, <2>3 DEF Known
    <3>2. D[N] \subseteq A[build.at]
      BY <1>1, <1>8
    <3> QED
      BY <3>1, <3>2, DefinedMore
  <2> QED
    BY <2>2, <2>3
<1>11. ~Terminated(build)
  <2>1. N \in DOMAIN frames /\ N + 1 \notin DOMAIN frames
    BY <1>1
  <2> QED
    BY <1>1, <2>1 DEF Compiles, Closed
<1> QED
  BY <1>4, <1>6, <1>7, <1>8, <1>9, <1>10, <1>11

\* A jump is the last statement of its block, and a JSON function ends in its return.
LEMMA JumpIsLast ==
  ASSUME Stacked(frames, build, prog), NEW R, Sited(R, frames, prog), Top.i \in DOMAIN Top.body,
         Here.kind \in {"break", "continue", "return"}
  PROVE  Top.i + 1 \notin DOMAIN Top.body
<1>1. PICK N : N = Len(frames)
  OBVIOUS
<1>2. N \in Nat \ {0} /\ DOMAIN frames = 1 .. N /\ Top = frames[N]
  BY <1>1, PassedSteps DEF Stepped
<1>3. Live(Top.body)
  BY <1>2 DEF Sited, Entered
<1>4. PICK b, i : b = Top.body /\ i = Top.i
  OBVIOUS
<1>5. b \in Seq(Within(prog.body)) /\ i \in Nat \ {0}
  BY <1>4, TopFrame, FrameFields
<1>6. PICK l \in Nat : l = Len(b) /\ DOMAIN b = 1 .. l
  BY <1>5
<1>7. b[i].kind \in {"break", "continue", "return"}
  BY <1>4 DEF Here
<1>8. i \notin 1 .. (l - 1)
  BY <1>3, <1>4, <1>6, <1>7 DEF Live
<1>9. i + 1 \notin 1 .. l
  BY <1>5, <1>8
<1> QED
  BY <1>4, <1>6, <1>9

LEMMA NotYetReturned ==
  ASSUME NEW L, HoistedFrames(frames, L, prog), Stacked(frames, build, prog), PlainFunction(prog), prog.json,
         Len(frames) = 1, Top.i \in DOMAIN Top.body, Here.kind # "return"
  PROVE  Top.i + 1 <= Len(prog.body)
<1>1. Top = frames[1] /\ Top.body = prog.body
  BY DEF Top, HoistedFrames
<1>2. PICK b, i : b = Top.body /\ i = Top.i
  OBVIOUS
<1>3. b \in Seq(Within(prog.body)) /\ i \in Nat \ {0} /\ i \in DOMAIN b
  BY <1>2, TopFrame, FrameFields
<1>4. PICK l \in Nat : l = Len(b) /\ DOMAIN b = 1 .. l
  BY <1>3
<1>5. {k \in DOMAIN b : b[k].kind = "return"} = {l}
  BY <1>1, <1>2, <1>4 DEF PlainFunction, ReturnsLast
<1>6. b[i].kind # "return"
  BY <1>2 DEF Here
<1>7. i # l
  BY <1>5, <1>6
<1>8. i + 1 <= l
  BY <1>3, <1>4, <1>7
<1> QED
  BY <1>1, <1>2, <1>4, <1>8

\* The emitters go on in their block.
LEMMA WorkGoesOn ==
  ASSUME Stacked(frames, build, prog), HoistedFrames(frames, DOMAIN build.locals, prog), PlainFunction(prog),
         NEW A, NEW D, NEW R, Compiles(A, D, R, build, frames, prog), Top.i \in DOMAIN Top.body,
         Here.kind = "return" => ~prog.json, NEW N, N = Len(frames),
         NEW h, Worked(A, build, h), SlotsStay(A, build, h, prog, N),
         Here.kind = "assign" => Here.target \in DOMAIN h.locals \cap Named(prog),
         Terminated(h) => Here.kind \in {"break", "continue", "return"}
  PROVE  \E D2 : Compiles(A, D2, R, h, Passed, prog) /\ D2[N] = A[build.at]
<1>1. PICK t : t = Passed
  OBVIOUS
<1>2. Stepped(frames, t, N) /\ Top = frames[N]
  BY <1>1, PassedSteps
<1>3. N \in Nat
  BY <1>2 DEF Stepped
<1>4. PICK D2 : D2[N] = A[build.at] /\ \A i \in Nat : i # N => D2[i] = D[i]
  <2>1. PICK X : X = A[build.at]
    OBVIOUS
  <2>2. PICK D2 : Replaced(D, N, X, D2)
    BY <1>3, Updated
  <2> QED
    BY <2>1, <2>2 DEF Replaced
<1>5. /\ Sound(A, h.blocks) /\ Keeps(build, h) /\ h.at = build.at /\ DOMAIN h.blocks = DOMAIN build.blocks
      /\ \A b \in DOMAIN build.blocks : b # build.at => h.blocks[b] = build.blocks[b]
  BY DEF Worked
<1>6. Sited(R, t, prog)
  <2>1. N = 1 /\ prog.json => frames[N].i + 1 <= Len(prog.body)
    BY <1>2, NotYetReturned
  <2>2. Sited(R, frames, prog)
    BY DEF Compiles
  <2> QED
    BY <1>2, <2>1, <2>2, SitedOn
<1>7. Based(A, D, build, frames) /\ Slotted(D, R, build, frames, prog) /\ Closed(build, frames)
  BY DEF Compiles
<1>8. Based(A, D2, h, t)
  BY <1>2, <1>4, <1>5, <1>7, BasedOn
<1>9. Slotted(D2, R, h, t, prog)
  <2>1. Here = frames[N].body[frames[N].i]
    BY <1>2 DEF Here
  <2>2. PICK s : s = Here
    OBVIOUS
  <2> QED
    BY <1>2, <1>4, <1>5, <1>7, <2>1, <2>2, SlottedOn
<1>10. Closed(h, t)
  <2>1. ASSUME Terminated(h) PROVE t[N].i \notin DOMAIN t[N].body
    <3>1. Top.i + 1 \notin DOMAIN Top.body
      BY <2>1, JumpIsLast DEF Compiles
    <3>2. t[N].i = Top.i + 1 /\ t[N].body = Top.body
      BY <1>2 DEF Stepped
    <3> QED
      BY <3>1, <3>2
  <2> QED
    BY <1>2, <1>5, <1>7, <2>1, ClosedOn
<1>11. Compiles(A, D2, R, h, t, prog)
  BY <1>5, <1>6, <1>8, <1>9, <1>10 DEF Compiles
<1> QED
  BY <1>1, <1>4, <1>11

\* What the emitters of a plain function keep true.
Plainly ==
  /\ HoistedFrames(frames, DOMAIN build.locals, prog)
  /\ \E A, D, R : Compiles(A, D, R, build, frames, prog)

LEMMA NamedDefined ==
  ASSUME Stacked(frames, build, prog), NEW A, NEW D, NEW R, Compiles(A, D, R, build, frames, prog),
         NEW x \in DOMAIN build.locals \cap Named(prog)
  PROVE  DefinedIn(build.blocks, build.locals[x], A[build.at])
<1>1. DefinedIn(build.blocks, build.locals[x], D[1])
  BY DEF Compiles, Slotted
<1>2. 1 \in DOMAIN frames
  BY DEF Stacked
<1>3. D[1] \subseteq A[build.at]
  BY <1>2 DEF Compiles, Based
<1> QED
  BY <1>1, <1>3, DefinedMore

LEMMA NamedHere ==
  ASSUME CInv, NEW kind, AtStmt(kind), kind \in {"assign", "aug"}
  PROVE  Here.target \in Named(prog) /\ Here.target # ""
<1>1. Here \in Within(prog.body) /\ Here.kind = kind /\ TypedStmt(Here)
  BY HereTyped DEF Emittable
<1> QED
  BY <1>1 DEF Named, Assigned, TypedStmt

\* What holds at every statement.
LEMMA AtPlain ==
  ASSUME CInv, PlainFunction(prog), Infers(prog.body, {"n"}), NEW kind, AtStmt(kind),
         NEW A, NEW D, NEW R, Compiles(A, D, R, build, frames, prog)
  PROVE  /\ Builder(build) /\ Stacked(frames, build, prog) /\ Emittable(build, Here) /\ Here.kind = kind
         /\ Top.i \in DOMAIN Top.body
         /\ ~Terminated(build) /\ Sound(A, build.blocks) /\ Readable(A, build, Here)
         /\ build.at \in DOMAIN build.blocks /\ {build.at} \subseteq A[build.at]
<1>1. Builder(build) /\ Stacked(frames, build, prog) /\ Emittable(build, Here) /\ Here.kind = kind
  BY HereTyped
<1>2. Top.i \in DOMAIN Top.body
  BY DEF AtStmt
<1>3. ~Terminated(build) /\ Readable(A, build, Here)
  BY <1>1, <1>2, HereScoped
<1>4. Sound(A, build.blocks) /\ build.at \in DOMAIN build.blocks
  BY <1>1 DEF Compiles, Builder
<1>5. build.at \in A[build.at]
  BY <1>4 DEF Sound, Dominate
<1> QED
  BY <1>1, <1>2, <1>3, <1>4, <1>5

LEMMA SameSlotsStay ==
  ASSUME NEW A, NEW g, NEW h, h.locals = g.locals, NEW p, NEW N
  PROVE  SlotsStay(A, g, h, p, N)
  BY DEF SlotsStay

LEMMA PlainAssign ==
  ASSUME CInv, PlainFunction(prog), Infers(prog.body, {"n"}), Plainly, AssignStmt
  PROVE  Plainly'
<1>1. AtStmt("assign") /\ Builds(EmitAssign(build, Here), Passed)
  BY DEF AssignStmt
<1>2. PICK A, D, R : Compiles(A, D, R, build, frames, prog)
  BY DEF Plainly
<1>3. /\ Builder(build) /\ Stacked(frames, build, prog) /\ Emittable(build, Here) /\ Here.kind = "assign"
      /\ Top.i \in DOMAIN Top.body
      /\ ~Terminated(build) /\ Sound(A, build.blocks) /\ Readable(A, build, Here)
      /\ build.at \in DOMAIN build.blocks /\ {build.at} \subseteq A[build.at]
  BY <1>1, <1>2, AtPlain
<1>4. PICK h, x, N : h = EmitAssign(build, Here) /\ x = Here.target /\ N = Len(frames)
  OBVIOUS
<1>5. x \in Named(prog) /\ x # ""
  BY <1>1, <1>4, NamedHere
<1>6. x \in DOMAIN build.locals => DefinedIn(build.blocks, build.locals[x], A[build.at])
  BY <1>2, <1>3, <1>5, NamedDefined
<1>7. /\ Worked(A, build, h) /\ ~Terminated(h)
      /\ DOMAIN h.locals = DOMAIN build.locals \cup {x}
      /\ \A y \in DOMAIN build.locals : h.locals[y] = build.locals[y]
      /\ x \notin DOMAIN build.locals => DefinedIn(h.blocks, h.locals[x], {build.at})
  <2>1. PICK s : s = Here
    OBVIOUS
  <2>2. /\ Emittable(build, s) /\ s.kind = "assign" /\ Readable(A, build, s) /\ s.target = x
        /\ h = EmitAssign(build, s)
    BY <1>3, <1>4, <2>1
  <2>3. s.target \in DOMAIN build.locals => DefinedIn(build.blocks, build.locals[s.target], A[build.at])
    BY <1>6, <2>2
  <2>4. PICK g : g = build
    OBVIOUS
  <2>5. Builder(g) /\ ~Terminated(g) /\ Sound(A, g.blocks) /\ Emittable(g, s) /\ Readable(A, g, s)
    BY <1>3, <2>2, <2>4
  <2>6. h = EmitAssign(g, s) /\ (s.target \in DOMAIN g.locals => DefinedIn(g.blocks, g.locals[s.target], A[g.at]))
    BY <2>2, <2>3, <2>4
  <2>7. /\ Worked(A, g, h) /\ ~Terminated(h)
        /\ DOMAIN h.locals = DOMAIN g.locals \cup {s.target}
        /\ \A y \in DOMAIN g.locals : h.locals[y] = g.locals[y]
        /\ s.target \notin DOMAIN g.locals => DefinedIn(h.blocks, h.locals[s.target], {g.at})
    BY <2>2, <2>5, <2>6, AssignWorks
  <2> QED
    BY <2>2, <2>4, <2>7
<1>8. x \notin DOMAIN build.locals => N = 1
  <2>1. \E i \in DOMAIN Top.body : Here = Top.body[i]
    BY <1>3 DEF Here
  <2>2. PICK L : L = DOMAIN build.locals
    OBVIOUS
  <2>3. (Top.kind = "body" => N = 1) /\ (Top.kind # "body" => Bound(Top, L))
    BY <1>1, <1>4, <2>2, AtTop DEF Plainly
  <2>4. Bound(Top, L) => x \in L
    BY <1>3, <1>4, <1>5, <2>1, ChildHeld
  <2> QED
    BY <2>2, <2>3, <2>4
<1>9. SlotsStay(A, build, h, prog, N)
  <2>1. \A y \in DOMAIN build.locals : y \in DOMAIN h.locals /\ h.locals[y] = build.locals[y]
    BY <1>7
  <2>2. ASSUME NEW y \in DOMAIN h.locals \ DOMAIN build.locals
        PROVE  N = 1 /\ DefinedIn(h.blocks, h.locals[y], A[build.at])
    <3>1. y = x
      BY <1>7, <2>2
    <3>2. DefinedIn(h.blocks, h.locals[y], {build.at})
      BY <1>7, <2>2, <3>1
    <3> QED
      BY <1>3, <1>8, <2>2, <3>1, <3>2, DefinedMore
  <2> QED
    BY <2>1, <2>2 DEF SlotsStay
<1>10. Here.target \in DOMAIN h.locals \cap Named(prog)
  BY <1>4, <1>5, <1>7
<1>11. HoistedFrames(frames, DOMAIN build.locals, prog)
  BY DEF Plainly
<1>12. \E D2 : Compiles(A, D2, R, h, Passed, prog) /\ D2[N] = A[build.at]
  BY <1>2, <1>3, <1>4, <1>7, <1>9, <1>10, <1>11, WorkGoesOn
<1>13. HoistedFrames(frames', DOMAIN build'.locals, prog')
  <2>1. DOMAIN build.locals \subseteq DOMAIN h.locals
    BY <1>7
  <2> QED
    BY <1>1, <1>4, <1>10, <1>11, <2>1, HoistedOn
<1> QED
  BY <1>1, <1>4, <1>12, <1>13 DEF Plainly, Builds

\* A statement that only adds to the block.
LEMMA PlainWorks ==
  ASSUME CInv, PlainFunction(prog), Infers(prog.body, {"n"}),
         NEW kind, AtStmt(kind), kind \in {"aug", "break", "continue", "return"}, kind = "return" => ~prog.json,
         HoistedFrames(frames, DOMAIN build.locals, prog),
         NEW A, NEW D, NEW R, Compiles(A, D, R, build, frames, prog),
         NEW h, Worked(A, build, h), h.locals = build.locals, Terminated(h) => kind # "aug", Builds(h, Passed)
  PROVE  Plainly'
<1>1. PICK N : N = Len(frames)
  OBVIOUS
<1>2. /\ Builder(build) /\ Stacked(frames, build, prog) /\ Emittable(build, Here)
      /\ Here.kind = kind /\ Top.i \in DOMAIN Top.body
  BY AtPlain
<1>3. SlotsStay(A, build, h, prog, N)
  BY SameSlotsStay
<1>4. \E D2 : Compiles(A, D2, R, h, Passed, prog) /\ D2[N] = A[build.at]
  BY <1>1, <1>2, <1>3, WorkGoesOn
<1>5. kind = "aug" => Here.target \in DOMAIN h.locals
  <2>1. PICK k : k = EmitAugAssign(build, Here)
    OBVIOUS
  <2> QED
    BY <1>2, <2>1, AugAssignBuilds
<1>6. HoistedFrames(frames', DOMAIN build'.locals, prog')
  BY <1>5, HoistedOn
<1> QED
  BY <1>4, <1>6 DEF Plainly, Builds

LEMMA PlainAugAssign ==
  ASSUME CInv, PlainFunction(prog), Infers(prog.body, {"n"}), Plainly, AugAssignStmt
  PROVE  Plainly'
<1>1. AtStmt("aug") /\ Builds(EmitAugAssign(build, Here), Passed)
  BY DEF AugAssignStmt
<1>2. PICK A, D, R : Compiles(A, D, R, build, frames, prog)
  BY DEF Plainly
<1>3. /\ Builder(build) /\ Stacked(frames, build, prog) /\ Emittable(build, Here) /\ Here.kind = "aug"
      /\ ~Terminated(build) /\ Sound(A, build.blocks) /\ Readable(A, build, Here)
  BY <1>1, <1>2, AtPlain
<1>4. PICK h, x : h = EmitAugAssign(build, Here) /\ x = Here.target
  OBVIOUS
<1>5. x \in Named(prog) /\ x \in DOMAIN build.locals
  BY <1>1, <1>3, <1>4, NamedHere, AugAssignBuilds
<1>6. DefinedIn(build.blocks, build.locals[x], A[build.at])
  BY <1>2, <1>3, <1>5, NamedDefined
<1>7. Worked(A, build, h) /\ ~Terminated(h) /\ h.locals = build.locals
  BY <1>3, <1>4, <1>6, AugAssignWorks
<1> QED
  BY <1>1, <1>2, <1>4, <1>7, PlainWorks DEF Plainly

\* The blocks a frame knows come after those that come before it.
LEMMA KnownBlocks ==
  ASSUME NEW A, NEW D, NEW g, NEW fs, NEW p, Stacked(fs, g, p), Based(A, D, g, fs),
         NEW i \in DOMAIN fs, fs[i].kind # "body", NEW b \in {fs[i].to, fs[i].exit}
  PROVE  A[b] \subseteq {b} \cup A[g.at]
<1>1. PICK N \in Nat : DOMAIN fs = 1 .. N
  BY DEF Stacked
<1>2. i # 1
  BY DEF Stacked
<1>3. PICK j \in DOMAIN fs : i = j + 1
  <2>1. i - 1 \in DOMAIN fs /\ i = (i - 1) + 1
    BY <1>1, <1>2
  <2> QED
    BY <2>1
<1>4. A[b] \subseteq {b} \cup D[j]
  BY <1>3 DEF Based
<1>5. D[j] \subseteq A[g.at]
  BY <1>3 DEF Based
<1> QED
  BY <1>4, <1>5

LEMMA PlainJump ==
  ASSUME CInv, PlainFunction(prog), Infers(prog.body, {"n"}), Plainly, JumpStmt
  PROVE  Plainly'
<1>1. PICK kind \in {"break", "continue"} :
        AtStmt(kind) /\ LoopsOpen # {} /\ Builds(Build(build, <<Br(JumpTarget(kind))>>), Passed)
  BY DEF JumpStmt
<1>2. PICK A, D, R : Compiles(A, D, R, build, frames, prog)
  BY DEF Plainly
<1>3. /\ Builder(build) /\ Stacked(frames, build, prog)
      /\ ~Terminated(build) /\ Sound(A, build.blocks)
  BY <1>1, <1>2, AtPlain
<1>4. PICK b \in DOMAIN build.blocks : b = JumpTarget(kind)
  BY <1>1, <1>3, InnermostLoop
<1>5. PICK i \in LoopsOpen : CurrentLoop = frames[i]
  BY <1>1, <1>3, InnermostLoop
<1>6. b \in {frames[i].to, frames[i].exit} /\ i \in DOMAIN frames /\ frames[i].kind # "body"
  BY <1>4, <1>5 DEF JumpTarget, LoopsOpen
<1>7. A[b] \subseteq {b} \cup A[build.at]
  BY <1>2, <1>3, <1>6, KnownBlocks DEF Compiles
<1>8. PICK h : h = Build(build, <<Br(b)>>)
  OBVIOUS
<1>9. Extends(build, <<Br(b)>>, h) /\ h.locals = build.locals
  BY <1>3, <1>8, JumpBuilds
<1>10. Worked(A, build, h)
  BY <1>3, <1>7, <1>9, BrWorks
<1>11. Builds(h, Passed)
  BY <1>1, <1>4, <1>8
<1>12. kind # "aug" /\ kind # "return" /\ kind \in {"aug", "break", "continue", "return"}
  OBVIOUS
<1> QED
  BY <1>1, <1>2, <1>9, <1>10, <1>11, <1>12, PlainWorks DEF Plainly

LEMMA PlainReturn ==
  ASSUME CInv, PlainFunction(prog), Infers(prog.body, {"n"}), Plainly, ReturnStmt
  PROVE  Plainly'
<1>1. AtStmt("return") /\ ~prog.json /\ Builds(Build(build, <<Ret(Emitted(build, Here.args[1]))>>), Passed)
  BY DEF ReturnStmt
<1>2. PICK A, D, R : Compiles(A, D, R, build, frames, prog)
  BY DEF Plainly
<1>3. /\ Builder(build) /\ Stacked(frames, build, prog) /\ Emittable(build, Here) /\ Here.kind = "return"
      /\ ~Terminated(build) /\ Sound(A, build.blocks) /\ Readable(A, build, Here)
  BY <1>1, <1>2, AtPlain
<1>4. PICK e \in Exprs(build) : e = Emitted(build, Here.args[1])
  BY <1>3, FirstArg
<1>5. Reads(build, e, A[build.at])
  BY <1>3, <1>4, HasArgument, EmittedReads
<1>6. PICK h : h = Build(build, <<Ret(e)>>)
  OBVIOUS
<1>7. Extends(build, <<Ret(e)>>, h) /\ h.locals = build.locals
  BY <1>3, <1>6, JumpBuilds
<1>8. Worked(A, build, h)
  BY <1>3, <1>5, <1>7, RetWorks
<1>9. Builds(h, Passed)
  BY <1>1, <1>4, <1>6
<1> QED
  BY <1>1, <1>2, <1>7, <1>8, <1>9, PlainWorks DEF Plainly

-----------------------------------------------------------------------------
(* A block is entered                                                      *)

\* The frames t are fs with f above them.
Pushed(fs, t, f, N) ==
  /\ N \in Nat \ {0} /\ DOMAIN fs = 1 .. N /\ DOMAIN t = 1 .. N + 1
  /\ t[N + 1] = f /\ \A i \in 1 .. N : t[i] = fs[i]

LEMMA AppendPushes ==
  ASSUME NEW g, NEW p, NEW fs, Stacked(fs, g, p), NEW f, NEW N, N = Len(fs)
  PROVE  Pushed(fs, Append(fs, f), f, N)
<1>1. PICK t : t = Append(fs, f)
  OBVIOUS
<1>2. Pushed(fs, t, f, N)
  BY <1>1, PushedAt DEF Pushed
<1> QED
  BY <1>1, <1>2

LEMMA PushedDomain ==
  ASSUME NEW fs, NEW t, NEW f, NEW N, Pushed(fs, t, f, N)
  PROVE  /\ N \in Nat /\ N + 1 \in Nat /\ N \in DOMAIN fs
         /\ \A i \in DOMAIN fs : i \in Nat /\ i <= N /\ i # N + 1 /\ i \in DOMAIN t /\ t[i] = fs[i]
         /\ \A i \in DOMAIN t : (i \in DOMAIN fs /\ t[i] = fs[i]) \/ (i = N + 1 /\ t[i] = f)
         /\ \A i \in DOMAIN t : ~(N + 1 < i) /\ (N + 1 <= i => i = N + 1)
         /\ \A i \in DOMAIN fs : N + 1 = i + 1 => i = N
         /\ \A i, j \in DOMAIN t : i < j => i \in DOMAIN fs
         /\ 1 \in DOMAIN fs
  BY DEF Pushed

LEMMA SitedIn ==
  ASSUME NEW R, NEW fs, NEW p, Sited(R, fs, p), NEW t, NEW f, NEW N, Pushed(fs, t, f, N),
         NEW R2, NEW S, Replaced(R, N + 1, S, R2), Entered(S, f, p),
         InScope(R, fs, N) \subseteq S,
         (\A j \in DOMAIN fs : ~IsLoop(fs[j])) /\ ~IsLoop(f) =>
           f.body \in Seq(InThisLoop(p.body)) /\ f.orelse \in Seq(InThisLoop(p.body))
  PROVE  Sited(R2, t, p)
<1>1. /\ N \in Nat /\ N + 1 \in Nat /\ N \in DOMAIN fs /\ 1 \in DOMAIN fs
      /\ \A i \in DOMAIN fs : i \in Nat /\ i <= N /\ i # N + 1 /\ i \in DOMAIN t /\ t[i] = fs[i]
      /\ \A i \in DOMAIN t : (i \in DOMAIN fs /\ t[i] = fs[i]) \/ (i = N + 1 /\ t[i] = f)
      /\ \A i, j \in DOMAIN t : i < j => i \in DOMAIN fs
  BY PushedDomain
<1>2. R2[N + 1] = S /\ \A i \in DOMAIN fs : R2[i] = R[i]
  BY <1>1 DEF Replaced
<1>3. \A i \in DOMAIN fs : InScope(R2, t, i) = InScope(R, fs, i)
  BY <1>1, <1>2 DEF InScope
<1>4. \A i \in DOMAIN t : Entered(R2[i], t[i], p)
  BY <1>1, <1>2 DEF Sited
<1>5. ASSUME NEW i \in DOMAIN t, NEW j \in DOMAIN t, i < j PROVE InScope(R2, t, i) \subseteq R2[j]
  <2>1. i \in DOMAIN fs /\ InScope(R2, t, i) = InScope(R, fs, i)
    BY <1>1, <1>3, <1>5
  <2>2. CASE j \in DOMAIN fs
    BY <1>2, <1>5, <2>1, <2>2 DEF Sited
  <2>3. CASE j = N + 1
    <3>1. CASE i = N
      BY <1>2, <2>1, <2>3, <3>1
    <3>2. CASE i # N
      <4>1. i < N
        BY <1>1, <2>1, <3>2
      <4>2. InScope(R, fs, i) \subseteq R[N]
        BY <1>1, <2>1, <4>1 DEF Sited
      <4>3. R[N] \subseteq InScope(R, fs, N)
        BY ScopeStarts DEF InScope
      <4> QED
        BY <1>2, <2>1, <2>3, <4>2, <4>3
    <3> QED
      BY <3>1, <3>2
  <2> QED
    BY <1>1, <2>2, <2>3
<1>6. ASSUME NEW i \in DOMAIN t, \A j \in DOMAIN t : j <= i => ~IsLoop(t[j])
      PROVE  t[i].body \in Seq(InThisLoop(p.body)) /\ t[i].orelse \in Seq(InThisLoop(p.body))
  <2>1. CASE i \in DOMAIN fs /\ t[i] = fs[i]
    <3>1. \A j \in DOMAIN fs : j <= i => ~IsLoop(fs[j])
      BY <1>1, <1>6
    <3> QED
      BY <2>1, <3>1 DEF Sited
  <2>2. CASE i = N + 1 /\ t[i] = f
    <3>1. \A j \in DOMAIN fs : j <= i
      BY <1>1, <2>2
    <3>2. \A j \in DOMAIN fs : ~IsLoop(fs[j])
      BY <1>1, <1>6, <3>1
    <3>3. ~IsLoop(f)
      BY <1>1, <1>6, <2>2
    <3> QED
      BY <2>2, <3>2, <3>3
  <2> QED
    BY <1>1, <2>1, <2>2
<1>7. p.json => t[1].i <= Len(p.body)
  BY <1>1 DEF Sited
<1> QED
  BY <1>4, <1>5, <1>6, <1>7 DEF Sited

LEMMA BasedIn ==
  ASSUME NEW A, NEW D, NEW g, NEW fs, Based(A, D, g, fs), NEW t, NEW f, NEW N, Pushed(fs, t, f, N),
         D[N] = A[g.at], NEW D2, Replaced(D, N + 1, A[g.at], D2),
         NEW A2, NEW h, Widened(A, A2, g, h), h.at \in DOMAIN h.blocks \ DOMAIN g.blocks,
         f.to \in DOMAIN h.blocks \ DOMAIN g.blocks, f.exit \in DOMAIN h.blocks \ DOMAIN g.blocks,
         \A i \in DOMAIN fs : fs[i].to \in DOMAIN g.blocks /\ fs[i].exit \in DOMAIN g.blocks
  PROVE  Based(A2, D2, h, t)
<1>1. /\ N \in Nat /\ N + 1 \in Nat /\ N \in DOMAIN fs
      /\ \A i \in DOMAIN fs : i \in Nat /\ i <= N /\ i # N + 1 /\ i \in DOMAIN t /\ t[i] = fs[i]
      /\ \A i \in DOMAIN t : (i \in DOMAIN fs /\ t[i] = fs[i]) \/ (i = N + 1 /\ t[i] = f)
      /\ \A i \in DOMAIN t : ~(N + 1 < i) /\ (N + 1 <= i => i = N + 1)
      /\ \A i, j \in DOMAIN t : i < j => i \in DOMAIN fs
      /\ \A i \in DOMAIN fs : N + 1 = i + 1 => i = N
  BY PushedDomain
<1>2. D2[N + 1] = A[g.at] /\ \A i \in DOMAIN fs : D2[i] = D[i]
  BY <1>1 DEF Replaced
<1>3. \A i \in DOMAIN t : D2[i] \subseteq A[g.at]
  BY <1>1, <1>2 DEF Based
<1>4. /\ A2[h.at] = {h.at} \cup A[g.at] /\ A2[f.to] = {f.to} \cup A[g.at] /\ A2[f.exit] = {f.exit} \cup A[g.at]
      /\ \A b \in DOMAIN g.blocks : A2[b] = A[b]
  BY DEF Widened
<1>5. \A i \in DOMAIN t : D2[i] \subseteq A2[h.at]
  BY <1>3, <1>4
<1>6. ASSUME NEW i \in DOMAIN t, NEW j \in DOMAIN t, i <= j PROVE D2[i] \subseteq D2[j]
  <2>1. CASE j \in DOMAIN fs
    <3>1. i \in DOMAIN fs
      BY <1>1, <1>6, <2>1
    <3> QED
      BY <1>2, <1>6, <2>1, <3>1 DEF Based
  <2>2. CASE j = N + 1
    BY <1>2, <1>3, <2>2
  <2> QED
    BY <1>1, <2>1, <2>2
<1>7. ASSUME NEW i \in DOMAIN t, NEW j \in DOMAIN t, j = i + 1
      PROVE  /\ D2[i] \subseteq A2[t[j].to] /\ A2[t[j].to] \subseteq {t[j].to} \cup D2[i]
             /\ D2[i] \subseteq A2[t[j].exit] /\ A2[t[j].exit] \subseteq {t[j].exit} \cup D2[i]
  <2>1. i \in DOMAIN fs
    BY <1>1, <1>7
  <2>2. CASE j \in DOMAIN fs /\ t[j] = fs[j]
    <3>1. A2[fs[j].to] = A[fs[j].to] /\ A2[fs[j].exit] = A[fs[j].exit]
      BY <1>4, <2>2
    <3>2. /\ D[i] \subseteq A[fs[j].to] /\ A[fs[j].to] \subseteq {fs[j].to} \cup D[i]
          /\ D[i] \subseteq A[fs[j].exit] /\ A[fs[j].exit] \subseteq {fs[j].exit} \cup D[i]
      BY <1>7, <2>1, <2>2 DEF Based
    <3> QED
      BY <1>2, <2>1, <2>2, <3>1, <3>2
  <2>3. CASE j = N + 1 /\ t[j] = f
    <3>1. i = N
      BY <1>1, <1>7, <2>1, <2>3
    <3>2. D2[i] = A[g.at]
      BY <1>2, <2>1, <3>1
    <3> QED
      BY <1>4, <2>3, <3>2
  <2> QED
    BY <1>1, <2>2, <2>3
<1> QED
  BY <1>5, <1>6, <1>7 DEF Based

LEMMA SlottedIn ==
  ASSUME NEW A, NEW D, NEW R, NEW g, NEW fs, NEW p, Slotted(D, R, g, fs, p),
         NEW t, NEW f, NEW N, Pushed(fs, t, f, N), f.i = 1,
         D[N] = A[g.at], NEW D2, Replaced(D, N + 1, A[g.at], D2), NEW S, NEW R2, Replaced(R, N + 1, S, R2),
         NEW h, Keeps(g, h),
         \A x \in DOMAIN h.locals \cap Named(p) : x \in DOMAIN g.locals /\ h.locals[x] = g.locals[x],
         \A i \in DOMAIN fs : \A y \in InScope(R, fs, i) :
           y \in DOMAIN g.locals => y \in DOMAIN h.locals /\ h.locals[y] = g.locals[y],
         Known(A[g.at], S, h, f, p),
         f.kind = "for" => DefinedIn(h.blocks, f.cell, A[g.at]) /\ DefinedIn(h.blocks, f.cell - 1, A[g.at])
  PROVE  Slotted(D2, R2, h, t, p)
<1>1. /\ N \in Nat /\ N + 1 \in Nat /\ N \in DOMAIN fs /\ 1 \in DOMAIN fs
      /\ \A i \in DOMAIN fs : i \in Nat /\ i <= N /\ i # N + 1 /\ i \in DOMAIN t /\ t[i] = fs[i]
      /\ \A i \in DOMAIN t : (i \in DOMAIN fs /\ t[i] = fs[i]) \/ (i = N + 1 /\ t[i] = f)
      /\ \A i, j \in DOMAIN t : i < j => i \in DOMAIN fs
      /\ \A i \in DOMAIN fs : N + 1 = i + 1 => i = N
  BY PushedDomain
<1>2. /\ D2[N + 1] = A[g.at] /\ \A i \in DOMAIN fs : D2[i] = D[i]
      /\ R2[N + 1] = S /\ \A i \in DOMAIN fs : R2[i] = R[i]
  BY <1>1 DEF Replaced
<1>3. \A i \in DOMAIN fs : InScope(R2, t, i) = InScope(R, fs, i)
  BY <1>1, <1>2 DEF InScope
<1>4. ASSUME NEW i \in DOMAIN fs PROVE \A y \in R[i] : y \in InScope(R, fs, i)
  BY ScopeStarts DEF InScope
<1>5. ASSUME NEW x \in DOMAIN h.locals \cap Named(p) PROVE DefinedIn(h.blocks, h.locals[x], D2[1])
  <2>1. h.locals[x] = g.locals[x] /\ DefinedIn(g.blocks, g.locals[x], D[1])
    BY <1>5 DEF Slotted
  <2>2. DefinedIn(h.blocks, h.locals[x], D[1])
    BY <2>1 DEF Keeps
  <2> QED
    BY <1>1, <1>2, <2>2
<1>6. ASSUME NEW i \in DOMAIN t PROVE Known(D2[i], InScope(R2, t, i), h, t[i], p)
  <2>1. CASE i \in DOMAIN fs /\ t[i] = fs[i]
    <3>1. Known(D[i], InScope(R, fs, i), g, fs[i], p)
      BY <2>1 DEF Slotted
    <3>2. Known(D[i], InScope(R, fs, i), h, fs[i], p)
      BY <2>1, <3>1, KnownKept
    <3> QED
      BY <1>2, <1>3, <2>1, <3>2
  <2>2. CASE i = N + 1 /\ t[i] = f
    <3>1. InScope(R2, t, i) = S
      BY <1>2, <2>2, ScopeStarts DEF InScope
    <3> QED
      BY <1>2, <2>2, <3>1
  <2> QED
    BY <1>1, <2>1, <2>2
<1>7. ASSUME NEW i \in DOMAIN t, NEW j \in DOMAIN t, j = i + 1
      PROVE  /\ t[j].kind = "then" => Known(D2[i], R2[j], h, t[j], p)
             /\ t[j].kind = "for" => /\ DefinedIn(h.blocks, t[j].cell, D2[i])
                                     /\ DefinedIn(h.blocks, t[j].cell - 1, D2[i])
  <2>1. i \in DOMAIN fs
    BY <1>1, <1>7
  <2>2. CASE j \in DOMAIN fs /\ t[j] = fs[j]
    <3>1. ASSUME fs[j].kind = "then" PROVE Known(D[i], R[j], h, fs[j], p)
      <4>1. Known(D[i], R[j], g, fs[j], p)
        BY <1>7, <2>1, <2>2, <3>1 DEF Slotted
      <4>2. \A y \in R[j] : y \in DOMAIN g.locals => y \in DOMAIN h.locals /\ h.locals[y] = g.locals[y]
        BY <1>4, <2>2
      <4> QED
        BY <4>1, <4>2, KnownKept
    <3>2. ASSUME fs[j].kind = "for"
          PROVE  DefinedIn(h.blocks, fs[j].cell, D[i]) /\ DefinedIn(h.blocks, fs[j].cell - 1, D[i])
      <4>1. PICK c : c = fs[j].cell
        OBVIOUS
      <4>2. DefinedIn(g.blocks, c, D[i]) /\ DefinedIn(g.blocks, c - 1, D[i])
        BY <1>7, <2>1, <2>2, <3>2, <4>1 DEF Slotted
      <4> QED
        BY <4>1, <4>2 DEF Keeps
    <3> QED
      BY <1>2, <2>1, <2>2, <3>1, <3>2
  <2>3. CASE j = N + 1 /\ t[j] = f
    <3>1. i = N
      BY <1>1, <1>7, <2>1, <2>3
    <3>2. D2[i] = A[g.at] /\ R2[j] = S
      BY <1>2, <2>1, <2>3, <3>1
    <3> QED
      BY <2>3, <3>2
  <2> QED
    BY <1>1, <2>2, <2>3
<1> QED
  BY <1>5, <1>6, <1>7 DEF Slotted

\* In h, blocks for f were opened.
HasBlocksFor(g, h, f) ==
  LET new == DOMAIN h.blocks \ DOMAIN g.blocks
  IN  /\ g.at \in DOMAIN g.blocks /\ DOMAIN g.blocks \subseteq DOMAIN h.blocks
      /\ \A b \in DOMAIN g.blocks : b # g.at => h.blocks[b] = g.blocks[b]
      /\ new = {h.at, f.to, f.exit} /\ f.kind \in {"then", "while", "for"}
      /\ \A b \in Fresh(f) : b # h.at /\ h.blocks[b] = <<>>
      /\ f.kind = "then" => f.to # f.exit

LEMMA OpenedHasBlocks ==
  ASSUME NEW g, NEW h, NEW f, Opened(g, h, f)
  PROVE  HasBlocksFor(g, h, f)
BY DEF Opened, HasBlocksFor

LEMMA ClosedIn ==
  ASSUME NEW g, NEW fs, Closed(g, fs), NEW t, NEW f, NEW N, Pushed(fs, t, f, N),
         NEW h, HasBlocksFor(g, h, f), Ended(h.blocks[g.at]), ~Terminated(h),
         IsLoop(f) => Ended(h.blocks[f.to])
  PROVE  Closed(h, t)
<1>1. /\ \A i \in DOMAIN fs : i \in DOMAIN t /\ t[i] = fs[i]
      /\ \A i \in DOMAIN t : (i \in DOMAIN fs /\ t[i] = fs[i]) \/ (i = N + 1 /\ t[i] = f)
      /\ N + 1 \in DOMAIN t /\ t[N + 1] = f
  BY PushedDomain DEF Pushed
<1>2. PICK new : new = DOMAIN h.blocks \ DOMAIN g.blocks
  OBVIOUS
<1>3. /\ g.at \in DOMAIN g.blocks /\ DOMAIN g.blocks \subseteq DOMAIN h.blocks
      /\ \A b \in DOMAIN g.blocks : b # g.at => h.blocks[b] = g.blocks[b]
      /\ new = {h.at, f.to, f.exit} /\ f.kind \in {"then", "while", "for"}
      /\ \A b \in Fresh(f) : b # h.at /\ h.blocks[b] = <<>>
      /\ f.kind = "then" => f.to # f.exit
  BY <1>2 DEF HasBlocksFor
<1>4. /\ f.exit \in Fresh(f) /\ Fresh(f) \subseteq {f.to, f.exit}
      /\ ~IsLoop(f) => f.to \in Fresh(f)
  BY <1>3 DEF Fresh
<1>5. \A b \in DOMAIN h.blocks : b = h.at \/ Ended(h.blocks[b]) \/ \E i \in DOMAIN t : b \in Fresh(t[i])
  <2> SUFFICES ASSUME NEW b \in DOMAIN h.blocks, b # h.at, ~ Ended(h.blocks[b])
      PROVE  \E i \in DOMAIN t : b \in Fresh(t[i])
    OBVIOUS
  <2>1. CASE b \in DOMAIN g.blocks
    <3>1. b # g.at /\ ~ Ended(g.blocks[b])
      BY <1>3, <2>1
    <3>2. PICK i \in DOMAIN fs : b \in Fresh(fs[i])
      BY <2>1, <3>1 DEF Closed
    <3> QED
      BY <1>1, <3>2
  <2>2. CASE b \notin DOMAIN g.blocks
    <3>1. b \in {f.to, f.exit}
      BY <1>2, <1>3, <2>2
    <3>2. b \in Fresh(f)
      BY <1>4, <3>1
    <3> QED
      BY <1>1, <3>2
  <2> QED
    BY <2>1, <2>2
<1>6. \A i \in DOMAIN fs : \A b \in Fresh(fs[i]) : b \in DOMAIN g.blocks /\ h.blocks[b] = <<>>
  BY <1>3 DEF Closed
<1>7. \A b \in Fresh(f) : b \in new /\ b # h.at /\ h.blocks[b] = <<>>
  BY <1>3, <1>4
<1>8. ASSUME NEW i \in DOMAIN t, NEW b \in Fresh(t[i]) PROVE b \in DOMAIN h.blocks \ {h.at} /\ h.blocks[b] = <<>>
  <2>1. CASE i \in DOMAIN fs /\ t[i] = fs[i]
    BY <1>2, <1>3, <1>6, <1>8, <2>1
  <2>2. CASE t[i] = f
    BY <1>2, <1>7, <1>8, <2>2
  <2> QED
    BY <1>1, <2>1, <2>2
<1>9. ASSUME NEW i \in DOMAIN t, NEW j \in DOMAIN t, i # j PROVE Fresh(t[i]) \cap Fresh(t[j]) = {}
  <2>1. \A k \in DOMAIN fs : Fresh(fs[k]) \cap Fresh(f) = {}
    BY <1>2, <1>6, <1>7
  <2> QED
    BY <1>1, <1>9, <2>1 DEF Closed
<1>10. \A i \in DOMAIN t : /\ t[i].kind = "then" => t[i].to # t[i].exit
                           /\ t[i].kind = "else" => t[i].to = t[i].exit
  BY <1>1, <1>3 DEF Closed
<1> QED
  BY <1>5, <1>8, <1>9, <1>10 DEF Closed

\* The frame of the blocks of statement s.
EntryFrame(f, s) ==
  /\ f.body = s.body /\ f.i = 1
  /\ IF s.kind = "if" THEN f.kind = "then" /\ f.orelse = s.orelse ELSE f.kind = s.kind /\ f.orelse = <<>>

LEMMA ChildEntered ==
  ASSUME NEW f, NEW s, \E i \in DOMAIN f.body : s = f.body[i], NEW u, EntryFrame(u, s)
  PROVE  /\ \A x : NoFor(f, x) => NoFor(u, x) /\ (s.kind = "for" => s.target # x)
         /\ NoReturn(f) => NoReturn(u) /\ s.kind # "return"
<1>1. ASSUME NEW W, HasBlocks(W, f) PROVE HasBlocks(W, u) /\ s \in W
  <2>1. f.body \in Seq(W) /\ \A t \in W : t.body \in Seq(W) /\ t.orelse \in Seq(W)
    BY <1>1 DEF HasBlocks, Encloses
  <2>2. s \in W
    BY <2>1
  <2>3. u.body \in Seq(W) /\ s.orelse \in Seq(W)
    BY <2>1, <2>2 DEF EntryFrame
  <2>4. u.orelse = s.orelse \/ u.orelse = <<>>
    BY DEF EntryFrame
  <2>5. u.orelse \in Seq(W)
    BY <2>3, <2>4, EmptyBlock
  <2> QED
    BY <2>1, <2>2, <2>3, <2>5 DEF HasBlocks, Encloses
<1>2. \A x : NoFor(f, x) => NoFor(u, x) /\ (s.kind = "for" => s.target # x)
  BY <1>1 DEF NoFor
<1>3. NoReturn(f) => NoReturn(u) /\ s.kind # "return"
  BY <1>1 DEF NoReturn
<1> QED
  BY <1>2, <1>3

\* The blocks of a statement hold no more than its own.
LEMMA BlocksWithin ==
  ASSUME NEW p \in Programs, NEW s \in Within(p.body), NEW u, EntryFrame(u, s)
  PROVE  /\ (\A t \in Within(s.body) \cup Within(s.orelse) : t.kind # "return") => NoReturn(u)
         /\ s.kind = "for" => \A x : (\A t \in Within(s.body) : t.kind = "for" => t.target # x) => NoFor(u, x)
<1>1. Encloses(Within(s.body), s.body) /\ Encloses(Within(s.orelse), s.orelse)
  BY ProgramsAssumption
<1>2. PICK V, W : V = Within(s.body) /\ W = Within(s.body) \cup Within(s.orelse)
  OBVIOUS
<1>3. V \subseteq W /\ Within(s.orelse) \subseteq W
  BY <1>2
<1>4. /\ s.body \in Seq(V) /\ \A t \in V : t.body \in Seq(V) /\ t.orelse \in Seq(V)
      /\ s.orelse \in Seq(Within(s.orelse))
      /\ \A t \in Within(s.orelse) : t.body \in Seq(Within(s.orelse)) /\ t.orelse \in Seq(Within(s.orelse))
  BY <1>1, <1>2 DEF Encloses
<1>5. Encloses(W, s.body) /\ Encloses(W, s.orelse)
  <2>1. s.body \in Seq(W) /\ s.orelse \in Seq(W)
    BY <1>3, <1>4, SeqGrows
  <2>2. \A t \in V : t.body \in Seq(W) /\ t.orelse \in Seq(W)
    BY <1>3, <1>4, SeqGrows
  <2>3. \A t \in Within(s.orelse) : t.body \in Seq(W) /\ t.orelse \in Seq(W)
    BY <1>3, <1>4, SeqGrows
  <2> QED
    BY <1>2, <2>1, <2>2, <2>3 DEF Encloses
<1>6. HasBlocks(W, u)
  <2>1. u.orelse = s.orelse \/ u.orelse = <<>>
    BY DEF EntryFrame
  <2>2. u.orelse \in Seq(W) /\ u.body = s.body
    BY <1>5, <2>1, EmptyBlock DEF EntryFrame, Encloses
  <2> QED
    BY <1>5, <2>2 DEF HasBlocks, Encloses
<1>7. s.kind = "for" => HasBlocks(V, u)
  <2>1. s.kind = "for" => u.orelse = <<>> /\ u.body = s.body
    BY DEF EntryFrame
  <2>2. s.kind = "for" => u.orelse \in Seq(V)
    BY <2>1, EmptyBlock
  <2> QED
    BY <1>4, <2>1, <2>2 DEF HasBlocks, Encloses
<1>8. (\A t \in W : t.kind # "return") => NoReturn(u)
  BY <1>6 DEF NoReturn
<1>9. s.kind = "for" => \A x : (\A t \in V : t.kind = "for" => t.target # x) => NoFor(u, x)
  BY <1>7 DEF NoFor
<1> QED
  BY <1>2, <1>8, <1>9

\* A loop variable is not in scope yet, and has no other slot.
LEMMA ForHere ==
  ASSUME CInv, PlainFunction(prog), Infers(prog.body, {"n"}), AtStmt("for"),
         NEW A, NEW D, NEW R, Compiles(A, D, R, build, frames, prog), NEW N, N = Len(frames)
  PROVE  /\ Here.target \notin Named(prog) /\ Here.target \notin InScope(R, frames, N)
         /\ \A s \in Within(Here.body) : s.kind = "for" => s.target # Here.target
<1>1. /\ Stacked(frames, build, prog) /\ Here.kind = "for" /\ Top.i \in DOMAIN Top.body
      /\ Here \in Within(prog.body)
  BY AtPlain, HereTyped
<1>2. Here \in Loops(prog.body)
  BY <1>1 DEF Loops
<1>3. Here.target \in Targets(prog.body)
  BY <1>2 DEF Targets
<1>4. OwnTargets(prog.body)
  BY DEF PlainFunction
<1>5. Here.target \notin Named(prog)
  BY <1>3, <1>4 DEF OwnTargets, Named
<1>6. Here.target \notin Targets(Here.body)
  BY <1>2, <1>4 DEF OwnTargets
<1>7. \A s \in Within(Here.body) : s.kind = "for" => s.target # Here.target
  BY <1>6 DEF Targets, Loops
<1>8. ASSUME Here.target \in InScope(R, frames, N) PROVE FALSE
  <2>1. Known(D[N], InScope(R, frames, N), build, Top, prog)
    BY <1>1, HereScoped
  <2>2. NoFor(Top, Here.target)
    BY <1>5, <1>8, <2>1 DEF Known
  <2>3. PICK W : HasBlocks(W, Top) /\ \A s \in W : s.kind = "for" => s.target # Here.target
    BY <2>2 DEF NoFor
  <2>4. Top.body \in Seq(W)
    BY <2>3 DEF HasBlocks, Encloses
  <2>5. Here \in W
    BY <1>1, <2>4 DEF Here
  <2> QED
    BY <1>1, <2>3, <2>5
<1> QED
  BY <1>5, <1>7, <1>8

LEMMA NestedScopes ==
  ASSUME NEW p \in Programs
  PROVE  /\ p.body \in Seq(InThisLoop(p.body))
         /\ \A s \in InThisLoop(p.body) : s.kind = "if" =>
              s.body \in Seq(InThisLoop(p.body)) /\ s.orelse \in Seq(InThisLoop(p.body))
         /\ Scoped(p.body, {"n"}) \subseteq Scopes(p)
         /\ \A s, S : <<s, S>> \in Scopes(p) =>
              Scoped(s.body, BodyScope(s, S)) \subseteq Scopes(p) /\ Scoped(s.orelse, S) \subseteq Scopes(p)
<1>1. /\ p.body \in Seq(InThisLoop(p.body))
      /\ \A s \in InThisLoop(p.body) : s.kind = "if" =>
           s.body \in Seq(InThisLoop(p.body)) /\ s.orelse \in Seq(InThisLoop(p.body))
  BY NestingSuffices
<1>2. /\ Scoped(p.body, {"n"}) \subseteq Scopes(p)
      /\ \A t \in Scopes(p) : /\ Scoped(t[1].body, BodyScope(t[1], t[2])) \subseteq Scopes(p)
                              /\ Scoped(t[1].orelse, t[2]) \subseteq Scopes(p)
  BY NestingSuffices DEF Scopes
<1>3. ASSUME NEW s, NEW S, <<s, S>> \in Scopes(p)
      PROVE  Scoped(s.body, BodyScope(s, S)) \subseteq Scopes(p) /\ Scoped(s.orelse, S) \subseteq Scopes(p)
  <2>1. PICK t \in Scopes(p) : t = <<s, S>>
    BY <1>3
  <2>2. t[1] = s /\ t[2] = S
    BY <2>1
  <2> QED
    BY <1>2, <2>1, <2>2
<1> QED
  BY <1>1, <1>2, <1>3

LEMMA LiveBlocks ==
  ASSUME NEW p, NoDeadCode(p.body), NEW s \in Within(p.body), NEW u, EntryFrame(u, s)
  PROVE  Live(u.body) /\ Live(u.orelse)
<1>1. Live(s.body) /\ Live(s.orelse)
  BY DEF NoDeadCode, Live
<1>2. Live(<<>>)
  <2>1. Len(<<>>) = 0
    OBVIOUS
  <2>2. 1 .. (Len(<<>>) - 1) = {}
    BY <2>1
  <2> QED
    BY <2>2 DEF Live
<1>3. u.body = s.body /\ (u.orelse = s.orelse \/ u.orelse = <<>>)
  BY DEF EntryFrame
<1> QED
  BY <1>1, <1>2, <1>3

\* A frame for the blocks of the statement the emitters are at.
LEMMA EnteredHere ==
  ASSUME CInv, PlainFunction(prog), Infers(prog.body, {"n"}),
         NEW kind, AtStmt(kind), kind \in {"if", "while", "for"},
         HoistedFrames(frames, DOMAIN build.locals, prog),
         NEW A, NEW D, NEW R, Compiles(A, D, R, build, frames, prog), NEW N, N = Len(frames),
         NEW f, EntryFrame(f, Here), NEW S, S = BodyScope(Here, InScope(R, frames, N))
  PROVE  /\ Entered(S, f, prog) /\ InScope(R, frames, N) \subseteq S
         /\ (\A j \in DOMAIN frames : ~IsLoop(frames[j])) /\ ~IsLoop(f) =>
              f.body \in Seq(InThisLoop(prog.body)) /\ f.orelse \in Seq(InThisLoop(prog.body))
<1>1. /\ Stacked(frames, build, prog) /\ Here.kind = kind /\ Top.i \in DOMAIN Top.body
      /\ Here \in Within(prog.body) /\ prog \in Programs
  BY AtPlain, HereTyped DEF CInv
<1>2. PICK s, I : s = Here /\ I = InScope(R, frames, N)
  OBVIOUS
<1>3. <<s, I>> \in Scopes(prog)
  BY <1>1, <1>2, HereScoped
<1>4. Scoped(s.body, S) \subseteq Scopes(prog) /\ Scoped(s.orelse, I) \subseteq Scopes(prog)
  BY <1>1, <1>2, <1>3, NestedScopes
<1>5. I \subseteq S /\ (s.kind # "for" => S = I)
  BY <1>2 DEF BodyScope
<1>6. f.body = s.body /\ (f.kind = "then" => s.kind # "for" /\ f.orelse = s.orelse)
  BY <1>1, <1>2 DEF EntryFrame
<1>7. Scoped(f.body, S) \subseteq Scopes(prog) /\ (f.kind = "then" => Scoped(f.orelse, S) \subseteq Scopes(prog))
  BY <1>4, <1>5, <1>6
<1>8. Live(f.body) /\ Live(f.orelse)
  <2>1. NoDeadCode(prog.body) /\ s \in Within(prog.body) /\ EntryFrame(f, s)
    BY <1>1, <1>2 DEF PlainFunction
  <2> QED
    BY <2>1, LiveBlocks
<1>9. Top = frames[N] /\ N \in DOMAIN frames
  BY <1>1, PassedAt
<1>10. ASSUME prog.json PROVE NoReturn(f)
  <2>1. CASE Top.kind = "body"
    <3>1. Here = prog.body[Top.i] /\ Top.i \in DOMAIN prog.body
      BY <2>1, AtTop
    <3>2. \A t \in Within(Here.body) \cup Within(Here.orelse) : t.kind # "return"
      BY <1>10, <3>1 DEF PlainFunction, ReturnsLast
    <3> QED
      BY <1>1, <3>2, BlocksWithin
  <2>2. CASE Top.kind # "body"
    <3>1. Entered(R[N], Top, prog)
      BY <1>9 DEF Compiles, Sited
    <3>2. NoReturn(Top)
      BY <1>10, <2>2, <3>1 DEF Entered
    <3>3. \E i \in DOMAIN Top.body : s = Top.body[i]
      BY <1>1, <1>2 DEF Here
    <3>4. EntryFrame(f, s)
      BY <1>2
    <3> QED
      BY <3>2, <3>3, <3>4, ChildEntered
  <2> QED
    BY <2>1, <2>2
<1>11. Entered(S, f, prog)
  BY <1>7, <1>8, <1>10 DEF Entered
<1>12. ASSUME \A j \in DOMAIN frames : ~IsLoop(frames[j]), ~IsLoop(f)
       PROVE  f.body \in Seq(InThisLoop(prog.body)) /\ f.orelse \in Seq(InThisLoop(prog.body))
  <2>1. Top.body \in Seq(InThisLoop(prog.body))
    BY <1>9, <1>12 DEF Compiles, Sited
  <2>2. s \in InThisLoop(prog.body)
    BY <1>1, <1>2, <2>1, InBlock DEF Here
  <2>3. s.kind = "if"
    BY <1>1, <1>2, <1>12 DEF EntryFrame, IsLoop
  <2>4. f.body = s.body /\ f.orelse = s.orelse
    BY <1>2, <2>3 DEF EntryFrame
  <2> QED
    BY <1>1, <2>2, <2>3, <2>4, NestedScopes
<1> QED
  BY <1>2, <1>5, <1>11, <1>12

\* What the names of its blocks stand for.
LEMMA KnownHere ==
  ASSUME CInv, PlainFunction(prog), Infers(prog.body, {"n"}),
         NEW kind, AtStmt(kind), kind \in {"if", "while", "for"},
         NEW A, NEW D, NEW R, Compiles(A, D, R, build, frames, prog), NEW N, N = Len(frames),
         NEW f, EntryFrame(f, Here), NEW S, S = BodyScope(Here, InScope(R, frames, N)),
         NEW g, g = build, NEW h, Keeps(g, h),
         \A y \in DOMAIN g.locals : (kind = "for" => y # Here.target) =>
           y \in DOMAIN h.locals /\ h.locals[y] = g.locals[y],
         kind = "for" => /\ Here.target \in DOMAIN h.locals
                         /\ DefinedIn(h.blocks, h.locals[Here.target], {g.at})
  PROVE  Known(A[g.at], S, h, f, prog)
<1>1. /\ Stacked(frames, build, prog) /\ Here.kind = kind /\ Top.i \in DOMAIN Top.body
      /\ Here \in Within(prog.body) /\ prog \in Programs /\ {g.at} \subseteq A[g.at]
  BY AtPlain, HereTyped DEF CInv
<1>2. PICK s, I, T : s = Here /\ I = InScope(R, frames, N) /\ T = Top
  OBVIOUS
<1>3. Known(D[N], I, g, T, prog) /\ D[N] \subseteq A[g.at]
  <2>1. N \in DOMAIN frames
    BY <1>1, PassedAt
  <2> QED
    BY <1>1, <1>2, <2>1, HereScoped
<1>4. \E i \in DOMAIN T.body : s = T.body[i]
  BY <1>1, <1>2 DEF Here
<1>5. EntryFrame(f, s)
  BY <1>2
<1>6. kind = "for" => s.target \notin I
  BY <1>1, <1>2, ForHere
<1>7. ASSUME NEW x \in I
      PROVE  /\ x \in DOMAIN h.locals
             /\ x \notin Named(prog) => DefinedIn(h.blocks, h.locals[x], A[g.at]) /\ NoFor(f, x)
  <2>1. x \in DOMAIN g.locals /\ (x \notin Named(prog) => DefinedIn(g.blocks, g.locals[x], D[N]) /\ NoFor(T, x))
    BY <1>3, <1>7 DEF Known
  <2>2. x \in DOMAIN h.locals /\ h.locals[x] = g.locals[x]
    BY <1>2, <1>6, <1>7, <2>1
  <2>3. ASSUME x \notin Named(prog) PROVE DefinedIn(h.blocks, h.locals[x], A[g.at])
    <3>1. DefinedIn(h.blocks, h.locals[x], D[N])
      BY <2>1, <2>2, <2>3 DEF Keeps
    <3> QED
      BY <1>3, <3>1, DefinedMore
  <2>4. ASSUME x \notin Named(prog) PROVE NoFor(f, x)
    BY <1>4, <1>5, <2>1, <2>4, ChildEntered
  <2> QED
    BY <2>2, <2>3, <2>4
<1>8. ASSUME kind = "for"
      PROVE  /\ s.target \in DOMAIN h.locals
             /\ DefinedIn(h.blocks, h.locals[s.target], A[g.at]) /\ NoFor(f, s.target)
  <2>1. s.target \in DOMAIN h.locals /\ DefinedIn(h.blocks, h.locals[s.target], {g.at})
    BY <1>2, <1>8
  <2>2. DefinedIn(h.blocks, h.locals[s.target], A[g.at])
    BY <1>1, <2>1, DefinedMore
  <2>3. \A t \in Within(s.body) : t.kind = "for" => t.target # s.target
    BY <1>2, <1>8, ForHere
  <2>4. s.kind = "for" /\ s \in Within(prog.body)
    BY <1>1, <1>2, <1>8
  <2>5. NoFor(f, s.target)
    BY <1>1, <1>5, <2>3, <2>4, BlocksWithin
  <2> QED
    BY <2>1, <2>2, <2>5
<1>9. S = I \cup (IF s.kind = "for" THEN {s.target} ELSE {})
  BY <1>2 DEF BodyScope
<1>10. \A x \in S : x \in I \/ (kind = "for" /\ x = s.target)
  BY <1>1, <1>2, <1>9
<1> QED
  BY <1>7, <1>8, <1>10 DEF Known

\* The emitters come back to the statement after this one.
LEMMA ComesBack ==
  ASSUME CInv, PlainFunction(prog), Infers(prog.body, {"n"}),
         NEW kind, AtStmt(kind), kind \in {"if", "while", "for"},
         HoistedFrames(frames, DOMAIN build.locals, prog),
         NEW A, NEW D, NEW R, Compiles(A, D, R, build, frames, prog), NEW N, N = Len(frames),
         NEW fs, fs = Passed
  PROVE  /\ \E D2 : Compiles(A, D2, R, build, fs, prog) /\ D2[N] = A[build.at]
         /\ Stepped(frames, fs, N) /\ Len(fs) = N /\ Stacked(fs, build, prog)
         /\ \A i \in DOMAIN fs : InScope(R, fs, i) \subseteq InScope(R, frames, N)
<1>1. /\ Builder(build) /\ Stacked(frames, build, prog) /\ Here.kind = kind /\ Top.i \in DOMAIN Top.body
      /\ ~Terminated(build) /\ Sound(A, build.blocks) /\ build.at \in DOMAIN build.blocks
  BY AtPlain
<1>2. Stepped(frames, fs, N) /\ Top = frames[N] /\ Stacked(fs, build, prog)
  BY <1>1, PassedSteps, StackedPassed
<1>3. Len(fs) = N
  <2>1. fs \in Seq(FrameSet(build, prog)) /\ N \in Nat /\ DOMAIN fs = 1 .. N
    BY <1>2 DEF Stacked, Stepped
  <2>2. PICK M \in Nat : M = Len(fs) /\ DOMAIN fs = 1 .. M
    BY <2>1
  <2>3. 1 .. M = 1 .. N
    BY <2>1, <2>2
  <2>4. M = N
    BY <2>1, <2>2, <2>3
  <2> QED
    BY <2>2, <2>4
<1>4. PICK g : g = build
  OBVIOUS
<1>5. Worked(A, build, g) /\ g.locals = build.locals /\ ~Terminated(g)
  BY <1>1, <1>4, KeepsSame DEF Worked
<1>6. SlotsStay(A, build, g, prog, N)
  BY <1>5, SameSlotsStay
<1>7. \E D2 : Compiles(A, D2, R, g, Passed, prog) /\ D2[N] = A[build.at]
  BY <1>1, <1>5, <1>6, WorkGoesOn
<1>8. ASSUME NEW i \in DOMAIN fs PROVE InScope(R, fs, i) \subseteq InScope(R, frames, N)
  <2>1. i \in DOMAIN frames /\ (i # N => fs[i] = frames[i])
    BY <1>2, <1>8 DEF Stepped
  <2>2. CASE i # N
    <3>1. InScope(R, fs, i) = InScope(R, frames, i)
      BY <2>1, <2>2 DEF InScope
    <3> QED
      BY <1>1, <2>1, <3>1, HereScoped
  <2>3. CASE i = N
    <3>1. PICK b, k, S : b = frames[N].body /\ k = frames[N].i /\ S = R[N]
      OBVIOUS
    <3>2. fs[N].body = b /\ fs[N].i = k + 1 /\ k \in Nat \ {0}
      BY <1>2, <2>3, <3>1 DEF Stepped
    <3>3. InScope(R, fs, i) = ScopeAt(b, S, k + 1) /\ InScope(R, frames, N) = ScopeAt(b, S, k)
      BY <2>3, <3>1, <3>2 DEF InScope
    <3>4. b[k] = Here
      BY <1>2, <3>1 DEF Here
    <3>5. b[k].kind # "assign"
      BY <1>1, <3>4
    <3> QED
      BY <3>2, <3>3, <3>5, ScopeMoves
  <2> QED
    BY <2>2, <2>3
<1> QED
  BY <1>2, <1>3, <1>4, <1>7, <1>8

\* The emitters go on in the blocks of a statement.
LEMMA WorkGoesIn ==
  ASSUME CInv, PlainFunction(prog), Infers(prog.body, {"n"}),
         NEW kind, AtStmt(kind), kind \in {"if", "while", "for"},
         HoistedFrames(frames, DOMAIN build.locals, prog),
         NEW A, NEW D, NEW R, Compiles(A, D, R, build, frames, prog),
         NEW f, EntryFrame(f, Here), NEW A2, NEW g, g = build, NEW h, Branched(A, A2, g, h),
         HasBlocksFor(g, h, f), IsLoop(f) => Ended(h.blocks[f.to]),
         \A y \in DOMAIN g.locals : (kind = "for" => y # Here.target) =>
           y \in DOMAIN h.locals /\ h.locals[y] = g.locals[y],
         \A y \in DOMAIN h.locals : y \in DOMAIN g.locals \/ (kind = "for" /\ y = Here.target),
         kind = "for" => /\ Here.target \in DOMAIN h.locals
                         /\ DefinedIn(h.blocks, h.locals[Here.target], {g.at})
                         /\ DefinedIn(h.blocks, f.cell, {g.at}) /\ DefinedIn(h.blocks, f.cell - 1, {g.at})
  PROVE  \E D2, R2 : Compiles(A2, D2, R2, h, Append(Passed, f), prog)
<1>1. PICK N, fs, t : N = Len(frames) /\ fs = Passed /\ t = Append(fs, f)
  OBVIOUS
<1>2. /\ Here.kind = kind /\ Top.i \in DOMAIN Top.body /\ {g.at} \subseteq A[g.at]
      /\ Stacked(frames, build, prog)
  BY AtPlain
<1>3. /\ Stepped(frames, fs, N) /\ Len(fs) = N /\ Stacked(fs, g, prog)
      /\ \A i \in DOMAIN fs : InScope(R, fs, i) \subseteq InScope(R, frames, N)
  BY <1>1, ComesBack
<1>4. PICK D1 : Compiles(A, D1, R, g, fs, prog) /\ D1[N] = A[g.at]
  <2>1. \E D2 : Compiles(A, D2, R, build, fs, prog) /\ D2[N] = A[build.at]
    BY <1>1, ComesBack
  <2> QED
    BY <2>1
<1>5. Pushed(fs, t, f, N)
  BY <1>1, <1>3, AppendPushes
<1>6. PICK S, X : S = BodyScope(Here, InScope(R, frames, N)) /\ X = A[g.at]
  OBVIOUS
<1>7. N \in Nat /\ N + 1 \in Nat /\ N \in DOMAIN fs
  BY <1>5, PushedDomain
<1>8. PICK R2 : Replaced(R, N + 1, S, R2)
  BY <1>7, Updated
<1>9. PICK D2 : Replaced(D1, N + 1, X, D2)
  BY <1>7, Updated
<1>10. Sited(R2, t, prog)
  <2>1. /\ Entered(S, f, prog) /\ InScope(R, frames, N) \subseteq S
        /\ (\A j \in DOMAIN frames : ~IsLoop(frames[j])) /\ ~IsLoop(f) =>
             f.body \in Seq(InThisLoop(prog.body)) /\ f.orelse \in Seq(InThisLoop(prog.body))
    BY <1>1, <1>6, EnteredHere
  <2>2. InScope(R, fs, N) \subseteq S
    BY <1>3, <1>7, <2>1
  <2>3. DOMAIN frames = DOMAIN fs /\ \A j \in DOMAIN fs : fs[j].kind = frames[j].kind
    BY <1>3 DEF Stepped
  <2>4. (\A j \in DOMAIN fs : ~IsLoop(fs[j])) /\ ~IsLoop(f) =>
          f.body \in Seq(InThisLoop(prog.body)) /\ f.orelse \in Seq(InThisLoop(prog.body))
    BY <2>1, <2>3 DEF IsLoop
  <2>5. Sited(R, fs, prog)
    BY <1>4 DEF Compiles
  <2> QED
    BY <1>5, <1>8, <2>1, <2>2, <2>4, <2>5, SitedIn
<1>11. /\ Sound(A2, h.blocks) /\ Keeps(g, h) /\ Widened(A, A2, g, h)
       /\ DOMAIN g.blocks \subseteq DOMAIN h.blocks /\ h.at \in DOMAIN h.blocks \ DOMAIN g.blocks
       /\ Ended(h.blocks[g.at]) /\ ~Terminated(h)
  BY DEF Branched
<1>12. Based(A2, D2, h, t)
  <2>1. PICK new : new = DOMAIN h.blocks \ DOMAIN g.blocks
    OBVIOUS
  <2>2. new = {h.at, f.to, f.exit}
    BY <2>1 DEF HasBlocksFor
  <2>3. f.to \in DOMAIN h.blocks \ DOMAIN g.blocks /\ f.exit \in DOMAIN h.blocks \ DOMAIN g.blocks
    BY <2>1, <2>2
  <2>4. \A i \in DOMAIN fs : fs[i].to \in DOMAIN g.blocks /\ fs[i].exit \in DOMAIN g.blocks
    <3>1. \A i \in DOMAIN fs : fs[i] \in FrameSet(g, prog)
      BY <1>3 DEF Stacked
    <3> QED
      BY <3>1, FrameFields
  <2>5. Based(A, D1, g, fs)
    BY <1>4 DEF Compiles
  <2>6. Replaced(D1, N + 1, A[g.at], D2)
    BY <1>6, <1>9
  <2> QED
    BY <1>4, <1>5, <1>11, <2>3, <2>4, <2>5, <2>6, BasedIn
<1>13. Slotted(D2, R2, h, t, prog)
  <2>1. kind = "for" => Here.target \notin Named(prog) /\ Here.target \notin InScope(R, frames, N)
    BY <1>1, ForHere
  <2>2. \A x \in DOMAIN h.locals \cap Named(prog) : x \in DOMAIN g.locals /\ h.locals[x] = g.locals[x]
    BY <2>1
  <2>3. \A i \in DOMAIN fs : \A y \in InScope(R, fs, i) :
          y \in DOMAIN g.locals => y \in DOMAIN h.locals /\ h.locals[y] = g.locals[y]
    BY <1>3, <2>1
  <2>4. Known(A[g.at], S, h, f, prog)
    BY <1>1, <1>6, <1>11, KnownHere
  <2>5. f.kind = "for" => kind = "for"
    BY <1>2 DEF EntryFrame
  <2>6. f.kind = "for" => DefinedIn(h.blocks, f.cell, A[g.at]) /\ DefinedIn(h.blocks, f.cell - 1, A[g.at])
    BY <1>2, <2>5, DefinedMore
  <2>7. f.i = 1
    BY DEF EntryFrame
  <2>8. Slotted(D1, R, g, fs, prog)
    BY <1>4 DEF Compiles
  <2>9. Replaced(D1, N + 1, A[g.at], D2)
    BY <1>6, <1>9
  <2> QED
    BY <1>4, <1>5, <1>8, <1>11, <2>2, <2>3, <2>4, <2>6, <2>7, <2>8, <2>9, SlottedIn
<1>14. Closed(h, t)
  BY <1>4, <1>5, <1>11, ClosedIn DEF Compiles
<1>15. Compiles(A2, D2, R2, h, t, prog)
  BY <1>10, <1>11, <1>12, <1>13, <1>14 DEF Compiles
<1> QED
  BY <1>1, <1>15

LEMMA PlainIn ==
  ASSUME CInv, PlainFunction(prog), Infers(prog.body, {"n"}), HoistedFrames(frames, DOMAIN build.locals, prog),
         NEW kind, AtStmt(kind), kind \in {"if", "while", "for"},
         NEW f, EntryFrame(f, Here), NEW h, Builds(h, Append(Passed, f)),
         \A y \in DOMAIN build.locals : y \in DOMAIN h.locals,
         kind = "for" => Here.target \in DOMAIN h.locals,
         NEW A2, NEW D2, NEW R2, Compiles(A2, D2, R2, h, Append(Passed, f), prog)
  PROVE  Plainly'
<1>1. Here.kind = kind
  BY HereTyped
<1>2. f.body = Here.body /\ f.orelse \in {Here.orelse, <<>>} /\ f.kind # "body"
  BY <1>1 DEF EntryFrame
<1>3. Hoisted(prog.body) /\ DOMAIN build.locals \subseteq DOMAIN h.locals
  BY DEF PlainFunction
<1>4. HoistedFrames(frames', DOMAIN build'.locals, prog')
  BY <1>2, <1>3, HoistedIn
<1> QED
  BY <1>4 DEF Plainly, Builds

LEMMA PlainIf ==
  ASSUME CInv, PlainFunction(prog), Infers(prog.body, {"n"}), Plainly, IfStmt
  PROVE  Plainly'
<1>1. AtStmt("if") /\ Builds(EmitIf(build, Here), Append(Passed, ThenFrame(build, Here)))
  BY DEF IfStmt
<1>2. PICK A, D, R : Compiles(A, D, R, build, frames, prog)
  BY DEF Plainly
<1>3. /\ Builder(build) /\ Stacked(frames, build, prog) /\ Emittable(build, Here) /\ Here.kind = "if"
      /\ ~Terminated(build) /\ Sound(A, build.blocks) /\ Readable(A, build, Here)
  BY <1>1, <1>2, AtPlain
<1>4. PICK n, h, g : n = Len(build.blocks) /\ h = EmitIf(build, Here) /\ g = build
  OBVIOUS
<1>5. PICK f : f = ThenFrame(build, Here)
  OBVIOUS
<1>6. /\ f.kind = "then" /\ f.to = n + 3 /\ f.exit = n + 2 /\ f.i = 1
      /\ f.body = Here.body /\ f.orelse = Here.orelse
  BY <1>4, <1>5 DEF ThenFrame, Frame
<1>7. EntryFrame(f, Here)
  BY <1>3, <1>6 DEF EntryFrame
<1>8. HasBlocksFor(g, h, f)
  BY <1>3, <1>4, <1>6, IfOpens, OpenedHasBlocks
<1>9. h.locals = g.locals /\ \E A2 : Branched(A, A2, g, h)
  BY <1>3, <1>4, IfBranches
<1>10. PICK A2 : Branched(A, A2, g, h)
  BY <1>9
<1>11. ~IsLoop(f)
  BY <1>6 DEF IsLoop
<1>12. Builds(h, Append(Passed, f))
  BY <1>1, <1>4, <1>5
<1>13. HoistedFrames(frames, DOMAIN build.locals, prog)
  BY DEF Plainly
<1>14. \E D2, R2 : Compiles(A2, D2, R2, h, Append(Passed, f), prog)
  <2>1. PICK kind : kind = "if"
    OBVIOUS
  <2>2. kind \in {"if", "while", "for"} /\ kind # "for" /\ AtStmt(kind)
    BY <1>1, <2>1
  <2>3. \A y \in DOMAIN g.locals : y \in DOMAIN h.locals /\ h.locals[y] = g.locals[y]
    BY <1>9
  <2>4. \A y \in DOMAIN h.locals : y \in DOMAIN g.locals
    BY <1>9
  <2>5. g = build
    BY <1>4
  <2> QED
    BY <1>2, <1>7, <1>8, <1>10, <1>11, <1>13, <2>2, <2>3, <2>4, <2>5, WorkGoesIn
<1> QED
  BY <1>1, <1>4, <1>7, <1>9, <1>12, <1>13, <1>14, PlainIn

LEMMA PlainWhile ==
  ASSUME CInv, PlainFunction(prog), Infers(prog.body, {"n"}), Plainly, WhileStmt
  PROVE  Plainly'
<1>1. AtStmt("while") /\ Builds(EmitWhile(build, Here), Append(Passed, LoopFrame(build, Here, 0)))
  BY DEF WhileStmt
<1>2. PICK A, D, R : Compiles(A, D, R, build, frames, prog)
  BY DEF Plainly
<1>3. /\ Builder(build) /\ Stacked(frames, build, prog) /\ Emittable(build, Here) /\ Here.kind = "while"
      /\ ~Terminated(build) /\ Sound(A, build.blocks) /\ Readable(A, build, Here)
  BY <1>1, <1>2, AtPlain
<1>4. PICK n, h, e, g : n = Len(build.blocks) /\ h = EmitWhile(build, Here) /\ e = Emitted(build, Here.args[1]) /\ g = build
  OBVIOUS
<1>5. e \in Exprs(g) /\ h = OpenLoop(g, e)
  BY <1>3, <1>4, FirstArg DEF EmitWhile
<1>6. Reads(g, e, A[g.at])
  BY <1>3, <1>4, HasArgument, EmittedReads
<1>7. PICK f : f = LoopFrame(build, Here, 0)
  OBVIOUS
<1>8. f.kind = "while" /\ f.to = n + 1 /\ f.exit = n + 3 /\ f.body = Here.body /\ f.orelse = <<>>
  BY <1>3, <1>4, <1>7, LoopFrameFields
<1>9. f.i = 1
  BY <1>7 DEF LoopFrame, Frame
<1>10. EntryFrame(f, Here)
  BY <1>3, <1>8, <1>9 DEF EntryFrame
<1>11. IsLoop(f)
  BY <1>8 DEF IsLoop
<1>12. HasBlocksFor(g, h, f)
  BY <1>3, <1>4, <1>5, <1>8, <1>11, LoopOpens, OpenedHasBlocks
<1>13. h.locals = g.locals /\ \E A2 : Branched(A, A2, g, h) /\ Ended(h.blocks[Len(g.blocks) + 1])
  BY <1>3, <1>4, <1>5, <1>6, LoopBranches
<1>14. PICK A2 : Branched(A, A2, g, h) /\ Ended(h.blocks[f.to])
  BY <1>4, <1>8, <1>13
<1>15. Builds(h, Append(Passed, f))
  BY <1>1, <1>4, <1>7
<1>16. HoistedFrames(frames, DOMAIN build.locals, prog)
  BY DEF Plainly
<1>17. \E D2, R2 : Compiles(A2, D2, R2, h, Append(Passed, f), prog)
  <2>1. PICK kind : kind = "while"
    OBVIOUS
  <2>2. kind \in {"if", "while", "for"} /\ kind # "for" /\ AtStmt(kind)
    BY <1>1, <2>1
  <2>3. \A y \in DOMAIN g.locals : y \in DOMAIN h.locals /\ h.locals[y] = g.locals[y]
    BY <1>13
  <2>4. \A y \in DOMAIN h.locals : y \in DOMAIN g.locals
    BY <1>13
  <2>5. g = build
    BY <1>4
  <2> QED
    BY <1>2, <1>10, <1>12, <1>14, <1>16, <2>2, <2>3, <2>4, <2>5, WorkGoesIn
<1> QED
  BY <1>1, <1>4, <1>10, <1>13, <1>15, <1>16, <1>17, PlainIn

LEMMA PlainFor ==
  ASSUME CInv, PlainFunction(prog), Infers(prog.body, {"n"}), Plainly, ForStmt
  PROVE  Plainly'
<1>1. AtStmt("for") /\ Builds(EmitFor(build, Here), Append(Passed, LoopFrame(build, Here, build.cells + 4)))
  BY DEF ForStmt
<1>2. PICK A, D, R : Compiles(A, D, R, build, frames, prog)
  BY DEF Plainly
<1>3. /\ Builder(build) /\ Stacked(frames, build, prog) /\ Emittable(build, Here) /\ Here.kind = "for"
      /\ ~Terminated(build) /\ Sound(A, build.blocks) /\ Readable(A, build, Here)
  BY <1>1, <1>2, AtPlain
<1>4. PICK n, h, g, r : n = Len(build.blocks) /\ h = EmitFor(build, Here) /\ g = build /\ r = EmitRange(build, Here)
  OBVIOUS
<1>5. PICK c \in Nat : c = g.cells
  BY <1>3, <1>4 DEF Builder, WellFormed
<1>6. PICK f : f = LoopFrame(build, Here, build.cells + 4)
  OBVIOUS
<1>7. f.kind = "for" /\ f.to = n + 1 /\ f.exit = n + 3 /\ f.body = Here.body /\ f.orelse = <<>>
  BY <1>3, <1>4, <1>6, LoopFrameFields
<1>8. f.i = 1 /\ f.cell = c + 4
  BY <1>4, <1>5, <1>6 DEF LoopFrame, Frame
<1>9. EntryFrame(f, Here)
  BY <1>3, <1>7, <1>8 DEF EntryFrame
<1>10. IsLoop(f)
  BY <1>7 DEF IsLoop
<1>11. /\ Builder(r) /\ DOMAIN r.blocks = DOMAIN g.blocks /\ r.cells = c + 4
  BY <1>3, <1>4, <1>5, RangeBuilds
<1>12. Worked(A, g, r)
  BY <1>3, <1>4, <1>5, RangeWorks
<1>13. HasBlocksFor(g, h, f)
  <2>1. PICK e : e = Expr("lt", Slot(r.cells), Slot(r.cells - 2))
    OBVIOUS
  <2>2. e \in Exprs(r) /\ h = OpenLoop(r, e)
    <3>1. r.cells >= 2
      BY <1>11
    <3> QED
      BY <1>4, <1>11, <2>1, <3>1, ForTest DEF EmitFor
  <2>3. Len(r.blocks) = n
    <3>1. PICK T : g.blocks \in Seq(T)
      BY <1>3, <1>4 DEF Builder, WellFormed
    <3>2. PICK U : r.blocks \in Seq(U)
      BY <1>11 DEF Builder, WellFormed
    <3> QED
      BY <1>4, <1>11, <3>1, <3>2
  <2>4. HasBlocksFor(r, h, f)
    BY <1>7, <1>10, <1>11, <2>2, <2>3, LoopOpens, OpenedHasBlocks
  <2>5. r.at = g.at /\ \A b \in DOMAIN g.blocks : b # g.at => r.blocks[b] = g.blocks[b]
    BY <1>12 DEF Worked
  <2> QED
    BY <1>11, <2>4, <2>5 DEF HasBlocksFor
<1>14. /\ DOMAIN h.locals = DOMAIN g.locals \cup {Here.target}
       /\ \A y \in DOMAIN g.locals : y # Here.target => h.locals[y] = g.locals[y]
       /\ h.locals[Here.target] = c + 4
       /\ DefinedIn(h.blocks, c + 3, {g.at}) /\ DefinedIn(h.blocks, c + 4, {g.at})
       /\ \E A2 : Branched(A, A2, g, h) /\ Ended(h.blocks[Len(g.blocks) + 1])
  <2>1. PICK s : s = Here
    OBVIOUS
  <2>2. /\ Builder(g) /\ ~Terminated(g) /\ Sound(A, g.blocks)
        /\ Emittable(g, s) /\ s.kind = "for" /\ Readable(A, g, s) /\ h = EmitFor(g, s)
    BY <1>3, <1>4, <2>1
  <2>3. Counts(A, g, h, s.target, c)
    BY <1>5, <2>2, ForBranches
  <2> QED
    BY <2>1, <2>3 DEF Counts
<1>15. PICK A2 : Branched(A, A2, g, h) /\ Ended(h.blocks[f.to])
  BY <1>4, <1>7, <1>14
<1>16. Builds(h, Append(Passed, f))
  BY <1>1, <1>4, <1>6
<1>17. HoistedFrames(frames, DOMAIN build.locals, prog)
  BY DEF Plainly
<1>18. /\ \A y \in DOMAIN g.locals : y # Here.target => y \in DOMAIN h.locals /\ h.locals[y] = g.locals[y]
       /\ \A y \in DOMAIN h.locals : y \in DOMAIN g.locals \/ y = Here.target
       /\ Here.target \in DOMAIN h.locals /\ DefinedIn(h.blocks, h.locals[Here.target], {g.at})
  BY <1>14
<1>19. DefinedIn(h.blocks, f.cell, {g.at}) /\ DefinedIn(h.blocks, f.cell - 1, {g.at})
  <2>1. f.cell - 1 = c + 3
    BY <1>8
  <2> QED
    BY <1>8, <1>14, <2>1
<1>20. \E D2, R2 : Compiles(A2, D2, R2, h, Append(Passed, f), prog)
  BY <1>1, <1>2, <1>4, <1>9, <1>13, <1>15, <1>17, <1>18, <1>19, WorkGoesIn
<1>21. \A y \in DOMAIN build.locals : y \in DOMAIN h.locals
  BY <1>4, <1>14
<1> QED
  BY <1>1, <1>9, <1>16, <1>17, <1>18, <1>20, <1>21, PlainIn

-----------------------------------------------------------------------------
(* A block ends                                                            *)

\* The frames t are fs without the innermost.
Popped(fs, t, N) ==
  /\ N \in Nat /\ N > 1 /\ DOMAIN fs = 1 .. N /\ DOMAIN t = 1 .. N - 1
  /\ \A i \in 1 .. N - 1 : t[i] = fs[i]

LEMMA PoppedDomain ==
  ASSUME NEW fs, NEW t, NEW N, Popped(fs, t, N)
  PROVE  /\ N \in DOMAIN fs /\ N - 1 \in DOMAIN fs /\ N = (N - 1) + 1 /\ 1 \in DOMAIN t
         /\ \A i \in DOMAIN t : i \in DOMAIN fs /\ i # N /\ i <= N - 1 /\ t[i] = fs[i]
         /\ \A i \in DOMAIN fs : i \in DOMAIN t \/ i = N
BY DEF Popped

LEMMA SitedBelow ==
  ASSUME NEW R, NEW fs, NEW p, Sited(R, fs, p), NEW t, NEW N, Popped(fs, t, N)
  PROVE  Sited(R, t, p)
<1>1. /\ 1 \in DOMAIN t /\ \A i \in DOMAIN t : i \in DOMAIN fs /\ t[i] = fs[i]
      /\ \A i \in DOMAIN t : \A j \in DOMAIN fs : j <= i => j \in DOMAIN t
  <2>1. ASSUME NEW i \in DOMAIN t, NEW j \in DOMAIN fs, j <= i PROVE j \in DOMAIN t
    BY <2>1 DEF Popped
  <2> QED
    BY <2>1, PoppedDomain
<1>2. \A i \in DOMAIN t : InScope(R, t, i) = InScope(R, fs, i)
  BY <1>1 DEF InScope
<1>3. \A i \in DOMAIN t : (\A j \in DOMAIN t : j <= i => ~IsLoop(t[j])) =>
        t[i].body \in Seq(InThisLoop(p.body)) /\ t[i].orelse \in Seq(InThisLoop(p.body))
  <2> SUFFICES ASSUME NEW i \in DOMAIN t, \A j \in DOMAIN t : j <= i => ~IsLoop(t[j])
      PROVE  t[i].body \in Seq(InThisLoop(p.body)) /\ t[i].orelse \in Seq(InThisLoop(p.body))
    OBVIOUS
  <2>1. \A j \in DOMAIN fs : j <= i => ~IsLoop(fs[j])
    BY <1>1
  <2> QED
    BY <1>1, <2>1 DEF Sited
<1>4. \A i, j \in DOMAIN t : i < j => InScope(R, t, i) \subseteq R[j]
  BY <1>1, <1>2 DEF Sited
<1> QED
  BY <1>1, <1>3, <1>4 DEF Sited

LEMMA BasedBelow ==
  ASSUME NEW A, NEW D, NEW g, NEW fs, Based(A, D, g, fs), NEW t, NEW N, Popped(fs, t, N),
         NEW h, h.at = fs[N].exit
  PROVE  Based(A, D, h, t)
<1>1. /\ N \in DOMAIN fs /\ N - 1 \in DOMAIN fs /\ N = (N - 1) + 1
      /\ \A i \in DOMAIN t : i \in DOMAIN fs /\ i <= N - 1 /\ t[i] = fs[i]
  BY PoppedDomain
<1>2. PICK M : M = N - 1
  OBVIOUS
<1>3. D[M] \subseteq A[h.at]
  BY <1>1, <1>2 DEF Based
<1>4. \A i \in DOMAIN t : D[i] \subseteq D[M]
  BY <1>1, <1>2 DEF Based
<1> QED
  BY <1>1, <1>3, <1>4 DEF Based

LEMMA SlottedBelow ==
  ASSUME NEW D, NEW R, NEW g, NEW fs, NEW p, Slotted(D, R, g, fs, p), NEW t, NEW N, Popped(fs, t, N),
         NEW h, Keeps(g, h), h.locals = g.locals
  PROVE  Slotted(D, R, h, t, p)
<1>1. \A i \in DOMAIN t : i \in DOMAIN fs /\ t[i] = fs[i]
  BY PoppedDomain
<1>2. \A K, S, f : Known(K, S, g, f, p) => Known(K, S, h, f, p)
  BY DEF Known, Keeps
<1>3. \A x \in DOMAIN h.locals \cap Named(p) : DefinedIn(h.blocks, h.locals[x], D[1])
  BY DEF Slotted, Keeps
<1>4. \A i \in DOMAIN t : Known(D[i], InScope(R, t, i), h, t[i], p)
  <2>1. \A i \in DOMAIN t : InScope(R, t, i) = InScope(R, fs, i)
    BY <1>1 DEF InScope
  <2> QED
    BY <1>1, <1>2, <2>1 DEF Slotted
<1>5. ASSUME NEW i \in DOMAIN t, NEW j \in DOMAIN t, j = i + 1
      PROVE  /\ t[j].kind = "then" => Known(D[i], R[j], h, t[j], p)
             /\ t[j].kind = "for" => /\ DefinedIn(h.blocks, t[j].cell, D[i])
                                     /\ DefinedIn(h.blocks, t[j].cell - 1, D[i])
  <2>1. /\ fs[j].kind = "then" => Known(D[i], R[j], g, fs[j], p)
        /\ fs[j].kind = "for" => /\ DefinedIn(g.blocks, fs[j].cell, D[i])
                                 /\ DefinedIn(g.blocks, fs[j].cell - 1, D[i])
    BY <1>1, <1>5 DEF Slotted
  <2>2. fs[j].kind = "for" => /\ DefinedIn(h.blocks, fs[j].cell, D[i])
                              /\ DefinedIn(h.blocks, fs[j].cell - 1, D[i])
    BY <2>1 DEF Keeps
  <2> QED
    BY <1>1, <1>2, <2>1, <2>2
<1> QED
  BY <1>3, <1>4, <1>5 DEF Slotted

\* The emitters leave a block that is ended for the one they know.
LeavesFor(g, h, f) ==
  /\ h.at = f.exit /\ DOMAIN h.blocks = DOMAIN g.blocks /\ Ended(h.blocks[g.at])
  /\ \A b \in DOMAIN g.blocks : b # g.at => h.blocks[b] = g.blocks[b]

LEMMA ClosedBelow ==
  ASSUME NEW g, NEW fs, Closed(g, fs), NEW t, NEW N, Popped(fs, t, N),
         NEW h, LeavesFor(g, h, fs[N]), fs[N].kind \in {"else", "while", "for"}
  PROVE  Closed(h, t)
<1>1. /\ N \in DOMAIN fs /\ \A i \in DOMAIN t : i \in DOMAIN fs /\ i # N /\ t[i] = fs[i]
      /\ \A i \in DOMAIN fs : i \in DOMAIN t \/ i = N
  BY PoppedDomain
<1>2. PICK f : f = fs[N]
  OBVIOUS
<1>3. f.exit \in Fresh(f) /\ \A b \in Fresh(f) : b = f.exit
  <2>1. f.kind = "else" => f.to = f.exit
    BY <1>1, <1>2 DEF Closed
  <2> QED
    BY <1>2, <2>1 DEF Fresh, IsLoop
<1>4. \A i \in DOMAIN fs : \A b \in Fresh(fs[i]) :
        b \in DOMAIN g.blocks /\ b # g.at /\ g.blocks[b] = <<>> /\ h.blocks[b] = <<>>
  BY DEF Closed, LeavesFor
<1>5. h.at = f.exit /\ h.blocks[h.at] = <<>>
  BY <1>1, <1>2, <1>3, <1>4 DEF LeavesFor
<1>6. ~Terminated(h)
  BY <1>5 DEF Terminated
<1>7. ASSUME NEW b \in DOMAIN h.blocks PROVE b = h.at \/ Ended(h.blocks[b]) \/ \E i \in DOMAIN t : b \in Fresh(t[i])
  <2>1. b \in DOMAIN g.blocks
    BY <1>7 DEF LeavesFor
  <2>2. CASE b = g.at
    BY <2>2 DEF LeavesFor
  <2>3. CASE b # g.at /\ Ended(g.blocks[b])
    BY <2>1, <2>3 DEF LeavesFor
  <2>4. CASE b # g.at /\ ~ Ended(g.blocks[b])
    <3>1. PICK i \in DOMAIN fs : b \in Fresh(fs[i])
      BY <2>1, <2>4 DEF Closed
    <3>2. CASE i = N
      BY <1>2, <1>3, <1>5, <3>1, <3>2
    <3>3. CASE i # N
      BY <1>1, <3>1, <3>3
    <3> QED
      BY <3>2, <3>3
  <2> QED
    BY <2>2, <2>3, <2>4
<1>8. ASSUME NEW i \in DOMAIN t, NEW b \in Fresh(t[i]) PROVE b \in DOMAIN h.blocks \ {h.at} /\ h.blocks[b] = <<>>
  <2>1. i \in DOMAIN fs /\ b \in Fresh(fs[i]) /\ i # N
    BY <1>1, <1>8
  <2>2. Fresh(fs[i]) \cap Fresh(f) = {}
    BY <1>1, <1>2, <2>1 DEF Closed
  <2>3. b # h.at
    BY <1>3, <1>5, <2>1, <2>2
  <2>4. b \in DOMAIN g.blocks /\ h.blocks[b] = <<>>
    BY <1>4, <2>1
  <2> QED
    BY <2>3, <2>4 DEF LeavesFor
<1>9. /\ \A i, j \in DOMAIN t : i # j => Fresh(t[i]) \cap Fresh(t[j]) = {}
      /\ \A i \in DOMAIN t : /\ t[i].kind = "then" => t[i].to # t[i].exit
                             /\ t[i].kind = "else" => t[i].to = t[i].exit
  BY <1>1 DEF Closed
<1> QED
  BY <1>6, <1>7, <1>8, <1>9 DEF Closed

\* The frames t are fs, the innermost in the second branch of its if.
Turned(fs, t, N) ==
  /\ N \in Nat /\ N > 1 /\ DOMAIN fs = 1 .. N /\ DOMAIN t = 1 .. N
  /\ \A i \in 1 .. N - 1 : t[i] = fs[i]
  /\ fs[N].kind = "then" /\ t[N].kind = "else" /\ t[N].i = 1
  /\ t[N].body = fs[N].orelse /\ t[N].orelse = fs[N].orelse
  /\ t[N].to = fs[N].to /\ t[N].exit = fs[N].to

LEMMA TurnedDomain ==
  ASSUME NEW fs, NEW t, NEW N, Turned(fs, t, N)
  PROVE  /\ N \in Nat /\ N \in DOMAIN fs /\ N - 1 \in DOMAIN fs /\ N = (N - 1) + 1
         /\ N - 1 \in Nat /\ N - 1 # N /\ 1 # N /\ 1 \in DOMAIN fs
         /\ DOMAIN t = DOMAIN fs
         /\ \A i \in DOMAIN fs : i # N => t[i] = fs[i] /\ i <= N - 1
         /\ \A i \in DOMAIN fs : i \in Nat /\ i <= N
         /\ \A i, j \in DOMAIN fs : i < j => i # N
         /\ \A i, j \in DOMAIN fs : j = i + 1 => i # N /\ (j = N => i = N - 1)
<1>1. \A i \in DOMAIN fs : i # N => t[i] = fs[i] /\ i <= N - 1
  BY DEF Turned
<1> QED
  BY <1>1 DEF Turned

LEMMA SitedElse ==
  ASSUME NEW R, NEW fs, NEW p, Sited(R, fs, p), NEW t, NEW N, Turned(fs, t, N)
  PROVE  Sited(R, t, p)
<1>1. PICK e, f : e = t[N] /\ f = fs[N]
  OBVIOUS
<1>2. /\ N \in DOMAIN fs /\ 1 # N /\ 1 \in DOMAIN fs /\ DOMAIN t = DOMAIN fs
      /\ \A i \in DOMAIN fs : i # N => t[i] = fs[i]
      /\ \A i, j \in DOMAIN fs : i < j => i # N
  BY TurnedDomain
<1>3. f.kind = "then" /\ e.kind = "else" /\ e.body = f.orelse /\ e.orelse = f.orelse
  BY <1>1 DEF Turned
<1>4. Entered(R[N], e, p)
  <2>1. Entered(R[N], f, p)
    BY <1>1, <1>2 DEF Sited
  <2>2. /\ Scoped(f.orelse, R[N]) \subseteq Scopes(p)
        /\ Live(f.orelse) /\ (p.json => NoReturn(f))
    BY <1>3, <2>1 DEF Entered
  <2>3. NoReturn(f) => NoReturn(e)
    BY <1>3 DEF NoReturn, HasBlocks
  <2> QED
    BY <1>3, <2>2, <2>3 DEF Entered
<1>5. \A i \in DOMAIN t : Entered(R[i], t[i], p)
  BY <1>1, <1>2, <1>4 DEF Sited
<1>6. \A i, j \in DOMAIN t : i < j => InScope(R, t, i) \subseteq R[j]
  <2>1. \A i \in DOMAIN t : i # N => InScope(R, t, i) = InScope(R, fs, i)
    BY <1>2 DEF InScope
  <2> QED
    BY <1>2, <2>1 DEF Sited
<1>7. ASSUME NEW i \in DOMAIN t, \A j \in DOMAIN t : j <= i => ~IsLoop(t[j])
      PROVE  t[i].body \in Seq(InThisLoop(p.body)) /\ t[i].orelse \in Seq(InThisLoop(p.body))
  <2>1. ~IsLoop(f)
    BY <1>3 DEF IsLoop
  <2>2. \A j \in DOMAIN fs : j <= i => ~IsLoop(fs[j])
    BY <1>1, <1>2, <1>7, <2>1
  <2>3. fs[i].body \in Seq(InThisLoop(p.body)) /\ fs[i].orelse \in Seq(InThisLoop(p.body))
    BY <1>2, <2>2 DEF Sited
  <2> QED
    BY <1>1, <1>2, <1>3, <2>3
<1>8. p.json => t[1].i <= Len(p.body)
  BY <1>2 DEF Sited
<1> QED
  BY <1>5, <1>6, <1>7, <1>8 DEF Sited

LEMMA BasedElse ==
  ASSUME NEW A, NEW D, NEW g, NEW fs, Based(A, D, g, fs), NEW t, NEW N, Turned(fs, t, N),
         NEW h, h.at = fs[N].exit, NEW X, X = D[N - 1], NEW D2, Replaced(D, N, X, D2)
  PROVE  Based(A, D2, h, t)
<1>1. /\ N \in Nat /\ N \in DOMAIN fs /\ N - 1 \in DOMAIN fs /\ N = (N - 1) + 1 /\ N - 1 # N /\ DOMAIN t = DOMAIN fs
      /\ \A i \in DOMAIN fs : i # N => t[i] = fs[i] /\ i <= N - 1
      /\ \A i \in DOMAIN fs : i \in Nat /\ i <= N
      /\ \A i, j \in DOMAIN fs : j = i + 1 => i # N /\ (j = N => i = N - 1)
  BY TurnedDomain
<1>2. D2[N] = X /\ \A i \in DOMAIN fs : i # N => D2[i] = D[i]
  BY <1>1 DEF Replaced
<1>3. PICK M : M = N - 1
  OBVIOUS
<1>4. X = D[M] /\ D2[M] = X
  BY <1>1, <1>2, <1>3
<1>5. PICK f : f = fs[N]
  OBVIOUS
<1>6. /\ X \subseteq A[f.to] /\ A[f.to] \subseteq {f.to} \cup X /\ X \subseteq A[f.exit]
  BY <1>1, <1>3, <1>4, <1>5 DEF Based
<1>7. \A i \in DOMAIN fs : i # N => D2[i] \subseteq X
  BY <1>1, <1>2, <1>3, <1>4 DEF Based
<1>8. \A i \in DOMAIN t : D2[i] \subseteq X
  BY <1>1, <1>2, <1>7
<1>9. \A i, j \in DOMAIN t : i <= j => D2[i] \subseteq D2[j]
  <2> SUFFICES ASSUME NEW i \in DOMAIN t, NEW j \in DOMAIN t, i <= j PROVE D2[i] \subseteq D2[j]
    OBVIOUS
  <2>1. CASE j = N
    BY <1>2, <1>8, <2>1
  <2>2. CASE j # N
    <3>1. i # N
      BY <1>1, <2>2
    <3> QED
      BY <1>1, <1>2, <2>2, <3>1 DEF Based
  <2> QED
    BY <2>1, <2>2
<1>10. ASSUME NEW i \in DOMAIN t, NEW j \in DOMAIN t, j = i + 1
       PROVE  /\ D2[i] \subseteq A[t[j].to] /\ A[t[j].to] \subseteq {t[j].to} \cup D2[i]
              /\ D2[i] \subseteq A[t[j].exit] /\ A[t[j].exit] \subseteq {t[j].exit} \cup D2[i]
  <2>1. i # N /\ (j = N => i = M)
    BY <1>1, <1>3, <1>10
  <2>2. CASE j = N
    <3>1. t[j].to = f.to /\ t[j].exit = f.to
      BY <1>5, <2>2 DEF Turned
    <3> QED
      BY <1>4, <1>6, <2>1, <2>2, <3>1
  <2>3. CASE j # N
    <3>1. t[j] = fs[j] /\ D2[i] = D[i] /\ i \in DOMAIN fs /\ j \in DOMAIN fs
      BY <1>1, <1>2, <2>1, <2>3
    <3> QED
      BY <1>10, <3>1 DEF Based
  <2> QED
    BY <2>2, <2>3
<1>11. \A i \in DOMAIN t : D2[i] \subseteq A[h.at]
  BY <1>5, <1>6, <1>8
<1> QED
  BY <1>9, <1>10, <1>11 DEF Based

LEMMA SlottedElse ==
  ASSUME NEW D, NEW R, NEW g, NEW fs, NEW p, Slotted(D, R, g, fs, p), NEW t, NEW N, Turned(fs, t, N),
         NEW X, X = D[N - 1], NEW D2, Replaced(D, N, X, D2),
         NEW h, Keeps(g, h), h.locals = g.locals
  PROVE  Slotted(D2, R, h, t, p)
<1>1. /\ N \in Nat /\ N \in DOMAIN fs /\ N - 1 \in DOMAIN fs /\ N = (N - 1) + 1 /\ N - 1 # N /\ DOMAIN t = DOMAIN fs
      /\ 1 # N /\ 1 \in DOMAIN fs
      /\ \A i \in DOMAIN fs : i # N => t[i] = fs[i]
      /\ \A i \in DOMAIN fs : i \in Nat
      /\ \A i, j \in DOMAIN fs : j = i + 1 => i # N /\ (j = N => i = N - 1)
  BY TurnedDomain
<1>2. D2[N] = X /\ \A i \in DOMAIN fs : i # N => D2[i] = D[i]
  BY <1>1 DEF Replaced
<1>3. PICK M : M = N - 1
  OBVIOUS
<1>4. PICK e, f : e = t[N] /\ f = fs[N]
  OBVIOUS
<1>5. f.kind = "then" /\ e.kind = "else" /\ e.i = 1 /\ e.body = f.orelse /\ e.orelse = f.orelse
  BY <1>4 DEF Turned
<1>6. \A K, S, u : Known(K, S, g, u, p) => Known(K, S, h, u, p)
  BY DEF Known, Keeps
<1>7. \A x \in DOMAIN h.locals \cap Named(p) : DefinedIn(h.blocks, h.locals[x], D2[1])
  <2>1. D2[1] = D[1]
    BY <1>1, <1>2
  <2> QED
    BY <2>1 DEF Slotted, Keeps
<1>8. Known(X, R[N], h, e, p)
  <2>1. Known(X, R[N], g, f, p)
    BY <1>1, <1>3, <1>4, <1>5 DEF Slotted
  <2>2. Known(X, R[N], h, f, p)
    BY <1>6, <2>1
  <2>3. \A x : NoFor(f, x) => NoFor(e, x)
    BY <1>5 DEF NoFor, HasBlocks
  <2> QED
    BY <2>2, <2>3 DEF Known
<1>9. InScope(R, t, N) = R[N]
  BY <1>4, <1>5, ScopeStarts DEF InScope
<1>10. \A i \in DOMAIN t : i # N => InScope(R, t, i) = InScope(R, fs, i)
  BY <1>1 DEF InScope
<1>11. ASSUME NEW i \in DOMAIN t PROVE Known(D2[i], InScope(R, t, i), h, t[i], p)
  <2>1. CASE i = N
    BY <1>2, <1>4, <1>8, <1>9, <2>1
  <2>2. CASE i # N
    <3>1. Known(D[i], InScope(R, fs, i), g, fs[i], p)
      BY <1>1, <1>11 DEF Slotted
    <3> QED
      BY <1>1, <1>2, <1>6, <1>10, <1>11, <2>2, <3>1
  <2> QED
    BY <2>1, <2>2
<1>12. ASSUME NEW i \in DOMAIN t, NEW j \in DOMAIN t, j = i + 1
       PROVE  /\ t[j].kind = "then" => Known(D2[i], R[j], h, t[j], p)
              /\ t[j].kind = "for" => /\ DefinedIn(h.blocks, t[j].cell, D2[i])
                                      /\ DefinedIn(h.blocks, t[j].cell - 1, D2[i])
  <2>1. CASE j = N
    BY <1>4, <1>5, <2>1
  <2>2. CASE j # N
    <3>1. t[j] = fs[j] /\ D2[i] = D[i] /\ i \in DOMAIN fs /\ j \in DOMAIN fs
      BY <1>1, <1>2, <1>12, <2>2
    <3>2. /\ fs[j].kind = "then" => Known(D[i], R[j], g, fs[j], p)
          /\ fs[j].kind = "for" => /\ DefinedIn(g.blocks, fs[j].cell, D[i])
                                   /\ DefinedIn(g.blocks, fs[j].cell - 1, D[i])
      BY <1>12, <3>1 DEF Slotted
    <3>3. fs[j].kind = "for" => /\ DefinedIn(h.blocks, fs[j].cell, D[i])
                                /\ DefinedIn(h.blocks, fs[j].cell - 1, D[i])
      BY <3>2 DEF Keeps
    <3> QED
      BY <1>6, <3>1, <3>2, <3>3
  <2> QED
    BY <2>1, <2>2
<1> QED
  BY <1>7, <1>11, <1>12 DEF Slotted

LEMMA ClosedElse ==
  ASSUME NEW g, NEW fs, Closed(g, fs), NEW t, NEW N, Turned(fs, t, N), NEW h, LeavesFor(g, h, fs[N])
  PROVE  Closed(h, t)
<1>1. N \in DOMAIN fs /\ DOMAIN t = DOMAIN fs /\ \A i \in DOMAIN fs : i # N => t[i] = fs[i]
  BY TurnedDomain
<1>2. PICK e, f : e = t[N] /\ f = fs[N]
  OBVIOUS
<1>3. f.kind = "then" /\ e.kind = "else" /\ e.to = f.to /\ e.exit = f.to
  BY <1>2 DEF Turned
<1>4. /\ f.exit \in Fresh(f) /\ f.to \in Fresh(f) /\ f.to # f.exit
      /\ \A b \in Fresh(f) : b = f.exit \/ b \in Fresh(e)
      /\ \A b \in Fresh(e) : b = f.to
  <2>1. f.to # f.exit
    BY <1>1, <1>2, <1>3 DEF Closed
  <2> QED
    BY <1>3, <2>1 DEF Fresh, IsLoop
<1>5. \A i \in DOMAIN fs : \A b \in Fresh(fs[i]) :
        b \in DOMAIN g.blocks /\ b # g.at /\ g.blocks[b] = <<>> /\ h.blocks[b] = <<>>
  BY DEF Closed, LeavesFor
<1>6. h.at = f.exit /\ h.blocks[h.at] = <<>>
  BY <1>1, <1>2, <1>4, <1>5 DEF LeavesFor
<1>7. ~Terminated(h)
  BY <1>6 DEF Terminated
<1>8. ASSUME NEW b \in DOMAIN h.blocks PROVE b = h.at \/ Ended(h.blocks[b]) \/ \E i \in DOMAIN t : b \in Fresh(t[i])
  <2>1. b \in DOMAIN g.blocks
    BY <1>8 DEF LeavesFor
  <2>2. CASE b = g.at
    BY <2>2 DEF LeavesFor
  <2>3. CASE b # g.at /\ Ended(g.blocks[b])
    BY <2>1, <2>3 DEF LeavesFor
  <2>4. CASE b # g.at /\ ~ Ended(g.blocks[b])
    <3>1. PICK i \in DOMAIN fs : b \in Fresh(fs[i])
      BY <2>1, <2>4 DEF Closed
    <3>2. CASE i = N
      BY <1>1, <1>2, <1>4, <1>6, <3>1, <3>2
    <3>3. CASE i # N
      BY <1>1, <3>1, <3>3
    <3> QED
      BY <3>2, <3>3
  <2> QED
    BY <2>2, <2>3, <2>4
<1>9. \A i \in DOMAIN fs : i # N => \A b \in Fresh(fs[i]) : b \notin Fresh(f)
  <2>1. \A i \in DOMAIN fs : i # N => Fresh(fs[i]) \cap Fresh(f) = {}
    BY <1>1, <1>2 DEF Closed
  <2> QED
    BY <2>1
<1>10. ASSUME NEW i \in DOMAIN t, NEW b \in Fresh(t[i]) PROVE b \in DOMAIN h.blocks \ {h.at} /\ h.blocks[b] = <<>>
  <2>1. b # h.at /\ \E j \in DOMAIN fs : b \in Fresh(fs[j])
    <3>1. CASE i = N
      BY <1>1, <1>2, <1>4, <1>6, <1>10, <3>1
    <3>2. CASE i # N
      BY <1>1, <1>4, <1>6, <1>9, <1>10, <3>2
    <3> QED
      BY <3>1, <3>2
  <2>2. b \in DOMAIN g.blocks /\ h.blocks[b] = <<>>
    BY <1>5, <2>1
  <2> QED
    BY <2>1, <2>2 DEF LeavesFor
<1>11. ASSUME NEW i \in DOMAIN t, NEW j \in DOMAIN t, i # j PROVE Fresh(t[i]) \cap Fresh(t[j]) = {}
  <2>1. CASE i # N /\ j # N
    BY <1>1, <1>11, <2>1 DEF Closed
  <2>2. CASE i = N
    <3>1. \A b \in Fresh(t[i]) : b \in Fresh(f)
      BY <1>2, <1>4, <2>2
    <3>2. t[j] = fs[j] /\ j # N
      BY <1>1, <1>11, <2>2
    <3>3. \A b \in Fresh(t[j]) : b \notin Fresh(f)
      BY <1>1, <1>9, <3>2
    <3> QED
      BY <3>1, <3>3
  <2>3. CASE j = N
    <3>1. \A b \in Fresh(t[j]) : b \in Fresh(f)
      BY <1>2, <1>4, <2>3
    <3>2. t[i] = fs[i] /\ i # N
      BY <1>1, <1>11, <2>3
    <3>3. \A b \in Fresh(t[i]) : b \notin Fresh(f)
      BY <1>1, <1>9, <3>2
    <3> QED
      BY <3>1, <3>3
  <2> QED
    BY <2>1, <2>2, <2>3
<1>12. \A i \in DOMAIN t : /\ t[i].kind = "then" => t[i].to # t[i].exit
                           /\ t[i].kind = "else" => t[i].to = t[i].exit
  BY <1>1, <1>2, <1>3 DEF Closed
<1> QED
  BY <1>7, <1>8, <1>10, <1>11, <1>12 DEF Closed

LEMMA BelowPops ==
  ASSUME NEW g, NEW p, Stacked(frames, g, p), Top.kind # "body", NEW N, N = Len(frames)
  PROVE  Popped(frames, Below, N) /\ Top = frames[N]
<1>1. PICK t : t = Below
  OBVIOUS
<1>2. /\ N \in Nat /\ N > 1 /\ DOMAIN frames = 1 .. N /\ DOMAIN t = 1 .. N - 1
      /\ \A i \in 1 .. N - 1 : t[i] = frames[i]
  BY <1>1, BelowAt
<1> QED
  BY <1>1, <1>2 DEF Popped, Top

LEMMA ElseTurns ==
  ASSUME NEW g, NEW p, Stacked(frames, g, p), Top.kind = "then", NEW N, N = Len(frames)
  PROVE  Turned(frames, Append(Below, ElseFrame(Top)), N) /\ Top = frames[N]
<1>1. PICK fs, e, t : fs = Below /\ e = ElseFrame(Top) /\ t = Append(fs, e)
  OBVIOUS
<1>2. /\ N \in Nat /\ N > 1 /\ DOMAIN frames = 1 .. N /\ DOMAIN fs = 1 .. N - 1
      /\ \A i \in 1 .. N - 1 : fs[i] = frames[i]
  BY <1>1, BelowAt
<1>3. Stacked(fs, g, p)
  BY <1>1, StackedBelow
<1>4. PICK M : M = Len(fs)
  OBVIOUS
<1>5. /\ M \in Nat \ {0} /\ DOMAIN fs = 1 .. M /\ DOMAIN t = 1 .. M + 1
      /\ t[M + 1] = e /\ \A i \in 1 .. M : t[i] = fs[i]
  BY <1>1, <1>3, <1>4, PushedAt, SMTT(30)
<1>6. M = N - 1
  <2>1. 1 .. M = 1 .. N - 1
    BY <1>2, <1>5
  <2>2. M \in 1 .. M /\ N - 1 \in 1 .. N - 1
    BY <1>2, <1>5
  <2> QED
    BY <1>2, <1>5, <2>1, <2>2
<1>7. M + 1 = N
  BY <1>2, <1>6
<1>8. DOMAIN t = 1 .. N /\ t[N] = e /\ \A i \in 1 .. N - 1 : t[i] = frames[i]
  BY <1>2, <1>5, <1>6, <1>7
<1>9. Top \in FrameSet(g, p)
  BY TopFrame
<1>10. e.body = Top.orelse /\ e.orelse = Top.orelse /\ e.to = Top.to /\ e.exit = Top.to /\ e.kind = "else"
  BY <1>1, <1>9, FrameKept
<1>11. e.i = 1
  BY <1>1, <1>9 DEF ElseFrame, FrameSet
<1>12. Top = frames[N]
  BY DEF Top
<1>13. Turned(frames, t, N)
  BY <1>2, <1>8, <1>10, <1>11, <1>12 DEF Turned
<1> QED
  BY <1>1, <1>12, <1>13

\* The emitters go on after a block.
LEMMA WorkGoesOut ==
  ASSUME Stacked(frames, build, prog), NEW A, NEW D, NEW R, Compiles(A, D, R, build, frames, prog),
         Top.kind \in {"then", "else", "while", "for"},
         NEW m, Worked(A, build, m), Ended(m.blocks[build.at]), m.locals = build.locals,
         NEW h, h.blocks = m.blocks, h.locals = m.locals, h.at = Top.exit,
         NEW t, IF Top.kind = "then" THEN t = Append(Below, ElseFrame(Top)) ELSE t = Below
  PROVE  \E D2 : Compiles(A, D2, R, h, t, prog)
<1>1. PICK N : N = Len(frames)
  OBVIOUS
<1>2. /\ Sited(R, frames, prog) /\ Based(A, D, build, frames)
      /\ Slotted(D, R, build, frames, prog) /\ Closed(build, frames)
  BY DEF Compiles
<1>3. Sound(A, h.blocks) /\ Keeps(build, h) /\ h.locals = build.locals
  BY KeepsSame, KeepsStill DEF Worked
<1>4. LeavesFor(build, h, Top)
  BY DEF Worked, LeavesFor
<1>5. CASE Top.kind = "then"
  <2>1. Turned(frames, t, N) /\ Top = frames[N]
    BY <1>1, <1>5, ElseTurns
  <2>2. N \in Nat
    BY <2>1, TurnedDomain
  <2>3. PICK X : X = D[N - 1]
    OBVIOUS
  <2>4. PICK D2 : Replaced(D, N, X, D2)
    BY <2>2, Updated
  <2>5. Sited(R, t, prog)
    BY <1>2, <2>1, SitedElse
  <2>6. Based(A, D2, h, t)
    BY <1>2, <2>1, <2>3, <2>4, BasedElse
  <2>7. Slotted(D2, R, h, t, prog)
    BY <1>2, <1>3, <2>1, <2>3, <2>4, SlottedElse
  <2>8. Closed(h, t)
    BY <1>2, <1>4, <2>1, ClosedElse
  <2> QED
    BY <1>3, <2>5, <2>6, <2>7, <2>8 DEF Compiles
<1>6. CASE Top.kind # "then"
  <2>1. Popped(frames, t, N) /\ Top = frames[N]
    BY <1>1, <1>6, BelowPops
  <2>2. Sited(R, t, prog)
    BY <1>2, <2>1, SitedBelow
  <2>3. Based(A, D, h, t)
    BY <1>2, <2>1, BasedBelow
  <2>4. Slotted(D, R, h, t, prog)
    BY <1>2, <1>3, <2>1, SlottedBelow
  <2>5. Closed(h, t)
    BY <1>2, <1>4, <1>6, <2>1, ClosedBelow
  <2> QED
    BY <1>3, <2>2, <2>3, <2>4, <2>5 DEF Compiles
<1> QED
  BY <1>5, <1>6

\* What holds at the end of every block.
LEMMA EndPlain ==
  ASSUME CInv, NEW kind, AtEnd(kind), kind # "body", NEW A, NEW D, NEW R, Compiles(A, D, R, build, frames, prog)
  PROVE  /\ Builder(build) /\ Stacked(frames, build, prog) /\ Top.kind = kind /\ Sound(A, build.blocks)
         /\ Top.to \in DOMAIN build.blocks /\ A[Top.to] \subseteq {Top.to} \cup A[build.at]
         /\ kind = "for" => /\ IsSlot(build, Top.cell)
                            /\ DefinedIn(build.blocks, Top.cell, A[build.at])
                            /\ DefinedIn(build.blocks, Top.cell - 1, A[build.at])
<1>1. /\ Builder(build) /\ Stacked(frames, build, prog) /\ Top.kind = kind
      /\ Top.to \in DOMAIN build.blocks /\ (Top.kind = "for" => IsSlot(build, Top.cell))
  BY EndTyped
<1>2. PICK N : N = Len(frames)
  OBVIOUS
<1>3. Popped(frames, Below, N) /\ Top = frames[N]
  BY <1>1, <1>2, BelowPops
<1>4. PICK t : t = Below
  OBVIOUS
<1>5. N \in DOMAIN frames /\ N - 1 \in DOMAIN frames /\ N = (N - 1) + 1
  BY <1>3, <1>4, PoppedDomain
<1>6. Based(A, D, build, frames) /\ Slotted(D, R, build, frames, prog)
  BY DEF Compiles
<1>7. A[Top.to] \subseteq {Top.to} \cup A[build.at]
  BY <1>1, <1>3, <1>5, <1>6, KnownBlocks
<1>8. ASSUME kind = "for"
      PROVE  /\ DefinedIn(build.blocks, Top.cell, A[build.at])
             /\ DefinedIn(build.blocks, Top.cell - 1, A[build.at])
  <2>1. PICK M : M = N - 1
    OBVIOUS
  <2>2. M \in DOMAIN frames /\ N = M + 1
    BY <1>5, <2>1
  <2>3. DefinedIn(build.blocks, Top.cell, D[M]) /\ DefinedIn(build.blocks, Top.cell - 1, D[M])
    BY <1>1, <1>3, <1>5, <1>6, <1>8, <2>2 DEF Slotted
  <2>4. D[M] \subseteq A[build.at]
    BY <1>6, <2>2 DEF Based
  <2> QED
    BY <2>3, <2>4, DefinedMore
<1> QED
  BY <1>1, <1>7, <1>8 DEF Compiles

LEMMA PlainOut ==
  ASSUME CInv, Plainly, NEW kind, AtEnd(kind), kind \in {"then", "else", "while", "for"},
         NEW A, NEW D, NEW R, Compiles(A, D, R, build, frames, prog),
         NEW m, Builder(m), Worked(A, build, m), Ended(m.blocks[build.at]), m.locals = build.locals,
         NEW h, h = PositionAt(m, Top.exit),
         NEW t, IF kind = "then" THEN t = Append(Below, ElseFrame(Top)) ELSE t = Below, Builds(h, t)
  PROVE  Plainly'
<1>1. Stacked(frames, build, prog) /\ Top.kind = kind
  BY EndPlain
<1>2. h.blocks = m.blocks /\ h.locals = m.locals /\ h.at = Top.exit
  BY PositionFields DEF Builder
<1>3. \E D2 : Compiles(A, D2, R, h, t, prog)
  BY <1>1, <1>2, WorkGoesOut
<1>4. Builds(h, Below) \/ Builds(h, Append(Below, ElseFrame(Top)))
  BY DEF Builds
<1>5. kind # "body" /\ h.locals = build.locals /\ HoistedFrames(frames, DOMAIN build.locals, prog)
  BY <1>2 DEF Plainly
<1>6. HoistedFrames(frames', DOMAIN build'.locals, prog')
  BY <1>4, <1>5, HoistedOut
<1> QED
  BY <1>3, <1>6 DEF Plainly, Builds

LEMMA PlainThenEnd ==
  ASSUME CInv, Plainly, ThenEnd
  PROVE  Plainly'
<1>1. /\ AtEnd("then")
      /\ Builds(PositionAt(BranchUnlessTerminated(build, Top.to), Top.exit), Append(Below, ElseFrame(Top)))
  BY DEF ThenEnd
<1>2. PICK A, D, R : Compiles(A, D, R, build, frames, prog)
  BY DEF Plainly
<1>3. PICK kind : kind = "then"
  OBVIOUS
<1>4. /\ Builder(build) /\ Stacked(frames, build, prog) /\ Top.kind = kind /\ Sound(A, build.blocks)
      /\ Top.to \in DOMAIN build.blocks /\ A[Top.to] \subseteq {Top.to} \cup A[build.at]
  BY <1>1, <1>2, <1>3, EndPlain
<1>5. PICK b, m : b = Top.to /\ m = BranchUnlessTerminated(build, b)
  OBVIOUS
<1>6. Worked(A, build, m) /\ Ended(m.blocks[build.at]) /\ m.locals = build.locals
  <2>1. b \in DOMAIN build.blocks /\ A[b] \subseteq {b} \cup A[build.at]
    BY <1>4, <1>5
  <2>2. Builder(build) /\ Sound(A, build.blocks) /\ m = BranchUnlessTerminated(build, b)
    BY <1>4, <1>5
  <2> QED
    BY <2>1, <2>2, EndWorks
<1>7. Builder(m)
  BY <1>4, <1>5, BranchBuilds, ClosedBuilds
<1>8. PICK h, t : h = PositionAt(m, Top.exit) /\ t = Append(Below, ElseFrame(Top))
  OBVIOUS
<1>9. Builds(h, t)
  BY <1>1, <1>5, <1>8
<1>10. IF kind = "then" THEN t = Append(Below, ElseFrame(Top)) ELSE t = Below
  BY <1>3, <1>8
<1> QED
  BY <1>1, <1>2, <1>3, <1>6, <1>7, <1>8, <1>9, <1>10, PlainOut

LEMMA PlainElseOrWhileEnd ==
  ASSUME CInv, Plainly, ElseOrWhileEnd
  PROVE  Plainly'
<1>1. PICK kind \in {"else", "while"} : AtEnd(kind)
  BY DEF ElseOrWhileEnd
<1>2. PICK A, D, R : Compiles(A, D, R, build, frames, prog)
  BY DEF Plainly
<1>3. kind # "then" /\ kind # "body" /\ kind \in {"then", "else", "while", "for"}
  BY <1>1
<1>4. /\ Builder(build) /\ Stacked(frames, build, prog) /\ Top.kind = kind /\ Sound(A, build.blocks)
      /\ Top.to \in DOMAIN build.blocks /\ A[Top.to] \subseteq {Top.to} \cup A[build.at]
  BY <1>1, <1>2, <1>3, EndPlain
<1>5. PICK b, m : b = Top.to /\ m = BranchUnlessTerminated(build, b)
  OBVIOUS
<1>6. Worked(A, build, m) /\ Ended(m.blocks[build.at]) /\ m.locals = build.locals
  <2>1. b \in DOMAIN build.blocks /\ A[b] \subseteq {b} \cup A[build.at]
    BY <1>4, <1>5
  <2>2. Builder(build) /\ Sound(A, build.blocks) /\ m = BranchUnlessTerminated(build, b)
    BY <1>4, <1>5
  <2> QED
    BY <2>1, <2>2, EndWorks
<1>7. Builder(m)
  BY <1>4, <1>5, BranchBuilds, ClosedBuilds
<1>8. PICK h, t : h = PositionAt(m, Top.exit) /\ t = Below
  OBVIOUS
<1>9. Builds(h, t)
  BY <1>5, <1>8 DEF ElseOrWhileEnd
<1>10. IF kind = "then" THEN t = Append(Below, ElseFrame(Top)) ELSE t = Below
  BY <1>3, <1>8
<1> QED
  BY <1>1, <1>2, <1>3, <1>6, <1>7, <1>8, <1>9, <1>10, PlainOut

LEMMA PlainForEnd ==
  ASSUME CInv, Plainly, ForEnd
  PROVE  Plainly'
<1>1. AtEnd("for") /\ Builds(PositionAt(EmitNext(build, Top.cell, Top.to), Top.exit), Below)
  BY DEF ForEnd
<1>2. PICK A, D, R : Compiles(A, D, R, build, frames, prog)
  BY DEF Plainly
<1>3. PICK kind : kind = "for"
  OBVIOUS
<1>4. /\ Builder(build) /\ Stacked(frames, build, prog) /\ Top.kind = kind /\ Sound(A, build.blocks)
      /\ Top.to \in DOMAIN build.blocks /\ A[Top.to] \subseteq {Top.to} \cup A[build.at]
      /\ IsSlot(build, Top.cell)
      /\ DefinedIn(build.blocks, Top.cell, A[build.at]) /\ DefinedIn(build.blocks, Top.cell - 1, A[build.at])
  BY <1>1, <1>2, <1>3, EndPlain
<1>5. PICK b, c, m : b = Top.to /\ c = Top.cell /\ m = EmitNext(build, c, b)
  OBVIOUS
<1>6. Worked(A, build, m) /\ Ended(m.blocks[build.at]) /\ m.locals = build.locals
  BY <1>4, <1>5, NextWorks
<1>7. Builder(m)
  BY <1>4, <1>5, NextKeeps
<1>8. PICK h, t : h = PositionAt(m, Top.exit) /\ t = Below
  OBVIOUS
<1>9. Builds(h, t)
  BY <1>1, <1>5, <1>8
<1>10. IF kind = "then" THEN t = Append(Below, ElseFrame(Top)) ELSE t = Below
  BY <1>3, <1>8
<1> QED
  BY <1>1, <1>2, <1>3, <1>6, <1>7, <1>8, <1>9, <1>10, PlainOut

-----------------------------------------------------------------------------
(* The function is handed over                                             *)

LEMMA LastVerifies ==
  ASSUME Stacked(frames, build, prog), HoistedFrames(frames, DOMAIN build.locals, prog), Top.kind = "body",
         NEW A, NEW D, NEW R, Compiles(A, D, R, build, frames, prog),
         NEW g, Builder(g), Worked(A, build, g), Ended(g.blocks[build.at]), HandsOver(g)
  PROVE  Verifies(code'.blocks)
<1>1. PICK made : made = [blocks |-> g.blocks, cells |-> g.cells]
  OBVIOUS
<1>2. code' = made /\ made.blocks = g.blocks
  BY <1>1 DEF HandsOver
<1>3. WellFormed(made)
  BY <1>2, HandedOver
<1>4. Sound(A, made.blocks) /\ DOMAIN g.blocks = DOMAIN build.blocks
  BY <1>2 DEF Worked
<1>5. \A i \in DOMAIN frames : frames[i].kind = "body"
  <2>1. PICK N : N = Len(frames)
    OBVIOUS
  <2>2. N \in Nat \ {0} /\ DOMAIN frames = 1 .. N /\ Top = frames[N]
    BY <2>1, TopFrame DEF Top
  <2>3. \A i \in DOMAIN frames : frames[i].kind = "body" <=> i = 1
    BY DEF HoistedFrames
  <2>4. N = 1
    BY <2>2, <2>3
  <2> QED
    BY <2>2, <2>3, <2>4
<1>6. \A i \in DOMAIN frames : Fresh(frames[i]) = {}
  BY <1>5 DEF Fresh
<1>7. \A b \in DOMAIN build.blocks : b # build.at => Ended(build.blocks[b])
  BY <1>6 DEF Compiles, Closed
<1>8. \A b \in DOMAIN g.blocks : Ended(g.blocks[b])
  BY <1>4, <1>7 DEF Worked
<1>9. ASSUME NEW b \in DOMAIN g.blocks PROVE WellClosed(g.blocks[b])
  <2>1. PICK s : s = g.blocks[b]
    OBVIOUS
  <2>2. s # <<>> /\ s[Len(s)].op \in Terminators
    BY <1>8, <1>9, <2>1 DEF Ended
  <2>3. \A k \in DOMAIN s : s[k].op \in Terminators => k = Len(s)
    BY <1>2, <1>4, <1>9, <2>1 DEF Sound, TerminatorsLast
  <2> QED
    BY <2>1, <2>2, <2>3 DEF WellClosed
<1>10. Verifies(made.blocks)
  BY <1>2, <1>3, <1>4, <1>9, SoundVerifies
<1> QED
  BY <1>2, <1>10

LEMMA PlainFunctionEnd ==
  ASSUME CInv, Plainly, FunctionEnd
  PROVE  Verifies(code'.blocks)
<1>1. AtEnd("body") /\ HandsOver(EmitFallOff(build))
  BY DEF FunctionEnd
<1>2. PICK A, D, R : Compiles(A, D, R, build, frames, prog)
  BY DEF Plainly
<1>3. Builder(build) /\ Stacked(frames, build, prog) /\ Top.kind = "body"
  BY <1>1, EndTyped
<1>4. PICK g : g = EmitFallOff(build)
  OBVIOUS
<1>5. Sound(A, build.blocks)
  BY <1>2 DEF Compiles
<1>6. Worked(A, build, g) /\ Ended(g.blocks[build.at])
  BY <1>3, <1>4, <1>5, FallOffWorks
<1>7. Builder(g)
  BY <1>3, <1>4, FallOffBuilds, ClosedBuilds
<1>8. HandsOver(g)
  BY <1>1, <1>4
<1> QED
  BY <1>2, <1>3, <1>6, <1>7, <1>8, LastVerifies DEF Plainly

LEMMA PlainDict ==
  ASSUME CInv, PlainFunction(prog), Infers(prog.body, {"n"}), Plainly, DictReturned
  PROVE  Verifies(code'.blocks)
<1>1. AtStmt("return") /\ Top.kind = "body" /\ HandsOver(Build(build, <<Ret(Emitted(build, Here.args[1]))>>))
  BY DEF DictReturned
<1>2. PICK A, D, R : Compiles(A, D, R, build, frames, prog)
  BY DEF Plainly
<1>3. /\ Builder(build) /\ Stacked(frames, build, prog) /\ Emittable(build, Here) /\ Here.kind = "return"
      /\ ~Terminated(build) /\ Sound(A, build.blocks) /\ Readable(A, build, Here)
  BY <1>1, <1>2, AtPlain
<1>4. PICK e \in Exprs(build) : e = Emitted(build, Here.args[1])
  BY <1>3, FirstArg
<1>5. Reads(build, e, A[build.at])
  BY <1>3, <1>4, HasArgument, EmittedReads
<1>6. PICK g : g = Build(build, <<Ret(e)>>)
  OBVIOUS
<1>7. Extends(build, <<Ret(e)>>, g) /\ Builder(g)
  BY <1>3, <1>6, JumpBuilds DEF Extends
<1>8. Worked(A, build, g) /\ Ended(g.blocks[build.at])
  BY <1>3, <1>5, <1>7, RetWorks
<1>9. HandsOver(g)
  BY <1>1, <1>4, <1>6
<1> QED
  BY <1>1, <1>2, <1>3, <1>7, <1>8, <1>9, LastVerifies DEF Plainly

\* Names have slots, jumps are in loops and returns where they may be.
LEMMA PlainNeverFails ==
  ASSUME CInv, PlainFunction(prog), Infers(prog.body, {"n"}), Plainly, Fail
  PROVE  FALSE
<1>1. PICK A, D, R : Compiles(A, D, R, build, frames, prog)
  BY DEF Plainly
<1>2. phase = "codegen"
  BY DEF Fail, AtStmt, AtEnd
<1>3. Stacked(frames, build, prog)
  BY <1>2 DEF CInv
<1>4. PICK N : N = Len(frames)
  OBVIOUS
<1>5. N \in DOMAIN frames /\ Top = frames[N] /\ \A j \in DOMAIN frames : j <= N
  BY <1>3, <1>4, TopFrame DEF Top
<1>6. Sited(R, frames, prog)
  BY <1>1 DEF Compiles
<1>7. CASE Top.i \in DOMAIN Top.body /\ ~Evaluated(build, Here)
  BY <1>1, <1>3, <1>4, <1>7, HereScoped
<1>8. CASE (AtStmt("break") \/ AtStmt("continue")) /\ LoopsOpen = {}
  <2>1. \A j \in DOMAIN frames : ~IsLoop(frames[j])
    BY <1>8 DEF LoopsOpen, IsLoop
  <2>2. Top.body \in Seq(InThisLoop(prog.body))
    BY <1>5, <1>6, <2>1 DEF Sited
  <2>3. Top.i \in DOMAIN Top.body /\ Here.kind \in {"break", "continue"}
    BY <1>8 DEF AtStmt
  <2>4. Here \in InThisLoop(prog.body)
    BY <2>2, <2>3, InBlock DEF Here
  <2> QED
    BY <2>3, <2>4 DEF PlainFunction, JumpsInLoops
<1>9. CASE AtStmt("return") /\ prog.json /\ Top.kind # "body"
  <2>1. NoReturn(Top)
    BY <1>5, <1>6, <1>9 DEF Sited, Entered
  <2>2. PICK W : HasBlocks(W, Top) /\ \A s \in W : s.kind # "return"
    BY <2>1 DEF NoReturn
  <2>3. Top.body \in Seq(W) /\ Top.i \in DOMAIN Top.body /\ Here.kind = "return"
    BY <1>9, <2>2 DEF HasBlocks, Encloses, AtStmt
  <2>4. Here \in W
    BY <2>3, InBlock DEF Here
  <2> QED
    BY <2>2, <2>3, <2>4
<1>10. CASE AtEnd("body") /\ prog.json
  <2>1. HoistedFrames(frames, DOMAIN build.locals, prog)
    BY DEF Plainly
  <2>2. N = 1 /\ Top.body = prog.body
    BY <1>5, <1>10, <2>1 DEF HoistedFrames, AtEnd
  <2>3. Top.i <= Len(prog.body)
    BY <1>5, <1>6, <1>10, <2>2 DEF Sited
  <2>4. PICK b, i : b = Top.body /\ i = Top.i
    OBVIOUS
  <2>5. b \in Seq(Within(prog.body)) /\ i \in Nat \ {0}
    BY <1>3, <2>4, TopFrame, FrameFields
  <2>6. i <= Len(b)
    BY <2>2, <2>3, <2>4
  <2>7. i \in DOMAIN b
    BY <2>5, <2>6
  <2> QED
    BY <1>10, <2>4, <2>7 DEF AtEnd
<1> QED
  BY <1>7, <1>8, <1>9, <1>10 DEF Fail

-----------------------------------------------------------------------------
(* The emitters begin                                                      *)

LEMMA EntryWorks ==
  ASSUME NEW A, A[1] = {1}, NEW g, g = EntryBuild
  PROVE  /\ Sound(A, g.blocks) /\ ~Terminated(g) /\ g.at = 1 /\ DOMAIN g.blocks = {1}
         /\ DOMAIN g.locals = {"n"} /\ DefinedIn(g.blocks, g.locals["n"], {1})
<1>1. PICK e, x : e = Empty /\ x = "n"
  OBVIOUS
<1>2. Builder(e) /\ e.cells = 1 /\ e.at = 1 /\ DOMAIN e.locals = {}
  BY <1>1, EmptyBuilder DEF Empty
<1>3. PICK blocks : blocks = << <<>> >>
  OBVIOUS
<1>4. e.blocks = blocks /\ DOMAIN blocks = {1} /\ blocks[1] = <<>> /\ DOMAIN blocks[1] = {}
  BY <1>1, <1>3 DEF Empty
<1>5. A[1] = {1}
  OBVIOUS
<1>6. Sound(A, e.blocks)
  <2>1. JumpsOf(blocks[1]) = {}
    BY <1>4, NothingInEmpty
  <2>2. Dominate(A, blocks)
    BY <1>4, <1>5, <2>1 DEF Dominate
  <2>3. UsesCovered(A, blocks)
    BY <1>4 DEF UsesCovered
  <2>4. TerminatorsLast(blocks)
    BY <1>4 DEF TerminatorsLast
  <2> QED
    BY <1>4, <2>2, <2>3, <2>4 DEF Sound
<1>7. ~Terminated(e)
  BY <1>2, <1>4 DEF Terminated
<1>8. PICK v : v = Value(Slot(1))
  OBVIOUS
<1>9. v \in Exprs(e)
  <2>1. 1 \in 0 .. e.cells
    BY <1>2
  <2> QED
    BY <1>8, <2>1, SlotTyped
<1>10. Reads(e, v, A[e.at])
  <2>1. PICK o : o = Slot(1)
    OBVIOUS
  <2>2. o.cell = 1
    BY <2>1 DEF Slot, Operand
  <2>3. v = Expr("atom", o, o)
    BY <1>8, <2>1 DEF Value
  <2>4. v.l.cell = 1 /\ v.r.cell = 1
    BY <2>2, <2>3 DEF Expr
  <2> QED
    BY <2>4 DEF Reads
<1>11. g = BindSlot(e, x, v)
  BY <1>1, <1>8 DEF EntryBuild, Empty
<1>12. Builder(e) /\ ~Terminated(e) /\ Sound(A, e.blocks) /\ Reads(e, v, A[e.at])
  BY <1>2, <1>6, <1>7, <1>10
<1>13. Binds(A, e, g, x)
  BY <1>9, <1>11, <1>12, BindWorks
<1> QED
  BY <1>1, <1>2, <1>4, <1>13 DEF Binds, Worked

LEMMA PlainStart ==
  ASSUME CompilerInit, PlainFunction(prog)
  PROVE  Plainly
<1>1. prog \in Programs /\ prog.body \in Seq(Within(prog.body))
  BY ProgramsAssumption DEF CompilerInit, Encloses
<1>2. PICK A, D, R : A = <<{1}>> /\ D = <<{1}>> /\ R = << {"n"} >>
  OBVIOUS
<1>3. A[1] = {1} /\ D[1] = {1} /\ R[1] = {"n"}
  BY <1>2
<1>4. /\ Sound(A, build.blocks) /\ ~Terminated(build) /\ build.at = 1 /\ DOMAIN build.blocks = {1}
      /\ DOMAIN build.locals = {"n"} /\ DefinedIn(build.blocks, build.locals["n"], {1})
  <2>1. PICK g : g = EntryBuild
    OBVIOUS
  <2>2. build = g
    BY <2>1 DEF CompilerInit
  <2> QED
    BY <1>3, <2>1, <2>2, EntryWorks
<1>5. PICK f, b : f = BodyFrame(prog) /\ b = prog.body
  OBVIOUS
<1>6. frames = <<f>> /\ f.kind = "body" /\ f.body = b /\ f.i = 1 /\ f.orelse = <<>>
  <2>1. frames = <<f>>
    BY <1>5 DEF CompilerInit
  <2>2. PICK none : none = <<>>
    OBVIOUS
  <2>3. f = Frame("body", b, none, 1, 1, 0)
    BY <1>5, <2>2 DEF BodyFrame
  <2> QED
    BY <2>1, <2>2, <2>3 DEF Frame
<1>7. DOMAIN frames = {1} /\ frames[1] = f
  BY <1>6
<1>8. ~IsLoop(f) /\ Fresh(f) = {}
  BY <1>6 DEF IsLoop, Fresh
<1>9. HoistedFrames(frames, DOMAIN build.locals, prog)
  <2>1. \A j \in DOMAIN b : ~(j < 1)
    <3>1. PICK W : b \in Seq(W)
      BY <1>1, <1>5
    <3> QED
      BY <3>1
  <2> QED
    BY <1>4, <1>5, <1>6, <1>7, <2>1 DEF HoistedFrames
<1>10. Entered(R[1], f, prog)
  <2>1. Scoped(f.body, R[1]) \subseteq Scopes(prog)
    BY <1>1, <1>3, <1>5, <1>6, NestedScopes
  <2>2. Live(f.body)
    BY <1>5, <1>6 DEF PlainFunction, NoDeadCode, Live
  <2>3. Live(<<>>)
    <3>1. Len(<<>>) = 0
      OBVIOUS
    <3>2. 1 .. (Len(<<>>) - 1) = {}
      BY <3>1
    <3> QED
      BY <3>2 DEF Live
  <2> QED
    BY <1>6, <2>1, <2>2, <2>3 DEF Entered
<1>11. f.body \in Seq(InThisLoop(prog.body)) /\ f.orelse \in Seq(InThisLoop(prog.body))
  BY <1>1, <1>5, <1>6, NestedScopes, EmptyBlock
<1>12. prog.json => f.i <= Len(prog.body)
  <2> SUFFICES ASSUME prog.json PROVE 1 <= Len(b)
    BY <1>5, <1>6
  <2>1. {i \in DOMAIN b : b[i].kind = "return"} = {Len(b)}
    BY <1>5 DEF PlainFunction, ReturnsLast
  <2>2. Len(b) \in DOMAIN b
    BY <2>1
  <2>3. PICK W : b \in Seq(W)
    BY <1>1, <1>5
  <2> QED
    BY <2>2, <2>3
<1>13. Sited(R, frames, prog)
  <2>1. \A i, j \in DOMAIN frames : ~(i < j)
    BY <1>7
  <2> QED
    BY <1>7, <1>10, <1>11, <1>12, <2>1 DEF Sited
<1>14. \A i, j \in DOMAIN frames : ~(j = i + 1)
  BY <1>7
<1>15. Based(A, D, build, frames)
  BY <1>3, <1>4, <1>7, <1>14 DEF Based
<1>16. Slotted(D, R, build, frames, prog)
  <2>1. InScope(R, frames, 1) = {"n"}
    BY <1>3, <1>6, <1>7, ScopeStarts DEF InScope
  <2>2. Known(D[1], {"n"}, build, f, prog)
    BY <1>4 DEF Known, Named
  <2> QED
    BY <1>3, <1>4, <1>7, <1>14, <2>1, <2>2 DEF Slotted
<1>17. Closed(build, frames)
  BY <1>4, <1>6, <1>7, <1>8 DEF Closed
<1>18. Compiles(A, D, R, build, frames, prog)
  BY <1>4, <1>13, <1>15, <1>16, <1>17 DEF Compiles
<1> QED
  BY <1>9, <1>18 DEF Plainly

-----------------------------------------------------------------------------
(* Plain functions are compiled                                            *)

PInv ==
  PlainFunction(prog) =>
    /\ phase \in {"infer", "codegen"} => Plainly
    /\ phase = "codegen" => Infers(prog.body, {"n"})
    /\ phase = "verify" => Verifies(code.blocks)
    /\ phase \notin {"codegen_failed", "verify_failed"}

LEMMA PlainInit ==
  ASSUME CompilerInit
  PROVE  PInv
<1>1. phase = "infer"
  BY DEF CompilerInit, MachineInit
<1> QED
  BY <1>1, PlainStart DEF PInv

LEMMA PlainEmitting ==
  ASSUME CInv, PlainFunction(prog), Infers(prog.body, {"n"}), Plainly,
         \/ AssignStmt \/ AugAssignStmt \/ IfStmt \/ WhileStmt \/ ForStmt \/ JumpStmt \/ ReturnStmt
         \/ ThenEnd \/ ElseOrWhileEnd \/ ForEnd
  PROVE  Plainly'
<1>1. CASE AssignStmt \/ AugAssignStmt \/ JumpStmt \/ ReturnStmt
  BY <1>1, PlainAssign, PlainAugAssign, PlainJump, PlainReturn
<1>2. CASE IfStmt \/ WhileStmt \/ ForStmt
  BY <1>2, PlainIf, PlainWhile, PlainFor
<1>3. CASE ThenEnd \/ ElseOrWhileEnd \/ ForEnd
  BY <1>3, PlainThenEnd, PlainElseOrWhileEnd, PlainForEnd
<1> QED
  BY <1>1, <1>2, <1>3

LEMMA PlainNext ==
  ASSUME CInv, PInv, [Next]_vars
  PROVE  PInv'
<1>1. prog' = prog
  BY DEF Next, InferNames, EmitStep, Infer, AssignStmt, AugAssignStmt, IfStmt, WhileStmt, ForStmt, JumpStmt,
         ReturnStmt, ThenEnd, ElseOrWhileEnd, ForEnd, FunctionEnd, DictReturned, Fail, Builds, HandsOver,
         emitter, vars
<1> SUFFICES ASSUME PlainFunction(prog)
             PROVE  /\ phase' \in {"infer", "codegen"} => Plainly'
                    /\ phase' = "codegen" => Infers(prog.body, {"n"})
                    /\ phase' = "verify" => Verifies(code'.blocks)
                    /\ phase' \notin {"codegen_failed", "verify_failed"}
  BY <1>1 DEF PInv
<1>2. /\ phase \in {"infer", "codegen"} => Plainly
      /\ phase = "codegen" => Infers(prog.body, {"n"})
      /\ phase = "verify" => Verifies(code.blocks)
      /\ phase \notin {"codegen_failed", "verify_failed"}
  BY DEF PInv
<1>3. CASE InferNames
  <2>1. Plainly
    BY <1>2, <1>3 DEF InferNames, Infer
  <2>2. UNCHANGED <<build, frames, prog>>
    BY <1>3 DEF InferNames, Infer, emitter
  <2>3. Plainly'
    BY <2>1, <2>2 DEF Plainly
  <2>4. IF Infers(prog.body, {"n"}) THEN phase' = "codegen" ELSE phase' = "infer_failed"
    BY <1>3 DEF InferNames
  <2> QED
    BY <2>3, <2>4
<1>4. CASE \/ AssignStmt \/ AugAssignStmt \/ IfStmt \/ WhileStmt \/ ForStmt \/ JumpStmt \/ ReturnStmt
           \/ ThenEnd \/ ElseOrWhileEnd \/ ForEnd
  <2>1. phase = "codegen" /\ phase' = "codegen"
    BY <1>4 DEF AssignStmt, AugAssignStmt, IfStmt, WhileStmt, ForStmt, JumpStmt, ReturnStmt,
                ThenEnd, ElseOrWhileEnd, ForEnd, AtStmt, AtEnd, Builds, machine
  <2>2. Plainly /\ Infers(prog.body, {"n"})
    BY <1>2, <2>1
  <2>3. Plainly'
    BY <1>4, <2>2, PlainEmitting
  <2> QED
    BY <2>1, <2>2, <2>3
<1>5. CASE FunctionEnd \/ DictReturned
  <2>1. phase = "codegen" /\ phase' = "verify"
    BY <1>5 DEF FunctionEnd, DictReturned, AtStmt, AtEnd, HandsOver
  <2>2. Plainly /\ Infers(prog.body, {"n"})
    BY <1>2, <2>1
  <2>3. Verifies(code'.blocks)
    BY <1>5, <2>2, PlainFunctionEnd, PlainDict
  <2> QED
    BY <2>1, <2>3
<1>6. ~Fail
  <2> SUFFICES ASSUME Fail PROVE FALSE
    OBVIOUS
  <2>1. phase = "codegen"
    BY DEF Fail, AtStmt, AtEnd
  <2> QED
    BY <1>2, <2>1, PlainNeverFails
<1>7. CASE Verify
  <2>1. phase = "verify" /\ phase' = IF Verifies(code.blocks) THEN "ready" ELSE "verify_failed"
    BY <1>7 DEF Verify
  <2>2. phase' = "ready"
    BY <1>2, <2>1
  <2> QED
    BY <2>2
<1>8. CASE Exec
  <2>1. phase' \in {"running", "returned", "trapped"}
    BY <1>8 DEF Exec, ExecAlloca, ExecWrite, ExecBranch, ExecReturn, ExecTrap
  <2> QED
    BY <2>1
<1>9. CASE \E n \in Inputs : Call(n)
  <2>1. phase' = "running"
    BY <1>9 DEF Call, Enter
  <2> QED
    BY <2>1
<1>10. CASE UNCHANGED vars
  <2>1. UNCHANGED <<build, frames, prog, phase, code>>
    BY <1>10 DEF vars, emitter, machine
  <2>2. Plainly => Plainly'
    BY <2>1 DEF Plainly
  <2> QED
    BY <1>2, <2>1, <2>2
<1> QED
  BY <1>3, <1>4, <1>5, <1>6, <1>7, <1>8, <1>9, <1>10 DEF Next, EmitStep

\* A function without dead code, that hoists its assignments, gives every loop a
\* variable of its own, and jumps and returns where it may, gets through the
\* emitters and the verifier: of the functions over ints, in which a comparison is
\* only ever tested, so that what is stored, loaded and returned has one type.
THEOREM PlainFunctionsAreCompiled == Spec => []PlainFunctionsCompile
<1>1. Init => CInv /\ PInv
  BY CompilerStarts, PlainInit DEF Init
<1>2. CInv /\ [Next]_vars => CInv'
  BY CompilerStep, PipelineSteps
<1>3. CInv /\ PInv /\ [Next]_vars => PInv'
  BY PlainNext
<1>4. PInv => PlainFunctionsCompile
  BY DEF PInv, PlainFunctionsCompile
<1> QED
  BY <1>1, <1>2, <1>3, <1>4, PTL DEF Spec
=============================================================================
