------------------------- MODULE NativeRoutesProofs -------------------------
(***************************************************************************)
(* For any module, any paths and any number of routes: what is registered, *)
(* which requests leave Python alone and what native code is given.        *)
(***************************************************************************)
EXTENDS NativeRoutes, FiniteSetTheorems, FunctionTheorems, TLAPS

-----------------------------------------------------------------------------
(* Subsequences                                                            *)

Rank(I, i)  == Cardinality({j \in I : j < i})
Place(I, k) == CHOOSE i \in I : Rank(I, i) = k - 1

\* The rank of a position grows with it and stays below the number of positions.
LEMMA RankGrows ==
  ASSUME NEW n \in Nat, NEW I \in SUBSET (1 .. n)
  PROVE  /\ IsFiniteSet(I) /\ Cardinality(I) \in 0 .. n
         /\ \A i \in I : Rank(I, i) \in 0 .. Cardinality(I) - 1
         /\ \A i, j \in I : i < j => Rank(I, i) < Rank(I, j)
<1>1. IsFiniteSet(1 .. n) /\ Cardinality(1 .. n) = n
  BY FS_Interval, n \in Int
<1>2. IsFiniteSet(I) /\ Cardinality(I) <= n
  BY <1>1, FS_Subset
<1>3. Cardinality(I) \in Nat
  BY <1>2, FS_CardinalityType
<1>4. ASSUME NEW T \in SUBSET I, NEW U \in SUBSET T, NEW i \in T, i \notin U
      PROVE  Cardinality(U) \in Nat /\ Cardinality(T) \in Nat /\ Cardinality(U) < Cardinality(T)
  <2>1. IsFiniteSet(T)
    BY <1>2, FS_Subset
  <2>2. IsFiniteSet(U) /\ Cardinality(U) <= Cardinality(T) /\ (Cardinality(U) = Cardinality(T) => U = T)
    BY <2>1, <1>4, FS_Subset
  <2>3. Cardinality(U) \in Nat /\ Cardinality(T) \in Nat
    BY <2>1, <2>2, FS_CardinalityType
  <2> QED
    BY <2>2, <2>3, <1>4
<1>5. \A i \in I : Rank(I, i) \in 0 .. Cardinality(I) - 1
  <2>1. SUFFICES ASSUME NEW i \in I PROVE Rank(I, i) \in 0 .. Cardinality(I) - 1
    OBVIOUS
  <2>2. {j \in I : j < i} \in SUBSET I /\ i \notin {j \in I : j < i} /\ I \in SUBSET I
    OBVIOUS
  <2>3. Rank(I, i) \in Nat /\ Rank(I, i) < Cardinality(I)
    BY <1>4, <2>2 DEF Rank
  <2> QED
    BY <2>3, <1>3
<1>6. \A i, j \in I : i < j => Rank(I, i) < Rank(I, j)
  <2>1. SUFFICES ASSUME NEW i \in I, NEW j \in I, i < j PROVE Rank(I, i) < Rank(I, j)
    OBVIOUS
  <2> DEFINE U == {k \in I : k < i}
             T == {k \in I : k < j}
  <2>2. T \in SUBSET I /\ U \in SUBSET T /\ i \in T /\ i \notin U
    <3>1. \A k \in I : k \in Int
      OBVIOUS
    <3>2. \A k \in I : k < i => k < j
      BY <2>1, <3>1
    <3>3. i \in T /\ i \notin U
      BY <2>1, <3>1
    <3>4. U \subseteq T /\ T \subseteq I
      BY <3>2
    <3> QED
      BY <3>3, <3>4
  <2>3. Cardinality(U) < Cardinality(T)
    BY <1>4, <2>2
  <2> QED
    BY <2>3 DEF Rank
<1> QED
  BY <1>2, <1>3, <1>5, <1>6

\* The places of a set of positions are its members, each once, in order.
LEMMA PlacesInOrder ==
  ASSUME NEW n \in Nat, NEW I \in SUBSET (1 .. n)
  PROVE  /\ \A k \in 1 .. Cardinality(I) : Place(I, k) \in I /\ Rank(I, Place(I, k)) = k - 1
         /\ \A i \in I : \E k \in 1 .. Cardinality(I) : Place(I, k) = i
         /\ \A k, l \in 1 .. Cardinality(I) : k < l => Place(I, k) < Place(I, l)
<1> DEFINE c == Cardinality(I)
           T == 0 .. c - 1
           r == [i \in I |-> Rank(I, i)]
<1>1. /\ IsFiniteSet(I) /\ c \in Nat
      /\ \A i \in I : Rank(I, i) \in T
      /\ \A i, j \in I : i < j => Rank(I, i) < Rank(I, j)
  BY RankGrows
<1>2. IsFiniteSet(T) /\ Cardinality(T) = c
  BY <1>1, FS_Interval, c - 1 \in Int, 0 \in Int
<1>3. \A i, j \in I : Rank(I, i) = Rank(I, j) => i = j
  BY <1>1
<1>4. r \in Injection(I, T)
  BY <1>1, <1>3 DEF Injection, IsInjective
<1>5. r \in Surjection(I, T)
  BY <1>2, <1>4, FS_Injection
<1>6. \A k \in 1 .. c : \E i \in I : Rank(I, i) = k - 1
  <2>1. \A t \in T : \E i \in I : r[i] = t
    BY <1>5 DEF Surjection
  <2>2. \A k \in 1 .. c : k - 1 \in T
    BY <1>1
  <2> QED
    BY <2>1, <2>2
<1>7. \A k \in 1 .. c : Place(I, k) \in I /\ Rank(I, Place(I, k)) = k - 1
  BY <1>6 DEF Place
<1>8. ASSUME NEW i \in I PROVE \E k \in 1 .. c : Place(I, k) = i
  <2>1. Rank(I, i) + 1 \in 1 .. c
    BY <1>1
  <2>2. Rank(I, Place(I, Rank(I, i) + 1)) = Rank(I, i) /\ Place(I, Rank(I, i) + 1) \in I
    BY <1>1, <1>7, <2>1
  <2> QED
    BY <1>3, <2>1, <2>2
<1>9. ASSUME NEW k \in 1 .. c, NEW l \in 1 .. c, k < l PROVE Place(I, k) < Place(I, l)
  <2>1. /\ Place(I, k) \in I /\ Place(I, l) \in I
        /\ Rank(I, Place(I, k)) < Rank(I, Place(I, l))
    <3>1. k \in Int /\ l \in Int /\ k - 1 < l - 1
      BY <1>1, <1>9
    <3> QED
      BY <1>7, <3>1
  <2>2. Place(I, k) \in Int /\ Place(I, l) \in Int
    <3>1. \A i \in I : i \in Int
      OBVIOUS
    <3> QED
      BY <2>1, <3>1
  <2>3. \A i, j \in I : i < j => ~(Rank(I, j) < Rank(I, i))
    <3>1. \A i \in I : Rank(I, i) \in Int
      BY <1>1
    <3> QED
      BY <1>1, <3>1
  <2>4. ~(Place(I, l) < Place(I, k))
    BY <2>1, <2>3
  <2>5. Place(I, k) # Place(I, l)
    <3>1. \A i \in I : ~(Rank(I, i) < Rank(I, i))
      BY <1>1
    <3> QED
      BY <2>1, <3>1
  <2> QED
    BY <2>2, <2>4, <2>5
<1> QED
  BY <1>7, <1>8, <1>9

\* What is kept of a sequence: the elements at the places, in order.
LEMMA KeptElements ==
  ASSUME NEW S, NEW s \in Seq(S), NEW I \in SUBSET DOMAIN s
  PROVE  /\ Cardinality(I) \in 0 .. Len(s)
         /\ Kept(s, I) \in Seq(S) /\ Len(Kept(s, I)) = Cardinality(I)
         /\ DOMAIN Kept(s, I) = 1 .. Cardinality(I)
         /\ \A k \in DOMAIN Kept(s, I) : Place(I, k) \in I /\ Kept(s, I)[k] = s[Place(I, k)]
         /\ \A i \in I : \E k \in DOMAIN Kept(s, I) : Place(I, k) = i
         /\ \A k, l \in DOMAIN Kept(s, I) : k < l => Place(I, k) < Place(I, l)
<1>1. Len(s) \in Nat /\ DOMAIN s = 1 .. Len(s) /\ s \in [1 .. Len(s) -> S]
  OBVIOUS
<1>2. Cardinality(I) \in 0 .. Len(s)
  BY <1>1, RankGrows
<1>3. /\ \A k \in 1 .. Cardinality(I) : Place(I, k) \in I
      /\ \A i \in I : \E k \in 1 .. Cardinality(I) : Place(I, k) = i
      /\ \A k, l \in 1 .. Cardinality(I) : k < l => Place(I, k) < Place(I, l)
  BY <1>1, PlacesInOrder
<1>4. Kept(s, I) = [k \in 1 .. Cardinality(I) |-> s[Place(I, k)]]
  BY DEF Kept, Place, Rank
<1>5. Kept(s, I) \in [1 .. Cardinality(I) -> S]
  BY <1>1, <1>3, <1>4
<1>6. Kept(s, I) \in Seq(S) /\ Len(Kept(s, I)) = Cardinality(I)
  BY <1>2, <1>5
<1> QED
  BY <1>2, <1>3, <1>4, <1>6

\* A sequence of which all is kept stays as it is.
LEMMA KeptAll ==
  ASSUME NEW S, NEW s \in Seq(S)
  PROVE  Kept(s, DOMAIN s) = s
<1> DEFINE n == Len(s)
           I == 1 .. n
<1>1. n \in Nat /\ DOMAIN s = I /\ s = [k \in I |-> s[k]]
  OBVIOUS
<1>2. Cardinality(I) = n
  BY <1>1, FS_Interval, 1 \in Int, n \in Int
<1>3. ASSUME NEW k \in I PROVE Rank(I, k) = k - 1
  <2>1. {j \in I : j < k} = 1 .. k - 1
    BY <1>1
  <2>2. 1 \in Int /\ k - 1 \in Int /\ k >= 1
    BY <1>1
  <2>3. Cardinality(1 .. k - 1) = k - 1
    BY <2>2, FS_Interval
  <2> QED
    BY <2>1, <2>3 DEF Rank
<1>4. ASSUME NEW k \in I PROVE Place(I, k) = k
  <2>1. Place(I, k) \in I /\ Rank(I, Place(I, k)) = k - 1
    BY <1>1, <1>2, PlacesInOrder
  <2>2. Rank(I, Place(I, k)) = Place(I, k) - 1
    BY <1>3, <2>1
  <2> QED
    BY <2>1, <2>2
<1>5. Kept(s, I) = [k \in I |-> s[Place(I, k)]]
  BY <1>2 DEF Kept, Place, Rank
<1> QED
  BY <1>1, <1>4, <1>5

-----------------------------------------------------------------------------
(* Paths and patterns                                                      *)

\* The router's segments of a pattern are those it means, of a path those asked
\* for; both are sequences again.
LEMMA SegmentsMeant ==
  ASSUME NEW pattern \in Seq(Segment)
  PROVE  /\ ParseSegments(pattern) = Meant(pattern)
         /\ Meant(pattern) \in Seq(Segment)
         /\ \A x \in ParamNames(pattern) :
              \E i \in DOMAIN Meant(pattern) :
                Meant(pattern)[i].kind = "param" /\ Meant(pattern)[i].name = x
<1> DEFINE I == {i \in DOMAIN pattern : pattern[i].name # "" \/ pattern[i].kind = "param"}
<1>1. \A i \in DOMAIN pattern : pattern[i] \in Segment
  OBVIOUS
<1>2. {i \in DOMAIN pattern : ~(pattern[i].kind = "lit" /\ IsEmpty(pattern[i].name))} = I
  BY <1>1 DEF IsEmpty, Segment
<1>3. Meant(pattern) = Kept(pattern, I)
  BY DEF Meant
<1>4. ParseSegments(pattern) = Kept(pattern, I)
  BY <1>2 DEF ParseSegments
<1>5. I \in SUBSET DOMAIN pattern
  OBVIOUS
<1>6. /\ Kept(pattern, I) \in Seq(Segment)
      /\ \A k \in DOMAIN Kept(pattern, I) : Kept(pattern, I)[k] = pattern[Place(I, k)]
      /\ \A i \in I : \E k \in DOMAIN Kept(pattern, I) : Place(I, k) = i
  <2> HIDE DEF I
  <2> QED
    BY <1>5, KeptElements
<1>7. ASSUME NEW x \in ParamNames(pattern)
      PROVE  \E i \in DOMAIN Kept(pattern, I) :
               Kept(pattern, I)[i].kind = "param" /\ Kept(pattern, I)[i].name = x
  <2>1. PICK j \in DOMAIN pattern : pattern[j].kind = "param" /\ pattern[j].name = x
    BY <1>7 DEF ParamNames
  <2>2. j \in I
    BY <2>1
  <2>3. PICK i \in DOMAIN Kept(pattern, I) : Place(I, i) = j
    BY <1>6, <2>2
  <2>4. Kept(pattern, I)[i] = pattern[j]
    BY <1>6, <2>3
  <2> QED
    BY <2>1, <2>3, <2>4
<1> QED
  BY <1>3, <1>4, <1>6, <1>7

LEMMA PathAsked ==
  ASSUME NEW path \in Seq(STRING)
  PROVE  NonEmpty(path) = Asked(path) /\ Asked(path) \in Seq(STRING)
<1> DEFINE I == {i \in DOMAIN path : path[i] # ""}
<1>1. NonEmpty(path) = Kept(path, I) /\ Asked(path) = Kept(path, I)
  BY DEF NonEmpty, Asked, IsEmpty
<1>2. I \in SUBSET DOMAIN path
  OBVIOUS
<1>3. Kept(path, I) \in Seq(STRING)
  <2> HIDE DEF I
  <2> QED
    BY <1>2, KeptElements
<1> QED
  BY <1>1, <1>3

\* The router matches a path exactly when the route fits it.
LEMMA MatchIsFit ==
  ASSUME NEW info, info.pattern \in Seq(Segment), NEW path \in Seq(STRING)
  PROVE  MatchSegments(ParseSegments(info.pattern), NonEmpty(path)) <=> Fits(info, path)
<1> DEFINE want == Meant(info.pattern)
           have == Asked(path)
<1>1. /\ ParseSegments(info.pattern) = want /\ want \in Seq(Segment)
      /\ NonEmpty(path) = have /\ have \in Seq(STRING)
  BY SegmentsMeant, PathAsked
<1>2. DOMAIN want = 1 .. Len(want) /\ \A i \in DOMAIN want : want[i].kind \in {"lit", "param"}
  <2> HIDE DEF want
  <2>1. \A i \in DOMAIN want : want[i] \in Segment
    BY <1>1
  <2> QED
    BY <1>1, <2>1 DEF Segment
<1>3. MatchSegments(want, have) <=>
        /\ Len(want) = Len(have)
        /\ \A i \in 1 .. Len(want) : want[i].kind = "param" \/ want[i].name = have[i]
  BY <1>2 DEF MatchSegments
<1> QED
  BY <1>1, <1>3 DEF Fits

-----------------------------------------------------------------------------
(* The inductive invariant                                                 *)

Compiled == {i \in DOMAIN declared : declared[i].handler.name \in CompiledFunctions}

\* The app is as it was found, and compiled only if that was asked for.
Declared ==
  /\ declared \in Seq(RouteInfo) /\ Len(declared) \in 1 .. MaxRoutes
  /\ noNative \in BOOLEAN
  /\ phase \in {"starting", "compiled", "compile_failed", "routed", "serving", "start_failed"}
  /\ phase = "compiled" => ~noNative

\* The router has nothing or, once it is filled, the compiled routes.
Registered ==
  \/ /\ routes = <<>>
     /\ noNative \/ phase \in {"starting", "compiled", "compile_failed"}
  \/ /\ ~noNative /\ phase \in {"routed", "serving", "start_failed"}
     /\ routes = [k \in DOMAIN CompiledRoutes |-> CompiledRoute(CompiledRoutes[k])]

\* What a request for m and path is answered with.
AnswerTo(m, path, a) ==
  LET hits == Matching(m, path)
      hit  == routes[FirstMatch(hits)]
  IN  \/ hits = {} /\ a = Answer(m, path, "asgi", <<>>, NoCall)
      \/ /\ hits # {} /\ (~Converts(hit, path) \/ Refused(hit))
         /\ a = Answer(m, path, "error", <<hit>>, NoCall)
      \/ /\ hits # {} /\ Converts(hit, path) /\ ~Refused(hit)
         /\ a = Answer(m, path, "native", <<hit>>, NativeCall(hit, path))

\* There is no answer yet, or it is that to a request made of these routes.
Answered ==
  \/ answer = Answer("none", <<>>, "nobody", <<>>, NoCall)
  \/ phase = "serving" /\ \E m \in Methods, path \in Paths : AnswerTo(m, path, answer)

IInv == Declared /\ Registered /\ Answered

LEMMA InitInvariant == Init => IInv
<1> SUFFICES ASSUME Init PROVE IInv
  OBVIOUS
<1>1. PICK n \in 1 .. MaxRoutes : declared \in [1 .. n -> RouteInfo]
  BY DEF Init
<1>2. n \in Nat
  BY <1>1, RoutesAssumption
<1>3. declared \in Seq(RouteInfo) /\ Len(declared) = n
  BY <1>1, <1>2
<1> QED
  BY <1>1, <1>3 DEF Init, IInv, Declared, Registered, Answered

\* What the routes are made from changes with the app alone.
LEMMA RoutesOfTheApp ==
  ASSUME UNCHANGED declared
  PROVE  /\ CompiledRoutes' = CompiledRoutes
         /\ \A info : CompiledRoute(info)' = CompiledRoute(info)
<1>1. JsonFunctions' = JsonFunctions /\ CompiledFunctions' = CompiledFunctions
  BY DEF JsonFunctions, CompiledFunctions
<1> QED
  BY <1>1 DEF CompiledRoutes, CompiledRoute

\* A step before the app serves leaves the answer and the app alone.
LEMMA StartInvariant ==
  ASSUME IInv, Compile \/ SkipCompile \/ RegisterRoutes \/ StartServing
  PROVE  IInv'
<1>1. UNCHANGED <<declared, noNative, answer>> /\ phase # "serving"
  BY DEF Compile, SkipCompile, RegisterRoutes, StartServing
<1>2. CompiledRoutes' = CompiledRoutes /\ \A info : CompiledRoute(info)' = CompiledRoute(info)
  BY <1>1, RoutesOfTheApp
<1>4. Declared'
  BY <1>1 DEF IInv, Declared, Compile, SkipCompile, RegisterRoutes, StartServing
<1>5. Answered'
  BY <1>1 DEF IInv, Answered, Answer
<1>6. Registered'
  <2>1. CASE Compile
    BY <2>1 DEF IInv, Registered, Compile
  <2>2. CASE SkipCompile
    BY <2>2 DEF IInv, Registered, SkipCompile
  <2>3. CASE RegisterRoutes
    BY <2>3, <1>2 DEF IInv, Declared, Registered, RegisterRoutes
  <2>4. CASE StartServing
    BY <2>4, <1>2 DEF IInv, Registered, StartServing
  <2> QED
    BY <2>1, <2>2, <2>3, <2>4
<1> QED
  BY <1>4, <1>5, <1>6 DEF IInv

LEMMA RequestInvariant ==
  ASSUME IInv, NEW m \in Methods, NEW path \in Paths, HandleRequest(m, path)
  PROVE  IInv'
<1>1. UNCHANGED <<declared, noNative, phase, routes>> /\ phase = "serving"
  BY DEF HandleRequest
<1>2. Declared' /\ Registered'
  BY <1>1, RoutesOfTheApp DEF IInv, Declared, Registered
<1>3. AnswerTo(m, path, answer')
  BY DEF HandleRequest, AnswerTo
<1>4. AnswerTo(m, path, answer)'
  BY <1>1, <1>3 DEF AnswerTo, Matching
<1> QED
  BY <1>1, <1>2, <1>4 DEF IInv, Answered

LEMMA Invariance == Spec => []IInv
<1>1. IInv /\ [Next]_vars => IInv'
  <2> SUFFICES ASSUME IInv, [Next]_vars PROVE IInv'
    OBVIOUS
  <2>1. CASE Compile \/ SkipCompile \/ RegisterRoutes \/ StartServing
    BY <2>1, StartInvariant
  <2>2. CASE \E m \in Methods, path \in Paths : HandleRequest(m, path)
    BY <2>2, RequestInvariant
  <2>3. CASE UNCHANGED vars
    <3>1. UNCHANGED <<declared, noNative, phase, routes, answer>>
      BY <2>3 DEF vars
    <3>2. Declared' /\ Registered'
      BY <3>1, RoutesOfTheApp DEF IInv, Declared, Registered
    <3> QED
      BY <3>1, <3>2 DEF IInv, Answered, AnswerTo, Matching
  <2> QED
    BY <2>1, <2>2, <2>3 DEF Next
<1> QED
  BY <1>1, InitInvariant, PTL DEF Spec

-----------------------------------------------------------------------------
(* What is registered and what matches                                     *)

\* A set of positions that is not empty has a first and a last one.
LEMMA FirstAndLast ==
  ASSUME NEW n \in Nat, NEW I \in SUBSET (1 .. n), I # {}
  PROVE  /\ \E i \in I : \A j \in I : i <= j
         /\ \E i \in I : \A j \in I : j <= i
<1> DEFINE c == Cardinality(I)
<1>1. c \in Nat /\ c # 0
  BY RankGrows, FS_EmptySet
<1>2. /\ \A k \in 1 .. c : Place(I, k) \in I
      /\ \A i \in I : \E k \in 1 .. c : Place(I, k) = i
      /\ \A k, l \in 1 .. c : k < l => Place(I, k) < Place(I, l)
  BY PlacesInOrder
<1>3. 1 \in 1 .. c /\ c \in 1 .. c
  BY <1>1
<1>4. \A i \in I : i \in Int
  OBVIOUS
<1> HIDE DEF c
<1>5. ASSUME NEW j \in I PROVE Place(I, 1) <= j /\ j <= Place(I, c)
  <2>1. PICK k \in 1 .. c : Place(I, k) = j
    BY <1>2
  <2>2. (k = 1 \/ 1 < k) /\ (k = c \/ k < c)
    BY <1>1, <1>3
  <2>3. Place(I, 1) \in Int /\ Place(I, c) \in Int /\ j \in Int
    BY <1>2, <1>3, <1>4
  <2>4. Place(I, 1) = j \/ Place(I, 1) < j
    BY <1>2, <1>3, <2>1, <2>2
  <2>5. Place(I, c) = j \/ j < Place(I, c)
    BY <1>2, <1>3, <2>1, <2>2
  <2> QED
    BY <2>3, <2>4, <2>5
<1> QED
  BY <1>2, <1>3, <1>5

LEMMA RouteTypes ==
  ASSUME Declared, NEW i \in DOMAIN declared
  PROVE  /\ declared[i] \in RouteInfo
         /\ declared[i].pattern \in Seq(Segment)
         /\ declared[i].handler \in Handler
         /\ declared[i].handler.params \in Seq([name : STRING, type : Type])
<1>1. declared[i] \in RouteInfo
  BY DEF Declared
<1> QED
  BY <1>1, RoutesAssumption DEF RouteInfo, Handler

\* The router's entries are the compiled routes in the order of the app, all of
\* them once the app serves.
LEMMA RoutesCompiled ==
  ASSUME Declared, Registered
  PROVE  /\ \E n \in 0 .. Len(declared) : DOMAIN routes = 1 .. n
         /\ \A k \in DOMAIN routes :
              /\ ~noNative /\ Place(Compiled, k) \in Compiled
              /\ routes[k] = CompiledRoute(declared[Place(Compiled, k)])
         /\ \A k, l \in DOMAIN routes : k < l => Place(Compiled, k) < Place(Compiled, l)
         /\ phase = "serving" /\ ~noNative =>
              \A i \in Compiled : \E k \in DOMAIN routes : Place(Compiled, k) = i
<1>1. declared \in Seq(RouteInfo) /\ Compiled \in SUBSET DOMAIN declared /\ Len(declared) \in Nat
  BY DEF Declared, Compiled
<1>2. CompiledRoutes = Kept(declared, Compiled)
  BY DEF CompiledRoutes, Compiled
<1>3. /\ Cardinality(Compiled) \in 0 .. Len(declared)
      /\ DOMAIN CompiledRoutes = 1 .. Cardinality(Compiled)
      /\ \A k \in DOMAIN CompiledRoutes :
           Place(Compiled, k) \in Compiled /\ CompiledRoutes[k] = declared[Place(Compiled, k)]
      /\ \A i \in Compiled : \E k \in DOMAIN CompiledRoutes : Place(Compiled, k) = i
      /\ \A k, l \in DOMAIN CompiledRoutes : k < l => Place(Compiled, k) < Place(Compiled, l)
  BY <1>1, <1>2, KeptElements
<1>4. CASE routes = <<>> /\ (noNative \/ phase \in {"starting", "compiled", "compile_failed"})
  <2>1. DOMAIN routes = 1 .. 0 /\ 0 \in 0 .. Len(declared)
    BY <1>1, <1>4
  <2> QED
    BY <1>4, <2>1
<1>5. CASE ~noNative /\ routes = [k \in DOMAIN CompiledRoutes |-> CompiledRoute(CompiledRoutes[k])]
  BY <1>3, <1>5
<1> QED
  BY <1>4, <1>5 DEF Registered

\* Of the matching routes there is a first.
LEMMA FirstMatches ==
  ASSUME Declared, Registered, NEW m, NEW path, Matching(m, path) # {}
  PROVE  /\ FirstMatch(Matching(m, path)) \in Matching(m, path)
         /\ \A k \in Matching(m, path) : FirstMatch(Matching(m, path)) <= k
<1>1. PICK n \in Nat : DOMAIN routes = 1 .. n
  BY RoutesCompiled DEF Declared
<1>2. Matching(m, path) \in SUBSET (1 .. n)
  BY <1>1 DEF Matching
<1> QED
  BY <1>2, FirstAndLast DEF FirstMatch

-----------------------------------------------------------------------------
(* Theorems                                                                *)

\* The state keeps its types, whatever app is served: what the router holds
\* are routes of the app, and never more of them than it has (router.rs).
THEOREM TypeCorrect == Spec => []TypeOK
<1>1. IInv => TypeOK
  <2> SUFFICES ASSUME IInv PROVE TypeOK
    OBVIOUS
  <2>1. /\ declared \in Seq(RouteInfo) /\ Len(declared) \in 1 .. MaxRoutes /\ noNative \in BOOLEAN
        /\ phase \in {"starting", "compiled", "compile_failed", "routed", "serving", "start_failed"}
    BY DEF IInv, Declared
  <2>2. \A k \in DOMAIN routes : routes[k].info \in RouteInfo
    <3> SUFFICES ASSUME NEW k \in DOMAIN routes PROVE routes[k].info \in RouteInfo
      OBVIOUS
    <3>1. Place(Compiled, k) \in Compiled /\ routes[k] = CompiledRoute(declared[Place(Compiled, k)])
      BY RoutesCompiled DEF IInv
    <3>2. Place(Compiled, k) \in DOMAIN declared
      BY <3>1 DEF Compiled
    <3> QED
      BY <2>1, <3>1, <3>2 DEF CompiledRoute
  <2>3. DOMAIN routes \in {1 .. n : n \in 0 .. Len(declared)}
    BY RoutesCompiled DEF IInv
  <2>4. answer.by \in {"nobody", "asgi", "native", "error"} /\ answer.call.reads \in {"nothing", "dict", "int"}
    BY DEF IInv, Answered, AnswerTo, Answer, NoCall, NativeCall
  <2> QED
    BY <2>1, <2>2, <2>3, <2>4 DEF TypeOK
<1> QED
  BY <1>1, Invariance, PTL

\* A request leaves Python alone exactly when a route of the app with a
\* compilable handler fits it (match_hybrid over register_routes' entries).
THEOREM NativeExactlyWhereEligible == Spec => []NativeIffEligible
<1>1. IInv => NativeIffEligible
  <2> SUFFICES ASSUME IInv, phase = "serving", answer.by # "nobody"
               PROVE  answer.by # "asgi" <=>
                        ~noNative /\ \E i \in DOMAIN declared : Eligible(i, answer.method, answer.path)
    BY DEF NativeIffEligible
  <2>1. PICK m \in Methods, path \in Paths : AnswerTo(m, path, answer)
    BY DEF IInv, Answered, Answer
  <2>2. /\ answer.method = m /\ answer.path = path
        /\ answer.by # "asgi" <=> Matching(m, path) # {}
    BY <2>1 DEF AnswerTo, Answer
  <2>3. path \in Seq(STRING)
    BY RoutesAssumption
  <2>4. \A i \in DOMAIN declared : Eligible(i, m, path) <=>
          i \in Compiled /\ declared[i].method = m
            /\ MatchSegments(ParseSegments(declared[i].pattern), NonEmpty(path))
    <3> SUFFICES ASSUME NEW i \in DOMAIN declared
                 PROVE  Eligible(i, m, path) <=>
                          i \in Compiled /\ declared[i].method = m
                            /\ MatchSegments(ParseSegments(declared[i].pattern), NonEmpty(path))
      OBVIOUS
    <3>1. i \in Compiled <=>
            \E k \in DOMAIN declared :
              declared[k].handler.name = declared[i].handler.name /\ Compilable(declared[k].handler)
      BY DEF Compiled, CompiledFunctions
    <3>2. MatchSegments(ParseSegments(declared[i].pattern), NonEmpty(path)) <=> Fits(declared[i], path)
      BY <2>3, RouteTypes, MatchIsFit DEF IInv
    <3> QED
      BY <3>1, <3>2 DEF Eligible
  <2>5. ASSUME NEW k \in Matching(m, path)
        PROVE  ~noNative /\ \E i \in DOMAIN declared : Eligible(i, m, path)
    <3>1. /\ k \in DOMAIN routes /\ routes[k].method = m
          /\ MatchSegments(routes[k].segments, NonEmpty(path))
      BY <2>5 DEF Matching
    <3>2. /\ ~noNative /\ Place(Compiled, k) \in Compiled
          /\ routes[k] = CompiledRoute(declared[Place(Compiled, k)])
      BY <3>1, RoutesCompiled DEF IInv
    <3> QED
      BY <2>4, <3>1, <3>2 DEF CompiledRoute, Compiled
  <2>6. ASSUME ~noNative, NEW i \in DOMAIN declared, Eligible(i, m, path)
        PROVE  Matching(m, path) # {}
    <3>1. /\ i \in Compiled /\ declared[i].method = m
          /\ MatchSegments(ParseSegments(declared[i].pattern), NonEmpty(path))
      BY <2>4, <2>6
    <3>2. PICK k \in DOMAIN routes : Place(Compiled, k) = i
      BY <2>6, <3>1, RoutesCompiled DEF IInv
    <3>3. routes[k] = CompiledRoute(declared[i])
      BY <3>2, RoutesCompiled DEF IInv
    <3>4. k \in Matching(m, path)
      BY <3>1, <3>2, <3>3 DEF Matching, CompiledRoute
    <3> QED
      BY <3>4
  <2> QED
    BY <2>2, <2>5, <2>6
<1> QED
  BY <1>1, Invariance, PTL

\* The parameters of a compiled route are those the path names, in the order of
\* the handler.
LEMMA PathParamsTaken ==
  ASSUME NEW info, info.handler.params \in Seq([name : STRING, type : Type])
  PROVE  LET given == info.handler.params
             taken == Kept(given, {i \in DOMAIN given : given[i].name \in ParamNames(info.pattern)})
         IN  /\ PathParams(info) = taken
             /\ Len(taken) \in Nat /\ DOMAIN taken = 1 .. Len(taken)
             /\ \A k \in DOMAIN taken : taken[k].name \in ParamNames(info.pattern)
<1> DEFINE given == info.handler.params
           I == {i \in DOMAIN given : given[i].name \in ParamNames(info.pattern)}
           taken == Kept(given, I)
<1>1. {i \in DOMAIN given : ParamSource(given[i], info.pattern) = "path"} = I
  BY DEF ParamSource
<1>2. PathParams(info) = taken
  BY <1>1 DEF PathParams
<1>3. I \in SUBSET DOMAIN given
  OBVIOUS
<1>4. /\ taken \in Seq([name : STRING, type : Type])
      /\ \A k \in DOMAIN taken : Place(I, k) \in I /\ taken[k] = given[Place(I, k)]
  <2> HIDE DEF I, given
  <2> QED
    BY <1>3, KeptElements DEF given
<1>5. \A k \in DOMAIN taken : taken[k].name \in ParamNames(info.pattern)
  BY <1>4
<1>6. Len(taken) \in Nat /\ DOMAIN taken = 1 .. Len(taken)
  <2> HIDE DEF taken
  <2> QED
    BY <1>4
<1> QED
  BY <1>2, <1>5, <1>6

\* The value of a parameter is the segment at a place that bears its name.
LEMMA ValueInPlace ==
  ASSUME NEW pattern \in Seq(Segment), NEW incoming, NEW x,
         \E i \in DOMAIN pattern : pattern[i].kind = "param" /\ pattern[i].name = x
  PROVE  \E i \in 1 .. Len(pattern) :
           /\ pattern[i].kind = "param" /\ pattern[i].name = x
           /\ ParamValue(pattern, incoming, x) = incoming[i]
<1> DEFINE I == {i \in DOMAIN pattern : pattern[i].kind = "param" /\ pattern[i].name = x}
           Last(i) == /\ pattern[i].kind = "param" /\ pattern[i].name = x
                      /\ \A k \in DOMAIN pattern :
                           pattern[k].kind = "param" /\ pattern[k].name = x => k <= i
<1>1. Len(pattern) \in Nat /\ DOMAIN pattern = 1 .. Len(pattern)
  OBVIOUS
<1>2. I \in SUBSET (1 .. Len(pattern)) /\ I # {}
  BY <1>1
<1>3. \E i \in I : \A j \in I : j <= i
  <2> HIDE DEF I
  <2> QED
    BY <1>1, <1>2, FirstAndLast
<1>4. \E i \in DOMAIN pattern : Last(i)
  BY <1>3
<1>5. PICK i \in DOMAIN pattern : i = (CHOOSE k \in DOMAIN pattern : Last(k)) /\ Last(i)
  BY <1>4
<1>6. ParamValue(pattern, incoming, x) = incoming[i]
  BY <1>5 DEF ParamValue
<1> QED
  BY <1>1, <1>5, <1>6

\* Each argument of a native call is the path segment its parameter is named
\* after, for every order of the parameters in path and handler (convert_params
\* and call_typed).
THEOREM ArgumentsAlwaysInPlace == Spec => []ArgumentsInPlace
<1>1. IInv => ArgumentsInPlace
  <2> SUFFICES ASSUME IInv, answer.by = "native" PROVE ArgumentsInPlace
    BY DEF ArgumentsInPlace
  <2>1. PICK m \in Methods, path \in Paths : AnswerTo(m, path, answer)
    BY DEF IInv, Answered, Answer
  <2> DEFINE k == FirstMatch(Matching(m, path))
             info == declared[Place(Compiled, k)]
  <2>2. /\ Matching(m, path) # {} /\ answer.path = path
        /\ answer.route[1] = routes[k] /\ answer.call = NativeCall(routes[k], path)
    BY <2>1 DEF AnswerTo, Answer
  <2>3. /\ k \in DOMAIN routes
        /\ MatchSegments(routes[k].segments, NonEmpty(path))
    <3>1. k \in Matching(m, path)
      BY <2>2, FirstMatches DEF IInv
    <3> HIDE DEF k
    <3> QED
      BY <3>1 DEF Matching
  <2>4. Place(Compiled, k) \in DOMAIN declared /\ routes[k] = CompiledRoute(info)
    BY <2>3, RoutesCompiled DEF IInv, Compiled
  <2>5. info.pattern \in Seq(Segment) /\ info.handler.params \in Seq([name : STRING, type : Type])
    BY <2>4, RouteTypes DEF IInv
  <2>6. path \in Seq(STRING)
    BY RoutesAssumption
  <2> HIDE DEF k, info
  <2> DEFINE given == info.handler.params
             taken == Kept(given, {i \in DOMAIN given : given[i].name \in ParamNames(info.pattern)})
             want  == Meant(info.pattern)
             have  == Asked(path)
  <2>7. /\ routes[k].info = info /\ routes[k].segments = want
        /\ routes[k].params = taken
        /\ Len(taken) \in Nat /\ DOMAIN taken = 1 .. Len(taken)
        /\ \A j \in DOMAIN taken : taken[j].name \in ParamNames(info.pattern)
    <3>1. /\ PathParams(info) = taken
          /\ Len(taken) \in Nat /\ DOMAIN taken = 1 .. Len(taken)
          /\ \A j \in DOMAIN taken : taken[j].name \in ParamNames(info.pattern)
      BY <2>5, PathParamsTaken
    <3>2. ParseSegments(info.pattern) = want
      BY <2>5, SegmentsMeant
    <3> HIDE DEF taken, want
    <3> QED
      BY <2>4, <3>1, <3>2 DEF CompiledRoute
  <2>8. want \in Seq(Segment) /\ NonEmpty(path) = have
    BY <2>5, <2>6, SegmentsMeant, PathAsked
  <2>9. answer.call.args = [j \in DOMAIN taken |-> ParamValue(want, have, taken[j].name)]
    BY <2>2, <2>7, <2>8 DEF NativeCall
  <2>10. Len(answer.call.args) = Len(taken)
    <3> HIDE DEF taken
    <3> QED
      BY <2>7, <2>9
  <2>11. ASSUME NEW j \in 1 .. Len(taken)
         PROVE  \E i \in 1 .. Len(want) :
                  want[i].kind = "param" /\ want[i].name = taken[j].name
                    /\ answer.call.args[j] = have[i]
    <3> HIDE DEF taken, want, have
    <3>1. \E i \in DOMAIN want : want[i].kind = "param" /\ want[i].name = taken[j].name
      BY <2>5, <2>7, SegmentsMeant DEF want
    <3>2. answer.call.args[j] = ParamValue(want, have, taken[j].name)
      BY <2>7, <2>9
    <3> QED
      BY <2>8, <3>1, <3>2, ValueInPlace
  <2> QED
    BY <2>2, <2>7, <2>10, <2>11 DEF ArgumentsInPlace
<1> QED
  BY <1>1, Invariance, PTL

\* In an app without empty segments native code takes the route the app itself
\* would have picked, unless that one is not compiled: leaving routes out of the
\* router and cutting empty segments off a path hide no earlier route.
THEOREM PicksAsApp == Spec => []PicksAsAppUnlessSkipped
<1>1. IInv => PicksAsAppUnlessSkipped
  <2> SUFFICES ASSUME IInv, answer.by \in {"native", "error"}, PlainPatterns,
                      NEW pick \in AppPick(answer.method, answer.path),
                      pick.handler.name \in CompiledFunctions
               PROVE  pick = answer.route[1].info
    BY DEF PicksAsAppUnlessSkipped
  <2>1. PICK m \in Methods, path \in Paths : AnswerTo(m, path, answer)
    BY DEF IInv, Answered, Answer
  <2> DEFINE k == FirstMatch(Matching(m, path))
             p == Place(Compiled, k)
             fits(i) ==
               /\ declared[i].method = m
               /\ Len(declared[i].pattern) = Len(path)
               /\ \A j \in DOMAIN path :
                    IF declared[i].pattern[j].kind = "lit"
                    THEN declared[i].pattern[j].name = path[j] ELSE path[j] # ""
  <2>2. /\ Matching(m, path) # {} /\ answer.path = path /\ answer.method = m
        /\ answer.route[1] = routes[k]
    BY <2>1 DEF AnswerTo, Answer
  <2>3. PICK i \in DOMAIN declared :
          pick = declared[i] /\ fits(i) /\ \A l \in 1 .. i - 1 : ~fits(l)
    BY <2>2 DEF AppPick
  <2>4. path \in Seq(STRING)
    BY RoutesAssumption
  <2>5. /\ k \in Matching(m, path) /\ k \in DOMAIN routes
        /\ \A l \in Matching(m, path) : k <= l
    <3>1. k \in Matching(m, path) /\ \A l \in Matching(m, path) : k <= l
      BY <2>2, FirstMatches DEF IInv
    <3> HIDE DEF k
    <3>2. k \in DOMAIN routes
      BY <3>1 DEF Matching
    <3> QED
      BY <3>1, <3>2
  <2>6. /\ ~noNative /\ p \in DOMAIN declared /\ routes[k] = CompiledRoute(declared[p])
    BY <2>5, RoutesCompiled DEF IInv, Compiled
  <2> HIDE DEF k, p
  \* Every pattern is its own segments, and so is a path the app takes.
  <2>7. ASSUME NEW j \in DOMAIN declared
        PROVE  /\ ParseSegments(declared[j].pattern) = declared[j].pattern
               /\ declared[j].pattern \in Seq(Segment)
    <3> DEFINE pattern == declared[j].pattern
    <3>1. pattern \in Seq(Segment)
      BY RouteTypes DEF IInv
    <3>2. \A l \in DOMAIN pattern : pattern[l].name # ""
      BY DEF PlainPatterns
    <3>3. {l \in DOMAIN pattern : pattern[l].name # "" \/ pattern[l].kind = "param"} = DOMAIN pattern
      BY <3>2
    <3>4. Meant(pattern) = pattern
      BY <3>1, <3>3, KeptAll DEF Meant
    <3> QED
      BY <3>1, <3>4, SegmentsMeant
  <2>8. NonEmpty(path) = path /\ \A l \in DOMAIN path : path[l] # ""
    <3>1. \A l \in DOMAIN path : path[l] # ""
      <4> SUFFICES ASSUME NEW l \in DOMAIN path PROVE path[l] # ""
        OBVIOUS
      <4>1. l \in DOMAIN declared[i].pattern
        <5>1. declared[i].pattern \in Seq(Segment) /\ Len(declared[i].pattern) = Len(path)
          BY <2>3, <2>7
        <5> QED
          BY <2>4, <5>1
      <4> QED
        BY <2>3, <4>1 DEF PlainPatterns
    <3>2. {l \in DOMAIN path : ~IsEmpty(path[l])} = DOMAIN path
      BY <3>1 DEF IsEmpty
    <3> QED
      BY <2>4, <3>1, <3>2, KeptAll DEF NonEmpty
  \* On such a path and in such an app the router and the app agree on a route.
  <2>9. ASSUME NEW j \in DOMAIN declared
        PROVE  fits(j) <=> declared[j].method = m
                             /\ MatchSegments(ParseSegments(declared[j].pattern), NonEmpty(path))
    <3> DEFINE pattern == declared[j].pattern
    <3>1. pattern \in Seq(Segment) /\ ParseSegments(pattern) = pattern
      BY <2>7
    <3>2. \A l \in DOMAIN pattern : pattern[l].kind \in {"lit", "param"}
      <4> HIDE DEF pattern
      <4>1. \A l \in DOMAIN pattern : pattern[l] \in Segment
        BY <3>1
      <4> QED
        BY <4>1 DEF Segment
    <3>3. Len(pattern) = Len(path) => DOMAIN pattern = DOMAIN path
      BY <2>4, <3>1
    <3> QED
      BY <2>8, <3>1, <3>2, <3>3 DEF MatchSegments
  <2>10. i \in Compiled
    BY <2>3 DEF Compiled
  <2>11. PICK l \in DOMAIN routes : Place(Compiled, l) = i
    BY <2>1, <2>6, <2>10, RoutesCompiled DEF IInv, Answered, Answer
  <2>12. l \in Matching(m, path)
    <3>1. routes[l] = CompiledRoute(declared[i])
      BY <2>11, RoutesCompiled DEF IInv
    <3>2. /\ declared[i].method = m
          /\ MatchSegments(ParseSegments(declared[i].pattern), NonEmpty(path))
      <4> HIDE DEF fits
      <4> QED
        BY <2>3, <2>9
    <3>3. routes[l].method = m /\ MatchSegments(routes[l].segments, NonEmpty(path))
      BY <3>1, <3>2 DEF CompiledRoute
    <3> QED
      BY <2>11, <3>3 DEF Matching
  <2>13. p <= i
    <3>1. k = l \/ k < l
      BY <2>5, <2>12, RoutesCompiled DEF IInv
    <3>2. p = i \/ p < i
      BY <2>5, <2>11, <3>1, RoutesCompiled DEF IInv, p
    <3>3. p \in Int /\ i \in Int
      BY <2>6 DEF IInv, Declared
    <3> QED
      BY <3>2, <3>3
  <2>14. fits(p)
    <3>1. routes[k].method = m /\ MatchSegments(routes[k].segments, NonEmpty(path))
      BY <2>5 DEF Matching
    <3>2. /\ declared[p].method = m
          /\ MatchSegments(ParseSegments(declared[p].pattern), NonEmpty(path))
      BY <2>6, <3>1 DEF CompiledRoute
    <3> QED
      BY <2>6, <2>9, <3>2
  <2>15. p = i
    <3>1. p \in Int /\ i \in Int /\ p >= 1
      BY <2>6 DEF IInv, Declared
    <3> HIDE DEF fits
    <3> QED
      BY <2>3, <2>13, <2>14, <3>1
  <2>16. answer.route[1].info = declared[p]
    BY <2>2, <2>6 DEF CompiledRoute, k
  <2> QED
    BY <2>3, <2>15, <2>16
<1> QED
  BY <1>1, Invariance, PTL

=============================================================================
