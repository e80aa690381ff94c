--------------------------- MODULE RunCommandProofs ---------------------------
(***************************************************************************)
(* What processes that share directories can count on, for any number of   *)
(* processes and places.  A process learns of another through the history  *)
(* variables alone; the invariant says what it finds at its place as long  *)
(* as it has met nobody there.                                             *)
(***************************************************************************)
EXTENDS RunCommand, TLAPS

-----------------------------------------------------------------------------
(* Types.                                                                  *)

\* A file is made of its three parts.
LEMMA FileTyped ==
  ASSUME NEW there \in BOOLEAN, NEW writers \in SUBSET Processes,
         NEW data \in SUBSET (Processes \cup {Torn})
  PROVE  /\ File(there, writers, data) \in FileType
         /\ File(there, writers, data).there = there
         /\ File(there, writers, data).writers = writers
         /\ File(there, writers, data).data = data
  BY DEF File, FileType

\* What one reads is the work of a process, or torn.
LEMMA ContentTyped ==
  ASSUME NEW f
  PROVE  /\ Content(f) \in Processes \cup {Torn}
         /\ \A p \in Processes : f.writers = {} /\ f.data = {p} => Content(f) = p
  BY DEF Content

\* A closed file is a file, and p is no more among its writers.
LEMMA ClosedTyped ==
  ASSUME NEW f \in FileType, NEW p \in Processes, NEW what \in Processes \cup {Torn}
  PROVE  /\ Closed(f, p, what) \in FileType
         /\ Closed(f, p, what).writers = f.writers \ {p}
         /\ p \notin f.writers => Closed(f, p, what) = f
  BY DEF Closed, File, FileType

LEMMA InitTyped == Init => TypeOK
  BY PlacesAssumption, FileTyped DEF Init, TypeOK, Typed, OpenForWriters, NoFile, File, FileType, Commands

\* The history variables hold processes.
LEMMA HistoryTyped ==
  ASSUME Typed, NEW p \in Processes, Begins(p)
  PROVE  /\ rivals' \in [Processes -> SUBSET Processes]
         /\ company' \in [Processes -> SUBSET Processes]
  BY DEF Typed, Begins

\* A step changes where p stands, what of p it changes has its type.
LEMMA GoTyped ==
  ASSUME Typed, NEW p \in Processes,
         NEW to \in {"idle", "loaded", "cleaning", "failed", "done"} \cup BuildingAt, Go(p, to)
  PROVE  /\ pc' \in [Processes -> {"idle", "loaded", "cleaning", "failed", "done"} \cup BuildingAt]
         /\ pc'[p] = to
         /\ \A q \in Processes : q # p => pc'[q] = pc[q]
  BY DEF Typed, Go

-----------------------------------------------------------------------------
(* Each step keeps the types, and files open for their writers alone.      *)

LEMMA StartTyped == ASSUME TypeOK, NEW p \in Processes, Start(p) PROVE TypeOK'
<1>1. Go(p, "compiling") /\ Begins(p) /\ pc[p] = "idle"
  BY DEF Start, Alive
<1>2. Command(p) \in Commands
  BY PlacesAssumption DEF Command, TypeOK, Typed
<1>3. Typed'
  BY <1>1, <1>2, HistoryTyped, GoTyped DEF Start, TypeOK, Typed, BuildingAt
<1>4. OpenForWriters'
  BY <1>1, GoTyped DEF Start, TypeOK, OpenForWriters, Typed, BuildingAt, FileType
<1>5. QED
  BY <1>3, <1>4 DEF TypeOK

LEMMA OpenObjectTyped == ASSUME TypeOK, NEW p \in Processes, OpenObject(p) PROVE TypeOK'
<1> DEFINE f == obj[place[p]]
           g == File(TRUE, f.writers \cup {p}, IF f.writers = {} THEN {} ELSE {Torn})
<1>1. f \in FileType /\ place[p] \in Places
  BY DEF TypeOK, Typed
<1>2. g \in FileType /\ g.writers = f.writers \cup {p}
  <2>1. f.writers \cup {p} \in SUBSET Processes
    BY <1>1 DEF FileType
  <2> DEFINE d == IF f.writers = {} THEN {} ELSE {Torn}
             w == f.writers \cup {p}
  <2>2. d \in SUBSET (Processes \cup {Torn})
    OBVIOUS
  <2>3. g = File(TRUE, w, d)
    OBVIOUS
  <2> HIDE DEF d, w, g
  <2>4. g \in FileType /\ g.writers = w
    BY <2>1, <2>2, <2>3, FileTyped DEF w
  <2>5. QED
    BY <2>4 DEF w
<1>3. CASE Go(p, "emitting") /\ obj' = [obj EXCEPT ![place[p]] = g]
  <2>1. Typed'
    BY <1>1, <1>2, <1>3, GoTyped DEF OpenObject, TypeOK, Typed, BuildingAt, fixed
  <2>2. OpenForWriters'
    <3>1. pc'[p] = "emitting" /\ \A q \in Processes : q # p => pc'[q] = pc[q]
      BY <1>3, GoTyped DEF TypeOK, BuildingAt
    <3>2. ~ killed[p] /\ pc[p] = "compiling" /\ UNCHANGED <<place, killed, lib>>
      BY DEF OpenObject, Alive, fixed
    <3>3. /\ obj'[place[p]] = g
          /\ \A pl \in Places : pl # place[p] => obj'[pl] = obj[pl]
      BY <1>1, <1>3 DEF TypeOK, Typed
    <3> HIDE DEF g
    <3>4. ASSUME NEW pl \in Places, NEW q \in obj'[pl].writers
          PROVE  place[q] = pl /\ pc'[q] = "emitting" /\ ~ killed[q]
      BY <1>1, <1>2, <3>1, <3>2, <3>3 DEF TypeOK, Typed, OpenForWriters, FileType
    <3>5. ASSUME NEW pl \in Places, NEW q \in lib[pl].writers
          PROVE  place[q] = pl /\ pc'[q] = "writing"
      BY <3>1, <3>2 DEF TypeOK, Typed, OpenForWriters, FileType
    <3>6. QED
      BY <3>2, <3>4, <3>5 DEF OpenForWriters
  <2>3. QED
    BY <2>1, <2>2 DEF TypeOK
<1>4. CASE Go(p, "failed") /\ UNCHANGED obj
  <2>1. Typed'
    BY <1>4, GoTyped DEF OpenObject, TypeOK, Typed, fixed
  <2>2. OpenForWriters'
    BY <1>4, GoTyped DEF OpenObject, TypeOK, Typed, OpenForWriters, fixed, Alive, FileType
  <2>3. QED
    BY <2>1, <2>2 DEF TypeOK
<1>5. QED
  BY <1>3, <1>4 DEF OpenObject

LEMMA CloseObjectTyped == ASSUME TypeOK, NEW p \in Processes, CloseObject(p) PROVE TypeOK'
<1> DEFINE g == Closed(obj[place[p]], p, p)
<1>1. obj[place[p]] \in FileType /\ place[p] \in Places /\ Go(p, "emitted")
  BY DEF TypeOK, Typed, CloseObject
<1>2. g \in FileType /\ g.writers = obj[place[p]].writers \ {p}
  BY <1>1, ClosedTyped
<1>3. Typed'
  BY <1>1, <1>2, GoTyped DEF CloseObject, TypeOK, Typed, BuildingAt, fixed
<1>4. OpenForWriters'
  BY <1>1, <1>2, GoTyped DEF CloseObject, TypeOK, Typed, OpenForWriters, BuildingAt, fixed, Alive, FileType
<1>5. QED
  BY <1>3, <1>4 DEF TypeOK

LEMMA ReadObjectTyped == ASSUME TypeOK, NEW p \in Processes, ReadObject(p) PROVE TypeOK'
<1> DEFINE c == Content(obj[place[p]])
<1>1. c \in Processes \cup {Torn}
  BY ContentTyped
<1>2. \/ Go(p, "linking") /\ taken' = [taken EXCEPT ![p] = c]
      \/ Go(p, "failed") /\ UNCHANGED taken
  BY DEF ReadObject
<1>3. Typed'
  BY <1>1, <1>2, GoTyped DEF ReadObject, TypeOK, Typed, BuildingAt, Linking, fixed
<1>4. OpenForWriters'
  BY <1>2, GoTyped DEF ReadObject, TypeOK, Typed, OpenForWriters, BuildingAt, Linking, fixed, Alive, FileType
<1>5. QED
  BY <1>3, <1>4 DEF TypeOK

LEMMA OpenLibraryTyped == ASSUME TypeOK, NEW p \in Processes, OpenLibrary(p) PROVE TypeOK'
<1> DEFINE g == File(TRUE, {p}, {})
<1>1. g \in FileType /\ g.writers = {p} /\ place[p] \in Places
  <2>1. {p} \in SUBSET Processes /\ {} \in SUBSET (Processes \cup {Torn})
    OBVIOUS
  <2>2. g \in FileType /\ g.writers = {p}
    BY <2>1, FileTyped
  <2>3. QED
    BY <2>2 DEF TypeOK, Typed
<1>2. CASE Go(p, "writing") /\ lib' = [lib EXCEPT ![place[p]] = g]
  <2>1. Typed'
    BY <1>1, <1>2, GoTyped DEF OpenLibrary, TypeOK, Typed, BuildingAt, Linking, fixed
  <2>2. OpenForWriters'
    <3>1. pc'[p] = "writing" /\ \A q \in Processes : q # p => pc'[q] = pc[q]
      BY <1>2, GoTyped DEF TypeOK, BuildingAt, Linking
    <3>2. pc[p] = "linking" /\ UNCHANGED <<place, killed, obj>>
      BY DEF OpenLibrary, fixed
    <3>3. /\ lib'[place[p]] = g
          /\ \A pl \in Places : pl # place[p] => lib'[pl] = lib[pl]
      BY <1>1, <1>2 DEF TypeOK, Typed
    <3> HIDE DEF g
    <3>4. ASSUME NEW pl \in Places, NEW q \in obj[pl].writers
          PROVE  place[q] = pl /\ pc'[q] = "emitting" /\ ~ killed[q]
      BY <3>1, <3>2 DEF TypeOK, Typed, OpenForWriters, FileType
    <3>5. ASSUME NEW pl \in Places, NEW q \in lib'[pl].writers
          PROVE  place[q] = pl /\ pc'[q] = "writing"
      <4>1. CASE pl = place[p]
        BY <1>1, <3>1, <3>3, <3>5, <4>1
      <4>2. CASE pl # place[p]
        BY <3>1, <3>3, <3>5, <4>2 DEF TypeOK, Typed, OpenForWriters, FileType
      <4>3. QED
        BY <4>1, <4>2
    <3>6. QED
      BY <3>2, <3>4, <3>5 DEF OpenForWriters
  <2>3. QED
    BY <2>1, <2>2 DEF TypeOK
<1>3. CASE Go(p, "failed") /\ UNCHANGED lib
  <2>1. Typed'
    BY <1>3, GoTyped DEF OpenLibrary, TypeOK, Typed, fixed
  <2>2. OpenForWriters'
    BY <1>3, GoTyped DEF OpenLibrary, TypeOK, Typed, OpenForWriters, fixed, FileType
  <2>3. QED
    BY <2>1, <2>2 DEF TypeOK
<1>4. QED
  BY <1>2, <1>3 DEF OpenLibrary

LEMMA CloseLibraryTyped == ASSUME TypeOK, NEW p \in Processes, CloseLibrary(p) PROVE TypeOK'
<1> DEFINE g == Closed(lib[place[p]], p, taken[p])
<1>1. lib[place[p]] \in FileType /\ place[p] \in Places /\ taken[p] \in Processes \cup {Torn} /\ Go(p, "linked")
  BY DEF TypeOK, Typed, CloseLibrary
<1>2. g \in FileType /\ g.writers = lib[place[p]].writers \ {p}
  BY <1>1, ClosedTyped
<1>3. Typed'
  BY <1>1, <1>2, GoTyped DEF CloseLibrary, TypeOK, Typed, BuildingAt, fixed
<1>4. OpenForWriters'
  BY <1>1, <1>2, GoTyped DEF CloseLibrary, TypeOK, Typed, OpenForWriters, BuildingAt, fixed, FileType
<1>5. QED
  BY <1>3, <1>4 DEF TypeOK

LEMMA LoadTyped == ASSUME TypeOK, NEW p \in Processes, Load(p) PROVE TypeOK'
<1> DEFINE c == Content(lib[place[p]])
<1>1. c \in Processes \cup {Torn}
  BY ContentTyped
<1>2. \/ (Go(p, "done") \/ Go(p, "failed")) /\ UNCHANGED loaded
      \/ Go(p, "loaded") /\ loaded' = [loaded EXCEPT ![p] = c]
  BY DEF Load
<1>3. Typed'
  BY <1>1, <1>2, GoTyped DEF Load, TypeOK, Typed, fixed
<1>4. OpenForWriters'
  BY <1>2, GoTyped DEF Load, TypeOK, Typed, OpenForWriters, fixed, Alive, FileType
<1>5. QED
  BY <1>3, <1>4 DEF TypeOK

LEMMA AnswerTyped == ASSUME TypeOK, NEW p \in Processes, Answer(p) PROVE TypeOK'
<1>1. PICK by \in {p, loaded[p]} : answer' = [answer EXCEPT ![p] = by]
  BY DEF Answer
<1>2. by \in Processes \cup {Torn}
  BY DEF TypeOK, Typed
<1>3. Go(p, "cleaning") \/ UNCHANGED pc
  BY DEF Answer
<1>4. Typed'
  BY <1>1, <1>2, <1>3, GoTyped DEF Answer, TypeOK, Typed, fixed
<1>5. OpenForWriters'
  BY <1>3, GoTyped DEF Answer, TypeOK, Typed, OpenForWriters, fixed, Alive, FileType
<1>6. QED
  BY <1>4, <1>5 DEF TypeOK

LEMMA FailTyped == ASSUME TypeOK, NEW p \in Processes, Fail(p) PROVE TypeOK'
<1>1. Typed'
  BY GoTyped DEF Fail, TypeOK, Typed, fixed
<1>2. OpenForWriters'
  BY GoTyped DEF Fail, TypeOK, Typed, OpenForWriters, Alive, FileType, fixed
<1>3. QED
  BY <1>1, <1>2 DEF TypeOK

LEMMA FailAloneTyped == ASSUME TypeOK, NEW p \in Processes, FailAlone(p) PROVE TypeOK'
<1>1. Go(p, "failed") /\ faulty' \subseteq Processes /\ pc[p] \notin {"emitting", "writing"}
  BY DEF FailAlone, Failing, Alive, TypeOK, Typed
<1>2. Typed'
  BY <1>1, GoTyped DEF FailAlone, Failing, TypeOK, Typed
<1>3. OpenForWriters'
  BY <1>1, GoTyped DEF FailAlone, Failing, TypeOK, Typed, OpenForWriters, FileType
<1>4. QED
  BY <1>2, <1>3 DEF TypeOK

LEMMA WriteFailsTyped == ASSUME TypeOK, NEW p \in Processes, WriteFails(p) PROVE TypeOK'
<1> DEFINE g == Closed(obj[place[p]], p, Torn)
<1>1. /\ obj[place[p]] \in FileType /\ place[p] \in Places
      /\ Go(p, "failed") /\ faulty' \subseteq Processes
  BY DEF TypeOK, Typed, WriteFails, Failing
<1>2. g \in FileType /\ g.writers = obj[place[p]].writers \ {p}
  BY <1>1, ClosedTyped
<1>3. Typed'
  BY <1>1, <1>2, GoTyped DEF WriteFails, Failing, TypeOK, Typed
<1>4. OpenForWriters'
  BY <1>1, <1>2, GoTyped DEF WriteFails, Failing, TypeOK, Typed, OpenForWriters, Alive, FileType
<1>5. QED
  BY <1>3, <1>4 DEF TypeOK

\* The library is no more open for p, if it ever was.
LEMMA LinkFailsTyped == ASSUME TypeOK, NEW p \in Processes, LinkFails(p) PROVE TypeOK'
<1>1. /\ lib[place[p]] \in FileType /\ place[p] \in Places
      /\ Go(p, "failed") /\ faulty' \subseteq Processes
      /\ UNCHANGED <<place, killed, obj>>
  BY DEF TypeOK, Typed, LinkFails, Failing
<1>2. pc[p] \in {"linking", "writing"}
  BY DEF LinkFails, Linking
<1>3. CASE UNCHANGED lib /\ pc[p] = "linking"
  <2>1. Typed'
    BY <1>1, <1>3, GoTyped DEF LinkFails, Failing, TypeOK, Typed
  <2>2. OpenForWriters'
    BY <1>1, <1>3, GoTyped DEF TypeOK, Typed, OpenForWriters, FileType
  <2>3. QED
    BY <2>1, <2>2 DEF TypeOK
<1>4. ASSUME NEW f \in {NoFile, Closed(lib[place[p]], p, Torn)}, pc[p] = "writing",
             lib' = [lib EXCEPT ![place[p]] = f]
      PROVE  TypeOK'
  <2>1. f \in FileType /\ f.writers \subseteq lib[place[p]].writers \ {p}
    <3>1. NoFile \in FileType /\ NoFile.writers = {}
      BY FileTyped DEF NoFile
    <3>2. QED
      BY <1>1, <3>1, ClosedTyped
  <2>2. Typed'
    BY <1>1, <1>4, <2>1, GoTyped DEF LinkFails, Failing, TypeOK, Typed
  <2>3. OpenForWriters'
    BY <1>1, <1>4, <2>1, GoTyped DEF TypeOK, Typed, OpenForWriters, FileType
  <2>4. QED
    BY <2>2, <2>3 DEF TypeOK
<1>5. QED
  BY <1>2, <1>3, <1>4 DEF LinkFails

LEMMA RemoveFileTyped ==
  ASSUME TypeOK, NEW p \in Processes, NEW pl \in Places, RemoveFile(p, pl) PROVE TypeOK'
<1>1. NoFile \in FileType /\ NoFile.writers = {}
  BY FileTyped DEF NoFile
<1>2. Typed'
  BY <1>1 DEF RemoveFile, TypeOK, Typed, fixed
<1>3. OpenForWriters'
  BY <1>1 DEF RemoveFile, TypeOK, Typed, OpenForWriters, fixed
<1>4. QED
  BY <1>2, <1>3 DEF TypeOK

LEMMA RemoveDirectoryTyped == ASSUME TypeOK, NEW p \in Processes, RemoveDirectory(p) PROVE TypeOK'
<1>1. Go(p, "done") /\ dirs' \subseteq Commands
  BY DEF RemoveDirectory, TypeOK, Typed
<1>2. Typed'
  BY <1>1, GoTyped DEF RemoveDirectory, TypeOK, Typed, fixed
<1>3. OpenForWriters'
  BY <1>1, GoTyped DEF RemoveDirectory, TypeOK, Typed, OpenForWriters, Alive, FileType, fixed
<1>4. QED
  BY <1>2, <1>3 DEF TypeOK

LEMMA KillTyped == ASSUME TypeOK, NEW p \in Processes, Kill(p) PROVE TypeOK'
<1> DEFINE g == Closed(obj[place[p]], p, Torn)
<1>1. obj[place[p]] \in FileType /\ place[p] \in Places
  BY DEF TypeOK, Typed
<1>2. g \in FileType /\ g.writers = obj[place[p]].writers \ {p}
  BY <1>1, ClosedTyped
<1>3. Typed'
  BY <1>1, <1>2 DEF Kill, TypeOK, Typed, fixed
<1>4. OpenForWriters'
  BY <1>1, <1>2 DEF Kill, TypeOK, Typed, OpenForWriters, fixed, FileType
<1>5. QED
  BY <1>3, <1>4 DEF TypeOK

LEMMA StepTyped == TypeOK /\ [Next]_vars => TypeOK'
<1> SUFFICES ASSUME TypeOK, [Next]_vars PROVE TypeOK'
  OBVIOUS
<1>1. CASE UNCHANGED vars
  BY <1>1 DEF vars, TypeOK, Typed, OpenForWriters
<1>2. CASE Next
  BY <1>2, StartTyped, OpenObjectTyped, CloseObjectTyped, ReadObjectTyped, OpenLibraryTyped,
     CloseLibraryTyped, LoadTyped, AnswerTyped, FailAloneTyped, WriteFailsTyped, LinkFailsTyped,
     FailTyped, RemoveFileTyped, RemoveDirectoryTyped, KillTyped DEF Next
<1>3. QED
  BY <1>1, <1>2

\* Every variable keeps its type, and no file stays open for a process that has
\* left the step that writes it.
THEOREM TypeInvariant == Spec => []TypeOK
<1>1. TypeOK /\ [Next]_vars => TypeOK'
  BY StepTyped
<1>2. QED
  BY InitTyped, <1>1, PTL DEF Spec
-----------------------------------------------------------------------------
(* Two that build at one place have met, and so have two of one command    *)
(* that are about.                                                         *)

Met ==
  /\ \A p, q \in Processes : p # q =>
       /\ place[p] = place[q] /\ Building(p) /\ Building(q) => q \in rivals[p]
       /\ Command(p) = Command(q) /\ About(p) /\ About(q) => q \in company[p]
  /\ \A p \in Processes : rivals[p] \subseteq company[p]

\* Where p builds alone its files hold its own work, unless they were removed.
OwnFiles(p) ==
  /\ pc[p] = "emitting" => obj[place[p]] \in {NoFile, File(TRUE, {p}, {})}
  /\ pc[p] = "emitted"  => obj[place[p]] \in {NoFile, File(TRUE, {}, {p})}
  /\ pc[p] \in Linking  => taken[p] = p
  /\ pc[p] = "writing"  => lib[place[p]] \in {NoFile, File(TRUE, {p}, {})}
  /\ pc[p] = "linked"   => lib[place[p]] \in {NoFile, File(TRUE, {}, {p})}

\* Where no process of its command is about they were not.
FilesThere(p) ==
  /\ Command(p) \in dirs
  /\ pc[p] \in {"emitting", "emitted"} => obj[place[p]].there
  /\ pc[p] \in {"writing", "linked"}   => lib[place[p]].there

Sound(p) ==
  /\ pc[p] = "idle" => answer[p] = Torn
  /\ Building(p) /\ rivals[p] = {}  => OwnFiles(p)
  /\ Building(p) /\ company[p] = {} => FilesThere(p)
  /\ pc[p] \in {"loaded", "cleaning"} /\ rivals[p] = {} => loaded[p] = p
  /\ answer[p] \in {p, Torn} \/ rivals[p] # {}
  /\ pc[p] = "failed" => p \in faulty \/ company[p] # {}

Inv == TypeOK /\ Met /\ \A p \in Processes : Sound(p)

\* Files the proofs speak of differ in what they hold.
LEMMA FileParts ==
  ASSUME NEW w, NEW d
  PROVE  /\ File(TRUE, w, d).there = TRUE
         /\ File(TRUE, w, d).writers = w
         /\ File(TRUE, w, d).data = d
         /\ NoFile.there = FALSE /\ NoFile.writers = {} /\ NoFile.data = {}
  BY DEF File, NoFile

LEMMA MetInit == Init => Met /\ \A p \in Processes : Sound(p)
  BY DEF Init, Met, Sound, Building, About, BuildingAt, Linking

\* A step of p that is not its start: p may leave those that build or are about.
Settles(p) ==
  /\ UNCHANGED <<place, rivals, company>>
  /\ \A q \in Processes : q # p => pc'[q] = pc[q] /\ killed'[q] = killed[q]
  /\ Building(p)' => Building(p)
  /\ About(p)' => About(p)

LEMMA MoveSettles ==
  ASSUME TypeOK, NEW p \in Processes, UNCHANGED <<place, killed, rivals, company>>,
         NEW to \in {"idle", "loaded", "cleaning", "failed", "done"} \cup BuildingAt, Go(p, to),
         to # "idle", pc[p] \notin {"idle", "failed", "done"},
         to \in BuildingAt => pc[p] \in BuildingAt,
         killed[p] => pc[p] \in Linking
  PROVE  Settles(p)
<1>1. pc'[p] = to /\ \A q \in Processes : q # p => pc'[q] = pc[q]
  BY GoTyped DEF TypeOK
<1>2. QED
  BY <1>1 DEF Settles, Building, About, BuildingAt, Linking

LEMMA LaterSettles ==
  ASSUME TypeOK, NEW p \in Processes,
         \/ OpenObject(p) \/ CloseObject(p) \/ ReadObject(p)
         \/ OpenLibrary(p) \/ CloseLibrary(p) \/ Load(p) \/ Answer(p)
         \/ FailAlone(p) \/ WriteFails(p) \/ LinkFails(p) \/ Fail(p)
         \/ \E pl \in Places : RemoveFile(p, pl)
         \/ RemoveDirectory(p) \/ Kill(p)
  PROVE  Settles(p)
<1>1. CASE OpenObject(p)
  BY <1>1, MoveSettles DEF OpenObject, Alive, fixed, BuildingAt
<1>2. CASE CloseObject(p)
  BY <1>2, MoveSettles DEF CloseObject, Alive, fixed, BuildingAt
<1>3. CASE ReadObject(p)
  BY <1>3, MoveSettles DEF ReadObject, Alive, fixed, BuildingAt, Linking
<1>4. CASE OpenLibrary(p)
  BY <1>4, MoveSettles DEF OpenLibrary, fixed, BuildingAt, Linking
<1>5. CASE CloseLibrary(p)
  BY <1>5, MoveSettles DEF CloseLibrary, fixed, BuildingAt, Linking
<1>6. CASE Load(p)
  BY <1>6, MoveSettles DEF Load, Alive, fixed, BuildingAt, Linking
<1>7. CASE Answer(p)
  <2>1. CASE Go(p, "cleaning")
    BY <1>7, <2>1, MoveSettles DEF Answer, Alive, fixed, BuildingAt, Linking
  <2>2. CASE UNCHANGED pc
    BY <1>7, <2>2 DEF Answer, fixed, Settles, Building, About
  <2>3. QED
    BY <1>7, <2>1, <2>2 DEF Answer
<1>8. CASE FailAlone(p) /\ pc[p] # "idle"
  BY <1>8, MoveSettles DEF FailAlone, Failing, Alive, BuildingAt, Linking
<1>9. CASE FailAlone(p) /\ pc[p] = "idle"
  BY <1>9, GoTyped DEF FailAlone, Failing, Settles, Building, About, BuildingAt, Linking, TypeOK
<1>10. CASE WriteFails(p)
  BY <1>10, MoveSettles DEF WriteFails, Failing, Alive, BuildingAt, Linking
<1>11. CASE LinkFails(p)
  BY <1>11, MoveSettles DEF LinkFails, Failing, BuildingAt, Linking
<1>12. CASE Fail(p)
  BY <1>12, MoveSettles DEF Fail, Alive, fixed, BuildingAt, Linking
<1>13. CASE \E pl \in Places : RemoveFile(p, pl)
  BY <1>13 DEF RemoveFile, fixed, Settles, Building, About
<1>14. CASE RemoveDirectory(p)
  BY <1>14, MoveSettles DEF RemoveDirectory, Alive, fixed, BuildingAt, Linking
<1>15. CASE Kill(p)
  BY <1>15 DEF Kill, fixed, Settles, Building, About, TypeOK, Typed
<1>16. QED
  BY <1>1, <1>2, <1>3, <1>4, <1>5, <1>6, <1>7, <1>8, <1>9, <1>10, <1>11, <1>12, <1>13, <1>14, <1>15

LEMMA SettledMet ==
  ASSUME Met, NEW p \in Processes, Settles(p)
  PROVE  Met'
<1>1. ASSUME NEW q \in Processes
      PROVE  (Building(q)' => Building(q)) /\ (About(q)' => About(q)) /\ Command(q)' = Command(q)
  BY DEF Settles, Building, About, Command
<1>2. QED
  BY <1>1 DEF Settles, Met

LEMMA StartMet ==
  ASSUME TypeOK, Met, NEW p \in Processes, Start(p)
  PROVE  Met'
<1>1. UNCHANGED <<place, killed>> /\ Begins(p) /\ pc[p] = "idle"
  BY DEF Start, Alive
<1>2. ASSUME NEW q \in Processes, q # p
      PROVE  /\ Building(q)' = Building(q) /\ About(q)' = About(q)
  BY <1>1, <1>2, GoTyped DEF Start, TypeOK, Building, About, BuildingAt
<1>3. ASSUME NEW q \in Processes
      PROVE  Command(q)' = Command(q) /\ (Building(q) => About(q))
  BY <1>1 DEF Command, Building, About, BuildingAt, Linking
<1>4. ~ Building(p) /\ ~ About(p)
  BY <1>1 DEF Building, About, BuildingAt, Linking
<1>5. ASSUME NEW q \in Processes, NEW r \in Processes, q # r
      PROVE  /\ place'[q] = place'[r] /\ Building(q)' /\ Building(r)' => r \in rivals'[q]
             /\ Command(q)' = Command(r)' /\ About(q)' /\ About(r)' => r \in company'[q]
  <2>1. CASE q = p
    BY <1>1, <1>2, <1>3, <1>5, <2>1 DEF Begins, Meets, Joins
  <2>2. CASE r = p
    BY <1>1, <1>2, <1>3, <1>5, <2>2 DEF Begins, Meets, Joins
  <2>3. CASE q # p /\ r # p
    BY <1>1, <1>2, <1>3, <1>5, <2>3 DEF Begins, Met
  <2>4. QED
    BY <2>1, <2>2, <2>3
<1>6. ASSUME NEW q \in Processes PROVE rivals'[q] \subseteq company'[q]
  BY <1>1, <1>3 DEF Begins, Meets, Joins, Met, Command
<1>7. QED
  BY <1>5, <1>6 DEF Met

-----------------------------------------------------------------------------
(* What a step of p does to another process q.                             *)

Keeps(q) ==
  /\ pc'[q] = pc[q] /\ killed'[q] = killed[q] /\ taken'[q] = taken[q]
  /\ loaded'[q] = loaded[q] /\ answer'[q] = answer[q] /\ place'[q] = place[q]
  /\ q \in faulty => q \in faulty'
  /\ rivals[q] \subseteq rivals'[q] /\ company[q] \subseteq company'[q]
  /\ Building(q) /\ rivals[q] = {} =>
       /\ obj'[place[q]] \in {obj[place[q]], NoFile}
       /\ lib'[place[q]] \in {lib[place[q]], NoFile}
  /\ Building(q) /\ company[q] = {} =>
       /\ obj'[place[q]] = obj[place[q]] /\ lib'[place[q]] = lib[place[q]]
       /\ Command(q) \in dirs => Command(q) \in dirs'

LEMMA KeptSound ==
  ASSUME TypeOK, TypeOK', NEW q \in Processes, Sound(q), Keeps(q)
  PROVE  Sound(q)'
<1>1. Building(q)' = Building(q) /\ Command(q)' = Command(q)
  BY DEF Keeps, Building, Command
<1>2. rivals'[q] = {} => rivals[q] = {}
  BY DEF Keeps
<1>3. company'[q] = {} => company[q] = {}
  BY DEF Keeps
<1>4. Building(q)' /\ rivals'[q] = {} => OwnFiles(q)'
  <2>1. SUFFICES ASSUME Building(q), rivals[q] = {} PROVE OwnFiles(q)'
    BY <1>1, <1>2
  <2>2. OwnFiles(q)
    BY <2>1 DEF Sound
  <2>3. /\ obj'[place[q]] \in {obj[place[q]], NoFile}
        /\ lib'[place[q]] \in {lib[place[q]], NoFile}
    BY <2>1 DEF Keeps
  <2>4. pc'[q] = pc[q] /\ taken'[q] = taken[q] /\ place'[q] = place[q]
    BY DEF Keeps
  <2>5. QED
    BY <2>2, <2>3, <2>4 DEF OwnFiles
<1>5. Building(q)' /\ company'[q] = {} => FilesThere(q)'
  BY <1>1, <1>3 DEF Sound, FilesThere, Keeps
<1>6. QED
  BY <1>2, <1>3, <1>4, <1>5 DEF Sound, Keeps

\* A process that would change the files at q's place, or its directory, while q
\* builds has met it.
LEMMA Strangers ==
  ASSUME TypeOK, Met, NEW p \in Processes, NEW q \in Processes, q # p, Building(q)
  PROVE  /\ rivals[q] = {} /\ Building(p) => place[p] # place[q]
         /\ company[q] = {} => rivals[q] = {}
         /\ company[q] = {} /\ About(p) => Command(p) # Command(q)
<1>1. About(q)
  BY DEF Building, About, BuildingAt, Linking
<1>2. /\ place[q] = place[p] /\ Building(q) /\ Building(p) => p \in rivals[q]
      /\ Command(q) = Command(p) /\ About(q) /\ About(p) => p \in company[q]
      /\ rivals[q] \subseteq company[q]
  BY DEF Met
<1>3. QED
  BY <1>1, <1>2

\* It changes another place only by removing what is there.
LEMMA OtherKept ==
  ASSUME TypeOK, Met, NEW p \in Processes, NEW q \in Processes, q # p,
         \/ Start(p) \/ OpenObject(p) \/ CloseObject(p) \/ ReadObject(p)
         \/ OpenLibrary(p) \/ CloseLibrary(p) \/ Load(p) \/ Answer(p)
         \/ FailAlone(p) \/ WriteFails(p) \/ LinkFails(p) \/ Fail(p)
         \/ \E pl \in Places : RemoveFile(p, pl)
         \/ RemoveDirectory(p) \/ Kill(p)
  PROVE  Keeps(q)
<1>0. place[p] \in Places /\ place[q] \in Places
  BY DEF TypeOK, Typed
<1>1. CASE Start(p)
  BY <1>1 DEF Start, Begins, Go, Keeps, TypeOK, Typed
<1>2. CASE OpenObject(p)
  <2>1. rivals[q] = {} /\ Building(q) => place[p] # place[q]
    BY <1>2, Strangers DEF OpenObject, Alive, Building, BuildingAt
  <2>2. company[q] = {} /\ Building(q) => rivals[q] = {}
    BY Strangers
  <2>3. place[p] # place[q] => obj'[place[q]] = obj[place[q]]
    BY <1>0, <1>2 DEF OpenObject, TypeOK, Typed
  <2>4. QED
    BY <1>2, <2>1, <2>2, <2>3 DEF OpenObject, Go, fixed, Keeps, TypeOK, Typed
<1>3. CASE CloseObject(p)
  <2>1. rivals[q] = {} /\ Building(q) => place[p] # place[q]
    BY <1>3, Strangers DEF CloseObject, Alive, Building, BuildingAt
  <2>2. company[q] = {} /\ Building(q) => rivals[q] = {}
    BY Strangers
  <2>3. place[p] # place[q] => obj'[place[q]] = obj[place[q]]
    BY <1>0, <1>3 DEF CloseObject, TypeOK, Typed
  <2>4. QED
    BY <1>3, <2>1, <2>2, <2>3 DEF CloseObject, Go, fixed, Keeps, TypeOK, Typed
<1>4. CASE ReadObject(p)
  BY <1>4 DEF ReadObject, Go, fixed, Keeps, TypeOK, Typed
<1>5. CASE OpenLibrary(p)
  <2>1. rivals[q] = {} /\ Building(q) => place[p] # place[q]
    BY <1>5, Strangers DEF OpenLibrary, Building, BuildingAt, Linking
  <2>2. company[q] = {} /\ Building(q) => rivals[q] = {}
    BY Strangers
  <2>3. place[p] # place[q] => lib'[place[q]] = lib[place[q]]
    BY <1>0, <1>5 DEF OpenLibrary, TypeOK, Typed
  <2>4. QED
    BY <1>5, <2>1, <2>2, <2>3 DEF OpenLibrary, Go, fixed, Keeps, TypeOK, Typed
<1>6. CASE CloseLibrary(p)
  <2>1. rivals[q] = {} /\ Building(q) => place[p] # place[q]
    BY <1>6, Strangers DEF CloseLibrary, Building, BuildingAt, Linking
  <2>2. company[q] = {} /\ Building(q) => rivals[q] = {}
    BY Strangers
  <2>3. place[p] # place[q] => lib'[place[q]] = lib[place[q]]
    BY <1>0, <1>6 DEF CloseLibrary, TypeOK, Typed
  <2>4. QED
    BY <1>6, <2>1, <2>2, <2>3 DEF CloseLibrary, Go, fixed, Keeps, TypeOK, Typed
<1>7. CASE Load(p)
  BY <1>7 DEF Load, Go, fixed, Keeps, TypeOK, Typed
<1>8. CASE Answer(p)
  <2>1. answer'[q] = answer[q] /\ pc'[q] = pc[q]
    BY <1>8 DEF Answer, Go, TypeOK, Typed
  <2>2. QED
    BY <1>8, <2>1 DEF Answer, fixed, Keeps
<1>9. CASE Fail(p)
  BY <1>9 DEF Fail, Go, fixed, Keeps, TypeOK, Typed
<1>10. CASE FailAlone(p)
  BY <1>10 DEF FailAlone, Failing, Go, Keeps, TypeOK, Typed
<1>11. CASE WriteFails(p)
  <2>1. rivals[q] = {} /\ Building(q) => place[p] # place[q]
    BY <1>11, Strangers DEF WriteFails, Alive, Building, BuildingAt
  <2>2. company[q] = {} /\ Building(q) => rivals[q] = {}
    BY Strangers
  <2>3. place[p] # place[q] => obj'[place[q]] = obj[place[q]]
    BY <1>0, <1>11 DEF WriteFails, TypeOK, Typed
  <2>4. QED
    BY <1>11, <2>1, <2>2, <2>3 DEF WriteFails, Failing, Go, Keeps, TypeOK, Typed
<1>12. CASE LinkFails(p)
  <2>1. rivals[q] = {} /\ Building(q) => place[p] # place[q]
    BY <1>12, Strangers DEF LinkFails, Building, BuildingAt
  <2>2. company[q] = {} /\ Building(q) => rivals[q] = {}
    BY Strangers
  <2>3. place[p] # place[q] => lib'[place[q]] = lib[place[q]]
    BY <1>0, <1>12 DEF LinkFails, TypeOK, Typed
  <2>4. QED
    BY <1>12, <2>1, <2>2, <2>3 DEF LinkFails, Failing, Go, Keeps, TypeOK, Typed
<1>13. ASSUME NEW pl \in Places, RemoveFile(p, pl) PROVE Keeps(q)
  <2>1. company[q] = {} /\ Building(q) => Command(p) # Command(q)
    BY <1>13, Strangers DEF RemoveFile, Alive, About
  <2>2. company[q] = {} /\ Building(q) => pl # place[q]
    BY <1>13, <2>1 DEF RemoveFile, Command
  <2>3. /\ obj'[place[q]] \in {obj[place[q]], NoFile}
        /\ lib'[place[q]] \in {lib[place[q]], NoFile}
        /\ pl # place[q] => obj'[place[q]] = obj[place[q]] /\ lib'[place[q]] = lib[place[q]]
    BY <1>0, <1>13 DEF RemoveFile, TypeOK, Typed
  <2>4. QED
    BY <1>13, <2>2, <2>3 DEF RemoveFile, fixed, Keeps
<1>14. CASE RemoveDirectory(p)
  <2>1. company[q] = {} /\ Building(q) => Command(p) # Command(q)
    BY <1>14, Strangers DEF RemoveDirectory, Alive, About
  <2>2. QED
    BY <1>14, <2>1 DEF RemoveDirectory, Go, fixed, Keeps, TypeOK, Typed
<1>15. CASE Kill(p)
  <2>1. rivals[q] = {} /\ Building(q) /\ place[p] = place[q] => p \notin obj[place[p]].writers
    BY <1>0, <1>15, Strangers DEF Kill, Building, BuildingAt, TypeOK, OpenForWriters
  <2>2. company[q] = {} /\ Building(q) => rivals[q] = {}
    BY Strangers
  <2>3. p \notin obj[place[p]].writers \/ place[p] # place[q] => obj'[place[q]] = obj[place[q]]
    BY <1>0, <1>15, ClosedTyped DEF Kill, Closed, TypeOK, Typed
  <2>4. QED
    BY <1>15, <2>1, <2>2, <2>3 DEF Kill, fixed, Keeps, TypeOK, Typed
<1>16. QED
  BY <1>1, <1>2, <1>3, <1>4, <1>5, <1>6, <1>7, <1>8, <1>9, <1>10, <1>11, <1>12, <1>13, <1>14, <1>15

-----------------------------------------------------------------------------
(* What a step of p does for p itself.                                     *)

LEMMA StartSound ==
  ASSUME TypeOK, NEW p \in Processes, Sound(p), Start(p) PROVE Sound(p)'
<1>1. pc'[p] = "compiling" /\ answer'[p] = Torn /\ Command(p) \in dirs' /\ Command(p)' = Command(p)
  BY GoTyped DEF Start, Alive, TypeOK, Sound, BuildingAt, Command
<1>2. QED
  BY <1>1 DEF Sound, OwnFiles, FilesThere, Linking

\* Nobody p has not met has its object file open.
LEMMA OpenObjectSound ==
  ASSUME TypeOK, Met, NEW p \in Processes, Sound(p), OpenObject(p) PROVE Sound(p)'
<1> DEFINE f == obj[place[p]]
<1>1. /\ Alive(p, "compiling") /\ Building(p) /\ place[p] \in Places
      /\ UNCHANGED <<place, killed, faulty, rivals, company, dirs, loaded, answer>>
  BY DEF OpenObject, Alive, Building, BuildingAt, TypeOK, Typed, fixed
<1>2. CASE Command(p) \in dirs
  <2>1. pc'[p] = "emitting" /\ Command(p)' = Command(p)
    BY <1>1, <1>2, GoTyped DEF OpenObject, TypeOK, BuildingAt, Command
  <2>2. obj'[place[p]] = File(TRUE, f.writers \cup {p}, IF f.writers = {} THEN {} ELSE {Torn})
    BY <1>1, <1>2 DEF OpenObject, TypeOK, Typed
  <2>3. rivals[p] = {} => f.writers = {}
    <3>1. ASSUME NEW q \in f.writers, rivals[p] = {} PROVE FALSE
      <4>1. q \in Processes /\ place[q] = place[p] /\ pc[q] = "emitting" /\ ~ killed[q]
        BY <1>1, <3>1 DEF TypeOK, Typed, OpenForWriters, FileType
      <4>2. Building(q) /\ q # p
        BY <1>1, <4>1 DEF Building, BuildingAt, Alive
      <4>3. QED
        BY <1>1, <3>1, <4>1, <4>2 DEF Met
    <3>2. QED
      BY <3>1
  <2>4. rivals[p] = {} => obj'[place[p]] = File(TRUE, {p}, {})
    <3>1. f.writers = {} => f.writers \cup {p} = {p}
      OBVIOUS
    <3>2. QED
      BY <2>2, <2>3, <3>1
  <2>5. obj'[place[p]].there
    BY <2>2 DEF File
  <2> HIDE DEF f
  <2>6. QED
    BY <1>1, <1>2, <2>1, <2>4, <2>5 DEF Sound, OwnFiles, FilesThere, Linking, Alive
<1>3. CASE Command(p) \notin dirs
  <2>1. pc'[p] = "failed"
    BY <1>3, GoTyped DEF OpenObject, TypeOK
  <2>2. company[p] # {}
    BY <1>1, <1>3 DEF Sound, FilesThere
  <2>3. QED
    BY <1>1, <2>1, <2>2 DEF Sound, Building, BuildingAt, Linking, Alive
<1>4. QED
  BY <1>2, <1>3

\* Closing a file keeps it, and leaves what p wrote.
LEMMA ClosedParts ==
  ASSUME NEW p, NEW what
  PROVE  /\ Closed(NoFile, p, what) = NoFile
         /\ Closed(File(TRUE, {p}, {}), p, what) = File(TRUE, {}, {what})
  BY DEF Closed, File, NoFile

LEMMA ClosedThere ==
  ASSUME NEW f, NEW p, NEW what, f.there PROVE Closed(f, p, what).there
  BY DEF Closed, File

LEMMA CloseObjectSound ==
  ASSUME TypeOK, NEW p \in Processes, Sound(p), CloseObject(p) PROVE Sound(p)'
<1>1. /\ Alive(p, "emitting") /\ Building(p) /\ place[p] \in Places
      /\ UNCHANGED <<place, killed, faulty, rivals, company, dirs, loaded, answer>>
  BY DEF CloseObject, Alive, Building, BuildingAt, TypeOK, Typed, fixed
<1>2. pc'[p] = "emitted" /\ Command(p)' = Command(p)
  BY <1>1, GoTyped DEF CloseObject, TypeOK, BuildingAt, Command
<1>3. obj'[place[p]] = Closed(obj[place[p]], p, p)
  BY <1>1 DEF CloseObject, TypeOK, Typed
<1>4. rivals[p] = {} => obj'[place[p]] \in {NoFile, File(TRUE, {}, {p})}
  <2>1. rivals[p] = {} => obj[place[p]] \in {NoFile, File(TRUE, {p}, {})}
    BY <1>1 DEF Sound, OwnFiles, Alive
  <2>2. Closed(NoFile, p, p) = NoFile /\ Closed(File(TRUE, {p}, {}), p, p) = File(TRUE, {}, {p})
    BY ClosedParts
  <2>3. QED
    BY <2>1, <2>2, <1>3
<1>5. company[p] = {} => obj'[place[p]].there /\ Command(p) \in dirs
  BY <1>1, <1>3, ClosedThere DEF Sound, FilesThere, Alive
<1>6. QED
  BY <1>1, <1>2, <1>4, <1>5 DEF Sound, OwnFiles, FilesThere, Linking, Alive

LEMMA OwnContent ==
  ASSUME NEW p \in Processes PROVE Content(File(TRUE, {}, {p})) = p
<1> DEFINE f == File(TRUE, {}, {p})
<1>1. f.writers = {} /\ f.data = {p}
  BY DEF File
<1> HIDE DEF f
<1>2. Content(f) = p
  BY <1>1, ContentTyped
<1>3. QED
  BY <1>2 DEF f

LEMMA ReadObjectSound ==
  ASSUME TypeOK, Met, NEW p \in Processes, Sound(p), ReadObject(p) PROVE Sound(p)'
<1>1. /\ Alive(p, "emitted") /\ Building(p) /\ rivals[p] \subseteq company[p]
      /\ UNCHANGED <<place, killed, faulty, rivals, company, dirs, lib, loaded, answer>>
  BY DEF ReadObject, Alive, Building, BuildingAt, fixed, Met
<1>2. rivals[p] = {} => obj[place[p]] \in {NoFile, File(TRUE, {}, {p})}
  BY <1>1 DEF Sound, OwnFiles, Alive
<1>3. company[p] = {} => obj[place[p]].there
  BY <1>1 DEF Sound, FilesThere, Alive
<1>4. rivals[p] = {} /\ obj[place[p]].there => Content(obj[place[p]]) = p
  BY <1>2, OwnContent, FileParts
<1>5. CASE obj[place[p]].there /\ Go(p, "linking") /\ taken' = [taken EXCEPT ![p] = Content(obj[place[p]])]
  <2>1. pc'[p] = "linking" /\ Command(p)' = Command(p)
    BY <1>1, <1>5, GoTyped DEF TypeOK, BuildingAt, Linking, Command
  <2>2. rivals[p] = {} => taken'[p] = p
    BY <1>4, <1>5 DEF TypeOK, Typed
  <2>3. QED
    BY <1>1, <2>1, <2>2 DEF Sound, OwnFiles, FilesThere, Alive
<1>6. CASE (~ obj[place[p]].there \/ Content(obj[place[p]]) = Torn) /\ Go(p, "failed")
  <2>1. pc'[p] = "failed"
    BY <1>6, GoTyped DEF TypeOK
  <2>2. company[p] # {}
    BY <1>1, <1>3, <1>4, <1>6, PlacesAssumption
  <2>3. QED
    BY <1>1, <2>1, <2>2 DEF Sound, Building, BuildingAt, Linking, Alive
<1>7. QED
  BY <1>5, <1>6 DEF ReadObject

LEMMA OpenLibrarySound ==
  ASSUME TypeOK, NEW p \in Processes, Sound(p), OpenLibrary(p) PROVE Sound(p)'
<1>1. /\ pc[p] = "linking" /\ Building(p) /\ place[p] \in Places
      /\ UNCHANGED <<place, killed, faulty, rivals, company, dirs, taken, loaded, answer>>
  BY DEF OpenLibrary, Building, BuildingAt, Linking, TypeOK, Typed, fixed
<1>2. CASE Command(p) \in dirs
  <2>1. pc'[p] = "writing" /\ Command(p)' = Command(p)
    BY <1>1, <1>2, GoTyped DEF OpenLibrary, TypeOK, BuildingAt, Linking, Command
  <2>2. lib'[place[p]] = File(TRUE, {p}, {})
    BY <1>1, <1>2 DEF OpenLibrary, TypeOK, Typed
  <2>3. lib'[place[p]].there
    BY <2>2 DEF File
  <2>4. rivals[p] = {} => taken[p] = p
    BY <1>1 DEF Sound, OwnFiles, Linking
  <2>5. QED
    BY <1>1, <1>2, <2>1, <2>2, <2>3, <2>4 DEF Sound, OwnFiles, FilesThere, Linking
<1>3. CASE Command(p) \notin dirs
  <2>1. pc'[p] = "failed"
    BY <1>3, GoTyped DEF OpenLibrary, TypeOK
  <2>2. company[p] # {}
    BY <1>1, <1>3 DEF Sound, FilesThere
  <2>3. QED
    BY <1>1, <2>1, <2>2 DEF Sound, Building, BuildingAt, Linking
<1>4. QED
  BY <1>2, <1>3

LEMMA CloseLibrarySound ==
  ASSUME TypeOK, NEW p \in Processes, Sound(p), CloseLibrary(p) PROVE Sound(p)'
<1>1. /\ pc[p] = "writing" /\ Building(p) /\ place[p] \in Places
      /\ UNCHANGED <<place, killed, faulty, rivals, company, dirs, taken, loaded, answer>>
  BY DEF CloseLibrary, Building, BuildingAt, Linking, TypeOK, Typed, fixed
<1>2. pc'[p] = "linked" /\ Command(p)' = Command(p)
  BY <1>1, GoTyped DEF CloseLibrary, TypeOK, BuildingAt, Command
<1>3. lib'[place[p]] = Closed(lib[place[p]], p, taken[p])
  BY <1>1 DEF CloseLibrary, TypeOK, Typed
<1>4. rivals[p] = {} => taken[p] = p /\ lib[place[p]] \in {NoFile, File(TRUE, {p}, {})}
  BY <1>1 DEF Sound, OwnFiles, Linking
<1>5. rivals[p] = {} => lib'[place[p]] \in {NoFile, File(TRUE, {}, {p})}
  BY <1>3, <1>4, ClosedParts
<1>6. company[p] = {} => lib'[place[p]].there /\ Command(p) \in dirs
  BY <1>1, <1>3, ClosedThere DEF Sound, FilesThere
<1>7. QED
  BY <1>1, <1>2, <1>5, <1>6 DEF Sound, OwnFiles, FilesThere, Linking

LEMMA LoadSound ==
  ASSUME TypeOK, Met, NEW p \in Processes, Sound(p), Load(p) PROVE Sound(p)'
<1>1. /\ Alive(p, "linked") /\ Building(p) /\ rivals[p] \subseteq company[p]
      /\ UNCHANGED <<place, killed, faulty, rivals, company, answer>>
  BY DEF Load, Alive, Building, BuildingAt, fixed, Met
<1>2. rivals[p] = {} => lib[place[p]] \in {NoFile, File(TRUE, {}, {p})}
  BY <1>1 DEF Sound, OwnFiles, Alive
<1>3. company[p] = {} => lib[place[p]].there
  BY <1>1 DEF Sound, FilesThere, Alive
<1>4. rivals[p] = {} /\ lib[place[p]].there => Content(lib[place[p]]) = p
  BY <1>2, OwnContent, FileParts
<1>5. CASE Go(p, "done")
  <2>1. pc'[p] = "done"
    BY <1>5, GoTyped DEF TypeOK
  <2>2. QED
    BY <1>1, <2>1 DEF Sound, Building, BuildingAt, Linking
<1>6. CASE lib[place[p]].there /\ Go(p, "loaded") /\ loaded' = [loaded EXCEPT ![p] = Content(lib[place[p]])]
  <2>1. pc'[p] = "loaded"
    BY <1>6, GoTyped DEF TypeOK
  <2>2. rivals[p] = {} => loaded'[p] = p
    BY <1>4, <1>6 DEF TypeOK, Typed
  <2>3. QED
    BY <1>1, <2>1, <2>2 DEF Sound, Building, BuildingAt, Linking
<1>7. CASE ~ (lib[place[p]].there /\ Content(lib[place[p]]) # Torn) /\ Go(p, "failed")
  <2>1. pc'[p] = "failed"
    BY <1>7, GoTyped DEF TypeOK
  <2>2. company[p] # {}
    BY <1>1, <1>3, <1>4, <1>7, PlacesAssumption
  <2>3. QED
    BY <1>1, <2>1, <2>2 DEF Sound, Building, BuildingAt, Linking
<1>8. QED
  BY <1>5, <1>6, <1>7 DEF Load

LEMMA AnswerSound ==
  ASSUME TypeOK, NEW p \in Processes, Sound(p), Answer(p) PROVE Sound(p)'
<1>1. /\ pc[p] = "loaded" /\ pc'[p] \in {"loaded", "cleaning"}
      /\ UNCHANGED <<place, faulty, rivals, company, loaded>>
  BY GoTyped DEF Answer, Alive, fixed, TypeOK
<1>2. answer'[p] \in {p, loaded[p]}
  BY DEF Answer, TypeOK, Typed
<1>3. QED
  BY <1>1, <1>2 DEF Sound, Building, BuildingAt, Linking

\* A process that fails by itself is one of the faulty.
LEMMA FailingSound ==
  ASSUME TypeOK, NEW p \in Processes, Sound(p), Failing(p) PROVE Sound(p)'
<1>1. pc'[p] = "failed" /\ p \in faulty' /\ UNCHANGED <<rivals, company, answer>>
  BY GoTyped DEF Failing, TypeOK
<1>2. QED
  BY <1>1 DEF Sound, Building, BuildingAt, Linking

LEMMA FailSound ==
  ASSUME TypeOK, Met, NEW p \in Processes, Sound(p), Fail(p) PROVE Sound(p)'
<1>1. /\ pc'[p] = "failed" /\ UNCHANGED <<rivals, company, answer>>
      /\ rivals[p] \subseteq company[p]
  BY GoTyped DEF Fail, TypeOK, Met, fixed
<1>2. company[p] # {}
  BY <1>1 DEF Fail, Alive, Sound
<1>3. QED
  BY <1>1, <1>2 DEF Sound, Building, BuildingAt, Linking

LEMMA RemoveFileSound ==
  ASSUME NEW p \in Processes, NEW pl \in Places, Sound(p), RemoveFile(p, pl) PROVE Sound(p)'
BY DEF RemoveFile, Alive, fixed, Sound, Building, BuildingAt, Linking

LEMMA RemoveDirectorySound ==
  ASSUME TypeOK, NEW p \in Processes, Sound(p), RemoveDirectory(p) PROVE Sound(p)'
<1>1. pc'[p] = "done"
  BY GoTyped DEF RemoveDirectory, TypeOK
<1>2. QED
  BY <1>1 DEF RemoveDirectory, fixed, Sound, Building, BuildingAt, Linking

\* cc goes on without the process, as it would have with it.
LEMMA KillSound ==
  ASSUME TypeOK, NEW p \in Processes, Sound(p), Kill(p) PROVE Sound(p)'
<1>1. /\ pc[p] \notin {"idle", "failed", "done"} /\ killed'[p] /\ Command(p)' = Command(p)
      /\ UNCHANGED <<place, faulty, rivals, company, pc, dirs, lib, taken, loaded, answer>>
  BY DEF Kill, fixed, TypeOK, Typed, Command
<1>2. Building(p)' => pc[p] \in Linking /\ Building(p)
  BY <1>1 DEF Building, BuildingAt, Linking
<1>3. QED
  BY <1>1, <1>2 DEF Sound, OwnFiles, FilesThere, Linking

-----------------------------------------------------------------------------
LEMMA InvStep == Inv /\ [Next]_vars => Inv'
<1> SUFFICES ASSUME Inv, [Next]_vars PROVE Inv'
  OBVIOUS
<1>1. TypeOK /\ TypeOK' /\ Met
  BY StepTyped DEF Inv
<1>2. CASE UNCHANGED vars
  BY <1>1, <1>2 DEF vars, Inv, Met, Sound, OwnFiles, FilesThere, Building, About, Command
<1>3. ASSUME NEW p \in Processes,
             \/ Start(p) \/ OpenObject(p) \/ CloseObject(p) \/ ReadObject(p)
             \/ OpenLibrary(p) \/ CloseLibrary(p) \/ Load(p) \/ Answer(p)
             \/ FailAlone(p) \/ WriteFails(p) \/ LinkFails(p) \/ Fail(p)
             \/ \E pl \in Places : RemoveFile(p, pl)
             \/ RemoveDirectory(p) \/ Kill(p)
      PROVE  Inv'
  <2>1. Met'
    BY <1>1, <1>3, StartMet, LaterSettles, SettledMet
  <2>2. Sound(p)
    BY DEF Inv
  <2>3. Sound(p)'
    BY <1>1, <1>3, <2>2, StartSound, OpenObjectSound, CloseObjectSound, ReadObjectSound,
       OpenLibrarySound, CloseLibrarySound, LoadSound, AnswerSound, FailingSound, FailSound,
       RemoveFileSound, RemoveDirectorySound, KillSound DEF FailAlone, WriteFails, LinkFails
  <2>4. ASSUME NEW q \in Processes, q # p PROVE Sound(q)'
    <3>1. Keeps(q)
      BY <1>1, <1>3, <2>4, OtherKept
    <3>2. Sound(q)
      BY DEF Inv
    <3>3. QED
      BY <1>1, <3>1, <3>2, KeptSound
  <2>5. QED
    BY <1>1, <2>1, <2>3, <2>4 DEF Inv
<1>4. QED
  BY <1>2, <1>3 DEF Next

LEMMA InvHolds == Spec => []Inv
<1>1. Init => Inv
  BY InitTyped, MetInit DEF Inv
<1>2. QED
  BY <1>1, InvStep, PTL DEF Spec

\* A process that was alone at its place while it built answers with its own
\* program, whatever has been left there and whoever comes later.
THEOREM OwnProgramAnswers == Spec => []AnswersOwnProgram
<1>1. Inv => AnswersOwnProgram
  BY DEF Inv, Sound, AnswersOwnProgram
<1>2. QED
  BY <1>1, InvHolds, PTL

\* A process that was alone in its command's directory, whatever others that failed
\* or were killed have left in it, finds there what it needs: it fails, if it does, for
\* a fault of its program or of the machine.
THEOREM AloneNoneMissesFiles == Spec => []MissesFilesOnlyInCompany
<1>1. Inv => MissesFilesOnlyInCompany
  BY DEF Inv, Sound, MissesFilesOnlyInCompany
<1>2. QED
  BY <1>1, InvHolds, PTL
=============================================================================
