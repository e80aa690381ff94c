------------------------------ MODULE RunCommand ------------------------------
(***************************************************************************)
(* Processes of `celerate run`, `serve` and `compile`.  Each compiles a    *)
(* program to an object file, has cc link it to a shared library, and      *)
(* loads that.  The files bear the name of the source file's stem and lie  *)
(* in a directory all processes of a command share: celer-run, which run   *)
(* removes in the end, celer-serve, or for compile the source's own.       *)
(* A place is a directory and a stem; a process stands for its program.    *)
(***************************************************************************)
EXTENDS Naturals

CONSTANTS
  Processes,
  Places,     \* where the files of a stem lie
  CommandOf,  \* the command whose directory a place is in
  Targets,    \* where the files of each process may lie
  Torn        \* the program of a file that is not one process's work

Commands == {"run", "serve", "compile"}

ASSUME PlacesAssumption ==
  /\ CommandOf \in [Places -> Commands]
  /\ Targets \subseteq [Processes -> Places]
  /\ Torn \notin Processes

VARIABLES
  place,           \* of a process: where its files lie
  faulty,          \* the processes that failed by themselves: see FailAlone
  pc, killed,
  dirs,            \* the directories that exist
  obj, lib,        \* of a place: the two files
  taken, loaded,   \* of a process: the program cc read, the one in its library
  answer,          \* the program that answered, or Torn
  rivals, company  \* history: who was building at the same place, who was about

vars == <<place, faulty, pc, killed, dirs, obj, lib, taken, loaded, answer, rivals, company>>
fixed == <<place, faulty, rivals, company>>

Command(p) == CommandOf[place[p]]

\* writers have the file open, data are the processes whose work it holds.
File(there, writers, data) == [there |-> there, writers |-> writers, data |-> data]
NoFile == File(FALSE, {}, {})
\* What one reads in a file that is there.
Content(f) == IF f.writers = {} /\ \E p \in Processes : f.data = {p}
              THEN CHOOSE p \in Processes : f.data = {p} ELSE Torn

Linking  == {"linking", "writing"}
BuildingAt == {"compiling", "emitting", "emitted", "linked"} \cup Linking
\* cc goes on when its process is killed.
Building(p) == pc[p] \in BuildingAt /\ (killed[p] => pc[p] \in Linking)
About(p) == pc[p] \notin {"idle", "failed", "done"} /\ (killed[p] => pc[p] \in Linking)

-----------------------------------------------------------------------------
Init ==
  /\ place \in Targets
  /\ faulty = {}
  /\ pc = [p \in Processes |-> "idle"]
  /\ killed = [p \in Processes |-> FALSE]
  /\ dirs = {"compile"}
  /\ obj = [pl \in Places |-> NoFile]
  /\ lib = [pl \in Places |-> NoFile]
  /\ taken = [p \in Processes |-> Torn]
  /\ loaded = [p \in Processes |-> Torn]
  /\ answer = [p \in Processes |-> Torn]
  /\ rivals = [p \in Processes |-> {}]
  /\ company = [p \in Processes |-> {}]

Alive(p, at) == pc[p] = at /\ ~ killed[p]
Go(p, to)    == pc' = [pc EXCEPT ![p] = to]

Meets(p, q) == q # p /\ place[q] = place[p] /\ Building(q)
Joins(p, q) == q # p /\ Command(q) = Command(p) /\ About(q)

Begins(p) ==
  /\ rivals' = [q \in Processes |->
       IF q = p THEN {r \in Processes : Meets(p, r)}
       ELSE IF Meets(p, q) THEN rivals[q] \cup {p} ELSE rivals[q]]
  /\ company' = [q \in Processes |->
       IF q = p THEN {r \in Processes : Joins(p, r)}
       ELSE IF Joins(p, q) THEN company[q] \cup {p} ELSE company[q]]

\* Variant: the directory is not created.
StartInPlace(p) ==
  /\ Alive(p, "idle") /\ Go(p, "compiling")
  /\ Begins(p)
  /\ UNCHANGED <<place, faulty, killed, dirs, obj, lib, taken, loaded, answer>>
\* execute(): create_dir_all.
Start(p) ==
  /\ Alive(p, "idle") /\ Go(p, "compiling")
  /\ dirs' = dirs \cup {Command(p)}
  /\ Begins(p)
  /\ UNCHANGED <<place, faulty, killed, obj, lib, taken, loaded, answer>>

Failing(p) ==
  /\ faulty' = faulty \cup {p} /\ Go(p, "failed")
  /\ UNCHANGED <<place, rivals, company, killed, dirs, taken, loaded, answer>>

\* What p fails at by itself, its program or the machine being to blame: the
\* source is not read or the directory not made, the pipeline refuses the program
\* or the object file is not opened, cc does not start, the library is not
\* loaded, the call fails.  The files stay.
FailAlone(p) ==
  /\ \E at \in {"idle", "compiling", "emitted", "linked", "loaded"} : Alive(p, at)
  /\ pc[p] = "linked" => Command(p) # "compile"
  /\ pc[p] = "loaded" => loaded[p] = p
  /\ Failing(p) /\ UNCHANGED <<obj, lib>>

\* The call fails, in a library that is not p's.
Fail(p) ==
  /\ Alive(p, "loaded") /\ loaded[p] # p
  /\ Go(p, "failed")
  /\ UNCHANGED <<fixed, killed, dirs, obj, lib, taken, loaded, answer>>

\* write_object opens the file, truncating what is there.
OpenObject(p) ==
  LET f == obj[place[p]] IN
  /\ Alive(p, "compiling")
  /\ IF Command(p) \in dirs
     THEN /\ Go(p, "emitting")
          /\ obj' = [obj EXCEPT ![place[p]] =
               File(TRUE, f.writers \cup {p}, IF f.writers = {} THEN {} ELSE {Torn})]
     ELSE Go(p, "failed") /\ UNCHANGED obj
  /\ UNCHANGED <<fixed, killed, dirs, lib, taken, loaded, answer>>

\* The file as it is when p, having written what it did, closes it.
Closed(f, p, what) ==
  IF p \in f.writers THEN File(f.there, f.writers \ {p}, f.data \cup {what}) ELSE f

\* Variant: the file is not closed.
LeaveOpen(p) ==
  /\ Alive(p, "emitting") /\ Go(p, "emitted")
  /\ UNCHANGED <<fixed, killed, dirs, obj, lib, taken, loaded, answer>>
CloseObject(p) ==
  /\ Alive(p, "emitting") /\ Go(p, "emitted")
  /\ obj' = [obj EXCEPT ![place[p]] = Closed(@, p, p)]
  /\ UNCHANGED <<fixed, killed, dirs, lib, taken, loaded, answer>>

\* write_object cannot write all of it.
WriteFails(p) ==
  /\ Alive(p, "emitting") /\ Failing(p)
  /\ obj' = [obj EXCEPT ![place[p]] = Closed(@, p, Torn)]
  /\ UNCHANGED lib

\* link_shared: cc reads the object file; a torn one it may or may not refuse.
ReadObject(p) ==
  LET f == obj[place[p]] IN
  /\ Alive(p, "emitted")
  /\ \/ f.there /\ Go(p, "linking") /\ taken' = [taken EXCEPT ![p] = Content(f)]
     \/ (~ f.there \/ Content(f) = Torn) /\ Go(p, "failed") /\ UNCHANGED taken
  /\ UNCHANGED <<fixed, killed, dirs, obj, lib, loaded, answer>>

\* Variant: a library that is there already is kept.
KeepLibrary(p) ==
  /\ pc[p] = "linking"
  /\ IF Command(p) \in dirs
     THEN /\ Go(p, "writing")
          /\ IF lib[place[p]].there THEN UNCHANGED lib
             ELSE lib' = [lib EXCEPT ![place[p]] = File(TRUE, {p}, {})]
     ELSE Go(p, "failed") /\ UNCHANGED lib
  /\ UNCHANGED <<fixed, killed, dirs, obj, taken, loaded, answer>>
\* cc makes a new file of the library, whoever has the old one.
OpenLibrary(p) ==
  /\ pc[p] = "linking"
  /\ IF Command(p) \in dirs
     THEN Go(p, "writing") /\ lib' = [lib EXCEPT ![place[p]] = File(TRUE, {p}, {})]
     ELSE Go(p, "failed") /\ UNCHANGED lib
  /\ UNCHANGED <<fixed, killed, dirs, obj, taken, loaded, answer>>
CloseLibrary(p) ==
  /\ pc[p] = "writing" /\ Go(p, "linked")
  /\ lib' = [lib EXCEPT ![place[p]] = Closed(@, p, taken[p])]
  /\ UNCHANGED <<fixed, killed, dirs, obj, taken, loaded, answer>>

\* cc gives up by itself; what it made of the library is removed or left.
LinkFails(p) ==
  /\ pc[p] \in Linking /\ Failing(p)
  /\ \/ pc[p] = "linking" /\ UNCHANGED lib
     \/ /\ pc[p] = "writing"
        /\ \E f \in {NoFile, Closed(lib[place[p]], p, Torn)} : lib' = [lib EXCEPT ![place[p]] = f]
  /\ UNCHANGED obj

\* with_library, NativeModule::load; compile is done.
Load(p) ==
  LET f == lib[place[p]] IN
  /\ Alive(p, "linked")
  /\ IF Command(p) = "compile" THEN Go(p, "done") /\ UNCHANGED loaded
     ELSE IF f.there /\ Content(f) # Torn
     THEN Go(p, "loaded") /\ loaded' = [loaded EXCEPT ![p] = Content(f)]
     ELSE Go(p, "failed") /\ UNCHANGED loaded
  /\ UNCHANGED <<fixed, killed, dirs, obj, lib, taken, answer>>

\* A call: of native code, or of the source the process has read; serve goes on.
Answer(p) ==
  /\ Alive(p, "loaded")
  /\ \E by \in {p, loaded[p]} : answer' = [answer EXCEPT ![p] = by]
  /\ IF Command(p) = "run" THEN Go(p, "cleaning") ELSE UNCHANGED pc
  /\ UNCHANGED <<fixed, killed, dirs, obj, lib, taken, loaded>>

\* remove_dir_all removes one file after the other, whosever they are.
RemoveFile(p, pl) ==
  /\ Alive(p, "cleaning") /\ CommandOf[pl] = Command(p)
  /\ \/ obj[pl].there /\ obj' = [obj EXCEPT ![pl] = NoFile] /\ UNCHANGED lib
     \/ lib[pl].there /\ lib' = [lib EXCEPT ![pl] = NoFile] /\ UNCHANGED obj
  /\ UNCHANGED <<fixed, pc, killed, dirs, taken, loaded, answer>>
\* Then the directory, unless something is in it again; it may stop at any of
\* them, errors are ignored.
RemoveDirectory(p) ==
  LET empty == \A pl \in Places : CommandOf[pl] = Command(p) => ~ obj[pl].there /\ ~ lib[pl].there IN
  /\ Alive(p, "cleaning") /\ Go(p, "done")
  /\ \/ empty /\ dirs' = dirs \ {Command(p)}
     \/ UNCHANGED dirs
  /\ UNCHANGED <<fixed, killed, obj, lib, taken, loaded, answer>>

\* The process is killed, with a file half written, or with cc at work.
Kill(p) ==
  /\ ~ killed[p] /\ pc[p] \notin {"idle", "failed", "done"}
  /\ killed' = [killed EXCEPT ![p] = TRUE]
  /\ obj' = [obj EXCEPT ![place[p]] = Closed(@, p, Torn)]
  /\ UNCHANGED <<fixed, pc, dirs, lib, taken, loaded, answer>>

Next ==
  \E p \in Processes :
    \/ Start(p) \/ OpenObject(p) \/ CloseObject(p) \/ ReadObject(p)
    \/ OpenLibrary(p) \/ CloseLibrary(p) \/ Load(p) \/ Answer(p)
    \/ FailAlone(p) \/ WriteFails(p) \/ LinkFails(p) \/ Fail(p)
    \/ \E pl \in Places : RemoveFile(p, pl)
    \/ RemoveDirectory(p) \/ Kill(p)

Spec == Init /\ [][Next]_vars

-----------------------------------------------------------------------------
(***************************************************************************)
(* Properties                                                              *)
(***************************************************************************)
FileType == [there : BOOLEAN, writers : SUBSET Processes, data : SUBSET (Processes \cup {Torn})]

Typed ==
  /\ place \in [Processes -> Places] /\ faulty \subseteq Processes
  /\ pc \in [Processes -> {"idle", "loaded", "cleaning", "failed", "done"} \cup BuildingAt]
  /\ killed \in [Processes -> BOOLEAN]
  /\ dirs \subseteq Commands
  /\ obj \in [Places -> FileType] /\ lib \in [Places -> FileType]
  /\ taken \in [Processes -> Processes \cup {Torn}]
  /\ loaded \in [Processes -> Processes \cup {Torn}]
  /\ answer \in [Processes -> Processes \cup {Torn}]
  /\ rivals \in [Processes -> SUBSET Processes] /\ company \in [Processes -> SUBSET Processes]

OpenForWriters ==
  \A pl \in Places :
    /\ \A p \in obj[pl].writers : place[p] = pl /\ pc[p] = "emitting" /\ ~ killed[p]
    /\ \A p \in lib[pl].writers : place[p] = pl /\ pc[p] = "writing"

\* Every variable has its type, and a file is open for those that write it alone.
TypeOK == Typed /\ OpenForWriters

\* A process answers with its own program, whatever earlier runs that failed or
\* were killed have left at its place, whoever removes the directory meanwhile, and
\* whoever starts after it has loaded its library: unless another process, or the
\* cc of one that was killed, built at the same place while it did.
AnswersOwnProgram ==
  \A p \in Processes : answer[p] \in {p, Torn} \/ rivals[p] # {}

\* A process that finds its directory, its object file or its library missing,
\* torn or another's had another one of its command about while it was; alone it
\* fails for no fault but its program's or the machine's, whatever earlier
\* processes that failed or were killed have left.
MissesFilesOnlyInCompany ==
  \A p \in Processes : pc[p] = "failed" => p \in faulty \/ company[p] # {}
=============================================================================
