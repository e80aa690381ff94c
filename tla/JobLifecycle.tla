---------------------------- MODULE JobLifecycle ----------------------------
(***************************************************************************)
(* What the cloud service promises about a job, with no task, thread,      *)
(* clock or file in sight: an accepted job goes forward through its        *)
(* phases, ends in one outcome at most, leaves the store for good, and its *)
(* artifact is kept for clients from the moment it is complete until some  *)
(* time after it is gone.                                                  *)
(***************************************************************************)
CONSTANT Jobs

VARIABLES
  phase,      (* job -> its phase                                           *)
  available,  (* the jobs whose artifact the service keeps                  *)
  running     (* the service takes requests                                 *)

vars == <<phase, available, running>>

Listed == {"pending", "compiling", "complete", "failed"}

Init ==
  /\ phase = [j \in Jobs |-> "unknown"]
  /\ available = {}
  /\ running = TRUE

Move(j, from, to) ==
  /\ phase[j] \in from
  /\ phase' = [phase EXCEPT ![j] = to]

Accept(j)   == running /\ Move(j, {"unknown"}, "pending") /\ UNCHANGED <<available, running>>
Begin(j)    == running /\ Move(j, {"pending"}, "compiling") /\ UNCHANGED <<available, running>>
Complete(j) == /\ running
               /\ Move(j, {"compiling"}, "complete")
               /\ available' = available \cup {j}
               /\ UNCHANGED running
Fail(j)     == Move(j, {"compiling"}, "failed") /\ UNCHANGED <<available, running>>
Discard(j)  == Move(j, Listed, "gone") /\ UNCHANGED <<available, running>>
Reclaim(j)  == /\ phase[j] = "gone"
               /\ j \in available
               /\ available' = available \ {j}
               /\ UNCHANGED <<phase, running>>
Halt        == running /\ running' = FALSE /\ UNCHANGED <<phase, available>>

Settle(j) == Begin(j) \/ Complete(j) \/ Fail(j)

Next ==
  \/ \E j \in Jobs : Accept(j) \/ Settle(j) \/ Discard(j) \/ Reclaim(j)
  \/ Halt

\* While it runs, the service settles every job and discards it in the end; the
\* artifact of a discarded job is given up whether or not the service runs.
Fairness ==
  \A j \in Jobs :
    /\ WF_vars(running /\ Settle(j))
    /\ WF_vars(running /\ Discard(j))
    /\ WF_vars(Reclaim(j))

SafeSpec == Init /\ [][Next]_vars

Spec == SafeSpec /\ Fairness
=============================================================================
