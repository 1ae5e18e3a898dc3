-------------------------------- MODULE MRJob --------------------------------
(***************************************************************************)
(* What the MapReduce coordinator promises about its jobs, with no workers, *)
(* files, leases or RPCs: the map tasks run first, the reduce tasks only    *)
(* once every map task is done, and the job is done once every reduce task *)
(* is.  A task of the current phase is idle, running or done; running      *)
(* tasks may fall back to idle (their workers are presumed lost or failed), *)
(* a task that is not done may become done (some execution of it           *)
(* completed, possibly a straggler's), and a done task stays done.  Tasks  *)
(* of the other phase do not move.                                         *)
(***************************************************************************)
CONSTANTS MapTasks, ReduceTasks

\* Map and reduce tasks are told apart by their ids alone.
ASSUME MapTasks \cap ReduceTasks = {}

VARIABLES phase, status

absVars == <<phase, status>>

AllTasks == MapTasks \cup ReduceTasks

Init ==
  /\ phase = "map"
  /\ status = [t \in AllTasks |-> "idle"]

\* The tasks of the phase in progress.
Current ==
  IF phase = "map" THEN MapTasks ELSE IF phase = "reduce" THEN ReduceTasks ELSE {}

Start(t) ==
  /\ t \in Current /\ status[t] = "idle"
  /\ status' = [status EXCEPT ![t] = "running"]
  /\ UNCHANGED phase

\* Several running tasks may be given up at once (one lease scan).
GiveUp(S) ==
  /\ S # {}
  /\ \A t \in S : t \in Current /\ status[t] = "running"
  /\ status' = [t \in AllTasks |-> IF t \in S THEN "idle" ELSE status[t]]
  /\ UNCHANGED phase

Finish(t) ==
  /\ t \in Current /\ status[t] # "done"
  /\ status' = [status EXCEPT ![t] = "done"]
  /\ UNCHANGED phase

StartReduce ==
  /\ phase = "map"
  /\ \A t \in MapTasks : status[t] = "done"
  /\ phase' = "reduce"
  /\ UNCHANGED status

Complete ==
  /\ phase = "reduce"
  /\ \A t \in ReduceTasks : status[t] = "done"
  /\ phase' = "done"
  /\ UNCHANGED status

Next ==
  \/ \E t \in AllTasks : Start(t) \/ Finish(t)
  \/ \E S \in SUBSET AllTasks : GiveUp(S)
  \/ StartReduce
  \/ Complete

Spec == Init /\ [][Next]_absVars

=============================================================================
