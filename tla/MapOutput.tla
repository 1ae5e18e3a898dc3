----------------------------- MODULE MapOutput -----------------------------
(***************************************************************************)
(* doMap's output loop (mapreduce/worker.go) for one map job M that runs  *)
(* in several executions at once: a straggler and the worker the lease    *)
(* requeue gave the job to.  For each bucket r, an execution writes       *)
(* mapreduce-M-r.tmp with os.WriteFile (open with O_CREATE|O_TRUNC, write, *)
(* close) and renames it to mapreduce-M-r.  The temporary name is the     *)
(* same for every execution.                                              *)
(*                                                                         *)
(* The file system is kept at inode granularity.  The inode a WriteFile   *)
(* creates is named by <<execution, bucket>>.  Every execution writes the *)
(* same bytes, so an inode's content is whole once the execution that     *)
(* truncated it last has finished writing.  A write by an execution whose *)
(* truncation was undone by a later one leaves the inode partial: it      *)
(* writes from the offset it had reached.                                 *)
(***************************************************************************)
EXTENDS Naturals, FiniteSets

CONSTANTS
  Executions,  \* the concurrent executions of map job M (model values)
  NReduce,     \* reply.NReduce
  MaxCrashes,  \* bound on executions whose process dies in doMap
  None         \* no inode

ASSUME NReduce \in Nat \ {0} /\ MaxCrashes \in Nat

Buckets == 0 .. NReduce - 1
Inodes == Executions \X Buckets

VARIABLES
  tmpName,      \* bucket r -> the inode named mapreduce-M-r.tmp, or None
  finalName,    \* bucket r -> the inode named mapreduce-M-r, or None
  truncatedBy,  \* inode -> the execution whose open truncated it last
  whole,        \* inodes whose content is the complete bucket
  exec,         \* execution -> [pc, r, ino]: loop position and open inode
  crashes

vars == <<tmpName, finalName, truncatedBy, whole, exec, crashes>>

Init ==
  /\ tmpName = [r \in Buckets |-> None]
  /\ finalName = [r \in Buckets |-> None]
  /\ truncatedBy = [i \in Inodes |-> None]
  /\ whole = {}
  /\ exec = [e \in Executions |-> [pc |-> "open", r |-> 0, ino |-> None]]
  /\ crashes = 0

\* os.WriteFile opens mapreduce-M-r.tmp with O_CREATE|O_TRUNC: the inode
\* the name denotes now is emptied, or a new inode is created.
OpenTmp(e) ==
  LET r == exec[e].r
      i == IF tmpName[r] = None THEN <<e, r>> ELSE tmpName[r]
  IN /\ exec[e].pc = "open"
     /\ tmpName' = [tmpName EXCEPT ![r] = i]
     /\ truncatedBy' = [truncatedBy EXCEPT ![i] = e]
     /\ whole' = whole \ {i}
     /\ exec' = [exec EXCEPT ![e].pc = "write", ![e].ino = i]
     /\ UNCHANGED <<finalName, crashes>>

\* The write and close of os.WriteFile return: the inode is whole if no
\* other execution has truncated it since this one did.
WriteTmp(e) ==
  LET i == exec[e].ino IN
  /\ exec[e].pc = "write"
  /\ whole' = IF truncatedBy[i] = e THEN whole \cup {i} ELSE whole
  /\ exec' = [exec EXCEPT ![e].pc = "rename"]
  /\ UNCHANGED <<tmpName, finalName, truncatedBy, crashes>>

\* os.Rename(tmp, final): whatever inode mapreduce-M-r.tmp names now becomes
\* mapreduce-M-r; the next bucket follows, and after the last one doMap
\* returns nil and the worker reports FINISHED.  If another execution has
\* already renamed the temporary name away, Rename fails with ENOENT,
\* doMap returns the error and the worker reports UNASSIGNED.
RenameTmp(e) ==
  LET r == exec[e].r IN
  /\ exec[e].pc = "rename"
  /\ IF tmpName[r] = None
       THEN /\ exec' = [exec EXCEPT ![e].pc = "failed"]
            /\ UNCHANGED <<tmpName, finalName>>
       ELSE /\ finalName' = [finalName EXCEPT ![r] = tmpName[r]]
            /\ tmpName' = [tmpName EXCEPT ![r] = None]
            /\ exec' = [exec EXCEPT ![e] =
                          IF r + 1 = NReduce THEN [@ EXCEPT !.pc = "finished"]
                          ELSE [pc |-> "open", r |-> r + 1, ino |-> None]]
  /\ UNCHANGED <<truncatedBy, whole, crashes>>

\* The worker process dies inside doMap.
Crash(e) ==
  /\ exec[e].pc \in {"open", "write", "rename"}
  /\ crashes < MaxCrashes
  /\ crashes' = crashes + 1
  /\ exec' = [exec EXCEPT ![e].pc = "crashed"]
  /\ UNCHANGED <<tmpName, finalName, truncatedBy, whole>>

\* Every execution has returned or died.
Stopped ==
  /\ \A e \in Executions : exec[e].pc \in {"finished", "failed", "crashed"}
  /\ UNCHANGED vars

Next ==
  \/ \E e \in Executions : OpenTmp(e) \/ WriteTmp(e) \/ RenameTmp(e) \/ Crash(e)
  \/ Stopped

Spec == Init /\ [][Next]_vars

-----------------------------------------------------------------------------

\* The write-then-rename promise (spec section 4.2): once an execution of M
\* has returned nil from doMap, so that the coordinator may mark M FINISHED
\* and a reduce job may read its files, every mapreduce-M-r exists and is
\* the complete bucket: no reader sees a partially written file.
FinishedFilesWhole ==
  (\E e \in Executions : exec[e].pc = "finished") =>
    \A r \in Buckets : finalName[r] # None /\ finalName[r] \in whole

=============================================================================
