----------------------------- MODULE MCPureOps -----------------------------
(***************************************************************************)
(* Checks the coordinator's input split (InputSplit) against its         *)
(* reference over bounded inputs.  Each input is one initial state, and   *)
(* the state never changes: every list of at most MaxFiles files of at    *)
(* most MaxFileSize bytes, every chunk size up to MaxChunk, and every     *)
(* point at which MakeCoordinator may stop reading (an unreadable file).  *)
(***************************************************************************)
EXTENDS Naturals, Sequences, InputSplit

CONSTANTS MaxFiles, MaxFileSize, MaxChunk

VARIABLES sizes, mapInputSize, readable

vars == <<sizes, mapInputSize, readable>>

Init ==
  /\ sizes \in UNION {[1 .. k -> 0 .. MaxFileSize] : k \in 0 .. MaxFiles}
  /\ mapInputSize \in 1 .. MaxChunk
  /\ readable \in 0 .. Len(sizes)

Next == UNCHANGED vars

Spec == Init /\ [][Next]_vars

\* MakeCoordinator's loops give exactly the reference chunks: every byte of
\* every file read is in one chunk, chunks are at most map_input_size and
\* only the last chunk of a file is shorter, in file and offset order, and
\* an empty file gives no map job.
SplitMatchesReference ==
  SplitInputs(sizes, readable, mapInputSize) = InputChunksRef(sizes, readable, mapInputSize)

=============================================================================
