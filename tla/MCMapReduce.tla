---------------------------- MODULE MCMapReduce ----------------------------
(***************************************************************************)
(* MapReduce instantiated for TLC: a 3-byte and an empty input file split *)
(* into chunks of 2 bytes (two map jobs), two reduce buckets, two workers, *)
(* leases of one poll (so a working worker's job can be requeued and run   *)
(* twice), one crash, one failed attempt and one lost call.              *)
(***************************************************************************)
EXTENDS MapReduce, TLC

CONSTANTS w1, w2, w3

MCWorkers == {w1, w2}

MCInputSizes == <<3, 0>>

NoStaleFiles == {}
\* mapreduce-1002-1, left by an earlier run over an input of three chunks.
MCStaleFiles == {<<1002, 1>>}
MCWorkers3 == {w1, w2, w3}

\* Workers are interchangeable processes: symmetry for the safety runs only.
WorkerSymmetry == Permutations(MCWorkers)
=============================================================================
