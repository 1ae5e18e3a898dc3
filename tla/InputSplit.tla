----------------------------- MODULE InputSplit -----------------------------
(***************************************************************************)
(* MakeCoordinator's split of its input files into map jobs               *)
(* (mapreduce/coordinator.go): every file is cut into chunks of           *)
(* map_input_size bytes from offset 0, the last chunk holding what is     *)
(* left, and the chunks of all files are numbered in file order.  A file  *)
(* is its size; a chunk is [file, offset, size].                          *)
(***************************************************************************)
EXTENDS Naturals, Sequences, SequencesExt

\* Fault: the last chunk is not cut down to the bytes left in the file.
RECURSIVE SplitFromNoShrink(_, _, _, _)
SplitFromNoShrink(file, fileSize, offset, chunkSize) ==
  IF offset < fileSize
    THEN <<[file |-> file, offset |-> offset, size |-> chunkSize]>>
           \o SplitFromNoShrink(file, fileSize, offset + chunkSize, chunkSize)
    ELSE <<>>

\* The inner `for offset < fileSize` loop from `offset` on.  When less than
\* chunkSize bytes are left, chunkSize itself is cut down to what is left,
\* and the loop goes on with the smaller chunkSize (which then ends it).
RECURSIVE SplitFrom(_, _, _, _)
SplitFrom(file, fileSize, offset, chunkSize) ==
  IF offset < fileSize
    THEN LET size == IF fileSize - offset < chunkSize THEN fileSize - offset
                                                      ELSE chunkSize
         IN <<[file |-> file, offset |-> offset, size |-> size]>>
              \o SplitFrom(file, fileSize, offset + size, size)
    ELSE <<>>

\* The outer loop over the first n files: each starts at offset 0 with the
\* full map_input_size, and its chunks are appended after those of the
\* files before it (job ids follow this order).
RECURSIVE SplitInputs(_, _, _)
SplitInputs(sizes, n, mapInputSize) ==
  IF n = 0 THEN <<>>
  ELSE SplitInputs(sizes, n - 1, mapInputSize)
         \o SplitFrom(n, sizes[n], 0, mapInputSize)

-----------------------------------------------------------------------------
(***************************************************************************)
(* Reference: a file of s bytes has ceil(s / c) chunks, the i-th starting *)
(* at (i-1)*c and ending at the earlier of i*c and the end of the file.   *)
(***************************************************************************)

CeilDiv(a, b) == (a + b - 1) \div b

FileChunksRef(file, fileSize, c) ==
  [i \in 1 .. CeilDiv(fileSize, c) |->
     [file |-> file, offset |-> (i - 1) * c,
      size |-> IF i * c <= fileSize THEN c ELSE fileSize - (i - 1) * c]]

InputChunksRef(sizes, n, c) ==
  FlattenSeq([f \in 1 .. n |-> FileChunksRef(f, sizes[f], c)])

=============================================================================
