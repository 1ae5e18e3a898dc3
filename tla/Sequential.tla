----------------------------- MODULE Sequential -----------------------------
(***************************************************************************)
(* The sequential runner (sequential/sequential.go), the oracle the       *)
(* distributed job is compared with: the map output of every input is     *)
(* concatenated into `intermediate`, sorted by key with sort.Sort, and    *)
(* each run of equal keys is handed to reducef once.  Keys and values are *)
(* numbers standing for strings, compared with < as Go compares strings.  *)
(* The reduce function is nocrash's (mapreduceapps/nocrash.go), which     *)
(* sorts its values so that its output does not depend on their order.    *)
(***************************************************************************)
EXTENDS Naturals, Sequences, SequencesExt, Functions, TLC

\* ByKey: the sort order compares keys only.
ByKeyLess(a, b) == a.key < b.key

\* sort.Sort(ByKey(intermediate)).  sort.Sort is not stable: the result is
\* some permutation of the input ordered by key, records with equal keys in
\* any order.
SortedByKey(intermediate) ==
  LET n == Len(intermediate) IN
  {s \in {[i \in 1 .. n |-> intermediate[p[i]]] : p \in Bijection(1 .. n, 1 .. n)} :
     \A i \in 1 .. n - 1 : ~ByKeyLess(s[i + 1], s[i])}

\* ReduceNoCrash: the values sorted (sort.Strings) and joined; the join is
\* left out, the sorted sequence stands for the joined string.
ReduceNoCrash(key, values) == SortSeq(values, <)

\* Fault: the inner loop stops one record before the end of intermediate.
RECURSIVE RunEndShort(_, _, _)
RunEndShort(kvs, i, j) ==
  IF j < Len(kvs) /\ kvs[j].key = kvs[i].key THEN RunEndShort(kvs, i, j + 1) ELSE j

\* The inner loop: j moves past every record whose key equals
\* intermediate[i].Key, stopping at the end of intermediate.
RECURSIVE RunEnd(_, _, _)
RunEnd(kvs, i, j) ==
  IF j <= Len(kvs) /\ kvs[j].key = kvs[i].key THEN RunEnd(kvs, i, j + 1) ELSE j

\* The outer loop from i: the values of the run i..j-1 are collected,
\* reducef is called once for the run's key, its line "key output" is
\* written, and the loop goes on at j.
RECURSIVE GroupFrom(_, _)
GroupFrom(kvs, i) ==
  IF i > Len(kvs) THEN <<>>
  ELSE LET j == RunEnd(kvs, i, i + 1)
           values == [k \in 1 .. j - i |-> kvs[i + k - 1].value]
       IN <<[key |-> kvs[i].key, value |-> ReduceNoCrash(kvs[i].key, values)]>>
            \o GroupFrom(kvs, j)

\* The lines of mapreduce-out-0 for a sorted intermediate.
SequentialOutput(sorted) == GroupFrom(sorted, 1)

-----------------------------------------------------------------------------
(***************************************************************************)
(* Reference: one line per distinct key, keys ascending, each with the    *)
(* sorted values of every record of that key.                             *)
(***************************************************************************)

ValuesOf(intermediate, k) ==
  LET recs == SelectSeq(intermediate, LAMBDA r : r.key = k)
  IN [i \in 1 .. Len(recs) |-> recs[i].value]

OutputRef(intermediate) ==
  LET keys == SetToSortSeq({intermediate[i].key : i \in 1 .. Len(intermediate)}, <)
  IN [n \in 1 .. Len(keys) |->
        [key |-> keys[n], value |-> SortSeq(ValuesOf(intermediate, keys[n]), <)]]

=============================================================================
