---------------------------- MODULE MCSequential ----------------------------
(***************************************************************************)
(* Checks Sequential over every intermediate sequence of at most MaxLen   *)
(* records with keys in Keys and values in Values, and every order in     *)
(* which sort.Sort may leave records with equal keys.  Each pair is one   *)
(* initial state; the state never changes.                                *)
(***************************************************************************)
EXTENDS Naturals, Sequences, Sequential

CONSTANTS MaxLen, Keys, Values

VARIABLES intermediate, sorted

seqVars == <<intermediate, sorted>>

KeyValue == [key : Keys, value : Values]

Init ==
  /\ intermediate \in UNION {[1 .. n -> KeyValue] : n \in 0 .. MaxLen}
  /\ sorted \in SortedByKey(intermediate)

Next == UNCHANGED seqVars

Spec == Init /\ [][Next]_seqVars

\* Whatever order sort.Sort leaves equal keys in, the grouping loop calls
\* reducef exactly once per distinct key, in ascending key order, with
\* every value of that key: the runner's output is the reference output.
OutputMatchesReference == SequentialOutput(sorted) = OutputRef(intermediate)

=============================================================================
