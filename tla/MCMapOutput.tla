----------------------------- MODULE MCMapOutput -----------------------------
(* Two executions of one map job (the straggler and its replacement). *)
EXTENDS MapOutput

MCExecutions == {"straggler", "replacement"}

=============================================================================
