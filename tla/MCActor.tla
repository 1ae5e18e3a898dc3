------------------------------- MODULE MCActor -------------------------------
(* Instantiates Actor for TLC with the program of TestFullQueue.           *)
EXTENDS Actor

\* TestFullQueue: New(actor, 3), then four Sends of 5.
FullQueueProgram == {<<5, 5, 5, 5>>}

=============================================================================
