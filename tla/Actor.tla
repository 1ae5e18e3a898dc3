-------------------------------- MODULE Actor --------------------------------
(***************************************************************************)
(* The actor library of lab6 (labs/lab6/actors/actors.go) driven by one   *)
(* test of actors_test.go.  An ActorRef holds messageQueue, a channel     *)
(* buffered to messageQueueSize, and killed, a channel that signals the   *)
(* shutdown.  New, Send and Kill are TODO in the repository; the model    *)
(* gives them what their comments and the tests ask for:                  *)
(*   - New starts a goroutine that takes messages off messageQueue and    *)
(*     calls actor.Receive on each, in order;                             *)
(*   - Send puts the message on messageQueue without blocking and returns *)
(*     an error when the queue is full (TestFullQueue);                   *)
(*   - Kill shuts the actor down and returns once the goroutine is done,  *)
(*     after every queued message is received (TestCounterActor).         *)
(* The test goroutine sends the messages of its program in order, then    *)
(* calls Kill.                                                            *)
(***************************************************************************)
EXTENDS Naturals, Sequences

CONSTANTS
  QueueSize,  \* messageQueueSize passed to New
  Programs    \* the sequences of messages a test may send before Kill

ASSUME QueueSize \in Nat \ {0} /\ Programs \subseteq Seq(Nat)

VARIABLES
  program,       \* the messages this test sends
  messageQueue,  \* ref.messageQueue's buffered contents
  received,      \* the messages actor.Receive was called with, in order
  killed,        \* Kill has signalled the shutdown on ref.killed
  running,       \* the actor's receiving goroutine is alive
  pc,            \* the test goroutine: "send", "kill", "killing" or "done"
  results        \* what each Send returned: "nil" or "error"

actorVars == <<program, messageQueue, received, killed, running, pc, results>>

\* New(actor, messageQueueSize): an empty queue and a running goroutine.
Init ==
  /\ program \in Programs
  /\ messageQueue = <<>>
  /\ received = <<>>
  /\ killed = FALSE
  /\ running = TRUE
  /\ pc = IF program = <<>> THEN "kill" ELSE "send"
  /\ results = <<>>

\* ref.Send(msg), the next message of the test: a non-blocking put on the
\* channel, nil if there was room, an error if the queue was full.
Send ==
  LET msg == program[Len(results) + 1] IN
  /\ pc = "send"
  /\ IF Len(messageQueue) < QueueSize
       THEN /\ messageQueue' = Append(messageQueue, msg)
            /\ results' = Append(results, "nil")
       ELSE /\ results' = Append(results, "error")
            /\ UNCHANGED messageQueue
  /\ pc' = IF Len(results) + 1 = Len(program) THEN "kill" ELSE "send"
  /\ UNCHANGED <<program, received, killed, running>>

\* The actor's goroutine takes the next message off messageQueue and calls
\* actor.Receive(msg, ref) with it.
Receive ==
  /\ running
  /\ messageQueue # <<>>
  /\ received' = Append(received, Head(messageQueue))
  /\ messageQueue' = Tail(messageQueue)
  /\ UNCHANGED <<program, killed, running, pc, results>>

\* ref.Kill(): the shutdown is signalled and Kill waits for the goroutine.
Kill ==
  /\ pc = "kill"
  /\ killed' = TRUE
  /\ pc' = "killing"
  /\ UNCHANGED <<program, messageQueue, received, running, results>>

\* The goroutine, told to stop, finishes once the queue is empty.
Stop ==
  /\ running
  /\ killed
  /\ messageQueue = <<>>
  /\ running' = FALSE
  /\ UNCHANGED <<program, messageQueue, received, killed, pc, results>>

\* Kill returns once the goroutine is done.
KillReturns ==
  /\ pc = "killing"
  /\ ~running
  /\ pc' = "done"
  /\ UNCHANGED <<program, messageQueue, received, killed, running, results>>

\* The test has returned.
Finished ==
  /\ pc = "done"
  /\ UNCHANGED actorVars

Next == Send \/ Receive \/ Kill \/ Stop \/ KillReturns \/ Finished

\* The test and the actor's goroutine are both scheduled while they can run.
Spec == Init /\ [][Next]_actorVars /\ WF_actorVars(Next)

-----------------------------------------------------------------------------

\* TestFullQueue: with a queue of QueueSize, the first QueueSize sends
\* succeed and the next one returns an error.
FullQueueRejected ==
  Len(results) > QueueSize =>
    /\ \A i \in 1 .. QueueSize : results[i] = "nil"
    /\ results[QueueSize + 1] = "error"

=============================================================================
