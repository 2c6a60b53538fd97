---------------------------- MODULE ClientThread ----------------------------
(***************************************************************************)
(* A client of the daemon (src/rcrpc-client/rcrpc-client.c): remote_init   *)
(* connects and starts a thread that polls the connection for events, and  *)
(* remote_exit stops the thread and frees what the two share.              *)
(*                                                                         *)
(* The application and the thread are interleaved, as is a connection that *)
(* delivers events and may break.  What the handlers of the events do is   *)
(* not modelled: they cannot reach remote_exit.                            *)
(***************************************************************************)
EXTENDS Naturals

CONSTANTS
  MaxEvents,  \* bound on the events waiting in the connection
  Faulty      \* whether polling a connection that works may fail

ASSUME ClientThreadAssumption == MaxEvents \in Nat /\ Faulty \in BOOLEAN

VARIABLES
  app,      \* where the application is
  thread,   \* where poll_event_thread is; "none" before it is created
  memory,   \* the client that the two share
  done,     \* client->done
  link,     \* the connection
  events,   \* events waiting in it
  late,     \* history: batches of events handled since remote_exit was called
  failed    \* history: polling failed although the connection worked

vars == <<app, thread, memory, done, link, events, late, failed>>

Init ==
  /\ app = "start"
  /\ thread = "none"
  /\ memory = "none"
  /\ done = FALSE
  /\ link = "none"
  /\ events = 0
  /\ late = 0
  /\ failed = FALSE

-----------------------------------------------------------------------------
(* The application.                                                        *)

\* The client cannot be created or connected: nothing is left of it.
InitFails ==
  /\ app = "start"
  /\ app' = "failed"
  /\ UNCHANGED <<thread, memory, done, link, events, late, failed>>

\* Mutant: the error is seen and the client freed, but remote_init goes on.
InitThreadFreed(created) ==
  /\ app = "start"
  /\ app' = "created"
  /\ memory' = IF created THEN "allocated" ELSE "freed"
  /\ done' = FALSE
  /\ link' = "up"
  /\ thread' = IF created THEN "test" ELSE "none"
  /\ UNCHANGED <<events, late, failed>>

\* remote_init up to pthread_create.  An error of pthread_create is a positive
\* number and is not seen: the client goes on without a thread.
InitThread(created) ==
  /\ app = "start"
  /\ app' = "created"
  /\ memory' = "allocated"
  /\ done' = FALSE
  /\ link' = "up"
  /\ thread' = IF created THEN "test" ELSE "none"
  /\ UNCHANGED <<events, late, failed>>

\* The application gets hold of the client.
InitReturns ==
  /\ app = "created"
  /\ app' = "running"
  /\ UNCHANGED <<thread, memory, done, link, events, late, failed>>

\* Mutant: the thread is not told.
ExitUntold ==
  /\ app = "running"
  /\ app' = "joining"
  /\ UNCHANGED <<thread, memory, done, link, events, late, failed>>

\* remote_exit begins.
Exit ==
  /\ app = "running"
  /\ done' = TRUE
  /\ app' = "joining"
  /\ UNCHANGED <<thread, memory, link, events, late, failed>>

\* Mutant: the thread is not waited for.
JoinUnwaited ==
  /\ app = "joining"
  /\ app' = "exited"
  /\ memory' = "freed"
  /\ UNCHANGED <<thread, done, link, events, late, failed>>

\* pthread_join, and the client and its connection are gone.  When the thread was
\* never created the join is undefined; here it returns.
Join ==
  /\ app = "joining"
  /\ thread \in {"none", "ended"}
  /\ app' = "exited"
  /\ memory' = "freed"
  /\ link' = "none"
  /\ events' = 0
  /\ UNCHANGED <<thread, done, late, failed>>

\* ... or it brings the application down, or never returns.
JoinUndefined ==
  /\ app = "joining"
  /\ thread = "none"
  /\ app' \in {"crashed", "stuck"}
  /\ UNCHANGED <<thread, memory, done, link, events, late, failed>>

-----------------------------------------------------------------------------
(* The thread: poll_event_thread.                                          *)

\* Mutant: the loop never gets to poll.
TestSpins ==
  /\ thread = "test"
  /\ thread' = IF done THEN "ended" ELSE "test"
  /\ UNCHANGED <<app, memory, done, link, events, late, failed>>

\* while (!client->done)
Test ==
  /\ thread = "test"
  /\ thread' = IF done THEN "ended" ELSE "poll"
  /\ UNCHANGED <<app, memory, done, link, events, late, failed>>

\* rpc_client_poll finds events.
PollReady ==
  /\ thread = "poll"
  /\ events > 0 \/ link = "broken"
  /\ thread' = "process"
  /\ UNCHANGED <<app, memory, done, link, events, late, failed>>

\* Mutant: a timeout is taken for a failure.
PollTimeoutFails ==
  /\ thread = "poll"
  /\ events = 0
  /\ link = "up"
  /\ done' = TRUE
  /\ thread' = "test"
  /\ UNCHANGED <<app, memory, link, events, late, failed>>

\* rpc_client_poll times out after 250 ms.
PollTimeout ==
  /\ thread = "poll"
  /\ events = 0
  /\ link = "up"
  /\ thread' = "test"
  /\ UNCHANGED <<app, memory, done, link, events, late, failed>>

\* rpc_client_poll fails with any error but -ETIMEDOUT, be it that a signal came
\* (-EINTR): the thread ends of its own accord, and says nothing.
PollFails ==
  /\ thread = "poll"
  /\ Faulty \/ link = "broken"
  /\ done' = TRUE
  /\ thread' = "test"
  /\ failed' = (failed \/ link # "broken")
  /\ UNCHANGED <<app, memory, link, events, late>>

\* Mutant: events are handled until there are none, whatever client->done says.
ProcessAll ==
  /\ thread = "process"
  /\ events' = IF events > 0 THEN events - 1 ELSE 0
  /\ thread' = IF events' > 0 THEN "process" ELSE "test"
  /\ late' = IF app = "joining" THEN late + 1 ELSE late
  /\ UNCHANGED <<app, memory, done, link, failed>>

\* rpc_client_process_events handles a batch of the events there are, or fails
\* because the connection is broken, which the loop takes no notice of.
Process ==
  /\ thread = "process"
  /\ thread' = "test"
  /\ events' \in 0..events
  /\ late' = IF app = "joining" THEN late + 1 ELSE late
  /\ UNCHANGED <<app, memory, done, link, failed>>

-----------------------------------------------------------------------------
(* The connection.                                                         *)

Deliver ==
  /\ link = "up"
  /\ events < MaxEvents
  /\ events' = events + 1
  /\ UNCHANGED <<app, thread, memory, done, link, late, failed>>

Break ==
  /\ link = "up"
  /\ link' = "broken"
  /\ UNCHANGED <<app, thread, memory, done, events, late, failed>>

Step == Test \/ PollReady \/ PollTimeout \/ PollFails \/ Process

Next ==
  \/ InitFails
  \/ \E created \in BOOLEAN : InitThread(created)
  \/ InitReturns
  \/ Exit
  \/ Join
  \/ JoinUndefined
  \/ Test
  \/ PollReady
  \/ PollTimeout
  \/ PollFails
  \/ Process
  \/ Deliver
  \/ Break

Spec == Init /\ [][Next]_vars

\* Both threads are scheduled, and the application's own calls return; when it
\* calls remote_exit, if ever, is up to it.
Fairness == WF_vars(Step) /\ WF_vars(InitReturns) /\ WF_vars(Join \/ JoinUndefined)

FairSpec == Spec /\ Fairness

-----------------------------------------------------------------------------
(* Properties.                                                             *)

\* Types; the application never holds a client that is not there.
TypeOK ==
  /\ app \in {"start", "failed", "created", "running", "joining", "exited", "crashed", "stuck"}
  /\ thread \in {"none", "test", "poll", "process", "ended"}
  /\ memory \in {"none", "allocated", "freed"}
  /\ done \in BOOLEAN
  /\ link \in {"none", "up", "broken"}
  /\ events \in Nat
  /\ late \in Nat
  /\ failed \in BOOLEAN
  /\ app \in {"created", "running", "joining"} => memory = "allocated"

\* The thread does not look at the client any more when remote_exit frees it,
\* wherever in its loop remote_exit found it, and whoever set client->done first.
NoUseAfterFree == memory = "freed" => thread \in {"none", "ended"}

\* Once remote_exit has been called the thread handles one more batch of events at
\* the most, and none once remote_exit has returned.
OneLateBatch == late <= 1

\* The thread does not give up on a connection that works, however often polling
\* it times out; only another error of polling makes it.
ThreadServes ==
  app \in {"created", "running"} /\ link = "up" /\ ~failed => thread # "ended"

\* What client->done and the thread's place in the loop say about each other; this
\* makes the above inductive.
DoneSound ==
  /\ done => app \in {"joining", "exited", "crashed", "stuck"} \/ link = "broken" \/ failed
  /\ app = "joining" => done
  /\ thread = "ended" => done
  /\ thread \notin {"none", "ended"} => app \in {"created", "running", "joining"}
  /\ app # "joining" /\ thread \notin {"none", "ended"} => late = 0
  /\ thread \in {"poll", "process"} => late = 0
  /\ app \in {"start", "created", "running"} => late = 0
  /\ app = "start" => thread = "none"

\* The inductive invariant.
IInv == TypeOK /\ NoUseAfterFree /\ OneLateBatch /\ ThreadServes /\ DoneSound

\* remote_exit returns when there is a thread to wait for.
ExitReturns == app = "joining" /\ thread # "none" ~> app = "exited"

\* An event that waits while the thread is there and the connection works gets the
\* thread to process events, unless the application leaves or polling fails.
EventsProcessed ==
  events > 0 /\ app = "running" /\ thread # "none"
    ~> thread = "process" \/ app # "running" \/ link # "up" \/ failed
=============================================================================
