-------------------------------- MODULE Irq --------------------------------
(***************************************************************************)
(* Interrupt notification between the rcrpc server and its client          *)
(* (src/rcrpc/irq.c, src/rcrpc-client/irq.c, the irq-poll command).        *)
(*                                                                         *)
(* The event manager of the remote-control daemon calls irq_event_cb() in  *)
(* the main loop whenever a source changes.  The callback records the      *)
(* source in irq_status and pushes a contentless irq_event to the client.  *)
(* The client answers by asking for the mask (irq_get_mask) and then, one  *)
(* RPC at a time, for the state of every source in it (irq_get_info).      *)
(* Reading a source clears its bit.  Between two RPCs of a poll the main   *)
(* loop is free to run further callbacks, and the connection may break.    *)
(*                                                                         *)
(* A source's state is abstracted to its version, the number of events it  *)
(* has raised; a key of the handset is its serial number.                  *)
(***************************************************************************)
EXTENDS Integers, FiniteSets

CONSTANTS
  Level,      \* sources that only have a current state: MODEM, VOIP, SMARTCARD, HOOK
  HANDSET,    \* the source with a queue of key events
  IO,         \* the source that irq_get_mask and irq_get_info ignore
  ZeroState,  \* members of Level for which a zeroed event structure is a valid state
  MaxEvents,  \* bound on the events of each source
  MaxFails,   \* bound on failures of event_manager_get_source_state
  MaxQueries  \* bound on irq_get_info calls made outside of a poll

Source == Level \cup {HANDSET, IO}

ASSUME SourceAssumption ==
  /\ HANDSET \notin Level
  /\ IO \notin Level
  /\ HANDSET # IO
  /\ ZeroState \subseteq Level

ASSUME BoundAssumption ==
  /\ MaxEvents \in [Source -> Nat]
  /\ MaxFails \in Nat
  /\ MaxQueries \in Nat

VARIABLES
  irq_status,  \* sources whose bit is set in struct irq_data
  events,      \* events[s]: version of source s
  popped,      \* key events taken from the handset queue
  fails,       \* failures of the event manager so far
  conn,        \* a client is connected: irq_event can be sent
  notified,    \* an irq_event has been sent and the client has not polled since
  request,     \* the request of the client the server has yet to handle
  reply,       \* the reply the client has yet to receive
  todo,        \* sources of the fetched mask the poll has not asked for yet
  seen,        \* seen[s]: last version of s the client was told
  lost,        \* sources whose current version was read but never told to the client
  queries      \* irq_get_info calls made outside of a poll

server == <<irq_status, events, popped, fails>>
link == <<conn, notified, request, reply>>
client == <<todo, seen, queries>>
vars == <<irq_status, events, popped, fails, conn, notified, request, reply,
          todo, seen, lost, queries>>

Error == -1   \* irq_get_info returned a negative error code
Zeroed == -2  \* irq_get_info succeeded with the state of a zeroed structure

Request == [op : {"irq_enable", "irq_get_mask"}] \cup [op : {"irq_get_info"}, src : Source]
Reply == [op : {"irq_enable"}] \cup [op : {"irq_get_mask"}, mask : SUBSET Source]
           \cup [op : {"irq_get_info"}, src : Source, info : Int]
None == [op |-> "none"]

Init ==
  /\ irq_status = {}
  /\ events = [s \in Source |-> 0]
  /\ popped = 0
  /\ fails = 0
  /\ conn = FALSE
  /\ notified = FALSE
  /\ request = None
  /\ reply = None
  /\ todo = {}
  /\ seen = [s \in Level |-> 0]
  /\ lost = {}
  /\ queries = 0

-----------------------------------------------------------------------------
(* The server.                                                             *)

\* RPC_STUB(irq_event): the notification only leaves while a client is there.
SendIrqEvent == notified' = (notified \/ conn)

\* Mutant: the bit is only set once the notification has been sent.
IrqEventCbFlagIfSent(s) ==
  IF irq_status # {s} /\ conn
    THEN SendIrqEvent /\ irq_status' = irq_status \cup {s}
    ELSE UNCHANGED <<notified, irq_status>>

\* Mutant: no notification while any other bit is set.
IrqEventCbSendIfClear(s) ==
  /\ IF irq_status = {} THEN SendIrqEvent ELSE UNCHANGED notified
  /\ irq_status' = irq_status \cup {s}

\* irq_event_cb: a callback for the only source already flagged is dropped;
\* any other one is sent, and flagged whether or not it could be sent.
IrqEventCb(s) ==
  IF irq_status # {s}
    THEN SendIrqEvent /\ irq_status' = irq_status \cup {s}
    ELSE UNCHANGED <<notified, irq_status>>

\* The event manager moves s to its next version and runs the callback.
Event(s) ==
  /\ events[s] < MaxEvents[s]
  /\ events' = [events EXCEPT ![s] = @ + 1]
  /\ IrqEventCb(s)
  /\ lost' = lost \ {s}
  /\ UNCHANGED <<popped, fails, conn, request, reply, client>>

Answer(msg) == request' = None /\ reply' = msg

\* Mutant: irq_enable does not announce what is already flagged.
HandleEnableSilent ==
  /\ request.op = "irq_enable"
  /\ Answer([op |-> "irq_enable"])
  /\ UNCHANGED <<server, conn, notified, client, lost>>

\* irq_enable sends an irq_event whatever is flagged.
HandleEnable ==
  /\ request.op = "irq_enable"
  /\ SendIrqEvent
  /\ Answer([op |-> "irq_enable"])
  /\ UNCHANGED <<server, conn, client, lost>>

\* irq_get_mask translates every bit but EVENT_SOURCE_IO.
VisibleMask == irq_status \ {IO}

HandleGetMask ==
  /\ request.op = "irq_get_mask"
  /\ Answer([op |-> "irq_get_mask", mask |-> VisibleMask])
  /\ UNCHANGED <<server, conn, notified, client, lost>>

\* event_manager_get_source_state: what reading source s may come to.
ReadOutcome(s) ==
  (IF s = HANDSET /\ popped = events[HANDSET] THEN {"nodata"} ELSE {"ok"})
    \cup (IF fails < MaxFails THEN {"fail"} ELSE {})

\* Mutant: the handset is cleared like any other source.
StatusAfterClearAll(s, out) == irq_status \ {s}

\* Mutant: an empty handset queue does not clear the bit.
StatusAfterKeepHandset(s, out) == IF s # HANDSET THEN irq_status \ {s} ELSE irq_status

\* The bits irq_data_update_from_source leaves set.  The state sources are
\* cleared even if reading failed, the handset once its queue is empty.
StatusAfter(s, out) ==
  IF s # HANDSET \/ out = "nodata" THEN irq_status \ {s} ELSE irq_status

\* What the client is told.  If no bit changed, the result of sending another
\* irq_event overwrites the error, and the structure is still zeroed.
Info(s, out) ==
  CASE out = "ok" -> IF s = HANDSET THEN popped + 1 ELSE events[s]
    [] out = "nodata" -> 0
    [] out = "fail" ->
         IF StatusAfter(s, out) # irq_status THEN Error
         ELSE IF s = HANDSET THEN 0
         ELSE IF s \in ZeroState THEN Zeroed ELSE Error

\* Mutant: an unchanged mask is not announced again.
HandleGetInfoSilent(out) ==
  /\ request.op = "irq_get_info"
  /\ request.src # IO
  /\ LET s == request.src IN
       /\ out \in ReadOutcome(s)
       /\ irq_status' = StatusAfter(s, out)
       /\ Answer([op |-> "irq_get_info", src |-> s, info |-> Info(s, out)])
       /\ popped' = IF s = HANDSET /\ out = "ok" THEN popped + 1 ELSE popped
       /\ lost' = IF s \in Level /\ out = "fail" THEN lost \cup {s} ELSE lost
  /\ fails' = IF out = "fail" THEN fails + 1 ELSE fails
  /\ UNCHANGED <<events, conn, notified, client>>

\* irq_get_info: read the source, clear its bit or announce again, answer.
HandleGetInfo(out) ==
  /\ request.op = "irq_get_info"
  /\ request.src # IO
  /\ LET s == request.src IN
       /\ out \in ReadOutcome(s)
       /\ irq_status' = StatusAfter(s, out)
       /\ IF irq_status' = irq_status THEN SendIrqEvent ELSE UNCHANGED notified
       /\ Answer([op |-> "irq_get_info", src |-> s, info |-> Info(s, out)])
       /\ popped' = IF s = HANDSET /\ out = "ok" THEN popped + 1 ELSE popped
       /\ lost' = IF s \in Level /\ out = "fail" THEN lost \cup {s} ELSE lost
  /\ fails' = IF out = "fail" THEN fails + 1 ELSE fails
  /\ UNCHANGED <<events, conn, client>>

\* IRQ_SOURCE_IO is accepted and does nothing; info keeps its zero.
HandleGetInfoIo ==
  /\ request.op = "irq_get_info"
  /\ request.src = IO
  /\ Answer([op |-> "irq_get_info", src |-> IO, info |-> 0])
  /\ UNCHANGED <<server, conn, notified, client, lost>>

Handle ==
  \/ HandleEnable
  \/ HandleGetMask
  \/ \E out \in {"ok", "nodata", "fail"} : HandleGetInfo(out)
  \/ HandleGetInfoIo

-----------------------------------------------------------------------------
(* The client and its connection.                                          *)

\* The reply under way tells the client the current version of s.
Telling(s) ==
  /\ reply.op = "irq_get_info"
  /\ reply.src = s
  /\ reply.info = events[s]

\* A client that connects begins by calling remote_irq_enable.
Connect ==
  /\ ~conn
  /\ conn' = TRUE
  /\ request' = [op |-> "irq_enable"]
  /\ UNCHANGED <<server, notified, reply, client, lost>>

\* Mutant: the request survives the connection it came from.
DisconnectKeepRequest ==
  /\ conn
  /\ conn' = FALSE
  /\ notified' = FALSE
  /\ reply' = None
  /\ todo' = {}
  /\ lost' = lost \cup {s \in Level : Telling(s)}
  /\ UNCHANGED <<server, request, seen, queries>>

\* The connection breaks: whatever is under way is lost, a reply included.
Disconnect ==
  /\ conn
  /\ conn' = FALSE
  /\ notified' = FALSE
  /\ request' = None
  /\ reply' = None
  /\ todo' = {}
  /\ lost' = lost \cup {s \in Level : Telling(s)}
  /\ UNCHANGED <<server, seen, queries>>

\* No RPC of the client is under way (its stubs block for the reply).
Ready == conn /\ request = None /\ reply = None

\* remote_irq_get_mask, at the head of exec_irq_poll
PollMask ==
  /\ Ready
  /\ todo = {}
  /\ notified' = FALSE
  /\ request' = [op |-> "irq_get_mask"]
  /\ UNCHANGED <<server, conn, reply, client, lost>>

\* remote_irq_get_info, in the loop of exec_irq_poll
PollInfo(s) ==
  /\ Ready
  /\ s \in todo
  /\ todo' = todo \ {s}
  /\ request' = [op |-> "irq_get_info", src |-> s]
  /\ UNCHANGED <<server, conn, notified, reply, seen, lost, queries>>

\* remote_irq_get_info is public: an application may ask for any source.
Query(s) ==
  /\ Ready
  /\ todo = {}
  /\ queries < MaxQueries
  /\ queries' = queries + 1
  /\ request' = [op |-> "irq_get_info", src |-> s]
  /\ UNCHANGED <<server, conn, notified, reply, todo, seen, lost>>

ReceiveEnable ==
  /\ reply.op = "irq_enable"
  /\ reply' = None
  /\ UNCHANGED <<server, conn, notified, request, client, lost>>

ReceiveMask ==
  /\ reply.op = "irq_get_mask"
  /\ todo' = reply.mask
  /\ reply' = None
  /\ UNCHANGED <<server, conn, notified, request, seen, lost, queries>>

\* Mutant: the error returned by remote_irq_get_info is not looked at.
ReceiveInfoUnchecked ==
  /\ reply.op = "irq_get_info"
  /\ seen' = IF reply.src \in Level
               THEN [seen EXCEPT ![reply.src] = reply.info] ELSE seen
  /\ reply' = None
  /\ UNCHANGED <<server, conn, notified, request, todo, lost, queries>>

\* An error is printed and the poll goes on with the next source.
ReceiveInfo ==
  /\ reply.op = "irq_get_info"
  /\ seen' = IF reply.src \in Level /\ reply.info # Error
               THEN [seen EXCEPT ![reply.src] = reply.info] ELSE seen
  /\ reply' = None
  /\ UNCHANGED <<server, conn, notified, request, todo, lost, queries>>

Receive == ReceiveEnable \/ ReceiveMask \/ ReceiveInfo

Next ==
  \/ \E s \in Source : Event(s) \/ PollInfo(s) \/ Query(s)
  \/ Handle
  \/ Connect
  \/ Disconnect
  \/ PollMask
  \/ Receive

Spec == Init /\ [][Next]_vars

\* The main loop serves a request that waits, the client takes a reply that
\* waits, finishes a poll it began and begins one when it was notified.
Fairness ==
  /\ WF_vars(Handle)
  /\ WF_vars(Receive)
  /\ WF_vars(\E s \in Source : PollInfo(s))
  /\ WF_vars(notified /\ PollMask)

FairSpec == Spec /\ Fairness

-----------------------------------------------------------------------------
(* Properties.                                                             *)

\* Types; a call, a poll or a notification is under way only while a client is
\* connected, at most one call is, and a mask is fetched between two polls.
TypeOK ==
  /\ irq_status \subseteq Source
  /\ events \in [Source -> Nat]
  /\ popped \in Nat
  /\ fails \in Nat
  /\ conn \in BOOLEAN
  /\ notified \in BOOLEAN
  /\ request \in Request \cup {None}
  /\ reply \in Reply \cup {None}
  /\ todo \subseteq Source
  /\ seen \in [Level -> Int]
  /\ lost \subseteq Level
  /\ queries \in Nat
  /\ request # None \/ reply # None \/ todo # {} \/ notified => conn
  /\ request = None \/ reply = None
  /\ request.op = "irq_get_mask" \/ reply.op = "irq_get_mask" => todo = {}

\* No change of a source goes unrecorded: whenever the client has not been told
\* the current version of a source, its bit is set or the reply that tells is
\* under way, unless that version was read and then lost, because the read
\* failed or the connection broke before the reply arrived.  This is about
\* irq_event_cb setting and irq_data_update_from_source clearing bits of one
\* word while a poll is half done.
NoChangeForgotten ==
  \A s \in Level :
    seen[s] # events[s] => s \in irq_status \/ Telling(s) \/ s \in lost

\* While a key event waits in the handset queue the handset's bit is set: the
\* bit is only cleared by the read that finds the queue empty (-ENODATA), never
\* by the read of the last key or by a failing one.
KeyWaitingIsFlagged ==
  popped < events[HANDSET] => HANDSET \in irq_status

\* What a reply under way says of a state source: an error, the zeroed state, or
\* a version the client has not gone past; and if it is neither an error nor the
\* current version, the source is flagged again or known to be lost.  This makes
\* NoChangeForgotten inductive: receiving an outdated reply forgets nothing.
ReplySound ==
  /\ \A s \in Level : seen[s] <= events[s]
  /\ reply.op = "irq_get_info" /\ reply.src \in Level =>
       /\ \/ reply.info = Error
          \/ reply.info = Zeroed /\ reply.src \in ZeroState
          \/ seen[reply.src] <= reply.info /\ reply.info <= events[reply.src]
       /\ reply.info \notin {Error, events[reply.src]} => reply.src \in irq_status \cup lost

\* s will still be asked for in the poll under way.
InPoll(s) ==
  \/ s \in todo
  \/ request.op \in {"irq_enable", "irq_get_mask"}
  \/ request.op = "irq_get_info" /\ request.src = s
  \/ reply.op = "irq_get_mask" /\ s \in reply.mask

\* No lost wakeup: while a client is connected, every bit it can see is either
\* announced by an irq_event it has not acted upon or part of the poll under
\* way.  irq_event_cb suppresses the notification of a source that is the only
\* one flagged, so this says the suppressed notification is never needed.
NoLostWakeup ==
  conn => \A s \in VisibleMask : notified \/ InPoll(s)

\* The inductive invariant.
IInv == TypeOK /\ ReplySound /\ NoChangeForgotten /\ KeyWaitingIsFlagged /\ NoLostWakeup

\* Once the client stays connected it ends up with the current version of every
\* source (sources of which the version was read and lost excepted).
CatchesUp ==
  <>[]conn => <>[](\A s \in Level : seen[s] = events[s] \/ s \in lost)

\* Once the client stays connected the handset queue is drained: reading a key
\* re-announces the handset until the read that finds the queue empty.
KeysDrained ==
  <>[]conn => <>[](popped = events[HANDSET])

\* Re-announcing ends: without further events a connected client reaches a state
\* where it has nothing to poll for.
GoesQuiet ==
  <>[]conn => <>[](~notified /\ VisibleMask = {})

Relay == INSTANCE StateRelay
           WITH level <- [s \in Level |-> events[s]], Misleading <- ZeroState

\* The client's view of a source only ever moves forward through the versions
\* the source really had, coalescing them but never going back, however polls,
\* callbacks and reconnections interleave: the channel implements StateRelay.
RelaysInOrder == Relay!Spec

\* The note in rcrpc-client.h on remote_irq_get_mask(): a set bit means that a
\* request is pending for the interrupt.  Stated for the handset: its bit is in
\* the mask told to the client only while a key event waits.
MaskMeansPending ==
  (request.op = "irq_get_mask" /\ HANDSET \in VisibleMask) => popped < events[HANDSET]
=============================================================================
