----------------------------- MODULE RpcSource -----------------------------
(***************************************************************************)
(* The GLib source that runs the RPC server inside the main loop of the    *)
(* remote-control daemon (src/rcrpc/rcrpc.c).                              *)
(*                                                                         *)
(* One thread runs prepare, poll, check and dispatch in turn.  The source  *)
(* watches the listening socket and, while a client is served, that        *)
(* client's socket.  The sockets block: rpc_server_accept() waits until a  *)
(* connection is queued and rpc_server_recv() until the client says        *)
(* something, and the whole daemon waits with them.  The peers connect,    *)
(* send requests and leave at any moment between two steps of the loop.    *)
(***************************************************************************)
EXTENDS Naturals, Sequences

CONSTANTS
  Conn,        \* connections, numbered in the order in which they are made
  NoConn,      \* no connection
  MaxBacklog,  \* length of the listen queue
  Faulty       \* whether a system call may fail without the peer's doing

ASSUME ConnAssumption ==
  /\ Conn \subseteq Nat
  /\ NoConn \notin Conn
  /\ MaxBacklog \in Nat \ {0}
  /\ Faulty \in BOOLEAN

VARIABLES
  state,      \* enum remote_control_state of the source
  phase,      \* where the main loop is with the source
  polled,     \* poll_client is in the poll set of the source
  fd,         \* the connection poll_client.fd refers to
  revListen,  \* poll_listen.revents
  revClient,  \* poll_client.revents
  inhand,     \* the request rpc_source_dispatch has received
  served,     \* the client socket of the RPC server
  backlog,    \* connections queued on the listening socket
  used,       \* connections that have been made
  peer,       \* peer[c]: what the other end of c has done
  unread,     \* unread[c]: the request waiting to be read from c
  calling,    \* calling[c]: the peer waits for a reply
  fault       \* whether the source failed without the peer's doing (history)

loop == <<state, phase, polled, fd, revListen, revClient, inhand, fault>>
net == <<served, backlog, used, peer, unread, calling>>
vars == <<state, phase, polled, fd, revListen, revClient, inhand,
          served, backlog, used, peer, unread, calling, fault>>

State == {"UNCONNECTED", "CONNECTED", "IDLE", "DISCONNECTED"}
Running == {"prepare", "poll", "check", "dispatch", "accept", "recv", "serve"}
Phase == Running \cup {"destroyed", "aborted"}
Condition == {"IN", "HUP", "ERR"}
RequestKind == {"known", "unknown"}  \* is its opcode implemented by the server?

Init ==
  /\ state = "UNCONNECTED"
  /\ phase = "prepare"
  /\ polled = FALSE
  /\ fd = NoConn
  /\ revListen = {}
  /\ revClient = {}
  /\ inhand = "none"
  /\ served = NoConn
  /\ backlog = <<>>
  /\ used = {}
  /\ peer = [c \in Conn |-> "up"]
  /\ unread = [c \in Conn |-> "none"]
  /\ calling = [c \in Conn |-> FALSE]
  /\ fault = FALSE

-----------------------------------------------------------------------------
(* The peers.                                                              *)

Connect(c) ==
  /\ phase \in Running
  /\ c \notin used
  /\ \A d \in Conn \ used : c <= d
  /\ Len(backlog) < MaxBacklog
  /\ used' = used \cup {c}
  /\ backlog' = Append(backlog, c)
  /\ UNCHANGED <<loop, served, peer, unread, calling>>

\* The stubs of a client wait for the reply before they send another request.
Send(c, kind) ==
  /\ c \in used
  /\ peer[c] = "up"
  /\ ~calling[c]
  /\ unread' = [unread EXCEPT ![c] = kind]
  /\ calling' = [calling EXCEPT ![c] = TRUE]
  /\ UNCHANGED <<loop, served, backlog, used, peer>>

\* The peer closes its end, its end resets the connection, or it is no longer
\* reachable and keepalive or retransmission gives up.
Leave(c, how) ==
  /\ c \in used
  /\ peer[c] \in {"up", "fin"}
  /\ peer[c] # how
  /\ peer' = [peer EXCEPT ![c] = how]
  /\ UNCHANGED <<loop, served, backlog, used, unread, calling>>

Departure == {"fin", "rst", "timeout"}

-----------------------------------------------------------------------------
(* The source.                                                             *)

\* rpc_source_prepare: follow the state with the poll set.  Adding a descriptor
\* resets its revents, removing one does not.
PrepareConnected ==
  /\ state = "CONNECTED"
  /\ polled' = TRUE
  /\ fd' = served
  /\ revClient' = {}
  /\ state' = "IDLE"

\* Mutant: the descriptor of the client that left stays in the poll set.
PrepareDisconnectedKeepPoll ==
  /\ state = "DISCONNECTED"
  /\ state' = "UNCONNECTED"
  /\ UNCHANGED <<polled, fd, revClient>>

PrepareDisconnected ==
  /\ state = "DISCONNECTED"
  /\ polled' = FALSE
  /\ fd' = NoConn
  /\ state' = "UNCONNECTED"
  /\ UNCHANGED revClient

\* A client without a descriptor is logged with G_LOG_LEVEL_ERROR, which aborts
\* the process.
PrepareFails ==
  /\ Faulty
  /\ phase = "prepare"
  /\ state = "CONNECTED"
  /\ phase' = "aborted"
  /\ fault' = TRUE
  /\ UNCHANGED <<state, polled, fd, revListen, revClient, inhand, net>>

Prepare ==
  /\ phase = "prepare"
  /\ phase' = "poll"
  /\ \/ PrepareConnected
     \/ PrepareDisconnected
     \/ /\ state \in {"UNCONNECTED", "IDLE"}
        /\ UNCHANGED <<state, polled, fd, revClient>>
  /\ UNCHANGED <<revListen, inhand, net, fault>>

\* What poll() reports for the client socket: the end of the stream is readable,
\* an error is readable and hangs up as well.
Ready(c) ==
  CASE peer[c] \in {"rst", "timeout"} -> {"IN", "HUP", "ERR"}
    [] peer[c] = "fin" -> {"IN"}
    [] peer[c] = "up" -> IF unread[c] # "none" THEN {"IN"} ELSE {}

\* The main loop wakes up, for this source or for another one.  Descriptors that
\* are not in the poll set keep their old revents.
Poll ==
  /\ phase = "poll"
  /\ phase' = "check"
  /\ revListen' = IF backlog # <<>> THEN {"IN"} ELSE {}
  /\ revClient' = IF polled THEN Ready(fd) ELSE revClient
  /\ UNCHANGED <<state, polled, fd, inhand, net, fault>>

\* Mutant: every wake-up dispatches the source.
CheckAlways ==
  /\ phase = "check"
  /\ phase' = "dispatch"
  /\ state' = IF "IN" \notin revListen /\ revClient \cap {"HUP", "ERR"} # {}
                THEN "DISCONNECTED" ELSE state
  /\ UNCHANGED <<polled, fd, revListen, revClient, inhand, net, fault>>

\* Mutant: readiness of the client socket is not looked at.
CheckHangupOnly ==
  /\ phase = "check"
  /\ IF "IN" \in revListen
       THEN phase' = "dispatch" /\ UNCHANGED state
     ELSE IF revClient \cap {"HUP", "ERR"} # {}
       THEN phase' = "dispatch" /\ state' = "DISCONNECTED"
     ELSE phase' = "prepare" /\ UNCHANGED state
  /\ UNCHANGED <<polled, fd, revListen, revClient, inhand, net, fault>>

\* rpc_source_check: the listening socket goes first, then a hang-up, then data.
Check ==
  /\ phase = "check"
  /\ IF revListen \cap {"HUP", "ERR"} # {}
       THEN phase' = "prepare" /\ UNCHANGED state
     ELSE IF "IN" \in revListen
       THEN phase' = "dispatch" /\ UNCHANGED state
     ELSE IF revClient \cap {"HUP", "ERR"} # {}
       THEN phase' = "dispatch" /\ state' = "DISCONNECTED"
     ELSE /\ phase' = IF "IN" \in revClient THEN "dispatch" ELSE "prepare"
          /\ UNCHANGED state
  /\ UNCHANGED <<polled, fd, revListen, revClient, inhand, net, fault>>

\* Mutant: a client that queues up while another one is served is accepted.
DispatchAcceptFirst ==
  /\ phase = "dispatch"
  /\ phase' = CASE state = "UNCONNECTED" -> "accept"
                [] state = "IDLE" -> IF "IN" \in revListen THEN "accept" ELSE "recv"
                [] OTHER -> "prepare"
  /\ UNCHANGED <<state, polled, fd, revListen, revClient, inhand, net, fault>>

\* rpc_source_dispatch goes by the state alone, not by what woke the source.
Dispatch ==
  /\ phase = "dispatch"
  /\ phase' = CASE state = "UNCONNECTED" -> "accept"
                [] state = "IDLE" -> "recv"
                [] OTHER -> "prepare"
  /\ UNCHANGED <<state, polled, fd, revListen, revClient, inhand, net, fault>>

\* rpc_server_accept, once a connection is queued
Accept ==
  /\ phase = "accept"
  /\ backlog # <<>>
  /\ served' = Head(backlog)
  /\ backlog' = Tail(backlog)
  /\ state' = "CONNECTED"
  /\ phase' = "prepare"
  /\ UNCHANGED <<polled, fd, revListen, revClient, inhand, used, peer, unread, calling, fault>>

\* A failing accept is logged in the same way.
AcceptFails ==
  /\ Faulty
  /\ phase = "accept"
  /\ phase' = "aborted"
  /\ fault' = TRUE
  /\ UNCHANGED <<state, polled, fd, revListen, revClient, inhand, net>>

\* rpc_server_recv(c) would return.
Readable(c) == unread[c] # "none" \/ peer[c] # "up"

\* rpc_server_recv returns a request; what was sent before a reset may be lost.
ReceiveRequest ==
  /\ phase = "recv"
  /\ unread[served] # "none"
  /\ inhand' = unread[served]
  /\ unread' = [unread EXCEPT ![served] = "none"]
  /\ phase' = "serve"
  /\ UNCHANGED <<state, polled, fd, revListen, revClient, served, backlog, used, peer, calling, fault>>

\* rpc_server_recv returns 0 or -ECONNRESET: the client is gone.
ReceiveEnd ==
  /\ phase = "recv"
  /\ \/ peer[served] = "fin" /\ unread[served] = "none"
     \/ peer[served] = "rst"
  /\ state' = "DISCONNECTED"
  /\ phase' = "prepare"
  /\ UNCHANGED <<polled, fd, revListen, revClient, inhand, net, fault>>

\* Any other error returns FALSE: the source is destroyed and rpc_source_finalize
\* frees the server.  The peer causes -ETIMEDOUT, a signal or a lack of memory can
\* cause others at any time.
ReceiveError ==
  /\ phase = "recv"
  /\ Faulty \/ peer[served] = "timeout"
  /\ phase' = "destroyed"
  /\ fault' = (fault \/ peer[served] # "timeout")
  /\ UNCHANGED <<state, polled, fd, revListen, revClient, inhand, net>>

\* rpc_dispatch of a request that is implemented: the handler runs and replies.  A
\* reply to a peer that has left may still go out.
ServeKnown ==
  /\ phase = "serve"
  /\ inhand = "known"
  /\ inhand' = "none"
  /\ phase' = "prepare"
  /\ calling' = [calling EXCEPT ![served] = FALSE]
  /\ UNCHANGED <<state, polled, fd, revListen, revClient, served, backlog, used, peer, unread, fault>>

\* rpc_dispatch fails: a request that cannot be decoded or a reply that cannot be
\* sent destroys the source, whoever's doing it was.
ServeFails ==
  /\ phase = "serve"
  /\ inhand = "known"
  /\ Faulty \/ peer[served] \in {"rst", "timeout"}
  /\ inhand' = "none"
  /\ phase' = "destroyed"
  /\ fault' = (fault \/ peer[served] \notin {"rst", "timeout"})
  /\ UNCHANGED <<state, polled, fd, revListen, revClient, net>>

\* Mutant: the request that is not implemented is not freed.
ServeUnknownLeak ==
  /\ phase = "serve"
  /\ inhand = "unknown"
  /\ phase' = "prepare"
  /\ UNCHANGED <<state, polled, fd, revListen, revClient, inhand, net, fault>>

\* Mutant: -ENOSYS is treated like any other error.
ServeUnknownFatal ==
  /\ phase = "serve"
  /\ inhand = "unknown"
  /\ inhand' = "none"
  /\ phase' = "destroyed"
  /\ UNCHANGED <<state, polled, fd, revListen, revClient, net, fault>>

\* rpc_dispatch fails with -ENOSYS: logged, and the client never gets a reply.
ServeUnknown ==
  /\ phase = "serve"
  /\ inhand = "unknown"
  /\ inhand' = "none"
  /\ phase' = "prepare"
  /\ UNCHANGED <<state, polled, fd, revListen, revClient, net, fault>>

Next ==
  \/ \E c \in Conn :
       \/ Connect(c)
       \/ \E kind \in RequestKind : Send(c, kind)
       \/ \E how \in Departure : Leave(c, how)
  \/ Prepare
  \/ PrepareFails
  \/ Poll
  \/ Check
  \/ Dispatch
  \/ Accept
  \/ AcceptFails
  \/ ReceiveRequest
  \/ ReceiveEnd
  \/ ReceiveError
  \/ ServeKnown
  \/ ServeFails
  \/ ServeUnknown

Spec == Init /\ [][Next]_vars

\* poll() returns when a descriptor of the source is ready.
Awake == backlog # <<>> \/ (polled /\ Ready(fd) # {})

\* The main loop keeps running; system calls that can return do, with or without
\* success, and nothing makes one fail that could go on waiting.
Fairness ==
  /\ WF_vars(Prepare \/ PrepareFails)
  /\ WF_vars(Awake /\ Poll)
  /\ WF_vars(Check)
  /\ WF_vars(Dispatch)
  /\ WF_vars(Accept)
  /\ WF_vars(ReceiveRequest \/ ReceiveEnd \/ (ReceiveError /\ Readable(served)))
  /\ WF_vars(ServeKnown \/ ServeFails \/ ServeUnknown)

FairSpec == Spec /\ Fairness

-----------------------------------------------------------------------------
(* Properties.                                                             *)

\* Types; the loop holds a request exactly while it serves one.
TypeOK ==
  /\ state \in State
  /\ phase \in Phase
  /\ polled \in BOOLEAN
  /\ fd \in Conn \cup {NoConn}
  /\ revListen \subseteq Condition
  /\ revClient \subseteq Condition
  /\ inhand \in RequestKind \cup {"none"}
  /\ served \in Conn \cup {NoConn}
  /\ backlog \in Seq(Conn)
  /\ used \subseteq Conn
  /\ peer \in [Conn -> Departure \cup {"up"}]
  /\ unread \in [Conn -> RequestKind \cup {"none"}]
  /\ calling \in [Conn -> BOOLEAN]
  /\ fault \in BOOLEAN
  /\ inhand # "none" <=> phase = "serve"

\* The poll set follows the server: while the source is IDLE it watches the
\* socket of the client being served and no other; before a client is accepted
\* and after one has left it watches none, however stale conditions move the
\* state (a stale hang-up takes UNCONNECTED to DISCONNECTED in check).
WatchesServedClient ==
  /\ state = "IDLE" => polled /\ fd = served /\ served # NoConn
  /\ state \in {"UNCONNECTED", "CONNECTED"} => ~polled

\* The loop blocks in rpc_server_recv only while another connection is queued,
\* and in rpc_server_accept only because of stale conditions of the last client:
\* check is called on every wake-up of the daemon and nothing else makes it
\* dispatch a source with nothing to do.
BlocksOnlyByMixup ==
  /\ phase = "recv" /\ ~Readable(served) => backlog # <<>>
  /\ phase = "accept" /\ backlog = <<>> => ~polled /\ revClient # {}

\* The step of the loop the states belong to.
StateOfPhase ==
  /\ phase \in {"poll", "check"} => state \in {"UNCONNECTED", "IDLE"}
  /\ phase = "dispatch" => state \in {"UNCONNECTED", "IDLE", "DISCONNECTED"}
  /\ phase = "accept" => state = "UNCONNECTED"
  /\ phase \in {"recv", "serve"} => state = "IDLE"

\* The client's descriptor is polled only for the client being served, which has
\* left if the server is about to give it up or already has.
PolledIsServed ==
  /\ state = "CONNECTED" => served # NoConn
  /\ polled => fd = served /\ served # NoConn /\ state \in {"IDLE", "DISCONNECTED"}
  /\ state \in {"UNCONNECTED", "DISCONNECTED"} => served = NoConn \/ peer[served] # "up"
  /\ polled /\ revClient \cap {"HUP", "ERR"} # {} => peer[served] # "up"

\* Every condition found by poll() still has its cause when it is acted upon.
WakeupHasCause ==
  /\ revListen \subseteq {"IN"}
  /\ phase \in {"check", "dispatch"} /\ "IN" \in revListen => backlog # <<>>
  /\ phase = "check" /\ polled /\ "IN" \in revClient => Readable(served)
  /\ phase \in {"dispatch", "recv"} /\ state = "IDLE" => backlog # <<>> \/ Readable(served)
  /\ phase \in {"dispatch", "accept"} /\ state = "UNCONNECTED" => backlog # <<>> \/ revClient # {}

\* The inductive invariant.
IInv ==
  TypeOK /\ WatchesServedClient /\ StateOfPhase /\ PolledIsServed /\ WakeupHasCause

\* The server never hangs up on a client: the socket it serves is given up, or
\* dropped from the poll set, only after the peer has left.  The first half is
\* also part of ServesInTurn.
NeverHangsUp ==
  [][served # NoConn /\ (served' # served \/ (polled /\ ~polled'))
       => peer[served] # "up"]_vars

Dead == phase \in {"destroyed", "aborted"}

\* The source is gone for a reason: a call failed of itself, or the client being
\* served was reset or became unreachable.  The end of a client's stream, a request
\* that is not implemented or a client that waits in the queue are none.
BroughtDown == Dead /\ (fault \/ peer[served] \in {"rst", "timeout"})

\* A request of the client being served is answered, whatever else is queued.
CallAnswered ==
  \A c \in Conn : served = c /\ unread[c] = "known"
                    ~> ~calling[c] \/ peer[c] # "up" \/ BroughtDown

\* Once the client being served has left, the connection queued first is
\* accepted: stale conditions and blocking calls only delay it, and neither the way
\* an orderly client left nor what it asked for before has ended the service.
NextClientServed ==
  \A c \in Conn :
    /\ backlog # <<>> /\ c = Head(backlog)
    /\ served = NoConn \/ peer[served] # "up"
    ~> served = c \/ BroughtDown

Serial == INSTANCE SerialServer
            WITH known <- used, waiting <- backlog, serving <- served,
                 gone <- {c \in Conn : peer[c] # "up"},
                 asking <- {c \in Conn : calling[c]}

\* Whatever conditions are stale and whatever the loop blocks on, the daemon
\* serves one client after the other in the order of their connections, gives
\* none up before it has left and answers none but the one it serves: the source
\* implements SerialServer.
ServesInTurn == Serial!Spec
=============================================================================
