------------------------------ MODULE RcServer ------------------------------
(***************************************************************************)
(* The life of the RPC server in the daemon: rcrpc_create() makes a server *)
(* and the source that runs it, and rpc_source_finalize() takes them down  *)
(* when GLib destroys the source (src/rcrpc/rcrpc.c).                      *)
(*                                                                         *)
(* The interrupt handlers and the UDP handlers keep their data in global   *)
(* variables, set up after the source is attached and freed before the     *)
(* server is (src/rcrpc/irq.c, src/rcrpc/net.c).  The event manager of the *)
(* daemon outlives both and is given the address of the interrupt data.    *)
(* What the source does while it is attached is the subject of RpcSource.  *)
(* A call of rcrpc_create() and what it makes go by the call's number.     *)
(***************************************************************************)
EXTENDS Naturals

CONSTANTS
  MaxCalls   \* bound on the calls of rcrpc_create

ASSUME RcServerAssumption == MaxCalls \in Nat

Call == 1..MaxCalls
Nothing == 0     \* a pointer that is NULL

VARIABLES
  calls,           \* calls of rcrpc_create so far
  server,          \* server[n]: the struct rpc_server made by call n
  source,          \* source[n]: the struct rpc_source made by call n
  irq_data,        \* irq_data[n]: the struct irq_data made by call n
  irq_event_data,  \* the call whose struct irq_data the interrupt handlers use
  net_data,        \* the call whose struct net_data the UDP handlers use
  callback,        \* the call whose struct irq_data the event manager holds
  unregistered,    \* calls whose callback the event manager did not take
  misused          \* an event made the callback use memory that was freed

globals == <<irq_event_data, net_data, callback, unregistered>>
vars == <<calls, server, source, irq_data, irq_event_data, net_data, callback,
          unregistered, misused>>

Init ==
  /\ calls = 0
  /\ server = [n \in Call |-> "none"]
  /\ source = [n \in Call |-> "none"]
  /\ irq_data = [n \in Call |-> "none"]
  /\ irq_event_data = Nothing
  /\ net_data = Nothing
  /\ callback = Nothing
  /\ unregistered = {}
  /\ misused = FALSE

-----------------------------------------------------------------------------
(* rcrpc_create.                                                           *)

Calling ==
  /\ calls < MaxCalls
  /\ calls' = calls + 1

\* A server listens on port 7482 already.
PortTaken == \E n \in Call : server[n] = "listening"

\* rpc_server_create fails.
CreateFails ==
  /\ Calling
  /\ UNCHANGED <<server, source, irq_data, globals, misused>>

\* rpc_server_listen fails, as it does if the port is taken: the server is left.
ListenFails ==
  /\ Calling
  /\ server' = [server EXCEPT ![calls'] = "made"]
  /\ UNCHANGED <<source, irq_data, globals, misused>>

\* The socket is not found, or SO_KEEPALIVE cannot be set on it: the server is
\* left listening, with a source that is not attached.
SocketFails ==
  /\ Calling
  /\ ~PortTaken
  /\ server' = [server EXCEPT ![calls'] = "listening"]
  /\ source' = [source EXCEPT ![calls'] = "made"]
  /\ UNCHANGED <<irq_data, globals, misused>>

\* Mutant: the callback is registered for the first server only.
RpcIrqInitOnce(n) ==
  /\ irq_data' = [irq_data EXCEPT ![n] = "live"]
  /\ irq_event_data' = n
  /\ \/ callback' = (IF callback = Nothing THEN n ELSE callback) /\ UNCHANGED unregistered
     \/ unregistered' = unregistered \cup {n} /\ UNCHANGED callback

\* rpc_irq_init: the global variable is set whatever it refers to.
RpcIrqInit(n) ==
  /\ irq_data' = [irq_data EXCEPT ![n] = "live"]
  /\ irq_event_data' = n
  /\ \/ callback' = n /\ UNCHANGED unregistered
     \/ unregistered' = unregistered \cup {n} /\ UNCHANGED callback

\* rpc_net_init: what is left of an earlier call is cleaned up first.
RpcNetInit(n) == net_data' = n

\* Mutant: the source is created although the port could not be had.
CreateUnchecked ==
  /\ Calling
  /\ server' = [server EXCEPT ![calls'] = "listening"]
  /\ source' = [source EXCEPT ![calls'] = "attached"]
  /\ RpcIrqInit(calls')
  /\ RpcNetInit(calls')
  /\ UNCHANGED misused

Create ==
  /\ Calling
  /\ ~PortTaken
  /\ server' = [server EXCEPT ![calls'] = "listening"]
  /\ source' = [source EXCEPT ![calls'] = "attached"]
  /\ RpcIrqInit(calls')
  /\ RpcNetInit(calls')
  /\ UNCHANGED misused

-----------------------------------------------------------------------------
(* The source is destroyed.                                                *)

\* Mutant: the global variable keeps the address of the data that was freed.
RpcIrqCleanupKeepPointer ==
  /\ irq_data' = [n \in Call |-> IF n = irq_event_data THEN "freed" ELSE irq_data[n]]
  /\ UNCHANGED irq_event_data

\* rpc_irq_cleanup frees the data the handlers use; the event manager keeps it.
RpcIrqCleanup ==
  /\ irq_data' = [n \in Call |-> IF n = irq_event_data THEN "freed" ELSE irq_data[n]]
  /\ irq_event_data' = Nothing

\* rpc_net_cleanup
RpcNetCleanup == net_data' = Nothing

\* rpc_source_finalize, when a dispatch returned FALSE or the daemon destroys
\* the source of which this one is a child.
Finalize(n) ==
  /\ source[n] = "attached"
  /\ source' = [source EXCEPT ![n] = "finalized"]
  /\ RpcIrqCleanup
  /\ RpcNetCleanup
  /\ server' = [server EXCEPT ![n] = "freed"]
  /\ UNCHANGED <<calls, callback, unregistered, misused>>

\* The event manager calls irq_event_cb.
Event ==
  /\ callback # Nothing
  /\ misused' = (irq_data[callback] = "freed")
  /\ UNCHANGED <<calls, server, source, irq_data, globals>>

\* What happens once freed memory was used is not known.
Next ==
  /\ ~misused
  /\ \/ CreateFails
     \/ ListenFails
     \/ SocketFails
     \/ Create
     \/ \E n \in Call : Finalize(n)
     \/ Event

Spec == Init /\ [][Next]_vars

-----------------------------------------------------------------------------
(* Properties.                                                             *)

\* Types; both global variables are set up and cleaned up together.
TypeOK ==
  /\ calls \in 0..MaxCalls
  /\ server \in [Call -> {"none", "made", "listening", "freed"}]
  /\ source \in [Call -> {"none", "made", "attached", "finalized"}]
  /\ irq_data \in [Call -> {"none", "live", "freed"}]
  /\ irq_event_data \in Call \cup {Nothing}
  /\ net_data \in Call \cup {Nothing}
  /\ callback \in Call \cup {Nothing}
  /\ unregistered \subseteq Call
  /\ misused \in BOOLEAN
  /\ irq_event_data = net_data

HoldsPort(n) == source[n] \in {"made", "attached"}

\* While a source is attached its handlers find the data of their own server,
\* alive, and no other data is left alive: although the globals are overwritten
\* and freed without a look at whose they are, one server cannot get at the data
\* of another, because a server that listens, attached or left behind by a call
\* that failed, keeps every other from being created.
HandlersHaveData ==
  /\ \A n \in Call : source[n] = "attached" =>
       irq_event_data = n /\ irq_data[n] = "live" /\ server[n] = "listening"
  /\ \A n \in Call : irq_data[n] = "live" => irq_event_data = n /\ source[n] = "attached"
  /\ \A m, n \in Call : HoldsPort(m) /\ HoldsPort(n) => m = n

\* The event manager makes the callback use freed data only while no server is
\* attached, after one was destroyed, or if it did not take the callback of the
\* server that is.
EventsFindData ==
  misused => \A n \in Call : source[n] = "attached" => n \in unregistered

\* What has not been called is not there, and what the event manager holds was
\* set up; a server listens exactly if it holds the port.
Strengthening ==
  /\ \A n \in Call : n > calls =>
       server[n] = "none" /\ source[n] = "none" /\ irq_data[n] = "none" /\ n \notin unregistered
  /\ \A n \in Call : server[n] = "listening" <=> HoldsPort(n)
  /\ irq_event_data # Nothing => source[irq_event_data] = "attached"
  /\ callback # Nothing => irq_data[callback] # "none"
  /\ \A n \in Call : source[n] = "attached" => callback = n \/ n \in unregistered

\* The inductive invariant.
IInv == TypeOK /\ HandlersHaveData /\ EventsFindData /\ Strengthening
=============================================================================
