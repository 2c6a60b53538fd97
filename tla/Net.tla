-------------------------------- MODULE Net --------------------------------
(***************************************************************************)
(* The UDP channels behind the net_* functions (src/rcrpc/net.c): one      *)
(* broadcast channel for synchronous reads and writes and one peer channel *)
(* that net_config destroys and creates again.                             *)
(*                                                                         *)
(* A synchronous call keeps the main loop busy: while it sleeps nothing    *)
(* else of the daemon runs, but datagrams keep arriving and time passes.   *)
(* Time is in milliseconds and counted from the start of the call.         *)
(***************************************************************************)
EXTENDS Integers

CONSTANTS
  Ref,        \* references net_udp_create_channel may return
  Timeouts,   \* timeouts a client may configure
  MaxOverrun, \* how much longer than asked a sleep, with the look before it, or a select may last
  MaxQueue    \* bound on the datagrams waiting on the synchronous channel

Period == 5   \* usleep(5000)

ASSUME NetAssumption ==
  /\ Ref \subseteq Nat \ {0}
  /\ Timeouts \subseteq Nat
  /\ MaxOverrun \in Nat
  /\ MaxQueue \in Nat

VARIABLES
  channels,           \* channels that exist in the net_udp object
  async_p2p,          \* struct net_data; 0 is no channel
  sync_broadcast,
  sync_timeout_msec,
  net_data,           \* whether struct net_data is allocated
  pc,                 \* the call under way
  timeout,            \* local variable of net_read
  clock,              \* time since the call began
  slept,              \* the part of it spent in the present usleep
  queue,              \* datagrams waiting on sync_broadcast
  arrival,            \* when the first of them arrived, in the call under way
  result              \* what the last call returned

call == <<pc, timeout, clock, slept, result>>
data == <<async_p2p, sync_broadcast, sync_timeout_msec, net_data>>
vars == <<channels, async_p2p, sync_broadcast, sync_timeout_msec, net_data,
          pc, timeout, clock, slept, queue, arrival, result>>

Results == {"none", "ok", "again", "error", "ETIMEDOUT"}

Init ==
  /\ channels = {}
  /\ async_p2p = 0
  /\ sync_broadcast = 0
  /\ sync_timeout_msec = 0
  /\ net_data = "NULL"
  /\ pc = "idle"
  /\ timeout = 0
  /\ clock = 0
  /\ slept = 0
  /\ queue = 0
  /\ arrival = -1
  /\ result = "none"

-----------------------------------------------------------------------------
(* Channels.                                                               *)

\* The channels net_data refers to; 0 is not a channel.
Owned == IF net_data # "NULL" THEN {async_p2p, sync_broadcast} \ {0} ELSE {}

\* net_udp_create_channel: an unused reference, or 0 for a failure.
Creatable(kept) == (Ref \ kept) \cup {0}

\* rpc_net_init destroys the channels of an earlier rpc_net_init and creates the
\* synchronous one.  A failure is not reported and leaves the reference 0.
NetInit(ref) ==
  /\ pc = "idle"
  /\ ref \in Creatable(channels \ Owned)
  /\ channels' = (channels \ Owned) \cup ({ref} \ {0})
  /\ net_data' = "allocated"
  /\ async_p2p' = 0
  /\ sync_broadcast' = ref
  /\ sync_timeout_msec' = 0
  /\ queue' = 0
  /\ arrival' = -1
  /\ result' = "none"
  /\ UNCHANGED <<pc, timeout, clock, slept>>

\* rpc_net_cleanup
NetCleanup ==
  /\ pc = "idle"
  /\ net_data # "NULL"
  /\ channels' = channels \ {async_p2p, sync_broadcast}
  /\ net_data' = "NULL"
  /\ queue' = 0
  /\ UNCHANGED <<async_p2p, sync_broadcast, sync_timeout_msec, call, arrival>>

\* timeout & 0xFFFF, stored in a uint16_t
Wrap == 65536
UInt16 == 0..Wrap - 1
ToUInt16(msec) == msec % Wrap

\* Mutant: the reference to the destroyed channel is not reset.
NetConfigDangling(ref, msec) ==
  /\ pc = "idle"
  /\ net_data # "NULL"
  /\ LET kept == channels \ ({async_p2p} \ {0}) IN
       /\ ref \in Creatable(kept)
       /\ channels' = kept \cup ({ref} \ {0})
  /\ async_p2p' = IF ref = 0 THEN async_p2p ELSE ref
  /\ sync_timeout_msec' = ToUInt16(msec)
  /\ result' = IF ref = 0 THEN "error" ELSE "ok"
  /\ UNCHANGED <<sync_broadcast, net_data, pc, timeout, clock, slept, queue, arrival>>

\* net_config: the old channel is gone before the new one is known to exist, and
\* the timeout of the synchronous channel is set even if the call fails.
NetConfig(ref, msec) ==
  /\ pc = "idle"
  /\ net_data # "NULL"
  /\ LET kept == channels \ ({async_p2p} \ {0}) IN
       /\ ref \in Creatable(kept)
       /\ channels' = kept \cup ({ref} \ {0})
  /\ async_p2p' = ref
  /\ sync_timeout_msec' = ToUInt16(msec)
  /\ result' = IF ref = 0 THEN "error" ELSE "ok"
  /\ UNCHANGED <<sync_broadcast, net_data, pc, timeout, clock, slept, queue, arrival>>

-----------------------------------------------------------------------------
(* Reading and writing.                                                    *)

\* A datagram reaches the synchronous channel.
Arrive ==
  /\ sync_broadcast \in channels
  /\ queue < MaxQueue
  /\ queue' = queue + 1
  /\ arrival' = IF pc # "idle" /\ arrival = -1 THEN clock ELSE arrival
  /\ UNCHANGED <<channels, data, call>>

\* A call that does not wait: modes UDP_NONBLOCK, HOSTNAME and HWADDR, an unknown
\* mode, and any call on a channel that does not exist or that fails at once.
CallAtOnce(res) ==
  /\ pc = "idle"
  /\ res \in {"ok", "again", "error"}
  /\ result' = res
  /\ UNCHANGED <<channels, data, pc, timeout, clock, slept, queue, arrival>>

\* Mutant: whether the synchronous channel exists is not looked at.
BeginUnchecked(where) ==
  /\ pc = "idle"
  /\ net_data # "NULL"
  /\ pc' = where
  /\ timeout' = sync_timeout_msec
  /\ clock' = 0
  /\ arrival' = IF queue > 0 THEN 0 ELSE -1
  /\ result' = "none"
  /\ UNCHANGED <<channels, data, slept, queue>>

\* A synchronous call gets going.
Begin(where) ==
  /\ pc = "idle"
  /\ net_data # "NULL"
  /\ sync_broadcast # 0
  /\ pc' = where
  /\ timeout' = sync_timeout_msec
  /\ clock' = 0
  /\ arrival' = IF queue > 0 THEN 0 ELSE -1
  /\ result' = "none"
  /\ UNCHANGED <<channels, data, slept, queue>>

Return(res) == pc' = "idle" /\ result' = res

ReadBegin == Begin("poll")

\* net_udp_recv in the loop of a synchronous read
ReadPoll ==
  /\ pc = "poll"
  /\ IF queue > 0
       THEN queue' = queue - 1 /\ Return("ok")
       ELSE pc' = "sleep" /\ UNCHANGED <<queue, result>>
  /\ UNCHANGED <<channels, data, timeout, clock, slept, arrival>>

\* net_udp_recv fails
ReadError ==
  /\ pc = "poll"
  /\ Return("error")
  /\ UNCHANGED <<channels, data, timeout, clock, slept, queue, arrival>>

\* A millisecond in usleep(5000), which lasts that long at least.
ReadSleep ==
  /\ pc = "sleep"
  /\ slept < Period + MaxOverrun
  /\ clock' = clock + 1
  /\ slept' = slept + 1
  /\ UNCHANGED <<channels, data, pc, timeout, queue, arrival, result>>

\* Mutant: the loop gives up one round early.
ReadWakeTooEarly ==
  /\ pc = "sleep"
  /\ slept >= Period
  /\ slept' = 0
  /\ timeout' = timeout - Period
  /\ IF timeout' < Period THEN Return("ETIMEDOUT") ELSE pc' = "poll" /\ UNCHANGED result
  /\ UNCHANGED <<channels, data, clock, queue, arrival>>

\* Mutant: the remaining time is unsigned and never below zero; the clock begins anew.
ReadWakeUnsigned ==
  /\ pc = "sleep"
  /\ slept >= Period
  /\ slept' = 0
  /\ clock' = 0
  /\ pc' = "poll"
  /\ UNCHANGED <<channels, data, timeout, queue, arrival, result>>

\* usleep returns: the time asked for counts as passed, however long it took, and
\* once none remains the read gives up without another look.
ReadWake ==
  /\ pc = "sleep"
  /\ slept >= Period
  /\ slept' = 0
  /\ timeout' = timeout - Period
  /\ IF timeout' < 0 THEN Return("ETIMEDOUT") ELSE pc' = "poll" /\ UNCHANGED result
  /\ UNCHANGED <<channels, data, clock, queue, arrival>>

\* net_udp_send succeeded; what it sends is not looked at.
WriteBegin == Begin("select")

\* select() finds a datagram, whenever it came, and leaves it where it is.
WriteReady ==
  /\ pc = "select"
  /\ queue > 0
  /\ Return("ok")
  /\ UNCHANGED <<channels, data, timeout, clock, slept, queue, arrival>>

WriteWait ==
  /\ pc = "select"
  /\ queue = 0
  /\ clock < sync_timeout_msec + MaxOverrun
  /\ clock' = clock + 1
  /\ UNCHANGED <<channels, data, pc, timeout, slept, queue, arrival, result>>

WriteTimesOut ==
  /\ pc = "select"
  /\ queue = 0
  /\ clock >= sync_timeout_msec
  /\ Return("ETIMEDOUT")
  /\ UNCHANGED <<channels, data, timeout, clock, slept, queue, arrival>>

\* select() fails.
WriteError ==
  /\ pc = "select"
  /\ Return("error")
  /\ UNCHANGED <<channels, data, timeout, clock, slept, queue, arrival>>

Next ==
  \/ \E ref \in Ref \cup {0} : NetInit(ref) \/ \E msec \in Timeouts : NetConfig(ref, msec)
  \/ NetCleanup
  \/ Arrive
  \/ \E res \in Results : CallAtOnce(res)
  \/ ReadBegin
  \/ ReadPoll
  \/ ReadError
  \/ ReadSleep
  \/ ReadWake
  \/ WriteBegin
  \/ WriteReady
  \/ WriteWait
  \/ WriteTimesOut
  \/ WriteError

Spec == Init /\ [][Next]_vars

\* A call under way runs on, and time passes.
Fairness ==
  /\ WF_vars(ReadPoll) /\ WF_vars(ReadSleep) /\ WF_vars(ReadWake)
  /\ WF_vars(WriteReady) /\ WF_vars(WriteWait) /\ WF_vars(WriteTimesOut)

FairSpec == Spec /\ Fairness

-----------------------------------------------------------------------------
(* Properties.                                                             *)

\* Types; only a channel that exists is waited on.
TypeOK ==
  /\ channels \subseteq Ref
  /\ async_p2p \in Ref \cup {0}
  /\ sync_broadcast \in Ref \cup {0}
  /\ sync_timeout_msec \in UInt16
  /\ net_data \in {"NULL", "allocated"}
  /\ pc \in {"idle", "poll", "sleep", "select"}
  /\ timeout \in Int
  /\ clock \in Nat
  /\ slept \in Nat
  /\ queue \in Nat
  /\ arrival \in Nat \cup {-1}
  /\ result \in Results
  /\ pc # "idle" => net_data # "NULL" /\ sync_broadcast # 0 /\ result = "none"

\* No channel is leaked and no reference dangles: the channels that exist are the
\* ones net_data refers to, also after net_config destroyed the old channel and
\* failed to create the new one, and none is left after rpc_net_cleanup.
ChannelsOwned ==
  /\ channels = Owned
  /\ net_data # "NULL" /\ async_p2p # 0 => async_p2p # sync_broadcast

\* A synchronous call gives up no earlier than the configured timeout.  It may be
\* late, for the read loop counts its sleeps and not the time they took, but not by
\* more than what the rounds it needs for the timeout overran, all of them together.
RoundsFor(msec) == msec \div Period + 1

TimesOutInTime ==
  result = "ETIMEDOUT" =>
    /\ clock >= sync_timeout_msec
    /\ clock <= RoundsFor(sync_timeout_msec) * (Period + MaxOverrun)

\* How the remaining time of a read relates to the time passed: it went down by a
\* period for every round, and every round took its time.
Rounds == (sync_timeout_msec - timeout) \div Period

CallSound ==
  /\ pc \in {"poll", "sleep"} =>
       /\ timeout >= 0
       /\ sync_timeout_msec - timeout = Period * Rounds
       /\ clock >= Period * Rounds + slept
       /\ clock <= (Period + MaxOverrun) * Rounds + slept
  /\ slept <= Period + MaxOverrun
  /\ pc # "sleep" => slept = 0
  /\ pc = "select" => clock <= sync_timeout_msec + MaxOverrun

\* The inductive invariant.
IInv == TypeOK /\ ChannelsOwned /\ CallSound /\ TimesOutInTime

\* The main loop gets control back from every synchronous call.
CallEnds == pc # "idle" ~> pc = "idle"

\* net.c:178-180 says a synchronous read sleeps until either a packet has arrived or
\* time's up: it would not time out with a packet there since before the timeout.
SleepsUntilPacketOrTimesUp ==
  result = "ETIMEDOUT" /\ arrival # -1 => arrival >= sync_timeout_msec
=============================================================================
