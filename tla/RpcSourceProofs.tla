-------------------------- MODULE RpcSourceProofs --------------------------
(***************************************************************************)
(* Proofs about RpcSource, for every set of connections and every length   *)
(* of the listen queue.                                                    *)
(***************************************************************************)
EXTENDS RpcSource, TLAPS

\* The source's own steps; the peers' steps leave the loop alone.
LEMMA InitIInv == Init => IInv
<1> SUFFICES ASSUME Init PROVE IInv
  OBVIOUS
<1>1. backlog \in Seq(Conn) /\ used \subseteq Conn /\ revListen \subseteq Condition /\ revClient \subseteq Condition
  BY DEF Init, Condition
<1>2. peer \in [Conn -> Departure \cup {"up"}] /\ unread \in [Conn -> RequestKind \cup {"none"}]
  BY DEF Init, Departure
<1>3. calling \in [Conn -> BOOLEAN] /\ fault \in BOOLEAN
  BY DEF Init
<1>4. TypeOK
  BY <1>1, <1>2, <1>3, Zenon DEF Init, TypeOK, State, Phase, Running, RequestKind
<1>5. WatchesServedClient /\ PolledIsServed
  BY DEF Init, WatchesServedClient, PolledIsServed
<1>6. StateOfPhase /\ WakeupHasCause
  BY DEF Init, StateOfPhase, WakeupHasCause
<1> QED BY <1>4, <1>5, <1>6 DEF IInv

\* Only the steps that fail mark the fault.
LEMMA FaultStep == TypeOK /\ [Next]_vars => fault' \in BOOLEAN
<1> SUFFICES ASSUME TypeOK, [Next]_vars PROVE fault' \in BOOLEAN
  OBVIOUS
<1>1. CASE AcceptFails \/ PrepareFails
  BY <1>1 DEF AcceptFails, PrepareFails
<1>2. CASE ReceiveError \/ ServeFails
  BY <1>2, Zenon DEF ReceiveError, ServeFails
<1>3. CASE UNCHANGED fault
  BY <1>3 DEF TypeOK
<1> QED
  BY <1>1, <1>2, <1>3 DEF Next, vars, loop, Connect, Send, Leave, Prepare, Poll, Check, Dispatch, Accept,
     ReceiveRequest, ReceiveEnd, ServeKnown, ServeUnknown

\* Every step preserves the types.
LEMMA TypeStep == IInv /\ [Next]_vars => TypeOK'
<1> SUFFICES ASSUME IInv, [Next]_vars PROVE TypeOK'
  OBVIOUS
<1>0. fault' \in BOOLEAN
  BY FaultStep DEF IInv
<1> USE <1>0
<1> USE DEF IInv, TypeOK, loop, net, State, Phase, Running, Condition, RequestKind, Departure
<1>1. ASSUME NEW c \in Conn, Connect(c) PROVE TypeOK'
  BY <1>1 DEF Connect
<1>2. ASSUME NEW c \in Conn, NEW kind \in RequestKind, Send(c, kind) PROVE TypeOK'
  BY <1>2 DEF Send
<1>3. ASSUME NEW c \in Conn, NEW how \in Departure, Leave(c, how) PROVE TypeOK'
  BY <1>3 DEF Leave
<1>4. CASE Prepare
  BY <1>4 DEF Prepare, PrepareConnected, PrepareDisconnected
<1>5. CASE Poll
  <2>1. polled => fd \in Conn
    BY DEF PolledIsServed
  <2>2. polled => Ready(fd) \subseteq Condition
    BY <2>1 DEF Ready
  <2> QED BY <1>5, <2>2 DEF Poll
<1>6. CASE Check
  BY <1>6 DEF Check
<1>7. CASE Dispatch
  BY <1>7 DEF Dispatch
<1>8. CASE Accept
  BY <1>8 DEF Accept
<1>9. CASE AcceptFails \/ PrepareFails
  BY <1>9 DEF AcceptFails, PrepareFails
<1>10. CASE ReceiveRequest
  <2>1. served \in Conn
    BY <1>10 DEF ReceiveRequest, StateOfPhase, WatchesServedClient
  <2> QED BY <1>10, <2>1 DEF ReceiveRequest
<1>11. CASE ReceiveEnd \/ ReceiveError
  BY <1>11 DEF ReceiveEnd, ReceiveError
<1>12. CASE ServeKnown \/ ServeFails \/ ServeUnknown
  BY <1>12 DEF ServeKnown, ServeFails, ServeUnknown
<1>13. CASE UNCHANGED vars
  BY <1>13 DEF vars
<1> QED
  BY <1>1, <1>2, <1>3, <1>4, <1>5, <1>6, <1>7, <1>8, <1>9, <1>10, <1>11, <1>12, <1>13
     DEF Next

\* Every step preserves the rest of the invariant.
LEMMA LoopStep ==
  IInv /\ [Next]_vars => WatchesServedClient' /\ StateOfPhase' /\ PolledIsServed' /\ WakeupHasCause'
<1> DEFINE Rest == WatchesServedClient /\ StateOfPhase /\ PolledIsServed /\ WakeupHasCause
<1> SUFFICES ASSUME IInv, [Next]_vars PROVE Rest'
  OBVIOUS
<1> USE DEF IInv, TypeOK, WatchesServedClient, StateOfPhase, PolledIsServed, WakeupHasCause,
            Readable, loop, net, State, Phase, Running, Condition
<1>1. ASSUME NEW c \in Conn, Connect(c) PROVE Rest'
  <2>1. backlog' # <<>>
    BY <1>1 DEF Connect
  <2> QED BY <1>1, <2>1 DEF Connect
<1>2. ASSUME NEW c \in Conn, NEW kind \in RequestKind, Send(c, kind) PROVE Rest'
  <2>1. kind # "none" /\ unread' = [unread EXCEPT ![c] = kind]
        /\ UNCHANGED <<loop, served, backlog, peer>>
    BY <1>2 DEF Send, RequestKind
  <2> QED BY <2>1
<1>3. ASSUME NEW c \in Conn, NEW how \in Departure, Leave(c, how) PROVE Rest'
  <2>1. how # "up" /\ peer' = [peer EXCEPT ![c] = how] /\ UNCHANGED <<loop, served, backlog, unread>>
    BY <1>3 DEF Leave, Departure
  <2> QED BY <2>1
<1>4. CASE Prepare
  <2>1. UNCHANGED <<revListen, served, backlog, peer, unread>> /\ phase' = "poll"
    BY <1>4 DEF Prepare
  <2>2. CASE PrepareConnected
    BY <2>1, <2>2 DEF PrepareConnected
  <2>3. CASE PrepareDisconnected
    BY <2>1, <2>3 DEF PrepareDisconnected
  <2>4. CASE state \in {"UNCONNECTED", "IDLE"} /\ UNCHANGED <<state, polled, fd, revClient>>
    BY <2>1, <2>4
  <2> QED BY <1>4, <2>2, <2>3, <2>4 DEF Prepare
<1>5. CASE Poll
  <2>1. polled /\ Ready(served) \cap {"HUP", "ERR"} # {} => peer[served] # "up"
    BY DEF Ready
  <2>2. polled /\ "IN" \in Ready(served) => Readable(served)
    BY DEF Ready
  <2> QED BY <1>5, <2>1, <2>2 DEF Poll
<1>6. CASE Check
  BY <1>6 DEF Check
<1>7. CASE Dispatch
  BY <1>7 DEF Dispatch
<1>8. CASE Accept
  <2>1. served' \in Conn /\ served' # NoConn
    BY <1>8, ConnAssumption DEF Accept
  <2> QED BY <1>8, <2>1 DEF Accept
<1>9. CASE AcceptFails \/ PrepareFails
  <2>1. phase' = "aborted" /\ UNCHANGED <<state, polled, fd, revListen, revClient, net>>
    BY <1>9, Zenon DEF AcceptFails, PrepareFails
  <2> QED BY <2>1
<1>10. CASE ReceiveRequest
  BY <1>10 DEF ReceiveRequest
<1>11. CASE ReceiveEnd
  BY <1>11 DEF ReceiveEnd
<1>14. CASE ReceiveError
  <2>1. phase' = "destroyed" /\ UNCHANGED <<state, polled, fd, revListen, revClient, net>>
    BY <1>14 DEF ReceiveError
  <2> QED BY <2>1
<1>12. CASE ServeKnown \/ ServeFails \/ ServeUnknown
  BY <1>12 DEF ServeKnown, ServeFails, ServeUnknown
<1>13. CASE UNCHANGED vars
  BY <1>13 DEF vars
<1> QED
  BY <1>1, <1>2, <1>3, <1>4, <1>5, <1>6, <1>7, <1>8, <1>9, <1>10, <1>11, <1>12, <1>13, <1>14
     DEF Next

LEMMA Inductive == Spec => []IInv
<1>1. IInv /\ [Next]_vars => IInv'
  BY TypeStep, LoopStep DEF IInv
<1> QED BY <1>1, InitIInv, PTL DEF Spec

\* Types, for every set of connections.
THEOREM TypeCorrect == Spec => []TypeOK
<1>1. IInv => TypeOK
  BY DEF IInv
<1> QED BY <1>1, Inductive, PTL

\* The poll set follows the client being served.
THEOREM WatchesServed == Spec => []WatchesServedClient
<1>1. IInv => WatchesServedClient
  BY DEF IInv
<1> QED BY <1>1, Inductive, PTL

\* The daemon blocks in the source only when another connection is queued (in
\* recv) or conditions of the last client are stale (in accept).
THEOREM BlocksOnly == Spec => []BlocksOnlyByMixup
<1>1. IInv => BlocksOnlyByMixup
  BY DEF IInv, BlocksOnlyByMixup, StateOfPhase, WatchesServedClient, WakeupHasCause
<1> QED BY <1>1, Inductive, PTL

\* The server gives up a client only after the client has left.
THEOREM HangsUpOnDeparted == Spec => NeverHangsUp
<1> DEFINE Kept == served # NoConn /\ (served' # served \/ (polled /\ ~polled')) => peer[served] # "up"
<1>1. IInv /\ [Next]_vars => Kept
  <2> SUFFICES ASSUME IInv, [Next]_vars, served # NoConn, served' # served \/ (polled /\ ~polled')
               PROVE  peer[served] # "up"
    OBVIOUS
  <2>1. CASE Prepare
    BY <2>1 DEF Prepare, PrepareConnected, PrepareDisconnected, IInv, PolledIsServed, net
  <2>2. CASE Accept
    BY <2>2 DEF Accept, IInv, StateOfPhase, PolledIsServed
  <2>3. CASE ~Prepare /\ ~Accept
    BY <2>3 DEF Next, vars, loop, net, Connect, Send, Leave, Poll, Check, Dispatch, PrepareFails, AcceptFails,
                ReceiveRequest, ReceiveEnd, ReceiveError, ServeKnown, ServeFails, ServeUnknown
  <2> QED BY <2>1, <2>2, <2>3
<1>2. IInv /\ [Next]_vars => [Kept]_vars
  BY <1>1
<1> QED BY <1>2, Inductive, PTL DEF Spec, NeverHangsUp

\* The initial states of the source are initial states of the serial server.
LEMMA SerialInit == Init => Serial!Init
  BY DEF Init, Serial!Init

\* Every step of the source is a step of the serial server or changes nothing
\* that the serial server has.
LEMMA SerialStep == IInv /\ [Next]_vars => [Serial!Next]_(Serial!vars)
<1> DEFINE gone == {c \in Conn : peer[c] # "up"}
           asking == {c \in Conn : calling[c]}
<1> SUFFICES ASSUME IInv, [Next]_vars PROVE [Serial!Next]_(Serial!vars)
  OBVIOUS
<1> USE DEF Serial!Next, Serial!vars, loop, net
<1>1. ASSUME NEW c \in Conn, Connect(c) PROVE Serial!Next
  BY <1>1 DEF Connect, Serial!Arrive
<1>2. ASSUME NEW c \in Conn, NEW kind \in RequestKind, Send(c, kind) PROVE Serial!Next
  <2>1. asking' = asking \cup {c} /\ c \notin gone /\ c \notin asking
    BY <1>2 DEF Send, IInv, TypeOK
  <2> QED BY <1>2, <2>1 DEF Send, Serial!Ask
<1>3. ASSUME NEW c \in Conn, NEW how \in Departure, Leave(c, how) PROVE Serial!Next
  <2>1. gone' = gone \cup {c}
    BY <1>3 DEF Leave, IInv, TypeOK, Departure
  <2> QED BY <1>3, <2>1 DEF Leave, Serial!Depart
<1>4. CASE Accept
  <2>1. served = NoConn \/ served \in gone
    BY <1>4 DEF Accept, IInv, TypeOK, StateOfPhase, PolledIsServed
  <2> QED BY <1>4, <2>1 DEF Accept, Serial!ServeNext
<1>5. CASE ServeKnown
  <2>1. served \in Conn
    BY <1>5 DEF ServeKnown, IInv, TypeOK, StateOfPhase, WatchesServedClient
  <2>2. asking' = asking \ {served}
    BY <1>5, <2>1 DEF ServeKnown, IInv, TypeOK
  <2>3. asking' = asking \/ (served \in asking /\ asking' = asking \ {served})
    BY <2>2
  <2> QED BY <1>5, <2>3 DEF ServeKnown, Serial!Answer
<1>6. CASE ReceiveRequest
  BY <1>6 DEF ReceiveRequest
<1>7. CASE Prepare \/ Poll \/ Check \/ Dispatch \/ ReceiveEnd \/ ServeUnknown
  BY <1>7 DEF Prepare, Poll, Check, Dispatch, ReceiveEnd, ServeUnknown
<1>8. CASE UNCHANGED vars
  BY <1>8 DEF vars
<1>9. CASE PrepareFails \/ AcceptFails \/ ReceiveError \/ ServeFails
  BY <1>9 DEF PrepareFails, AcceptFails, ReceiveError, ServeFails
<1> QED
  BY <1>1, <1>2, <1>3, <1>4, <1>5, <1>6, <1>7, <1>8, <1>9 DEF Next

\* One client is served after the other, in the order of their connections.
THEOREM ServesClientsInTurn == Spec => ServesInTurn
  BY SerialInit, SerialStep, Inductive, PTL DEF Spec, ServesInTurn, Serial!Spec
=============================================================================
