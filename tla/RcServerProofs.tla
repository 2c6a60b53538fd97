--------------------------- MODULE RcServerProofs ---------------------------
(* Proofs about RcServer, for any number of calls of rcrpc_create.         *)
EXTENDS RcServer, TLAPS

\* The numbers of calls do not include the null pointer.
LEMMA Numbers == Call \subseteq Nat /\ Nothing \notin Call
  BY RcServerAssumption DEF Call, Nothing

\* The next call has a number of its own, at which nothing has been made yet.
LEMMA NewCall ==
  ASSUME IInv, Calling
  PROVE  /\ calls' = calls + 1 /\ calls' \in Call /\ calls' \in 0..MaxCalls
         /\ \A n \in Call : n > calls' => n > calls /\ n # calls'
         /\ server[calls'] = "none" /\ source[calls'] = "none" /\ irq_data[calls'] = "none"
         /\ calls' \notin unregistered
  BY RcServerAssumption DEF IInv, TypeOK, Strengthening, Calling, Call

\* The invariant holds before rcrpc_create was ever called.
LEMMA InitIInv == Init => IInv
  <1> SUFFICES ASSUME Init PROVE IInv
    OBVIOUS
  <1> USE Numbers DEF Init
  <1>1. TypeOK
    <2>1. calls \in 0..MaxCalls
      BY RcServerAssumption
    <2> QED BY <2>1 DEF TypeOK
  <1>2. HandlersHaveData
    BY DEF HandlersHaveData, HoldsPort
  <1>3. EventsFindData
    BY DEF EventsFindData
  <1>4. Strengthening
    BY DEF Strengthening, HoldsPort
  <1>5. QED
    BY <1>1, <1>2, <1>3, <1>4 DEF IInv

\* Every step preserves the invariant.
LEMMA NextIInv == IInv /\ [Next]_vars => IInv'
  <1> SUFFICES ASSUME IInv, [Next]_vars PROVE IInv'
    OBVIOUS
  <1> USE Numbers DEF IInv, TypeOK, HandlersHaveData, EventsFindData, Strengthening, HoldsPort, globals
  <1>1. CASE CreateFails
    BY <1>1, NewCall DEF CreateFails
  <1>2. CASE ListenFails
    BY <1>2, NewCall DEF ListenFails
  <1>3. CASE SocketFails
    BY <1>3, NewCall DEF SocketFails, PortTaken
  <1>4. CASE ~misused /\ Create
    <2>0. calls' \in Call /\ calls' \in 0..MaxCalls /\ \A n \in Call : n > calls' => n > calls /\ n # calls'
      BY <1>4, NewCall DEF Create
    <2>1. irq_event_data' = calls' /\ net_data' = calls' /\ UNCHANGED misused
          /\ server' = [server EXCEPT ![calls'] = "listening"]
          /\ source' = [source EXCEPT ![calls'] = "attached"]
          /\ irq_data' = [irq_data EXCEPT ![calls'] = "live"]
      BY <1>4 DEF Create, RpcIrqInit, RpcNetInit
    <2>2. \A n \in Call : ~HoldsPort(n)
      BY <1>4 DEF Create, PortTaken
    <2>3. \/ callback' = calls' /\ unregistered' = unregistered
          \/ callback' = callback /\ unregistered' = unregistered \cup {calls'}
      BY <1>4 DEF Create, RpcIrqInit
    <2>4. TypeOK'
      <3>1. server' \in [Call -> {"none", "made", "listening", "freed"}]
        BY <2>0, <2>1
      <3>2. source' \in [Call -> {"none", "made", "attached", "finalized"}]
        BY <2>0, <2>1
      <3>3. irq_data' \in [Call -> {"none", "live", "freed"}]
        BY <2>0, <2>1
      <3>4. callback' \in Call \cup {Nothing}
        <4>1. callback \in Call \cup {Nothing}
          OBVIOUS
        <4>2. QED
          BY <2>0, <2>3, <4>1
      <3>5. unregistered' \subseteq Call
        <4>1. unregistered \subseteq Call /\ calls' \in Call
          BY <2>0
        <4>2. unregistered' \subseteq unregistered \cup {calls'}
          BY <2>3, Zenon
        <4>3. QED
          BY <4>1, <4>2, Zenon
      <3>6. QED
        BY <2>0, <2>1, <3>1, <3>2, <3>3, <3>4, <3>5
    <2>5. HandlersHaveData'
      BY <2>0, <2>1, <2>2
    <2>6. Strengthening'
      <3>1. \A n \in Call : n > calls' =>
              server'[n] = "none" /\ source'[n] = "none" /\ irq_data'[n] = "none" /\ n \notin unregistered'
        BY <2>0, <2>1, <2>3
      <3>2. \A n \in Call : server'[n] = "listening" <=> HoldsPort(n)'
        BY <2>0, <2>1, <2>2
      <3>3. irq_event_data' # Nothing => source'[irq_event_data'] = "attached"
        BY <2>0, <2>1
      <3>4. callback' # Nothing => irq_data'[callback'] # "none"
        BY <2>0, <2>1, <2>3
      <3>5. \A n \in Call : source'[n] = "attached" => callback' = n \/ n \in unregistered'
        BY <2>0, <2>1, <2>2, <2>3
      <3>6. QED
        BY <3>1, <3>2, <3>3, <3>4, <3>5
    <2>7. EventsFindData'
      BY <1>4, <2>1
    <2> QED BY <2>4, <2>5, <2>6, <2>7
  <1>5. ASSUME NEW n \in Call, ~misused, Finalize(n) PROVE IInv'
    BY <1>5 DEF Finalize, RpcIrqCleanup, RpcNetCleanup
  <1>6. CASE ~misused /\ Event
    <2>1. irq_data[callback] # "freed" \/ \A n \in Call : source[n] = "attached" => n \in unregistered
      OBVIOUS
    <2>2. misused' <=> irq_data[callback] = "freed"
      BY <1>6 DEF Event
    <2>3. misused' \in BOOLEAN
      BY <1>6, Zenon DEF Event
    <2>4. UNCHANGED <<calls, server, source, irq_data, globals>>
      BY <1>6 DEF Event
    <2>5. TypeOK'
      BY <2>3, <2>4
    <2>6. EventsFindData'
      BY <2>1, <2>2, <2>4
    <2>7. HandlersHaveData' /\ Strengthening'
      BY <2>4
    <2> QED BY <2>5, <2>6, <2>7
  <1>7. CASE UNCHANGED vars
    BY <1>7 DEF vars
  <1>8. QED
    BY <1>1, <1>2, <1>3, <1>4, <1>5, <1>6, <1>7 DEF Next

\* The invariant holds in every state.
LEMMA Invariant == Spec => []IInv
  BY InitIInv, NextIInv, PTL DEF Spec

\* Types, and the two global variables set up and cleaned up together.
THEOREM TypeCorrect == Spec => []TypeOK
  BY Invariant, PTL DEF IInv

\* An attached source finds its own data, alive, whatever calls of rcrpc_create
\* failed or were taken down before.
THEOREM HandlersHaveDataAlways == Spec => []HandlersHaveData
  BY Invariant, PTL DEF IInv

\* Freed interrupt data is only used once a server has gone, or if the event
\* manager did not take the new one's callback.
THEOREM EventsFindDataAlways == Spec => []EventsFindData
  BY Invariant, PTL DEF IInv
=============================================================================
