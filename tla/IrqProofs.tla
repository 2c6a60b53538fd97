----------------------------- MODULE IrqProofs -----------------------------
(***************************************************************************)
(* Proofs about Irq, for every set of sources and every bound: the types,  *)
(* that no change and no wakeup is lost, and that the channel implements   *)
(* StateRelay.                                                             *)
(***************************************************************************)
EXTENDS Irq, TLAPS

-----------------------------------------------------------------------------
(* Types.                                                                  *)

\* What is under way is a request (a reply) of the protocol or nothing.
LEMMA RequestType ==
  ASSUME NEW r \in Request \cup {None}
  PROVE  /\ r.op \in {"irq_enable", "irq_get_mask", "irq_get_info", "none"}
         /\ r.op = "irq_get_info" => r.src \in Source
         /\ r.op # "none" => r # None
BY DEF Request, None

LEMMA ReplyType ==
  ASSUME NEW r \in Reply \cup {None}
  PROVE  /\ r.op \in {"irq_enable", "irq_get_mask", "irq_get_info", "none"}
         /\ r.op = "irq_get_mask" => r.mask \in SUBSET Source
         /\ r.op = "irq_get_info" => r.src \in Source /\ r.info \in Int
         /\ r.op # "none" => r # None
BY DEF Reply, None

\* The requests and replies the actions build.
LEMMA Messages ==
  /\ [op |-> "irq_enable"] \in Request
  /\ [op |-> "irq_get_mask"] \in Request
  /\ \A s \in Source : [op |-> "irq_get_info", src |-> s] \in Request
  /\ [op |-> "irq_enable"] \in Reply
  /\ \A m \in SUBSET Source : [op |-> "irq_get_mask", mask |-> m] \in Reply
  /\ \A s \in Source, i \in Int : [op |-> "irq_get_info", src |-> s, info |-> i] \in Reply
  /\ [op |-> "irq_enable"] # None
  /\ [op |-> "irq_get_mask"] # None
  /\ \A s \in Source : [op |-> "irq_get_info", src |-> s] # None
BY DEF Request, Reply, None

\* An answer to a read is an integer.
LEMMA InfoType ==
  ASSUME TypeOK, NEW s \in Source, NEW out \in ReadOutcome(s)
  PROVE  Info(s, out) \in Int
BY DEF TypeOK, Info, ReadOutcome, Error, Zeroed

\* Initially nothing is under way.
LEMMA TypeInit == Init => TypeOK
<1> SUFFICES ASSUME Init PROVE TypeOK
  OBVIOUS
<1>1. events \in [Source -> Nat] /\ seen \in [Level -> Int]
  BY DEF Init
<1>2. popped \in Nat /\ fails \in Nat /\ queries \in Nat
  BY DEF Init
<1> QED
  BY <1>1, <1>2, Zenon DEF Init, TypeOK

\* Every step preserves the types.
LEMMA TypeStep == TypeOK /\ [Next]_vars => TypeOK'
<1> SUFFICES ASSUME TypeOK, [Next]_vars PROVE TypeOK'
  OBVIOUS
<1> USE DEF TypeOK, server, link, client
<1>1. ASSUME NEW s \in Source, Event(s) PROVE TypeOK'
  BY <1>1 DEF Event, IrqEventCb, SendIrqEvent
<1>2. ASSUME NEW s \in Source, PollInfo(s) PROVE TypeOK'
  BY <1>2, Messages DEF PollInfo, Ready
<1>3. ASSUME NEW s \in Source, Query(s) PROVE TypeOK'
  BY <1>3, Messages DEF Query, Ready
<1>4. CASE HandleEnable
  BY <1>4, Messages, RequestType DEF HandleEnable, SendIrqEvent, Answer
<1>5. CASE HandleGetMask
  <2>1. VisibleMask \in SUBSET Source
    BY DEF VisibleMask
  <2> QED BY <1>5, <2>1, Messages, RequestType DEF HandleGetMask, Answer
<1>6. ASSUME NEW out \in {"ok", "nodata", "fail"}, HandleGetInfo(out) PROVE TypeOK'
  <2> DEFINE s == request.src
  <2>1. s \in Source /\ request # None /\ out \in ReadOutcome(s)
    BY <1>6, RequestType DEF HandleGetInfo
  <2>2. [op |-> "irq_get_info", src |-> s, info |-> Info(s, out)] \in Reply
    BY <2>1, InfoType, Messages
  <2>3. StatusAfter(s, out) \subseteq Source
    BY DEF StatusAfter
  <2>4. conn
    BY <2>1
  <2>5. irq_status' \subseteq Source /\ popped' \in Nat /\ fails' \in Nat /\ lost' \subseteq Level
    BY <1>6, <2>3 DEF HandleGetInfo
  <2>6. request' = None /\ reply' \in Reply
    BY <1>6, <2>2 DEF HandleGetInfo, Answer
  <2>7. notified' \in BOOLEAN
    BY <1>6, Zenon DEF HandleGetInfo, SendIrqEvent
  <2>8. UNCHANGED <<events, conn, todo, seen, queries>>
    BY <1>6 DEF HandleGetInfo
  <2>9. reply'.op # "irq_get_mask" /\ request'.op # "irq_get_mask"
    BY <1>6 DEF HandleGetInfo, Answer, None
  <2> QED BY <2>4, <2>5, <2>6, <2>7, <2>8, <2>9
<1>7. CASE HandleGetInfoIo
  BY <1>7, Messages, RequestType DEF HandleGetInfoIo, Answer, Source
<1>8. CASE Connect
  BY <1>8, Messages DEF Connect
<1>9. CASE Disconnect
  BY <1>9 DEF Disconnect
<1>10. CASE PollMask
  BY <1>10, Messages DEF PollMask, Ready
<1>11. CASE ReceiveEnable
  BY <1>11 DEF ReceiveEnable
<1>12. CASE ReceiveMask
  BY <1>12, ReplyType DEF ReceiveMask
<1>13. CASE ReceiveInfo
  BY <1>13, ReplyType DEF ReceiveInfo
<1>14. CASE UNCHANGED vars
  BY <1>14 DEF vars
<1> QED
  BY <1>1, <1>2, <1>3, <1>4, <1>5, <1>6, <1>7, <1>8, <1>9, <1>10, <1>11, <1>12,
     <1>13, <1>14 DEF Next, Handle, Receive

\* Types, and one call at a time, for every instance.
THEOREM TypeCorrect == Spec => []TypeOK
BY TypeInit, TypeStep, PTL DEF Spec

-----------------------------------------------------------------------------
(* Nothing is lost.  One lemma per conjunct of IInv: which actions disturb *)
(* it, and why it survives.                                                *)

LEMMA SafetyInit == Init => ReplySound /\ NoChangeForgotten /\ KeyWaitingIsFlagged /\ NoLostWakeup
BY DEF Init, ReplySound, NoChangeForgotten, KeyWaitingIsFlagged, NoLostWakeup, None, Source

\* A key event waits only behind a set bit: the read that clears the bit of the
\* handset is the one that finds the queue empty.
LEMMA KeyStep == TypeOK /\ KeyWaitingIsFlagged /\ [Next]_vars => KeyWaitingIsFlagged'
<1> SUFFICES ASSUME TypeOK, KeyWaitingIsFlagged, [Next]_vars PROVE KeyWaitingIsFlagged'
  OBVIOUS
<1> USE DEF KeyWaitingIsFlagged, server, link, client
<1>1. ASSUME NEW s \in Source, Event(s) PROVE KeyWaitingIsFlagged'
  BY <1>1 DEF Event, IrqEventCb, TypeOK, Source
<1>2. ASSUME NEW out \in {"ok", "nodata", "fail"}, HandleGetInfo(out) PROVE KeyWaitingIsFlagged'
  <2>1. out = "nodata" => popped = events[HANDSET]
    BY <1>2 DEF HandleGetInfo, ReadOutcome
  <2> QED BY <1>2, <2>1 DEF HandleGetInfo, StatusAfter, TypeOK, Source
<1>3. ASSUME NEW s \in Source, PollInfo(s) \/ Query(s) PROVE KeyWaitingIsFlagged'
  BY <1>3 DEF PollInfo, Query
<1>4. CASE HandleEnable \/ HandleGetMask \/ HandleGetInfoIo
  BY <1>4 DEF HandleEnable, HandleGetMask, HandleGetInfoIo
<1>5. CASE Connect \/ Disconnect \/ PollMask \/ Receive
  BY <1>5 DEF Connect, Disconnect, PollMask, Receive, ReceiveEnable, ReceiveMask, ReceiveInfo
<1>6. CASE UNCHANGED vars
  BY <1>6 DEF vars
<1> QED
  BY <1>1, <1>2, <1>3, <1>4, <1>5, <1>6 DEF Next, Handle

\* Versions move forward, replies stay between the version seen and the current
\* one, and a version not seen is flagged, being told or lost.
LEMMA ChangeStep ==
  TypeOK /\ ReplySound /\ NoChangeForgotten /\ [Next]_vars => ReplySound' /\ NoChangeForgotten'
<1> SUFFICES ASSUME TypeOK, ReplySound, NoChangeForgotten, [Next]_vars
             PROVE  ReplySound' /\ NoChangeForgotten'
  OBVIOUS
<1> USE DEF ReplySound, NoChangeForgotten, Telling, server, link, client
<1>0. /\ events \in [Source -> Nat] /\ seen \in [Level -> Int] /\ Level \subseteq Source
      /\ reply.op = "irq_get_info" => reply.src \in Source /\ reply.info \in Int
      /\ None.op = "none"
  BY ReplyType DEF TypeOK, Source, None
<1>1. ASSUME NEW s \in Source, Event(s) PROVE ReplySound' /\ NoChangeForgotten'
  <2>1. /\ events' = [events EXCEPT ![s] = @ + 1]
        /\ irq_status' = irq_status \cup {s}
        /\ lost' = lost \ {s}
        /\ UNCHANGED <<reply, seen>>
    BY <1>1 DEF Event, IrqEventCb
  <2>2. \A t \in Source : events'[t] = IF t = s THEN events[t] + 1 ELSE events[t]
    BY <1>0, <2>1
  <2>3. ReplySound'
    BY <1>0, <2>1, <2>2 DEF Error, Zeroed
  <2>4. NoChangeForgotten'
    BY <1>0, <2>1, <2>2
  <2> QED BY <2>3, <2>4
<1>2. ASSUME NEW out \in {"ok", "nodata", "fail"}, HandleGetInfo(out)
      PROVE  ReplySound' /\ NoChangeForgotten'
  <2> DEFINE s == request.src
  <2>1. s \in Source /\ out \in ReadOutcome(s)
    BY <1>2, RequestType DEF HandleGetInfo, TypeOK
  <2>2. /\ irq_status' = StatusAfter(s, out)
        /\ reply' = [op |-> "irq_get_info", src |-> s, info |-> Info(s, out)]
        /\ lost' = IF s \in Level /\ out = "fail" THEN lost \cup {s} ELSE lost
        /\ UNCHANGED <<events, seen>>
    BY <1>2 DEF HandleGetInfo, Answer
  <2>3. \A t \in Level : t # s /\ t \in irq_status => t \in irq_status'
    BY <2>2 DEF StatusAfter
  <2>4. s \in Level => out \in {"ok", "fail"} /\ s # HANDSET
    BY <2>1, SourceAssumption DEF ReadOutcome
  <2>5. s \in Level /\ out = "ok" => Info(s, out) = events[s]
    BY <2>4 DEF Info
  <2>6. s \in Level /\ out = "fail" =>
          Info(s, out) = Error \/ (Info(s, out) = Zeroed /\ s \in ZeroState)
    BY <2>4 DEF Info
  <2>7. reply.op # "irq_get_info"
    BY <1>2, <2>1, ReplyType, RequestType DEF HandleGetInfo, TypeOK, None
  <2>8. ReplySound'
    BY <1>0, <2>1, <2>2, <2>4, <2>5, <2>6
  <2>9. NoChangeForgotten'
    <3> SUFFICES ASSUME NEW t \in Level, seen[t] # events[t]
                 PROVE  t \in irq_status' \/ Telling(t)' \/ t \in lost'
      BY <2>2
    <3>1. t \in irq_status \/ t \in lost
      BY <2>7
    <3>2. CASE t # s
      BY <3>1, <3>2, <2>2, <2>3
    <3>3. CASE t = s
      BY <3>3, <2>2, <2>4, <2>5
    <3> QED BY <3>2, <3>3
  <2> QED BY <2>8, <2>9
<1>3. ASSUME NEW s \in Source, PollInfo(s) \/ Query(s) PROVE ReplySound' /\ NoChangeForgotten'
  BY <1>3 DEF PollInfo, Query
<1>4. CASE HandleEnable \/ HandleGetMask \/ HandleGetInfoIo
  <2>1. /\ UNCHANGED <<irq_status, events, seen, lost>>
        /\ reply'.op = "irq_get_info" => reply'.src \notin Level
        /\ request # None
    BY <1>4, SourceAssumption DEF HandleEnable, HandleGetMask, HandleGetInfoIo, Answer, None
  <2>2. reply.op # "irq_get_info"
    BY <2>1, <1>0 DEF TypeOK
  <2> QED BY <2>1, <2>2
<1>5. CASE Disconnect
  <2>1. /\ UNCHANGED <<irq_status, events, seen>>
        /\ reply' = None
        /\ lost' = lost \cup {s \in Level : Telling(s)}
    BY <1>5 DEF Disconnect
  <2> QED BY <2>1, <1>0
<1>6. CASE ReceiveInfo
  <2>1. /\ UNCHANGED <<irq_status, events, lost>>
        /\ reply' = None
        /\ seen' = IF reply.src \in Level /\ reply.info # Error
                     THEN [seen EXCEPT ![reply.src] = reply.info] ELSE seen
        /\ reply.op = "irq_get_info"
    BY <1>6 DEF ReceiveInfo
  <2>2. \A t \in Level : seen'[t] = IF t = reply.src /\ reply.info # Error
                                     THEN reply.info ELSE seen[t]
    BY <1>0, <2>1
  <2>3. reply.src \in Level => Error # events[reply.src]
    BY <1>0 DEF Error
  <2>4. reply.src \in Level /\ reply.info = Zeroed => reply.info <= events[reply.src]
    BY <1>0 DEF Zeroed
  <2>5. \A t \in Level : seen'[t] <= events'[t]
    BY <2>1, <2>2, <2>4
  <2>6. NoChangeForgotten'
    BY <2>1, <2>2, <2>3
  <2> QED BY <2>1, <2>5, <2>6, <1>0
<1>7. CASE Connect \/ PollMask \/ ReceiveEnable \/ ReceiveMask
  <2>1. UNCHANGED <<irq_status, events, seen, lost>>
    BY <1>7 DEF Connect, PollMask, ReceiveEnable, ReceiveMask
  <2>2. reply' = reply \/ (reply' = None /\ reply.op # "irq_get_info")
    BY <1>7 DEF Connect, PollMask, ReceiveEnable, ReceiveMask
  <2> QED BY <2>1, <2>2, <1>0
<1>8. CASE UNCHANGED vars
  BY <1>8 DEF vars
<1> QED
  BY <1>1, <1>2, <1>3, <1>4, <1>5, <1>6, <1>7, <1>8 DEF Next, Handle, Receive

\* Every visible bit stays announced or part of the poll under way.
LEMMA WakeupStep == TypeOK /\ NoLostWakeup /\ [Next]_vars => NoLostWakeup'
<1> SUFFICES ASSUME TypeOK, NoLostWakeup, [Next]_vars, conn', NEW t \in VisibleMask'
             PROVE  notified' \/ InPoll(t)'
  BY DEF NoLostWakeup
<1> USE DEF VisibleMask, InPoll, server, link, client
<1>1. ASSUME NEW s \in Source, Event(s) PROVE notified' \/ InPoll(t)'
  <2>1. CASE irq_status # {s}
    BY <1>1, <2>1 DEF Event, IrqEventCb, SendIrqEvent
  <2>2. CASE irq_status = {s}
    BY <1>1, <2>2 DEF Event, IrqEventCb, NoLostWakeup
  <2> QED BY <2>1, <2>2
<1>2. ASSUME NEW out \in {"ok", "nodata", "fail"}, HandleGetInfo(out) PROVE notified' \/ InPoll(t)'
  <2>1. CASE irq_status' = irq_status
    BY <1>2, <2>1 DEF HandleGetInfo, SendIrqEvent
  <2>2. CASE irq_status' # irq_status
    <3>1. t # request.src /\ t \in VisibleMask /\ UNCHANGED <<notified, todo, conn>>
      BY <1>2, <2>2 DEF HandleGetInfo, StatusAfter
    <3>2. reply.op # "irq_get_mask" /\ request.op = "irq_get_info"
      BY <1>2, ReplyType DEF HandleGetInfo, TypeOK, None
    <3> QED BY <3>1, <3>2 DEF NoLostWakeup
  <2> QED BY <2>1, <2>2
<1>3. CASE HandleEnable
  BY <1>3 DEF HandleEnable, SendIrqEvent
<1>4. CASE HandleGetMask
  BY <1>4 DEF HandleGetMask, Answer
<1>5. CASE HandleGetInfoIo
  <2>1. request.op = "irq_get_info" /\ request.src = IO /\ reply.op # "irq_get_mask"
    BY <1>5, ReplyType DEF HandleGetInfoIo, TypeOK, None
  <2> QED BY <1>5, <2>1 DEF HandleGetInfoIo, NoLostWakeup
<1>6. ASSUME NEW s \in Source, PollInfo(s) PROVE notified' \/ InPoll(t)'
  BY <1>6 DEF PollInfo, Ready, None, NoLostWakeup
<1>7. ASSUME NEW s \in Source, Query(s) PROVE notified' \/ InPoll(t)'
  BY <1>7 DEF Query, Ready, None, NoLostWakeup
<1>8. CASE Connect \/ PollMask
  <2>1. request' \in {[op |-> "irq_enable"], [op |-> "irq_get_mask"]}
    BY <1>8 DEF Connect, PollMask
  <2> QED BY <2>1
<1>9. CASE Disconnect
  BY <1>9 DEF Disconnect
<1>10. CASE ReceiveEnable \/ ReceiveMask \/ ReceiveInfo
  <2>1. /\ UNCHANGED <<irq_status, conn, notified, request>>
        /\ reply.op = "irq_get_mask" => todo' = reply.mask
        /\ reply.op # "irq_get_mask" => todo' = todo
    BY <1>10 DEF ReceiveEnable, ReceiveMask, ReceiveInfo
  <2>2. reply.op = "irq_get_mask" => todo = {}
    BY DEF TypeOK
  <2>3. notified \/ InPoll(t)
    BY <2>1, Zenon DEF NoLostWakeup
  <2>4. CASE notified
    BY <2>1, <2>4
  <2>5. CASE InPoll(t)
    BY <2>1, <2>2, <2>5
  <2> QED BY <2>3, <2>4, <2>5
<1>11. CASE UNCHANGED vars
  BY <1>11 DEF vars, NoLostWakeup
<1> QED
  BY <1>1, <1>2, <1>3, <1>4, <1>5, <1>6, <1>7, <1>8, <1>9, <1>10, <1>11 DEF Next, Handle, Receive

\* IInv is inductive.
LEMMA Inductive == Spec => []IInv
<1>1. Init => IInv
  BY TypeInit, SafetyInit DEF IInv
<1>2. IInv /\ [Next]_vars => IInv'
  BY TypeStep, KeyStep, ChangeStep, WakeupStep DEF IInv
<1> QED
  BY <1>1, <1>2, PTL DEF Spec

\* Whatever interleaving of callbacks, polls, failures and reconnections, a
\* change the client has not been told of is flagged, being told or known lost.
THEOREM ChangesKept == Spec => []NoChangeForgotten
<1>1. IInv => NoChangeForgotten
  BY DEF IInv
<1> QED BY <1>1, Inductive, PTL

\* A key event that waits has its bit set.
THEOREM KeysFlagged == Spec => []KeyWaitingIsFlagged
<1>1. IInv => KeyWaitingIsFlagged
  BY DEF IInv
<1> QED BY <1>1, Inductive, PTL

\* Suppressing the notification of the only flagged source loses no wakeup.
THEOREM WakeupsKept == Spec => []NoLostWakeup
<1>1. IInv => NoLostWakeup
  BY DEF IInv
<1> QED BY <1>1, Inductive, PTL

-----------------------------------------------------------------------------
(* The channel implements StateRelay.                                      *)

LEMMA RelayInit == Init => Relay!Init
BY DEF Init, Relay!Init, Source

\* A step either changes one source, tells the client of one, or stutters.
LEMMA RelayStep ==
  TypeOK /\ ReplySound /\ [Next]_vars => [Relay!Next]_<<[s \in Level |-> events[s]], seen>>
<1> DEFINE level == [s \in Level |-> events[s]]
<1> SUFFICES ASSUME TypeOK, ReplySound, [Next]_vars
             PROVE  Relay!Next \/ UNCHANGED <<level, seen>>
  OBVIOUS
<1> USE DEF server, link, client
<1>0. events \in [Source -> Nat] /\ seen \in [Level -> Int] /\ Level \subseteq Source
  BY DEF TypeOK, Source
<1>1. ASSUME NEW s \in Source, Event(s) PROVE Relay!Next \/ UNCHANGED <<level, seen>>
  <2>1. events' = [events EXCEPT ![s] = @ + 1] /\ UNCHANGED seen
    BY <1>1 DEF Event
  <2>2. CASE s \in Level
    <3>1. level' = [level EXCEPT ![s] = @ + 1]
      BY <2>1, <2>2, <1>0
    <3>2. Relay!Change(s)
      BY <3>1, <2>1 DEF Relay!Change
    <3> QED BY <3>2, <2>2 DEF Relay!Next
  <2>3. CASE s \notin Level
    BY <2>1, <2>3, <1>0
  <2> QED BY <2>2, <2>3
<1>2. CASE ReceiveInfo
  <2> DEFINE s == reply.src
  <2>1. UNCHANGED events
    BY <1>2 DEF ReceiveInfo
  <2>2. CASE s \in Level /\ reply.info # Error
    <3>1. seen' = [seen EXCEPT ![s] = reply.info]
      BY <1>2, <2>2 DEF ReceiveInfo
    <3>2. reply.info \in Int
      BY <1>2, ReplyType DEF ReceiveInfo, TypeOK
    <3>3. CASE reply.info = Zeroed /\ s \in ZeroState
      <4>1. Relay!Mislead(s)
        BY <3>1, <3>3, <2>1 DEF Relay!Mislead
      <4> QED BY <4>1, <2>2 DEF Relay!Next
    <3>4. CASE seen[s] <= reply.info /\ reply.info <= events[s]
      <4>1. reply.info \in seen[s]..level[s]
        BY <3>2, <3>4, <2>2, <1>0
      <4>2. Relay!Observe(s)
        BY <3>1, <4>1, <2>1 DEF Relay!Observe
      <4> QED BY <4>2, <2>2 DEF Relay!Next
    <3> QED BY <3>3, <3>4, <1>2, <2>2 DEF ReceiveInfo, ReplySound
  <2>3. CASE ~(s \in Level /\ reply.info # Error)
    BY <1>2, <2>1, <2>3 DEF ReceiveInfo
  <2> QED BY <2>2, <2>3
<1>3. ASSUME NEW out \in {"ok", "nodata", "fail"}, HandleGetInfo(out) PROVE UNCHANGED <<level, seen>>
  BY <1>3 DEF HandleGetInfo
<1>4. ASSUME NEW s \in Source, PollInfo(s) \/ Query(s) PROVE UNCHANGED <<level, seen>>
  BY <1>4 DEF PollInfo, Query
<1>5. CASE HandleEnable \/ HandleGetMask \/ HandleGetInfoIo
  BY <1>5 DEF HandleEnable, HandleGetMask, HandleGetInfoIo
<1>6. CASE Connect \/ Disconnect \/ PollMask \/ ReceiveEnable \/ ReceiveMask
  BY <1>6 DEF Connect, Disconnect, PollMask, ReceiveEnable, ReceiveMask
<1>7. CASE UNCHANGED vars
  BY <1>7 DEF vars
<1> QED
  BY <1>1, <1>2, <1>3, <1>4, <1>5, <1>6, <1>7 DEF Next, Handle, Receive

\* The client's view of a source only moves forward through the versions the
\* source really had.
THEOREM RelayRefined == Spec => RelaysInOrder
<1>1. IInv => TypeOK /\ ReplySound
  BY DEF IInv
<1> QED
  BY <1>1, RelayInit, RelayStep, Inductive, PTL DEF Spec, RelaysInOrder, Relay!Spec
=============================================================================
