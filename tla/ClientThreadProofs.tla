------------------------- MODULE ClientThreadProofs -------------------------
(***************************************************************************)
(* Proofs about ClientThread, for every bound on the waiting events.       *)
(***************************************************************************)
EXTENDS ClientThread, TLAPS

\* Every step preserves the types.
LEMMA TypeStep == IInv /\ [Next]_vars => TypeOK'
<1> SUFFICES ASSUME IInv, [Next]_vars PROVE TypeOK'
  OBVIOUS
<1> USE DEF IInv, TypeOK
<1>1. CASE InitFails \/ InitReturns
  BY <1>1 DEF InitFails, InitReturns
<1>2. ASSUME NEW created \in BOOLEAN, InitThread(created) PROVE TypeOK'
  BY <1>2 DEF InitThread
<1>3. CASE Exit
  BY <1>3 DEF Exit
<1>4. CASE Join \/ JoinUndefined
  BY <1>4 DEF Join, JoinUndefined
<1>5. CASE Test \/ PollReady \/ PollTimeout
  BY <1>5 DEF Test, PollReady, PollTimeout
<1>9. CASE PollFails
  <2>1. failed' \in BOOLEAN
    BY <1>9, Zenon DEF PollFails
  <2> QED BY <1>9, <2>1 DEF PollFails
<1>6. CASE Process
  <2>1. events' \in Nat /\ late' \in Nat
    BY <1>6 DEF Process
  <2> QED BY <1>6, <2>1 DEF Process
<1>7. CASE Deliver \/ Break
  BY <1>7 DEF Deliver, Break
<1>8. CASE UNCHANGED vars
  BY <1>8 DEF vars
<1> QED BY <1>1, <1>2, <1>3, <1>4, <1>5, <1>6, <1>7, <1>8, <1>9 DEF Next

\* Every step of the application and of the connection preserves the rest.
LEMMA ApplicationStep ==
  IInv /\ (InitFails \/ (\E created \in BOOLEAN : InitThread(created)) \/ InitReturns \/ Exit
           \/ Join \/ JoinUndefined \/ Deliver \/ Break \/ UNCHANGED vars)
    => NoUseAfterFree' /\ OneLateBatch' /\ ThreadServes' /\ DoneSound'
<1> DEFINE Rest == NoUseAfterFree /\ OneLateBatch /\ ThreadServes /\ DoneSound
<1> USE DEF IInv, NoUseAfterFree, OneLateBatch, ThreadServes, DoneSound
<1>1. IInv /\ (InitFails \/ InitReturns) => Rest'
  BY DEF TypeOK, InitFails, InitReturns
<1>2. IInv /\ (\E created \in BOOLEAN : InitThread(created)) => Rest'
  BY DEF TypeOK, InitThread
<1>3. IInv /\ Exit => Rest'
  BY DEF TypeOK, Exit
<1>4. IInv /\ (Join \/ JoinUndefined) => Rest'
  BY DEF TypeOK, Join, JoinUndefined
<1>5. IInv /\ (Deliver \/ Break) => Rest'
  BY DEF TypeOK, Deliver, Break
<1>6. IInv /\ UNCHANGED vars => Rest'
  BY DEF vars
<1> QED BY <1>1, <1>2, <1>3, <1>4, <1>5, <1>6

\* Every step of the thread does.
LEMMA ThreadStep ==
  IInv /\ Step => NoUseAfterFree' /\ OneLateBatch' /\ ThreadServes' /\ DoneSound'
<1> SUFFICES ASSUME IInv, Step PROVE NoUseAfterFree' /\ OneLateBatch' /\ ThreadServes' /\ DoneSound'
  OBVIOUS
<1> USE DEF IInv, NoUseAfterFree, OneLateBatch, ThreadServes, DoneSound
<1>1. CASE Test
  BY <1>1 DEF TypeOK, Test
<1>2. CASE PollReady \/ PollTimeout
  BY <1>2 DEF TypeOK, PollReady, PollTimeout
<1>3. CASE PollFails
  <2>1. /\ thread = "poll" /\ thread' = "test" /\ done' = TRUE
        /\ UNCHANGED <<app, memory, link, events, late>>
    BY <1>3 DEF PollFails
  <2>2. link = "broken" \/ failed'
    BY <1>3, Zenon DEF PollFails
  <2>3. NoUseAfterFree' /\ OneLateBatch' /\ ThreadServes'
    BY <2>1 DEF TypeOK
  <2>4. DoneSound'
    <3>1. done' => app' \in {"joining", "exited", "crashed", "stuck"} \/ link' = "broken" \/ failed'
      BY <2>1, <2>2, Zenon
    <3>2. /\ app' = "joining" => done'
          /\ thread' = "ended" => done'
      BY <2>1, Zenon
    <3>3. /\ thread' \notin {"none", "ended"} => app' \in {"created", "running", "joining"}
          /\ app' # "joining" /\ thread' \notin {"none", "ended"} => late' = 0
          /\ thread' \in {"poll", "process"} => late' = 0
          /\ app' \in {"start", "created", "running"} => late' = 0
          /\ app' = "start" => thread' = "none"
      BY <2>1 DEF TypeOK
    <3> QED BY <3>1, <3>2, <3>3, Zenon
  <2> QED BY <2>3, <2>4
<1>4. CASE Process
  <2>1. late' = IF app = "joining" THEN 1 ELSE 0
    BY <1>4 DEF Process
  <2>2. thread' = "test" /\ UNCHANGED <<app, memory, done, link, failed>>
        /\ app \in {"created", "running", "joining"} /\ memory # "freed"
    BY <1>4 DEF Process, TypeOK
  <2>3. NoUseAfterFree' /\ OneLateBatch' /\ ThreadServes'
    BY <2>1, <2>2
  <2>4. app # "joining" => late' = 0
    BY <2>1
  <2>5. DoneSound'
    <3>1. /\ done' => app' \in {"joining", "exited", "crashed", "stuck"} \/ link' = "broken" \/ failed'
          /\ app' = "joining" => done'
      BY <2>2, Zenon
    <3>2. thread' = "ended" => done'
      BY <2>2
    <3>3. /\ thread' \notin {"none", "ended"} => app' \in {"created", "running", "joining"}
          /\ app' # "joining" /\ thread' \notin {"none", "ended"} => late' = 0
          /\ thread' \in {"poll", "process"} => late' = 0
          /\ app' \in {"start", "created", "running"} => late' = 0
          /\ app' = "start" => thread' = "none"
      BY <2>2, <2>4
    <3> QED BY <3>1, <3>2, <3>3, Zenon
  <2> QED BY <2>3, <2>5
<1> QED BY <1>1, <1>2, <1>3, <1>4 DEF Step

LEMMA Inductive == Spec => []IInv
<1>1. Init => IInv
  <2> SUFFICES ASSUME Init PROVE IInv
    OBVIOUS
  <2>0. /\ app = "start" /\ thread = "none" /\ memory = "none" /\ link = "none"
        /\ events = 0 /\ late = 0
        /\ done \in BOOLEAN /\ failed \in BOOLEAN
    BY Zenon DEF Init
  <2>1. TypeOK /\ NoUseAfterFree /\ OneLateBatch /\ ThreadServes
    BY <2>0 DEF TypeOK, NoUseAfterFree, OneLateBatch, ThreadServes
  <2>2. /\ done = FALSE /\ app # "joining" /\ thread # "ended" /\ late = 0
        /\ ~(thread \notin {"none", "ended"}) /\ thread = "none"
    BY DEF Init
  <2>3. DoneSound
    BY <2>2, Zenon DEF DoneSound
  <2> QED BY <2>1, <2>3 DEF IInv
<1>2. IInv /\ [Next]_vars => IInv'
  BY TypeStep, ApplicationStep, ThreadStep DEF Next, Step, IInv
<1> QED BY <1>1, <1>2, PTL DEF Spec

\* Types, for every bound on the waiting events.
THEOREM TypeCorrect == Spec => []TypeOK
<1>1. IInv => TypeOK
  BY DEF IInv
<1> QED BY <1>1, Inductive, PTL

\* remote_exit frees nothing the thread still looks at.
THEOREM FreesUnused == Spec => []NoUseAfterFree
<1>1. IInv => NoUseAfterFree
  BY DEF IInv
<1> QED BY <1>1, Inductive, PTL

\* At most one more batch of events is handled once remote_exit has been called.
THEOREM StopsSoon == Spec => []OneLateBatch
<1>1. IInv => OneLateBatch
  BY DEF IInv
<1> QED BY <1>1, Inductive, PTL

\* The thread stays as long as the connection works and the application does not
\* call remote_exit.
THEOREM Serves == Spec => []ThreadServes
<1>1. IInv => ThreadServes
  BY DEF IInv
<1> QED BY <1>1, Inductive, PTL
=============================================================================
