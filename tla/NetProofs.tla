----------------------------- MODULE NetProofs -----------------------------
(***************************************************************************)
(* Proofs about Net, for every set of references and timeouts.             *)
(***************************************************************************)
EXTENDS Net, TLAPS

\* A configured timeout is cut to the width of sync_timeout_msec.
LEMMA TimeoutWidth ==
  /\ \A msec \in Timeouts : ToUInt16(msec) \in UInt16
  /\ UInt16 \subseteq Nat
  /\ 0 \in UInt16
<1>1. Wrap \in Nat \ {0}
  BY DEF Wrap
<1>2. \A msec \in Nat : msec % Wrap \in 0..Wrap - 1
  BY <1>1
<1>3. QED
  BY <1>1, <1>2, NetAssumption DEF ToUInt16, UInt16

\* Every step preserves the types.
LEMMA TypeStep == TypeOK /\ [Next]_vars => TypeOK'
<1> SUFFICES ASSUME TypeOK, [Next]_vars PROVE TypeOK'
  OBVIOUS
<1> USE DEF TypeOK
<1>1. ASSUME NEW ref \in Ref \cup {0}, NetInit(ref) PROVE TypeOK'
  <2>1. channels' \subseteq Ref
    BY <1>1 DEF NetInit
  <2>2. sync_timeout_msec' \in UInt16
    BY <1>1, TimeoutWidth DEF NetInit
  <2>3. async_p2p' \in Ref \cup {0} /\ sync_broadcast' \in Ref \cup {0}
    BY <1>1 DEF NetInit
  <2>4. pc' = "idle" /\ timeout' = timeout /\ clock' = clock /\ slept' = slept /\ queue' = 0 /\ arrival' = -1
    BY <1>1 DEF NetInit
  <2>5. net_data' = "allocated" /\ result' = "none"
    BY <1>1 DEF NetInit
  <2>6. result' \in Results
    BY <2>5 DEF Results
  <2> QED BY <2>1, <2>2, <2>3, <2>4, <2>5, <2>6
<1>2. ASSUME NEW ref \in Ref \cup {0}, NEW msec \in Timeouts, NetConfig(ref, msec) PROVE TypeOK'
  <2>1. channels' \subseteq Ref
    BY <1>2 DEF NetConfig
  <2>2. sync_timeout_msec' \in UInt16
    BY <1>2, TimeoutWidth DEF NetConfig
  <2>3. result' \in Results
    BY <1>2 DEF NetConfig, Results
  <2>4. pc' = "idle" /\ async_p2p' \in Ref \cup {0}
    BY <1>2 DEF NetConfig
  <2>5. UNCHANGED <<sync_broadcast, net_data, timeout, clock, slept, queue, arrival>>
    BY <1>2 DEF NetConfig
  <2> QED BY <2>1, <2>2, <2>3, <2>4, <2>5
<1>3. CASE NetCleanup
  BY <1>3 DEF NetCleanup, call
<1>4. CASE Arrive
  BY <1>4 DEF Arrive, call, data
<1>5. ASSUME NEW res \in Results, CallAtOnce(res) PROVE TypeOK'
  BY <1>5 DEF CallAtOnce, data
<1>6. CASE ReadBegin \/ WriteBegin
  <2>1. UNCHANGED <<channels, data, slept, queue>> /\ clock' = 0 /\ arrival' \in {0, -1} /\ timeout' \in Int
    BY <1>6, TimeoutWidth DEF ReadBegin, WriteBegin, Begin
  <2>2. pc' \in {"poll", "select"} /\ result' = "none" /\ result' \in Results
        /\ net_data # "NULL" /\ sync_broadcast # 0
    BY <1>6 DEF ReadBegin, WriteBegin, Begin, Results
  <2> QED BY <2>1, <2>2 DEF data
<1>7. CASE ReadPoll \/ ReadError \/ WriteReady \/ WriteTimesOut \/ WriteError
  <2>1. UNCHANGED <<channels, data, timeout, clock, slept, arrival>> /\ queue' \in Nat
    BY <1>7 DEF ReadPoll, ReadError, WriteReady, WriteTimesOut, WriteError
  <2>2. /\ pc # "idle"
        /\ \/ pc' = "idle" /\ result' \in Results
           \/ pc' = "sleep" /\ UNCHANGED result
    BY <1>7 DEF ReadPoll, ReadError, WriteReady, WriteTimesOut, WriteError, Return, Results
  <2> QED BY <2>1, <2>2 DEF data
<1>8. CASE ReadSleep \/ ReadWake \/ WriteWait
  <2>1. UNCHANGED <<channels, data, queue, arrival>>
        /\ clock' \in Nat /\ slept' \in Nat /\ timeout' \in Int
    BY <1>8 DEF ReadSleep, ReadWake, WriteWait, Period
  <2>2. /\ pc # "idle"
        /\ \/ pc' = "idle" /\ result' \in Results
           \/ pc' \in {"poll", "sleep", "select"} /\ UNCHANGED result
    BY <1>8 DEF ReadSleep, ReadWake, WriteWait, Return, Results
  <2> QED BY <2>1, <2>2 DEF data
<1>9. CASE UNCHANGED vars
  BY <1>9 DEF vars
<1> QED
  BY <1>1, <1>2, <1>3, <1>4, <1>5, <1>6, <1>7, <1>8, <1>9 DEF Next

\* Every step preserves who owns the channels.
LEMMA ChannelStep == TypeOK /\ ChannelsOwned /\ [Next]_vars => ChannelsOwned'
<1> SUFFICES ASSUME TypeOK, ChannelsOwned, [Next]_vars PROVE ChannelsOwned'
  OBVIOUS
<1> USE DEF ChannelsOwned, Owned
<1>1. ASSUME NEW ref \in Ref \cup {0}, NetInit(ref) PROVE ChannelsOwned'
  BY <1>1 DEF NetInit
<1>2. ASSUME NEW ref \in Ref \cup {0}, NEW msec \in Timeouts, NetConfig(ref, msec) PROVE ChannelsOwned'
  <2>1. channels \ ({async_p2p} \ {0}) = {sync_broadcast} \ {0}
    BY <1>2 DEF NetConfig
  <2>2. ref # 0 => ref # sync_broadcast
    BY <1>2, <2>1 DEF NetConfig, Creatable
  <2> QED BY <1>2, <2>1, <2>2 DEF NetConfig
<1>3. CASE NetCleanup
  BY <1>3 DEF NetCleanup
<1>4. CASE UNCHANGED <<channels, data>>
  BY <1>4 DEF data
<1> QED
  BY <1>1, <1>2, <1>3, <1>4 DEF Next, vars, data, Arrive, CallAtOnce, ReadBegin, WriteBegin, Begin,
     ReadPoll, ReadError, ReadSleep, ReadWake, WriteReady, WriteWait, WriteTimesOut, WriteError

\* One more round is one more period and one more overrun.
LEMMA OneMoreRound ==
  ASSUME NEW r \in Int, NEW m \in Int
  PROVE  m * (r + 1) = m * r + m
OBVIOUS

\* A timeout lies within the rounds it takes, and what is left of the last round
\* tells how many they are.
LEMMA RoundsOfTimeout ==
  ASSUME NEW msec \in Nat
  PROVE  /\ RoundsFor(msec) \in Nat \ {0}
         /\ msec < Period * RoundsFor(msec)
         /\ \A r, rest \in Int : msec = Period * r + rest /\ 0 <= rest /\ rest < Period
                                 => RoundsFor(msec) = r + 1
BY DEF RoundsFor, Period

\* A select that overran once is no later than a read that overran in every round.
LEMMA SelectInTime ==
  ASSUME NEW msec \in Nat, NEW time \in Nat, time <= msec + MaxOverrun
  PROVE  time <= RoundsFor(msec) * (Period + MaxOverrun)
<1> DEFINE n == RoundsFor(msec)
<1>1. n \in Nat \ {0} /\ msec < Period * n
  BY RoundsOfTimeout
<1>2. MaxOverrun \in Nat /\ Period \in Nat
  BY NetAssumption DEF Period
<1> HIDE DEF n
<1>3. MaxOverrun * n >= MaxOverrun
  <2> DEFINE k == n - 1
  <2>1. k \in Nat /\ n = k + 1
    BY <1>1
  <2> HIDE DEF k
  <2>2. MaxOverrun * n = MaxOverrun * k + MaxOverrun
    BY <2>1, <1>2, OneMoreRound
  <2>3. MaxOverrun * k \in Nat
    BY <2>1, <1>2
  <2> QED BY <2>2, <2>3, <1>2
<1>4. n * (Period + MaxOverrun) = Period * n + MaxOverrun * n
  BY <1>1, <1>2
<1>5. msec + MaxOverrun <= n * (Period + MaxOverrun)
  <2>1. Period * n \in Int /\ MaxOverrun * n \in Int
    BY <1>1, <1>2
  <2> QED BY <1>1, <1>2, <1>3, <1>4, <2>1
<1>6. n * (Period + MaxOverrun) \in Int
  BY <1>1, <1>2
<1>7. time <= n * (Period + MaxOverrun)
  BY <1>5, <1>6, <1>2
<1> QED BY <1>7 DEF n

\* Every step keeps count of the time.
LEMMA TimeStep == IInv /\ [Next]_vars => CallSound' /\ TimesOutInTime'
<1> DEFINE Timing == CallSound /\ TimesOutInTime
<1> SUFFICES ASSUME IInv, [Next]_vars PROVE Timing'
  OBVIOUS
<1>0. /\ Timing
      /\ sync_timeout_msec \in Nat /\ clock \in Nat /\ timeout \in Int /\ slept \in Nat
      /\ MaxOverrun \in Nat
      /\ pc # "idle" => result = "none"
  BY TimeoutWidth, NetAssumption DEF IInv, TypeOK
<1> USE <1>0 DEF CallSound, TimesOutInTime, Rounds
<1>1. ASSUME NEW ref \in Ref \cup {0}, NetInit(ref) PROVE Timing'
  <2>1. pc' = "idle" /\ result' # "ETIMEDOUT" /\ UNCHANGED slept /\ pc = "idle"
    BY <1>1 DEF NetInit
  <2> QED BY <2>1
<1>2. ASSUME NEW ref \in Ref \cup {0}, NEW msec \in Timeouts, NetConfig(ref, msec) PROVE Timing'
  <2>1. pc' = "idle" /\ result' # "ETIMEDOUT" /\ UNCHANGED slept /\ pc = "idle"
    BY <1>2 DEF NetConfig
  <2> QED BY <2>1
<1>3. CASE UNCHANGED <<sync_timeout_msec, call>>
  BY <1>3 DEF call
<1>4. ASSUME NEW res \in Results, CallAtOnce(res) PROVE Timing'
  <2>1. pc' = "idle" /\ result' # "ETIMEDOUT" /\ UNCHANGED slept /\ pc = "idle"
    BY <1>4 DEF CallAtOnce
  <2> QED BY <2>1
<1>5. ASSUME ReadBegin \/ WriteBegin PROVE Timing'
  <2>1. /\ pc = "idle" /\ pc' \in {"poll", "select"} /\ result' = "none"
        /\ timeout' = sync_timeout_msec' /\ clock' = 0 /\ UNCHANGED <<sync_timeout_msec, slept>>
    BY <1>5 DEF ReadBegin, WriteBegin, Begin, data
  <2>2. Rounds' = 0
    BY <2>1 DEF Period
  <2>3. slept = 0 /\ Period * 0 = 0 /\ (Period + MaxOverrun) * 0 = 0
    BY <2>1 DEF Period
  <2> QED BY <2>1, <2>2, <2>3 DEF Period
<1>6. ASSUME ReadPoll \/ ReadError \/ WriteReady \/ WriteError PROVE Timing'
  <2>1. /\ pc' \in {"idle", "sleep"} /\ (pc' = "sleep" => pc = "poll") /\ pc # "sleep"
        /\ result' # "ETIMEDOUT"
        /\ UNCHANGED <<sync_timeout_msec, timeout, clock, slept>>
    BY <1>6 DEF ReadPoll, ReadError, WriteReady, WriteError, Return, data
  <2> QED BY <2>1
<1>7. ASSUME ReadSleep PROVE Timing'
  <2>1. /\ pc = "sleep" /\ pc' = "sleep" /\ slept < Period + MaxOverrun
        /\ clock' = clock + 1 /\ slept' = slept + 1
        /\ UNCHANGED <<sync_timeout_msec, timeout, result>>
    BY <1>7 DEF ReadSleep, data
  <2>2. Rounds' = Rounds
    BY <2>1
  <2>3. Period * Rounds \in Int /\ (Period + MaxOverrun) * Rounds \in Int
    BY DEF Period
  <2> QED BY <2>1, <2>2, <2>3 DEF Period
<1>8. ASSUME ReadWake PROVE Timing'
  <2>1. /\ pc = "sleep" /\ slept >= Period /\ slept' = 0 /\ result = "none"
        /\ timeout' = timeout - Period
        /\ UNCHANGED <<sync_timeout_msec, clock>>
    BY <1>8 DEF ReadWake, data
  <2>2. timeout' < 0 => pc' = "idle" /\ result' = "ETIMEDOUT"
    BY <1>8 DEF ReadWake, Return
  <2>3. timeout' >= 0 => pc' = "poll" /\ result' = "none"
    BY <1>8, <2>1 DEF ReadWake
  <2> DEFINE r == Rounds
             round == Period + MaxOverrun
  <2>4. /\ r \in Int /\ timeout >= 0
        /\ sync_timeout_msec - timeout = Period * r
        /\ clock >= Period * r + slept /\ clock <= round * r + slept /\ slept <= round
    BY <2>1 DEF Period
  <2>5. Rounds' = r + 1 /\ Period * (r + 1) = Period * r + Period
    BY <2>1, <2>4 DEF Period
  <2>6. round \in Int /\ Period \in Nat \ {0}
    BY DEF Period
  <2> HIDE DEF r, round
  <2>7. round * (r + 1) = round * r + round /\ round * r \in Int /\ Period * r \in Int
    <3>1. r \in Int
      BY <2>4
    <3>2. round * (r + 1) = round * r + round
      BY <3>1, <2>6, OneMoreRound
    <3>3. round * r \in Int /\ Period * r \in Int
      BY <3>1, <2>6
    <3> QED BY <3>2, <3>3
  <2>8. clock >= Period * (r + 1) /\ clock <= round * (r + 1)
    BY <2>1, <2>4, <2>5, <2>6, <2>7
  <2>9. CASE timeout' < 0
    <3>1. sync_timeout_msec = Period * r + timeout /\ timeout < Period
      BY <2>1, <2>4, <2>6, <2>7, <2>9
    <3>2. RoundsFor(sync_timeout_msec) = r + 1
      BY <3>1, <2>4, RoundsOfTimeout
    <3>3. clock >= sync_timeout_msec
      BY <3>1, <2>5, <2>6, <2>7, <2>8
    <3>4. clock <= RoundsFor(sync_timeout_msec) * (Period + MaxOverrun)
      <4>1. (r + 1) * round = round * (r + 1)
        BY <2>4, <2>6
      <4> QED BY <3>2, <4>1, <2>8 DEF round
    <3>5. RoundsFor(sync_timeout_msec)' = RoundsFor(sync_timeout_msec)
      BY <2>1
    <3> QED BY <2>1, <2>2, <2>6, <2>9, <3>3, <3>4, <3>5 DEF round
  <2>10. CASE timeout' >= 0
    <3>1. (sync_timeout_msec - timeout)' = Period * (r + 1)
      BY <2>1, <2>4, <2>5, <2>6, <2>7
    <3>2. timeout' >= 0 /\ pc' = "poll" /\ result' = "none" /\ slept' = 0 /\ clock' = clock
      BY <2>1, <2>3, <2>10
    <3>3. clock' >= (Period * Rounds)' + slept' /\ (sync_timeout_msec - timeout)' = (Period * Rounds)'
      BY <3>1, <3>2, <2>5, <2>7, <2>8, <1>0 DEF Period
    <3>4. clock' <= ((Period + MaxOverrun) * Rounds)' + slept'
      <4>1. ((Period + MaxOverrun) * Rounds)' = round * (r + 1)
        BY <2>5 DEF round
      <4>2. round * (r + 1) \in Int
        BY <2>6, <2>7
      <4> QED BY <4>1, <4>2, <3>2, <2>8
    <3> QED BY <3>2, <3>3, <3>4, <2>6 DEF round
  <2> QED BY <2>1, <2>9, <2>10
<1>9. ASSUME WriteWait PROVE Timing'
  <2>1. /\ pc = "select" /\ pc' = "select" /\ clock < sync_timeout_msec + MaxOverrun
        /\ clock' = clock + 1 /\ UNCHANGED <<sync_timeout_msec, slept, result>>
    BY <1>9 DEF WriteWait, data
  <2> QED BY <2>1
<1>10. ASSUME WriteTimesOut PROVE Timing'
  <2>1. /\ pc = "select" /\ pc' = "idle" /\ clock >= sync_timeout_msec
        /\ UNCHANGED <<sync_timeout_msec, clock, slept>>
    BY <1>10 DEF WriteTimesOut, Return, data
  <2>2. clock <= RoundsFor(sync_timeout_msec) * (Period + MaxOverrun)
    BY <2>1, SelectInTime
  <2>3. RoundsFor(sync_timeout_msec)' = RoundsFor(sync_timeout_msec)
    BY <2>1
  <2> QED BY <2>1, <2>2, <2>3
<1>11. CASE UNCHANGED vars
  BY <1>11, <1>3 DEF vars, call
<1>12. CASE NetCleanup \/ Arrive
  BY <1>12, <1>3 DEF NetCleanup, Arrive, data
<1> QED
  BY <1>1, <1>2, <1>4, <1>5, <1>6, <1>7, <1>8, <1>9, <1>10, <1>11, <1>12 DEF Next

LEMMA InitIInv == Init => IInv
<1> SUFFICES ASSUME Init PROVE IInv
  OBVIOUS
<1>1. TypeOK
  <2>1. channels = {} /\ async_p2p = 0 /\ sync_broadcast = 0 /\ net_data = "NULL" /\ pc = "idle"
    BY DEF Init
  <2>2. sync_timeout_msec \in UInt16 /\ timeout \in Int /\ clock \in Nat /\ slept \in Nat
        /\ queue \in Nat
    BY TimeoutWidth DEF Init
  <2>3. arrival = -1 /\ result \in Results
    BY DEF Init, Results
  <2> QED BY <2>1, <2>2, <2>3 DEF TypeOK
<1>2. ChannelsOwned
  BY DEF Init, ChannelsOwned, Owned
<1>3. CallSound /\ TimesOutInTime
  BY NetAssumption DEF Init, CallSound, TimesOutInTime, Period
<1> QED
  BY <1>1, <1>2, <1>3 DEF IInv

LEMMA Inductive == Spec => []IInv
<1>1. IInv /\ [Next]_vars => IInv'
  BY TypeStep, ChannelStep, TimeStep DEF IInv
<1> QED BY <1>1, InitIInv, PTL DEF Spec

\* Types, for every set of references and timeouts.
THEOREM TypeCorrect == Spec => []TypeOK
<1>1. IInv => TypeOK
  BY DEF IInv
<1> QED BY <1>1, Inductive, PTL

\* No channel leaks and no reference dangles.
THEOREM NoLeak == Spec => []ChannelsOwned
<1>1. IInv => ChannelsOwned
  BY DEF IInv
<1> QED BY <1>1, Inductive, PTL

\* A timeout is never reported early, and late only by what the rounds of the read
\* overran, for every timeout and every overrun.
THEOREM TimeoutAccurate == Spec => []TimesOutInTime
<1>1. IInv => TimesOutInTime
  BY DEF IInv
<1> QED BY <1>1, Inductive, PTL
=============================================================================
