----------------------------- MODULE GpioProofs -----------------------------
(***************************************************************************)
(* Proofs about Gpio, for every number of threads and pins and for every   *)
(* pin number an application may ask for.                                  *)
(***************************************************************************)
EXTENDS Gpio, TLAPS

\* Whatever a shift does, it yields bits of the mask.
LEMMA BitsOfIndex == \A i \in Nat : \A b \in BIT(i) : b \subseteq Bits
<1> SUFFICES ASSUME NEW i \in Nat, NEW b \in BIT(i) PROVE b \subseteq Bits
  OBVIOUS
<1>1. i < Width => i \in Bits
  BY DEF Bits, Width
<1>2. i % Width \in Bits
  BY DEF Bits, Width
<1> QED BY <1>1, <1>2 DEF BIT

LEMMA PinsAreBits == Pin \subseteq Bits
BY GpioAssumption DEF Bits

\* A call that goes on keeps its locals, but for the pins that moved.
LEMMA NotedLocals ==
  ASSUME TypeOK, pc' \in [Thread -> {"idle", "modify"}], local' = Noted(local)
  PROVE  /\ local' \in [Thread -> Locals]
         /\ \A t \in Thread : pc'[t] = "modify" =>
              /\ local'[t].gpio = local[t].gpio
              /\ local'[t].value = local[t].value
              /\ local'[t].mask = local[t].mask
              /\ local'[t].bit = local[t].bit
              /\ local'[t].unread = local[t].unread
              /\ local'[t].moved = local[t].moved \cup {i \in Pin : level'[i] # level[i]}
<1>1. OutOfScope \in Locals
  BY DEF OutOfScope, Locals
<1>2. ASSUME NEW t \in Thread, pc'[t] = "modify"
      PROVE  /\ local'[t] \in Locals
             /\ local'[t].gpio = local[t].gpio
             /\ local'[t].value = local[t].value
             /\ local'[t].mask = local[t].mask
             /\ local'[t].bit = local[t].bit
             /\ local'[t].unread = local[t].unread
             /\ local'[t].moved = local[t].moved \cup {i \in Pin : level'[i] # level[i]}
  <2> DEFINE M == {i \in Pin : level'[i] # level[i]}
  <2>1. M \subseteq Pin
    OBVIOUS
  <2>2. local'[t] = [local[t] EXCEPT !.moved = @ \cup M]
    BY <1>2 DEF Noted
  <2>3. local[t] \in Locals
    BY DEF TypeOK
  <2> HIDE DEF M
  <2>4. /\ local'[t] \in Locals
        /\ local'[t].gpio = local[t].gpio
        /\ local'[t].value = local[t].value
        /\ local'[t].mask = local[t].mask
        /\ local'[t].bit = local[t].bit
        /\ local'[t].unread = local[t].unread
        /\ local'[t].moved = local[t].moved \cup M
    BY <2>1, <2>2, <2>3 DEF Locals
  <2> QED BY <2>4 DEF M
<1>3. ASSUME NEW t \in Thread, pc'[t] # "modify" PROVE local'[t] \in Locals
  BY <1>1, <1>3 DEF Noted
<1>4. local' = [t \in Thread |-> local'[t]]
  BY DEF Noted
<1> QED BY <1>2, <1>3, <1>4

\* gpio_get_mask and the change of the mask.
LEMMA ReadStep ==
  ASSUME IInv, NEW t \in Thread, NEW i \in Index, NEW v \in {0, 1},
         NEW failing \in SUBSET Pin, NEW m \in SUBSET Pin,
         \A j \in Pin \ failing : j \in m <=> level[j] = 1,
         ReadMask(t, i, v, m, failing)
  PROVE  IInv'
<1> USE DEF IInv
<1>1. PICK b \in BIT(i) :
        local' = [local EXCEPT ![t] = [gpio |-> i, value |-> v, mask |-> Modified(m, b, v),
                                       bit |-> b, unread |-> failing, moved |-> {}]]
  BY DEF ReadMask
<1>2. i \in Nat /\ b \subseteq Bits /\ m \subseteq Bits
  BY <1>1, GpioAssumption, BitsOfIndex, PinsAreBits
<1> DEFINE r == [gpio |-> i, value |-> v, mask |-> Modified(m, b, v),
                 bit |-> b, unread |-> failing, moved |-> {}]
<1>3. r \in Locals
  BY <1>2 DEF Locals, Modified
<1>4. /\ r.gpio = i /\ r.bit = b /\ r.unread = failing /\ r.moved = {} /\ r.value = v
      /\ \A j : j \in b => (j \in r.mask <=> v = 1)
      /\ \A j : j \notin b => (j \in r.mask <=> j \in m)
  BY DEF Modified
<1> HIDE DEF r
<1>5. local' = [local EXCEPT ![t] = r]
  BY <1>1 DEF r
<1>6. TypeOK'
  <2>1. /\ dir' \in [Pin -> {"in", "out"}] /\ level' \in [Pin -> {0, 1}]
        /\ pc' \in [Thread -> {"idle", "modify"}]
        /\ result' \in [Thread -> {"none", "ok", "error"}]
    BY DEF TypeOK, ReadMask
  <2>2. local' \in [Thread -> Locals] /\ local'[t] = r
    BY <1>3, <1>5 DEF TypeOK
  <2>3. ASSUME NEW u \in Thread, pc'[u] = "modify"
        PROVE  local'[u].bit \in BIT(local'[u].gpio) /\ result'[u] = "none"
    <3>1. CASE u = t
      BY <1>1, <1>4, <2>2, <3>1 DEF TypeOK, ReadMask
    <3>2. CASE u # t
      BY <1>5, <2>3, <3>2 DEF TypeOK, ReadMask
    <3> QED BY <3>1, <3>2
  <2> QED BY <2>1, <2>2, <2>3 DEF TypeOK
<1>7. MaskIsCurrent'
  <2> SUFFICES ASSUME NEW u \in Thread, NEW j \in Pin, pc'[u] = "modify"
               PROVE  /\ j \in local'[u].bit => (j \in local'[u].mask <=> local'[u].value = 1)
                      /\ j \notin Exposed(u)' => (j \in local'[u].mask <=> level'[j] = 1)
    BY DEF MaskIsCurrent
  <2>1. CASE u = t
    <3>1. local'[u] = r
      BY <1>5, <2>1 DEF TypeOK
    <3> QED BY <3>1, <1>4 DEF Exposed, ReadMask
  <2>2. CASE u # t
    BY <1>5, <2>2 DEF ReadMask, TypeOK, MaskIsCurrent, Exposed
  <2> QED BY <2>1, <2>2
<1> QED BY <1>6, <1>7

\* Pins are driven, or an input moves: the calls under way take note.
LEMMA LevelStep ==
  ASSUME IInv, TypeOK', local' = Noted(local),
         \A t \in Thread : pc'[t] = "modify" => pc[t] = "modify"
  PROVE  MaskIsCurrent'
<1> SUFFICES ASSUME NEW t \in Thread, NEW i \in Pin, pc'[t] = "modify"
             PROVE  /\ i \in local'[t].bit => (i \in local'[t].mask <=> local'[t].value = 1)
                    /\ i \notin Exposed(t)' => (i \in local'[t].mask <=> level'[i] = 1)
  BY DEF MaskIsCurrent
<1>1. pc[t] = "modify"
  OBVIOUS
<1>2. pc' \in [Thread -> {"idle", "modify"}]
  BY DEF TypeOK
<1>3. /\ local'[t].value = local[t].value
      /\ local'[t].mask = local[t].mask
      /\ local'[t].bit = local[t].bit
      /\ local'[t].unread = local[t].unread
      /\ local'[t].moved = local[t].moved \cup {j \in Pin : level'[j] # level[j]}
  BY <1>2, NotedLocals DEF IInv
<1> QED BY <1>1, <1>3 DEF IInv, MaskIsCurrent, Exposed

LEMMA WriteStep ==
  ASSUME IInv, NEW t \in Thread, NEW failing \in SUBSET Pin, NEW res \in {"ok", "error"},
         WriteMask(t, failing, res)
  PROVE  IInv'
<1>1. pc' = [pc EXCEPT ![t] = "idle"] /\ pc' \in [Thread -> {"idle", "modify"}]
  BY DEF WriteMask, IInv, TypeOK
<1>2. level' \in [Pin -> {0, 1}] /\ dir' \in [Pin -> {"in", "out"}]
  BY DEF WriteMask, Driven, IInv, TypeOK
<1>3. result' \in [Thread -> {"none", "ok", "error"}]
  BY DEF WriteMask, IInv, TypeOK
<1>4. local' = Noted(local)
  BY DEF WriteMask
<1>5. ASSUME NEW u \in Thread, pc'[u] = "modify"
      PROVE  local'[u].bit \in BIT(local'[u].gpio) /\ result'[u] = "none" /\ pc[u] = "modify"
  <2>1. u # t /\ pc[u] = "modify" /\ result'[u] = result[u]
    BY <1>1, <1>5 DEF IInv, TypeOK, WriteMask
  <2>2. local'[u].bit = local[u].bit /\ local'[u].gpio = local[u].gpio
    BY <1>1, <1>4, <1>5, NotedLocals DEF IInv
  <2> QED BY <2>1, <2>2 DEF IInv, TypeOK
<1>6. TypeOK'
  BY <1>1, <1>2, <1>3, <1>4, <1>5, NotedLocals DEF TypeOK, IInv
<1> QED BY <1>4, <1>5, <1>6, LevelStep DEF IInv

LEMMA MoveStep ==
  ASSUME IInv, NEW i \in Pin, InputMoves(i)
  PROVE  IInv'
<1>1. pc' = pc /\ pc' \in [Thread -> {"idle", "modify"}] /\ UNCHANGED <<dir, result>>
  BY DEF InputMoves, IInv, TypeOK
<1>2. level' \in [Pin -> {0, 1}]
  BY DEF InputMoves, IInv, TypeOK
<1>3. local' = Noted(local)
  BY DEF InputMoves
<1>4. ASSUME NEW u \in Thread, pc'[u] = "modify"
      PROVE  local'[u].bit \in BIT(local'[u].gpio) /\ result'[u] = "none"
  <2>1. local'[u].bit = local[u].bit /\ local'[u].gpio = local[u].gpio
    BY <1>1, <1>3, <1>4, NotedLocals DEF IInv
  <2> QED BY <1>1, <1>4, <2>1 DEF IInv, TypeOK
<1>5. TypeOK'
  BY <1>1, <1>2, <1>3, <1>4, NotedLocals DEF TypeOK, IInv
<1> QED BY <1>1, <1>3, <1>5, LevelStep DEF IInv

LEMMA ReturnStep ==
  ASSUME IInv, NEW t \in Thread, SetFails(t) \/ Get(t)
  PROVE  IInv'
<1>1. OutOfScope \in Locals
  BY DEF OutOfScope, Locals
<1>2. PICK res \in {"ok", "error"} : result' = [result EXCEPT ![t] = res]
  BY DEF SetFails, Get
<1>3. /\ local' \in [Thread -> Locals] /\ pc' \in [Thread -> {"idle", "modify"}]
      /\ UNCHANGED <<dir, level>>
      /\ pc'[t] = "idle"
      /\ \A u \in Thread : u # t => pc'[u] = pc[u] /\ local'[u] = local[u]
  BY <1>1 DEF SetFails, Get, IInv, TypeOK
<1>4. TypeOK'
  BY <1>2, <1>3 DEF IInv, TypeOK
<1>5. MaskIsCurrent'
  BY <1>3 DEF IInv, MaskIsCurrent, Exposed
<1> QED BY <1>4, <1>5 DEF IInv

LEMMA InitIInv == Init => IInv
<1> SUFFICES ASSUME Init PROVE IInv
  OBVIOUS
<1>1. OutOfScope \in Locals
  BY DEF OutOfScope, Locals
<1>2. TypeOK
  BY <1>1 DEF Init, TypeOK
<1>3. MaskIsCurrent
  BY DEF Init, MaskIsCurrent
<1> QED BY <1>2, <1>3 DEF IInv

LEMMA NextIInv == IInv /\ [Next]_vars => IInv'
<1> SUFFICES ASSUME IInv, [Next]_vars PROVE IInv'
  OBVIOUS
<1>1. ASSUME NEW t \in Thread, NEW i \in Index, NEW v \in {0, 1}, SetBegin(t, i, v) PROVE IInv'
  <2>1. PICK failing \in SUBSET Pin : ReadMask(t, i, v, Levels(failing), failing)
    BY <1>1 DEF SetBegin
  <2>2. Levels(failing) \in SUBSET Pin
        /\ \A j \in Pin \ failing : j \in Levels(failing) <=> level[j] = 1
    BY DEF Levels
  <2> QED BY <2>1, <2>2, ReadStep
<1>2. ASSUME NEW t \in Thread, NEW i \in Index, NEW v \in {0, 1}, SetBeginBroken(t, i, v)
      PROVE IInv'
  <2>1. PICK m \in SUBSET Pin : ReadMask(t, i, v, m, Pin)
    BY <1>2 DEF SetBeginBroken
  <2>2. Pin \in SUBSET Pin /\ \A j \in Pin \ Pin : j \in m <=> level[j] = 1
    OBVIOUS
  <2> QED BY <2>1, <2>2, ReadStep
<1>3. ASSUME NEW t \in Thread, SetEnd(t) PROVE IInv'
  BY <1>3, WriteStep DEF SetEnd
<1>4. ASSUME NEW t \in Thread, SetFails(t) \/ Get(t) PROVE IInv'
  BY <1>4, ReturnStep
<1>5. ASSUME NEW i \in Pin, InputMoves(i) PROVE IInv'
  BY <1>5, MoveStep
<1>6. CASE UNCHANGED vars
  BY <1>6 DEF vars, IInv, TypeOK, MaskIsCurrent, Exposed
<1> QED BY <1>1, <1>2, <1>3, <1>4, <1>5, <1>6 DEF Next

LEMMA Inductive == Spec => []IInv
BY InitIInv, NextIInv, PTL DEF Spec

\* Types, for every set of threads, pins and indexes.
THEOREM TypeCorrect == Spec => []TypeOK
<1>1. IInv => TypeOK
  BY DEF IInv
<1> QED BY <1>1, Inductive, PTL

\* A remote_gpio_set under way holds the levels of the pins it must leave alone.
THEOREM HoldsLevels == Spec => []MaskIsCurrent
<1>1. IInv => MaskIsCurrent
  BY DEF IInv
<1> QED BY <1>1, Inductive, PTL

\* remote_gpio_set only disturbs the pin asked for, pins it could not read and pins
\* that moved since.
THEOREM DisturbsOnly == Spec => WriteDisturbsOnly
<1> DEFINE Undisturbed ==
      \A t \in Thread, i \in Pin : pc[t] = "modify" /\ pc'[t] = "idle" =>
        level'[i] = level[i] \/ i \in Exposed(t)
<1>1. IInv /\ [Next]_vars => [Undisturbed]_vars
  <2> SUFFICES ASSUME IInv, Next, NEW t \in Thread, NEW i \in Pin,
                      pc[t] = "modify", pc'[t] = "idle", i \notin Exposed(t)
               PROVE  level'[i] = level[i]
    OBVIOUS
  <2>1. CASE \E u \in Thread : SetEnd(u)
    <3>1. PICK u \in Thread : SetEnd(u)
      BY <2>1
    <3>2. PICK failing \in SUBSET Pin, res \in {"ok", "error"} : WriteMask(u, failing, res)
      BY <3>1 DEF SetEnd
    <3>3. u = t
      BY <3>2 DEF WriteMask, IInv, TypeOK
    <3>4. level'[i] = IF i \in failing THEN level[i] ELSE IF i \in local[t].mask THEN 1 ELSE 0
      BY <3>2, <3>3 DEF WriteMask, Driven
    <3>5. i \in local[t].mask <=> level[i] = 1
      BY DEF IInv, MaskIsCurrent
    <3>6. level[i] \in {0, 1}
      BY DEF IInv, TypeOK
    <3> QED BY <3>4, <3>5, <3>6
  <2>2. CASE UNCHANGED level
    BY <2>2
  <2>3. CASE \E j \in Pin : InputMoves(j)
    BY <2>3 DEF InputMoves
  <2> QED BY <2>1, <2>2, <2>3 DEF Next, SetBegin, SetBeginBroken, ReadMask, SetFails, Get
<1> QED BY <1>1, Inductive, PTL DEF Spec, WriteDisturbsOnly
=============================================================================
