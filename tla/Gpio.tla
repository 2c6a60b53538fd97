-------------------------------- MODULE Gpio --------------------------------
(***************************************************************************)
(* Setting a GPIO pin (src/rcrpc-client/gpio.c, src/rcrpc/io.c).  The      *)
(* protocol only knows masks of all pins: remote_gpio_set reads the mask,  *)
(* changes a bit and writes the mask back, and the daemon then drives      *)
(* every pin as an output.                                                 *)
(*                                                                         *)
(* The threads are those of one application, sharing a client: the daemon  *)
(* serves one connection at a time.  Each handler runs to its end in the   *)
(* daemon's main loop, so reading a mask and writing it are one step each. *)
(***************************************************************************)
EXTENDS Integers

CONSTANTS
  Thread,     \* threads of the application
  Pin,        \* pins of the backend, numbered from 0
  Index       \* pin numbers an application asks for; nobody checks them

Width == 32   \* bits of the mask

ASSUME GpioAssumption ==
  /\ Pin \subseteq 0..(Width - 1)
  /\ Index \subseteq Nat

VARIABLES
  dir,        \* direction of each pin
  level,      \* level of each pin
  pc,         \* where each thread is
  local,      \* its local variables while a remote_gpio_set is under way
  result      \* what the thread's last call returned

vars == <<dir, level, pc, local, result>>

Bits == 0..(Width - 1)

\* The arguments and local variables of remote_gpio_set and, for the properties,
\* the bits BIT(gpio) stood for, the pins whose level was not read into mask and
\* the pins whose level changed since.
Locals == [gpio : Nat, value : {0, 1}, mask : SUBSET Bits,
           bit : SUBSET Bits, unread : SUBSET Pin, moved : SUBSET Pin]

OutOfScope == [gpio |-> 0, value |-> 0, mask |-> {}, bit |-> {}, unread |-> {}, moved |-> {}]

Init ==
  /\ dir \in [Pin -> {"in", "out"}]
  /\ level \in [Pin -> {0, 1}]
  /\ pc = [t \in Thread |-> "idle"]
  /\ local = [t \in Thread |-> OutOfScope]
  /\ result = [t \in Thread |-> "none"]

-----------------------------------------------------------------------------

\* What BIT(i) may be.  A shift by the width of the operand or more is undefined:
\* a processor takes the count modulo the width, or shifts the bit out.
BIT(i) == IF i < Width THEN {{i}} ELSE {{i % Width}, {}}

\* What gpio_get_mask finds when the pins in failing cannot be read: they count
\* as low, and the client is not told.
Levels(failing) == {i \in Pin \ failing : level[i] = 1}

\* Mutant: the other bits are not kept.
ModifiedOverwrite(m, b, v) == IF v = 1 THEN b ELSE m \ b

\* mask |= BIT(gpio) or mask &= ~BIT(gpio)
Modified(m, b, v) == IF v = 1 THEN m \cup b ELSE m \ b

\* The mask in m, of which the pins in failing were not read, is modified.
ReadMask(t, i, v, m, failing) ==
  /\ pc[t] = "idle"
  /\ pc' = [pc EXCEPT ![t] = "modify"]
  /\ \E b \in BIT(i) :
       local' = [local EXCEPT ![t] = [gpio |-> i, value |-> v, mask |-> Modified(m, b, v),
                                      bit |-> b, unread |-> failing, moved |-> {}]]
  /\ result' = [result EXCEPT ![t] = "none"]
  /\ UNCHANGED <<dir, level>>

\* The first half of remote_gpio_set.
SetBegin(t, i, v) == \E failing \in SUBSET Pin : ReadMask(t, i, v, Levels(failing), failing)

\* gpio_get_mask cannot tell the number of pins: it returns a positive number,
\* which the client does not take for an error, and no mask, so that what the
\* client works with is whatever the reply holds.
SetBeginBroken(t, i, v) == \E m \in SUBSET Pin : ReadMask(t, i, v, m, Pin)

\* Mutant: bit i + 1 is taken for pin i.
DrivenShifted(m, failing) ==
  [i \in Pin |-> IF i \in failing THEN level[i] ELSE IF i + 1 \in m THEN 1 ELSE 0]

\* The levels after the pins that do not fail are driven.
Driven(m, failing) == [i \in Pin |-> IF i \in failing THEN level[i] ELSE IF i \in m THEN 1 ELSE 0]

\* The calls still under way when the level of pins changes.
Noted(calls) ==
  [t \in Thread |->
     IF pc'[t] = "idle" THEN OutOfScope
     ELSE [calls[t] EXCEPT !.moved = @ \cup {i \in Pin : level'[i] # level[i]}]]

\* gpio_set_mask drives every pin as an output; a pin that fails is skipped.
WriteMask(t, failing, res) ==
  /\ pc[t] = "modify"
  /\ pc' = [pc EXCEPT ![t] = "idle"]
  /\ level' = Driven(local[t].mask, failing)
  /\ dir' = [i \in Pin |-> IF i \in failing THEN dir[i] ELSE "out"]
  /\ local' = Noted(local)
  /\ result' = [result EXCEPT ![t] = res]

\* The second half of remote_gpio_set: failing pins are not reported, but the
\* reply may be lost after the pins have been driven.
SetEnd(t) == \E failing \in SUBSET Pin, res \in {"ok", "error"} : WriteMask(t, failing, res)

\* Mutant: the call does not return.
SetFailsStuck(t) ==
  /\ pc[t] = "modify"
  /\ \E res \in {"ok", "error"} : result' = [result EXCEPT ![t] = res]
  /\ UNCHANGED <<dir, level, pc, local>>

\* gpio_set_mask cannot tell the number of pins, or the request is lost.  The
\* first is a positive number, which is no error for the caller.
SetFails(t) ==
  /\ pc[t] = "modify"
  /\ pc' = [pc EXCEPT ![t] = "idle"]
  /\ local' = [local EXCEPT ![t] = OutOfScope]
  /\ \E res \in {"ok", "error"} : result' = [result EXCEPT ![t] = res]
  /\ UNCHANGED <<dir, level>>

\* remote_gpio_get, or a remote_gpio_set whose gpio_get_mask fails.
Get(t) ==
  /\ pc[t] = "idle"
  /\ \E res \in {"ok", "error"} : result' = [result EXCEPT ![t] = res]
  /\ UNCHANGED <<dir, level, pc, local>>

\* The level of an input pin changes.
InputMoves(i) ==
  /\ dir[i] = "in"
  /\ level' = [level EXCEPT ![i] = 1 - level[i]]
  /\ UNCHANGED <<dir, pc, result>>
  /\ local' = Noted(local)

Next ==
  \/ \E t \in Thread :
       \/ \E i \in Index, v \in {0, 1} : SetBegin(t, i, v) \/ SetBeginBroken(t, i, v)
       \/ SetEnd(t)
       \/ SetFails(t)
       \/ Get(t)
  \/ \E i \in Pin : InputMoves(i)

Spec == Init /\ [][Next]_vars

-----------------------------------------------------------------------------
(* Properties.                                                             *)

\* Types; a thread that is to write a mask has picked its bit and has not returned.
TypeOK ==
  /\ dir \in [Pin -> {"in", "out"}]
  /\ level \in [Pin -> {0, 1}]
  /\ pc \in [Thread -> {"idle", "modify"}]
  /\ local \in [Thread -> Locals]
  /\ result \in [Thread -> {"none", "ok", "error"}]
  /\ \A t \in Thread : pc[t] = "modify" => local[t].bit \in BIT(local[t].gpio) /\ result[t] = "none"

\* The pins a call may disturb: the one asked for, those it could not read and
\* those that moved since it did.
Exposed(t) == local[t].bit \cup local[t].unread \cup local[t].moved

\* Between its two calls a remote_gpio_set holds the level of every pin but the
\* ones it could not read or that have moved since, and the one it is to set,
\* for which it holds the level asked for.
MaskIsCurrent ==
  \A t \in Thread, i \in Pin : pc[t] = "modify" =>
    /\ i \in local[t].bit => (i \in local[t].mask <=> local[t].value = 1)
    /\ i \notin Exposed(t) => (i \in local[t].mask <=> level[i] = 1)

\* remote_gpio_set changes the level of no other pin, output or input, than the
\* one asked for, unless the pin could not be read or moved after it was read (an
\* input on its own, an output because of another thread).
WriteDisturbsOnly ==
  [][\A t \in Thread, i \in Pin : pc[t] = "modify" /\ pc'[t] = "idle" =>
       level'[i] = level[i] \/ i \in Exposed(t)]_vars

\* The inductive invariant.
IInv == TypeOK /\ MaskIsCurrent

\* commands.c:1536 says gpio-set sets the pin level of a given GPIO: when the call
\* under it returns without an error, the pin has that level.
SuccessMeansSet ==
  [][\A t \in Thread : pc[t] = "modify" /\ pc'[t] = "idle" /\ result'[t] = "ok" =>
       (local[t].gpio \in Pin => level'[local[t].gpio] = local[t].value)]_vars
=============================================================================
