----------------------------- MODULE LocalCalls -----------------------------
(***************************************************************************)
(* What a client wants a command to be: a sequence of calls of the         *)
(* managers in its own process.  A call takes effect at most once, with    *)
(* the arguments the client means, and a command succeeds only if each of  *)
(* its calls has taken effect, in order.  One that fails may have done     *)
(* part of its work, the call it failed in included.                       *)
(***************************************************************************)
EXTENDS Handlers

CONSTANTS
  RemoteAudio, RemoteInput,   \* the enumerations as the client numbers them
  OwnKey                      \* settings that also change by themselves

VARIABLES
  device,   \* the settings
  calls,    \* calls of the command that have not returned
  taken,    \* whether the first of them has taken effect
  status    \* of the last command

vars == <<device, calls, taken, status>>

\* The client means a state of its own enumeration, and is content with a
\* number that is reduced to the width of the protocol and with the port the
\* daemon uses.
Meant(f, a) ==
  CASE f = "audio_set_state"        -> <<Position(a[1], RemoteAudio)>>
    [] f = "mixer_set_input_source" -> <<Position(a[1], RemoteInput)>>
    [] f = "backlight_enable"       -> <<a[1] % 2>>
    [] f = "voip_login"             -> <<a[1], SipPort, a[3], a[4], a[2]>>
    [] OTHER                        -> Wire(f, a)

\* The settings after the call c.
Effect(c, d) ==
  LET m == Meant(c.f, c.a)
      v == (IF c.f \in Indexed THEN Tail(m) ELSE m) \o Impl[c.f].adds
  IN  IF Impl[c.f].set = "" THEN d ELSE [d EXCEPT ![KeyOf(c.f, c.a, Impl[c.f].set)] = v]

Begin ==
  /\ calls = <<>>
  /\ ~taken
  /\ calls' # <<>> => status' = "pending"
  /\ UNCHANGED <<device, taken>>

Take ==
  /\ calls # <<>>
  /\ ~taken
  /\ taken' = TRUE
  /\ device' = Effect(Head(calls), device)
  /\ UNCHANGED <<calls, status>>

Advance ==
  /\ calls # <<>>
  /\ taken
  /\ taken' = FALSE
  /\ calls' = Tail(calls)
  /\ status' = IF calls' = <<>> THEN "ok" ELSE status
  /\ UNCHANGED device

Fail ==
  /\ calls # <<>>
  /\ calls' = <<>>
  /\ taken' = FALSE
  /\ status' # "ok"
  /\ UNCHANGED device

\* A busy loopback is no error for the command that turns it on or off.
Forgive ==
  /\ calls # <<>>
  /\ Head(calls).f = "mixer_loopback_enable"
  /\ calls' = <<>>
  /\ taken' = FALSE
  /\ status' = "ok"
  /\ UNCHANGED device

Move ==
  /\ \E k \in OwnKey : device' = [device EXCEPT ![k] = device'[k]]
  /\ UNCHANGED <<calls, taken, status>>

Next == Begin \/ Take \/ Advance \/ Fail \/ Forgive \/ Move

\* The first command has not been given.
Init == calls = <<>> /\ ~taken

Spec == Init /\ [][Next]_vars
=============================================================================
