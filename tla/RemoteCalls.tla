---------------------------- MODULE RemoteCalls -----------------------------
(***************************************************************************)
(* A client that gives commands (Commands) to the daemon (Handlers) over a *)
(* connection that may fail.  The client has one thread and makes one call *)
(* at a time; the daemon serves one connection at a time, in its main      *)
(* loop, so each handler is one step.                                      *)
(*                                                                         *)
(* A manager may fail, and then changes nothing.  What else happens on the *)
(* device -- a stream ends, somebody turns a knob -- moves some of the     *)
(* settings at any time.                                                   *)
(***************************************************************************)
EXTENDS Commands

VARIABLES
  dev,      \* the settings of the managers
  cmd,      \* the last command given
  todo,     \* its calls that have not returned
  link,     \* what of the first of them is under way
  reply,    \* its reply, once the daemon has served it
  held,     \* history: the setting reported when the handler of the last call ran
  result,   \* what the command returns and shows
  events    \* commands given and settings moved, for the bound

vars == <<dev, cmd, todo, link, reply, held, result, events>>

\* Every call the commands may make, and the settings these touch.
Calls == UNION {{i.calls[j] : j \in DOMAIN i.calls} : i \in Invocation}

Key == UNION {{KeyOf(c.f, c.a, s) : s \in {Impl[c.f].set, Impl[c.f].get} \ {""}} : c \in Calls}

\* The settings that move by themselves, and where to.
Own == [
  audio_state |-> 0..11, input |-> 0..3, card_type |-> 0..3, player |-> 0..2, login_state |-> 0..1,
  duration |-> {Word + 1}, position |-> {Word + 1}, caller |-> {2}]

OwnKey == {<<s, 0>> : s \in DOMAIN Own}

\* What a client finds in a reply to which the handler did not give a value.
Unset == <<-2>>

NoReply == [ret |-> "none", out |-> Unset]
Pending == [status |-> "pending", shown |-> Unset]
NotHeld == [f |-> "none", v |-> Unset]

Idle == Command("none", <<>>, 0, "none")

Init ==
  /\ dev = [k \in Key |-> <<1>>]
  /\ cmd = Idle
  /\ todo = <<>>
  /\ link = "none"
  /\ reply = NoReply
  /\ held = NotHeld
  /\ result = Pending
  /\ events = 0

-----------------------------------------------------------------------------
(* The client.                                                             *)

Start(i) ==
  /\ todo = <<>>
  /\ events < MaxEvents
  /\ events' = events + 1
  /\ cmd' = i
  /\ todo' = i.calls
  /\ result' = [Pending EXCEPT !.status = i.verdict]
  /\ held' = NotHeld
  /\ UNCHANGED <<dev, link, reply>>

\* The stub has sent the request and waits.
Send ==
  /\ todo # <<>>
  /\ link = "none"
  /\ link' = "request"
  /\ UNCHANGED <<dev, cmd, todo, reply, held, result, events>>

\* A library function returns an error: so does the command, but for
\* mixer-loopback, which takes a busy loopback for the state it asked for.
\* (EBUSY stands for ESRCH, too.)
Forgiven(error) == Head(todo).f = "mixer_loopback_enable" /\ error = "EBUSY"

\* Mutant: a late reply is left for the next call.
AbortKeepsReply(error) ==
  /\ todo' = <<>>
  /\ result' = [Pending EXCEPT !.status = IF Forgiven(error) THEN "ok" ELSE error]
  /\ UNCHANGED <<dev, cmd, link, reply, held, events>>

\* The command ends.
Abort(error) ==
  /\ todo' = <<>>
  /\ link' = "none"
  /\ reply' = NoReply
  /\ result' = [Pending EXCEPT !.status = IF Forgiven(error) THEN "ok" ELSE error]
  /\ UNCHANGED <<dev, cmd, held, events>>

\* Mutant: the proxy returns the zero ret has before the call.
LoseUnnoticed ==
  /\ todo # <<>>
  /\ todo' = Tail(todo)
  /\ link' = "none"
  /\ reply' = NoReply
  /\ result' = IF Tail(todo) = <<>> THEN [Pending EXCEPT !.status = "ok"] ELSE result
  /\ UNCHANGED <<dev, cmd, held, events>>

\* The stub fails: the request cannot be sent, or it or its reply is lost.
Lose == todo # <<>> /\ Abort("EIO")

\* What a command makes of a value: audio-state looks up a name.
Display(f, out) == IF f = "audio_get_state" THEN <<AudioStateName(out[1])>> ELSE out

\* A library function returns without an error, and the command goes on.
Return ==
  /\ link = "reply"
  /\ reply.ret = "ok"
  /\ todo' = Tail(todo)
  /\ link' = "none"
  /\ reply' = NoReply
  /\ result' = IF Tail(todo) = <<>>
               THEN [status |-> "ok",
                     shown |-> IF Impl[Head(todo).f].get = "" THEN Unset ELSE Display(Head(todo).f, reply.out)]
               ELSE result
  /\ UNCHANGED <<dev, cmd, held, events>>

ReturnError == link = "reply" /\ reply.ret # "ok" /\ Abort(reply.ret)

-----------------------------------------------------------------------------
(* The daemon.                                                             *)

Answer(ret, out) == link = "request" /\ link' = "reply" /\ reply' = [ret |-> ret, out |-> out]

\* The arguments of the request that is under way.
Arguments == Wire(Head(todo).f, Head(todo).a)

\* The manager does what it is asked; a handler that reports, reports a setting.
Serve ==
  /\ link = "request"
  /\ LET f == Head(todo).f
         a == Arguments
         h == Impl[f]
         old == dev[KeyOf(f, a, h.get)]
     IN  /\ Refusal(f, a) = "none"
         /\ Answer("ok", IF h.get = "" THEN Unset ELSE Reported(f, old))
         /\ held' = [f |-> f, v |-> IF h.get = "" THEN Unset ELSE old]
         /\ dev' = IF h.set = "" THEN dev ELSE [dev EXCEPT ![KeyOf(f, a, h.set)] = Stored(f, a)]
  /\ UNCHANGED <<cmd, todo, result, events>>

\* The handler refuses, or its manager fails.
ServeError ==
  /\ link = "request"
  /\ LET refusal == Refusal(Head(todo).f, Arguments)
     IN  \E e \in IF refusal = "none" THEN {"EBUSY", "EFAULT"} ELSE {refusal} : Answer(e, Unset)
  /\ UNCHANGED <<dev, cmd, todo, held, result, events>>

Move(s, v) ==
  /\ events < MaxEvents
  /\ events' = events + 1
  /\ dev' = [dev EXCEPT ![<<s, 0>>] = <<v>>]
  /\ UNCHANGED <<cmd, todo, link, reply, held, result>>

Next ==
  \/ \E i \in Invocation : Start(i)
  \/ Send
  \/ Lose
  \/ Return
  \/ ReturnError
  \/ Serve
  \/ ServeError
  \/ \E s \in DOMAIN Own : \E v \in Own[s] : Move(s, v)

Spec == Init /\ [][Next]_vars

-----------------------------------------------------------------------------
(* Properties.                                                             *)

Statuses == {"none", "pending", "ok", "EINVAL", "ENOSYS", "EBUSY", "EFAULT", "EIO"}

\* There is something under way only during a command, which has not returned
\* while it has calls to make.
InStep ==
  /\ todo = <<>> => link = "none"
  /\ todo # <<>> => result = Pending
  /\ link \in {"none", "request", "reply"}
  /\ link = "reply" <=> reply.ret # "none"

\* Types, and InStep.
TypeOK ==
  /\ InStep
  /\ dev \in [Key -> Seq(Int)]
  /\ cmd \in Invocation \cup {Idle}
  /\ todo \in Seq(Calls)
  /\ reply \in [ret : Statuses, out : Seq(Int)]
  /\ result \in [status : Statuses, shown : Seq(Int)]
  /\ events \in 0..MaxEvents

\* The enumerations of the client, in the order of the handlers' switches
\* (rcrpc-client.h).
RemoteAudio == <<0, 10, 11, 20, 21, 22, 30, 31, 32, 40, 41>>
RemoteInput == <<1, 2, 3>>
RemoteCard  == <<1>>

\* A remote command is as good as a local one: each of its calls takes effect at
\* most once, means to the manager what it means to the client, and has taken
\* effect if the command succeeds.
Local == INSTANCE LocalCalls
  WITH device <- dev, calls <- todo, taken <- (link = "reply" /\ reply.ret = "ok"), status <- result.status

ImplementsLocalCalls == Local!Init /\ [][Local!Next]_Local!vars

\* The value of a setting in the client's terms.
InClientTerms(f, v) ==
  CASE f = "audio_get_state" -> IF v[1] \in 1..9 THEN <<v[1] + 1>> ELSE <<IF v[1] = 0 THEN 1 ELSE 0>>
    [] f = "mixer_get_input_source"  -> <<Number(v[1], RemoteInput, 0)>>
    [] f = "media_player_is_running" -> <<IF v[1] = 1 THEN 1 ELSE 0>>
    [] f \in {"media_player_get_duration", "media_player_get_position"} -> <<v[1] % Word>>
    [] OTHER -> v

\* What a command shows, or a library function returns, is what the manager said
\* during that very call: never a value from a call that failed, from an earlier
\* one, or of another enumeration.  (The card's type is SameCardType; the modem's
\* queries have one answer.)
ShownIsReal ==
  result.shown # Unset =>
    \/ held.f \in {"card_get_type", "modem_is_calling", "modem_is_connected"}
    \/ held.f # "none" /\ result.shown = InClientTerms(held.f, held.v)

\* A command that checks the number it is given stores that number or fails:
\* nothing is cut off on the way.  A volume that does not fit an int32_t is the
\* exception.
CheckedNumberStored ==
  [][todo # <<>> /\ todo' = <<>> /\ result'.status = "ok" /\ cmd.number < Word
     /\ cmd.name \in {"audio-volume", "mixer-volume", "backlight-brightness"}
     /\ Impl[Head(todo).f].set # "" =>
       dev[KeyOf(Head(todo).f, Head(todo).a, Impl[Head(todo).f].set)] = <<cmd.number>>]_vars

\* card.c:31 says remote_card_get_type works "because both enumerations are
\* defined identically": an application gets the type of the card in the
\* client's enumeration, which knows I2C cards and unknown ones.
SameCardType ==
  result.shown # Unset /\ held.f = "card_get_type" => result.shown = <<Number(held.v[1], RemoteCard, 0)>>
=============================================================================
