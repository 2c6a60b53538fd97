# rcrpc: models, model checking and proofs

rcrpc makes the remote-control daemon of an in-seat terminal reachable over
TCP.  A plugin of the daemon (`src/src/rcrpc`) serves one client at a time on
port 7482; a client library (`src/src/rcrpc-client`) wraps every remote
function; a command line client (`src/bin`) is built on the library.  Stubs and
dispatcher are generated from `src/src/protocol.xml` by librpc's rpcgen.  This
directory holds TLA+ models of the parts of rcrpc that keep state, the TLC
configurations that check them on small instances, and TLAPS proofs of the
safety properties for all instances.

All paths below are relative to `src/` of the repository, where `src/src` and
`src/bin` are the directories `src` and `bin` of the source tree.

## Inventory

### Threads and scheduling

* The **daemon** is one thread running a GLib main loop.  Every handler
  (`RPC_IMPL(...)` in `src/rcrpc/*.c`) runs to its end inside
  `rpc_source_dispatch`; while a handler, `rpc_server_recv` or
  `rpc_server_accept` blocks, nothing else of the daemon runs.  Event managers of
  the daemon call back into rcrpc from the same loop.
* The **client library** has two threads: the application's, which calls stubs,
  and `poll_event_thread`, which waits for events.
* The **command line client** adds no thread.

### Components

| component | state | operations | interacts with | hard because | correct when |
|---|---|---|---|---|---|
| IRQ channel: `rcrpc/irq.c`, `rcrpc-client/irq.c`, `irq-poll` | `irq_status` bits; the client's view of each source | event callback; `irq_enable`, `irq_get_mask`, `irq_get_info`; the poll loop | event manager (state, callback), connection | events and reads interleave, announcements are merged, the connection may break | no change is forgotten, the client is woken for whatever is flagged, it sees states in order and catches up, then it is left alone |
| RPC source: `rcrpc/rcrpc.c` | `enum remote_control_state`, poll set, received conditions | prepare, check, dispatch; create, free | GLib main loop, librpc server, sockets | conditions are stale when used, calls block, clients queue and leave at any point | the poll set follows the served client, clients are served in turn, each until it leaves, and neither the end of a stream nor an unknown request ends the service |
| Life of the server: `rcrpc_create`, `rpc_source_finalize`, the set-up and clean-up in `irq.c` and `net.c` | two global pointers, the server and source of each call | create with its error paths, finalize, the event callback | event manager, GLib, the TCP port | the pointers are overwritten and freed without a look at whose they are; the event manager keeps one of them | handlers find the data of their own server; the callback does not use freed data while a server runs |
| UDP channels: `rcrpc/net.c` | two channel references, timeout | init, cleanup, `net_config`, `net_read`, `net_write` | network stack, usleep/select | failures half way, datagrams racing with a timeout, 16 bit timeout | no channel leaks or dangles, timeouts are kept, the loop ends |
| GPIO: `rcrpc/io.c`, `rcrpc-client/gpio.c`, `gpio-get/-set` | pins (direction, level); a mask in the caller | `remote_gpio_set` = read all, modify, write all; `remote_gpio_get` | GPIO backend | the level may change between the two calls, pins fail one by one, errors are dropped | only the pin asked for is disturbed |
| Client life cycle: `rcrpc-client/rcrpc-client.c` | `struct remote_client` | `remote_init`, `remote_exit`, polling thread | librpc client, pthreads | two threads share memory that one frees | no use after free, exit returns, the thread stays while it is needed |
| Client shell: `bin/main.c` | command line split into words | read, parse, unquote, execute, complete | commands | two passes over quoted text must agree, long lines come in pieces, any allocation may fail | words are those the quoting rules give, nothing is lost, no crash but the known ones |
| Name tables: `bin/utils.c` | constant tables | names to numbers and back | commands | reachability of the second lookup | a printed name can be parsed |
| Commands: `bin/commands.c` | none | about fifty commands: check arguments, call, print | library | a reply may be lost after the handler has run, a command may make two calls, numbers are cut on the way | a call takes effect at most once, a success means it did |
| Audio, mixer, sound; VoIP, modem; media player, backlight; handset; card, tuner, LLDP, system, task manager | none of their own (VoIP and modem keep none across calls) | proxies: stub, handler, manager | managers of the daemon | three enumerations of the same thing, error propagation | what arrives, and what is shown, is what was meant |
| Event handlers: `rcrpc-client/events.c` | none | stubs that return `-ENOSYS` | | | |
| librpc, GLib, remote-control | external | | | | |

`PROJECT.json` lists the hazards, each with the line where it bites and the
properties that watch it.

## Modules

```
StateRelay  <--- implemented by --- Irq  <--- EXTENDS --- IrqProofs
                                     ^--- MCIrq (values for TLC)
SerialServer  <--- implemented by --- RpcSource <--- RpcSourceProofs

RcServer <--- RcServerProofs        Net <--- NetProofs
Gpio <--- GpioProofs                ClientThread <--- ClientThreadProofs
Shell <--- ShellProofs
    ^--- MCShell (values for TLC)

Handlers <--- Commands <--- RemoteCalls <--- RemoteCallsProofs
    ^--- LocalCalls <--- implemented by ---'
```

An arrow without a word is EXTENDS.  Each component is closed: what it talks to
appears in its own module as actions of the environment.  Counters of the environment (events, connections, waiting
datagrams) are bounded by constants; the proofs hold for every value of them.

Definitions named "Mutant" in comments are wrong variants of the definition that
follows them.  No specification uses them.  They record which mistake in the
code each property is there to find: put in place of the definition, TLC reports
the property as violated.

### Irq and StateRelay

Variables: `irq_status` (the word of `struct irq_data`), the event manager's
`events` (how often each source changed, so that the number is also the version
of its state), `popped` (keys read from the handset queue), `fails` (reads that
failed); the connection with the request and reply in flight and `notified`, an
`irq_event` the client has not acted on; the client's poll loop (`todo`, `seen`,
`queries`).  `Event` is a report of a source together with `irq_event_cb`, which
the event manager calls at once.  `HandleEnable`, `HandleGetMask`,
`HandleGetInfo` and `HandleGetInfoIo` are the three handlers; the last is
`irq_get_info` of the I/O source, which clears nothing.  `Connect`,
`Disconnect`, `PollMask`, `PollInfo`, `Query` and `Receive...` are the client.

Abstractions: `notified` is Boolean because `irq_event` has no content; the order
in which irq-poll visits the sources in a mask is left open; unknown sources and
NULL arguments change nothing and are left out; the two state sources in the
configuration stand for hook, smart card, VoIP and modem, of which one reports
a state that reads as zero.  The client enables interrupts when it connects.

| property | says |
|---|---|
| `NoChangeForgotten` | a change the client has not been told of is flagged in `irq_status`, or its reply is on the way |
| `KeyWaitingIsFlagged` | a key in the queue keeps the handset flagged |
| `NoLostWakeup` | a client that waits has been notified of everything flagged and visible |
| `RelaysInOrder` | the channel implements `StateRelay`: versions are seen in order, none is invented |
| `CatchesUp`, `KeysDrained`, `GoesQuiet` | liveness of a client that stays connected |
| `MaskMeansPending` (refuted) | a set bit means that a request is pending, as `rcrpc-client.h:200` has it |

Fairness: the daemon handles requests, the client reads replies and polls when
notified (weak fairness on the handlers and on the steps of irq-poll).  Nothing
makes events happen or connections stay.

### RpcSource and SerialServer

Variables: `state`, `polled`/`fd`/`revListen`/`revClient` (the two GPollFD of
`struct rpc_source`), `phase` (where GLib is with the source), the request in
hand; the socket served, the listen queue and, for each connection, what the
peer has done and sent.  `Prepare`, `Poll`, `Check`, `Dispatch` are the rounds of
the loop; a dispatch ends in `Accept`, `AcceptFails`, `ReceiveRequest`,
`ReceiveEnd` or `ReceiveError`, and a request is served by `ServeKnown`,
`ServeFails` or `ServeUnknown`.  Calls return when they have something to return,
and fail when the peer makes them, or, if `Faulty`, at any time: any error of
`rpc_server_recv` but `-ECONNRESET` and any of `rpc_dispatch` but `-ENOSYS`
destroys the source, and a failing accept or a client without a descriptor
(`PrepareFails`) aborts the process.  The history variable `fault` records that a
call failed without the peer's doing.

Facts about GLib that the model relies on: adding a descriptor zeroes its
received conditions, removing it does not, and poll then no longer updates them;
a message of level `G_LOG_LEVEL_ERROR` aborts the process; prepare, poll, check
and dispatch follow each other in one thread; check is called on every wake-up.
Sockets are blocking, as librpc creates them.

The server may stop for good (`destroyed`, `aborted`, or blocked with no
connection left to make), so deadlock is not checked in its runs.

| property | says |
|---|---|
| `WatchesServedClient` | the poll set holds the socket of the served client and no other |
| `BlocksOnlyByMixup` | the loop blocks in recv only while another connection is queued, and in accept only on stale conditions |
| `ServesInTurn` | RpcSource implements `SerialServer`: one client is served at a time, in the order of the connections, each until it has left, and only the client that is served gets answers, one for each request |
| `CallAnswered`, `NextClientServed` | liveness of the served and of the queued clients, unless the source was brought down by a call that failed of itself, or by the reset or the loss of the very client it served (`BroughtDown`) |

`NextClientServed` is what is left of the claim that one client cannot end the
service for another: it may, by a reset, but not by closing its end or by asking
for something that is not implemented (mutant `ServeUnknownFatal`).

Fairness: weak on every step of the loop; a blocking call is taken to return
when it can, with a result or an error.  Nothing makes a call fail that could
wait, so a mix-up may block the loop for good unless `BroughtDown` frees it.

`SerialServer` is the abstract specification, without descriptors, states or
rounds of the loop.  The refinement maps `served`, which keeps the socket of a
client that has left until the next is accepted, to `serving`; the listen queue
to `waiting`; a peer that has closed or reset to `gone`.  `NeverHangsUp` (a socket
is given up only after its peer has left) is a consequence that is proved by
itself.

### RcServer

What `RpcSource` takes for granted: that the source exists and its handlers have
their data.  A call of `rcrpc_create`, and the server, source and `irq_data` it
makes, go by the number of the call.  `CreateFails`, `ListenFails`, `SocketFails`
and `Create` are the ways through `rcrpc_create`; those that fail leave behind
what they have made, as the code does (`rcrpc.c:279`).  `Finalize` is
`rpc_source_finalize` with both clean-ups.  `Event` is the event manager calling
`irq_event_cb` with the address it holds; once that uses freed memory the model
ends.

Assumptions about the daemon, which is external: it may call `rcrpc_create` again,
also after a source is gone; the event manager holds one callback, the last one
registered; registering may fail, which `rpc_irq_init` only reports; rcrpc has no
way to remove it.  `listen` fails if another server of the process holds the
port.  `g_source_new` does not fail (GLib aborts).

| property | says |
|---|---|
| `HandlersHaveData` | an attached source's handlers use the data of its own server, alive, and no other data is alive: a server that holds the port keeps a second from overwriting the globals |
| `EventsFindData` | the callback uses freed data only while no server is attached, or if the event manager did not take the callback of the one that is |

### Net

Variables: the channels that exist, `struct net_data`, a synchronous call under
way (`pc`, `timeout`, `clock`, `slept`), datagrams waiting and when the first of
them arrived.  A tick of `clock` is a millisecond; `ReadSleep` is one tick in
`usleep(5000)`, and `ReadWake` is its return, at 5 ms or up to `MaxOverrun` later,
with the count of the loop, which takes the sleep for 5 ms in any case.
`WriteWait` and `WriteTimesOut` are the same for `select`.  `NetConfig` destroys before it creates and cuts the timeout to
16 bits.  Calls that return at once are the single action `CallAtOnce`.

Abstractions: an unused reference is positive, so `net_udp_create_channel`
returning 0 is not distinguished from a failure; datagrams of length zero are not
modelled; the content of datagrams is left out.  The time `net_udp_recv` takes is
part of the overrun of the sleep that follows.  How long a sleep may overrun is up
to the system: `MaxOverrun` may be any number.

| property | says |
|---|---|
| `ChannelsOwned` | channels that exist are those `net_data` refers to |
| `TimesOutInTime` | `-ETIMEDOUT` comes no earlier than the timeout, and late by no more than one period and what all rounds of the loop overran together: up to 13 108 times `MaxOverrun` for the longest timeout |
| `CallEnds` | liveness: the main loop gets control back |
| `SleepsUntilPacketOrTimesUp` (refuted) | a read that times out leaves no datagram that came before the timeout, as net.c:178 has it |

Fairness: a call under way goes on; time passes.

The comment at net.c:178 promises a read that sleeps "until either a packet has
arrived or time's up".  The loop does not look again after its last sleep: with a
timeout of 7 ms, a datagram that arrives after 5 or 6 is left in the queue and the
read times out at 10, even if no sleep overruns.

Another comment, at net.c:123, says that `net_config` "really only configures the
asynchronous channel".  `NetConfig` does what the code does instead: it also sets
the timeout of the synchronous calls, and does so even when it fails.

### Gpio

Variables: direction and level of each pin; per thread the locals of
`remote_gpio_set` between its two calls.  `SetBegin` is `gpio_get_mask` and the
change of the mask, `SetEnd` is `gpio_set_mask`; `SetBeginBroken` and `SetFails`
are the cases in which the backend does not know its pins or a call fails.
`BIT(i)` yields every outcome of an undefined shift.  Threads are those of one
application: the daemon serves one connection at a time, so two clients cannot
interleave here.  The model assumes that librpc serialises calls of two threads.

`WriteDisturbsOnly` says that a set changes the level of no pin but the one asked
for, pins that could not be read and pins that moved in between;
`MaskIsCurrent` is the invariant behind it.  Which pins become outputs is not
part of it: the code makes every pin an output.  `SuccessMeansSet` (refuted)
says that a set that succeeds has set the pin.

### ClientThread

Variables: where the application and the thread are, the client's memory,
`done`, the connection and its waiting events.  A broken connection makes
`rpc_client_poll` fail or report that there is something to read.  If `Faulty`,
polling may also fail while the connection works, as it does when a signal
interrupts it; any error but `-ETIMEDOUT` ends the thread.  `failed` records that,
and `ThreadServes` and `EventsProcessed` except it.

`NoUseAfterFree`, `OneLateBatch` and `ThreadServes` bound the life of the thread
from both sides; `ExitReturns` and `EventsProcessed` are liveness.  `remote_init`
does not see an error of `pthread_create`, which is positive: the model has a
client without a thread, for which the join of `remote_exit` is undefined
(`JoinUndefined`), and `ExitReturns` excepts it.  `done` is a plain
`bool` written by two threads: it is only ever set, and every access is separated
by an opaque call, so its accesses are single steps.  The system ends when the
application does, so deadlock is not checked.

Fairness: the thread and the application are scheduled; the application need
never call `remote_exit`.

### Shell

Variables: where `main` is; `argc` and `argv` of the client; the line typed, what
`fgets` has not read of it (`input`) and the piece in hand (`command`); `starved`
and `leaked` record a copy that failed and a word that was lost.  `Type` is the
user, `Read` is `readline_read` with `fgets`, `Parse` is `cli_parse_command`, `Exec`
is `cli_exec` up to the command, `CommandCrashes` a command that uses a word it
lacks, `Return` goes back to the prompt or to `cli_free`.  A word is lacking if its
copy failed, since commands count words but do not look for NULL, or if fewer
words were typed than the command uses uncounted (`Needs`): `voip-login` copies a
registrar, a user and a password, `modem-call` a number, whether they were given
or not.  What commands do with the words they have is in `Commands`.  Characters are classes: a blank, the two quotes, letters.

`ShellParse` and `Unquote` are folds that follow the code character by character,
with the flag for the open quote.  `Room` is the length `unquote` computes in its
first pass; the second pass starts with the quote the first one ended with, so a
quote left open gives a longer copy than was allocated: from there the model may
crash or go on.  `Words` is the reference: it takes a line apart into gaps, text
and quotations that reach to their closing quote, and says nothing of passes.

| property | says |
|---|---|
| `RunsWhatWasTyped` | the words of a command are the words of the line, if its quotes are closed and it fits the buffer |
| `OnlyKnownCrashes` | from the line to the use of its words, the client crashes only if a word or the vector could not be allocated, on a line without a word, on a quote left open, and in a command that uses more words than there are |
| `NothingLeaks` | every word is freed before the next line is parsed and at the end, but for words behind one that could not be copied |

Completion with readline, the parsing of options and the help text are left out:
they change nothing that the rest reads.  No fairness is assumed: the user need
not type.

### Handlers, Commands, RemoteCalls and LocalCalls

These modules are the other half of rcrpc: every command of `bin/commands.c`
(but `help`, and `irq-poll` and `gpio-*`, which are above), every function of the
library, and the handlers these functions call.

`Handlers` is a table.  A manager of the daemon keeps settings, sequences of
numbers under a key, and `Impl` tells for each handler which setting it changes
and which it reports.  What the handlers compute is in four operators: `Wire`
cuts an argument to its type in `protocol.xml`, `Refusal` is what a handler
refuses by itself, `ManagerArgs` is what it gives to its manager (enumerations
mapped, the port of a login fixed, the `force` of `audio_set_state` dropped), and
`Reported` is what it makes of the manager's answer.  `Commands` is the set
`Invocation` of what can be typed: the words a command accepts, the calls it
makes of them, those it rejects.

`RemoteCalls` runs one command at a time, as the client does: `Start`; for each
call `Send`, `Serve` or `ServeError`, and `Return` or `ReturnError`.  `Lose` is a
stub that fails, at any point: the daemon may or may not have run the handler by
then.  `Move` changes a setting without a command: a stream ends, a card is
pulled.  The variable `held` is history: the setting as it was when the handler
of the last call ran.

`LocalCalls` is the abstract specification: a command is a sequence of calls of
managers in the client's own process, with arguments in the client's own
enumerations.  A call that is in progress is *taken* or not yet; a command
succeeds only after every call was taken, in order, once.  A failing command may
have taken the call it failed in: this is what a remote call cannot do better,
and the only concession the abstract specification makes besides the loopback
command, which succeeds when the manager is busy.

Abstractions: strings and buffers are numbers, Booleans are 0 and 1; words name
controls, inputs and icons by their number; a manager that fails changes
nothing; librpc delivers a request and a reply at most once or reports an error.
Handlers no function of the library calls are left out, as is the transport of a
login, which this client always sends as zero.  Commands whose missing words the
code passes on as NULL (`voip-login` and `modem-call` with too few words) crash in
`Shell` and do not come this far.  Handlers call different managers and share no state, so
the commands are explored one or two in a row, not all in one long sequence.

| property | says |
|---|---|
| `ImplementsLocalCalls` | RemoteCalls implements LocalCalls |
| `ShownIsReal` | what is shown or returned is what the manager said during that very call, in the client's terms |
| `CheckedNumberStored` | a volume or brightness that a command accepts is stored as it was typed |
| `SameCardType` (refuted) | the type of a card means the same in the library and in the protocol, as card.c:30 has it |

The modem's two queries report "no" whatever the modem does (`modem.c:84` and
`modem.c:108`: the switches have no other case); `ShownIsReal` excepts them, as
the intention of the code is not written down.  `CheckedNumberStored` excepts
numbers beyond 32 bits: `audio-volume` keeps its number in an `int32_t` before it
looks at it, so 2^32 is accepted as 0.

No fairness is assumed: a call may wait for ever.  The system ends when no more
commands are given, so deadlock is not checked.

## Runs

| run | shows | bounds |
|---|---|---|
| `irq` | everything about Irq, safety and liveness (180 866 states) | two state sources, handset and I/O; two events each (one I/O): enough for an event before, during and after a read, and for two events merged into one; one failing read; one query outside the poll |
| `irq_mask_doc` | `MaskMeansPending` is refuted | as above |
| `source` | everything about RpcSource (230 349 states) | three connections, two queued: one served, one next and one behind, so stale conditions of the first meet the second and the third; every system call may fail |
| `server` | everything about RcServer (1 156 states, complete for its bound) | four calls of `rcrpc_create`: one that fails and leaves a server, one that attaches, one while that is attached, and one after its end |
| `net` | everything about Net (97 657 states) | timeouts 0, 5, 7 and 65543 (no time, whole periods, a part of one, cut to 7); sleeps that overrun by up to 3 ms, so that two of them add up to more than a period; three references; two datagrams |
| `net_read` | `SleepsUntilPacketOrTimesUp` is refuted | two timeouts, one datagram, no overruns |
| `gpio` | everything about Gpio (584 368 states) | two threads, two pins, indexes 0, 7 (no such pin) and 33 (undefined shift) |
| `gpio_result` | `SuccessMeansSet` is refuted | one thread |
| `thread` | everything about ClientThread (203 states, complete) | three waiting events; polls may fail |
| `shell` | everything about Shell (133 845 states) | one letter, lines of up to six characters and then up to two, a buffer of six: every nesting and order of two quotes, blanks and text, and a line that comes in two pieces; any allocation may fail; a command that counts its words and one that uses two uncounted |
| `calls` | everything about RemoteCalls (275 844 states) | widths of 4, 8 and 16 for 2^8, 2^16 and 2^32, which keeps their order; numbers 0, 3, 5 and 17, which fit each of them, two, one and none; two commands or moves of settings: a command after one that failed, a setting that moves before, during and after a call |
| `card_type` | `SameCardType` is refuted | one number |

The run that refutes a property shows a disagreement between the code and a
sentence of its documentation; the findings in `PROJECT.json` quote it.

## Proofs

Every `...Proofs` module proves its component's safety properties for all values
of the constants, from the assumptions named `...Assumption` in the component's
module (finite widths, disjoint names, a NULL that is no string; no bound is
assumed beyond being a number).  All follow one argument: `IInv` is shown to hold
initially and to be preserved by `[Next]_vars`, and implies the property.

* **Irq**: `IInv` adds `ReplySound`, what a reply in flight says about the state
  it was computed from; without it a change could be lost between reply and
  receipt.  `RelaysInOrder` is proved as a refinement: `Init` maps to the
  relay's initial state and every step to a step of the relay or a stutter.
* **RpcSource**: `IInv` adds which state goes with which phase, that the polled
  descriptor is that of the served client, and that every condition received
  still has its cause.  `NeverHangsUp` follows from it.
  `ServesInTurn` is proved as a refinement: an accept is `ServeNext`, a reply
  `Answer`, the peers' actions are those of the abstract clients, all other steps
  stutter.
* **RcServer**: `Strengthening` says that a server listens exactly while its
  source holds the port, that the globals belong to an attached source, and that
  the callback is that of the attached server or was not taken.
* **Net**: `CallSound` ties the remaining time, which only counts sleeps, to the
  clock: every round took a period and up to `MaxOverrun` more.
* **Gpio**: `MaskIsCurrent` is inductive once pins that move are recorded for
  every call under way; `WriteDisturbsOnly` follows for the step that writes.
* **ClientThread**: `DoneSound` relates `done`, the thread's place in its loop,
  polls that failed and the batches handled since `remote_exit` began.
* **RemoteCalls**: `StepInv` says that nothing is under way without a call to
  make, that a command with calls left has not returned, and that each call has
  the arguments its handler looks at.  The last is shown command by command
  (`InvocationWellFormed`), for all numbers that may be typed.  `RemoteIsLocal` is
  the refinement: the argument a handler gives to its manager is the one the
  client means (`MeantIsGiven`), so `Serve` is `Take`, the returns are `Advance`
  and the losses `Fail` or `Forgive`.
* **RemoteCalls, values** (second half of the module): `RealInv` adds that settings fit
  the enumeration or width they are converted from (`Fitting`), and that a reply
  is made from the setting `held` (`ReplyIsReal`); `TypeOK` and `ShownIsReal` follow.
  For `CheckedNumberStored`, each command that checks a number is shown to pass
  just that number on (`InvocationFaithful`), and `Stays` says that the setting
  keeps it until the command returns: no setting a command checks moves by itself.
* **Shell**: see below.

Only model-checked are liveness (the prover has no rule for ENABLED and weak
fairness): `CatchesUp`, `KeysDrained`, `GoesQuiet`, `CallAnswered`,
`NextClientServed`, `CallEnds`, `ExitReturns` and `EventsProcessed`; and the refuted
properties, by counterexample.

### The words of a line

That a client runs what was typed is a claim about two algorithms: the code's,
which goes over a line with a flag and over each word twice more, and `Words`, which
takes the line apart at its quotes.  `ReadingIsMeaning` states that they agree, for
every line of every alphabet.  Its proof has four parts.

1. *The code, one character at a time.*  `ShellParse` and `Look` are folds.  A fold
   over a sequence is the value of a function on sets of positions; `Table` names
   what is known of that function, `Tabled` shows that it exists and `TableGrows`
   what one more character does to it.  From this follow `LookGrows` and
   `ReadGrows`, the steps of `unquote` and of `shell_parse`.
2. *The two passes agree.*  `Balanced` is the invariant of `shell_parse`: the open
   quote of the line is the one `unquote` would find open in the word so far, and
   words that are done leave none open.  So the second look of `unquote` begins
   as the first did (`BalancedLooks`) and writes as much as was measured.
3. *The line, one piece at a time.*  `Means` relates what has been read to the
   pieces it consists of.  A gap, a letter and a quotation keep it
   (`MeansGap`, `MeansText`, `Quotation`), so it holds at the end of a line
   without an open quote (`ScanAll`).
4. *The words.*  `Listed` ranges of pieces between gaps are all the ranges `Words`
   collects (`RangesBetween`, `Overlap`), and there is one way to order them
   (`OneOrder`).

The library's induction theorems cannot be used, since they take an operator as a
parameter.  `Induction` takes a *set* of numbers that holds 0 and is closed under
successor; it follows from the well-foundedness of the numbers (`WFMin`).  Each
induction defines the set of the lengths for which its claim holds.

`IInv` of the state machine adds four things to the properties.  `InputInv`: of what
is still to be read only the last character may be a newline.  `LineInv`: of a line
that fits, `fgets` has left nothing, the whole, or just the newline it had no room
for, and the command is the line.  `WordsInv`: while a command is executed, `argv`
holds the words of `command`, NULL where a copy failed.  `VectorInv`: without a
failed copy, `argv` has its NULL at the end only, so `strfreev` frees all of it;
there is a vector unless it could not be allocated; and a command that runs is the
one its first word names.
Without `LineInv` a line of exactly the size of the buffer could be mistaken for a
longer one; without `WordsInv` an empty `argv` would have no known reason.

## Not modelled

* librpc's framing and threads, GLib beyond the facts above, the managers of the
  daemon, and the code rpcgen makes of `protocol.xml`: not part of this
  repository.  The models contain what rcrpc relies on.
* `rcrpc-client/events.c`: stubs that return `-ENOSYS`.
* Handlers that return `-ENOSYS` and handlers no function of the client library
  calls (`audio_enable_speakers`, `voip_get_last_contact`, `lldp_enable`, most of
  `tuner.c`, `system.c`): they have no state and no caller.
* In the client: completion with readline, options, help, logging and the layout
  of what is printed, `print_hex_dump` included.
* `tests`: an interactive program that plays streams and asserts nothing about
  rcrpc.

Hazards without a property are listed in `PROJECT.json` with the reason: they are
in the models, but no sentence of the repository says what should happen.
