------------------------------- MODULE Shell -------------------------------
(***************************************************************************)
(* The command line client's main program (bin/main.c): it takes a command *)
(* from its arguments, or reads lines, splits each into words as a shell   *)
(* does and runs the command the first word names.                         *)
(*                                                                         *)
(* Words are made in two steps, each of which looks at the line twice.     *)
(* shell_parse() finds where words end, once to count them and once to     *)
(* store them; unquote() copies a word without its quotes, after a first   *)
(* look at how long the copy will be.  Characters are classes: a blank, a  *)
(* quote of either kind, or one of Letter.  Of the commands themselves     *)
(* only what they do with words that are missing is modelled here: what    *)
(* they do with the others is the subject of RemoteCalls, the polling      *)
(* thread that of ClientThread.                                            *)
(***************************************************************************)
EXTENDS Naturals, SequencesExt

CONSTANTS
  Letter,       \* characters that are neither blank nor a quote
  CommandName,  \* names in the table of commands
  Needs,        \* Needs[name]: words, the name included, that a command uses uncounted
  Given,        \* command lines: what follows the options in the program's arguments
  MaxLength,    \* MaxLength[n]: bound on the characters of the n-th line typed
  LineSize,     \* size of the buffer for fgets (1024; readline has no limit)
  Faulty,       \* whether allocations may fail
  NULL          \* no string

Quote == {"double", "single"}
Char == Letter \cup Quote \cup {"blank"}
Line(n) == BoundedSeq(Char, n)

ASSUME ShellAssumption ==
  /\ Letter \cap (Quote \cup {"blank", "newline", "none"}) = {}
  /\ CommandName \subseteq Seq(Letter)
  /\ Needs \in [CommandName -> Nat]
  /\ Given \subseteq Seq(Seq(Char))
  /\ MaxLength \in Seq(Nat)
  /\ LineSize \in Nat \ {0, 1}
  /\ Faulty \in BOOLEAN
  /\ NULL \notin Seq(Char)

VARIABLES
  pc,       \* where main() is
  client,   \* cli->client: "none", "up" or "freed"
  argc,     \* cli->argc
  argv,     \* cli->argv, its terminating NULL included; <<>> if it points nowhere
  line,     \* the line typed last, NULL before the first
  input,    \* what fgets has not read of it yet
  command,  \* the line as readline_read returned it
  lines,    \* lines typed
  starved,  \* the copy of a word could not be allocated
  leaked    \* a word was lost without having been freed

typing == <<line, input, lines>>
words == <<argc, argv, starved, leaked>>
vars == <<pc, client, argc, argv, line, input, command, lines, starved, leaked>>

Init ==
  /\ pc = "start"
  /\ client = "none"
  /\ argc = 0
  /\ argv = <<>>
  /\ line = NULL
  /\ input = <<>>
  /\ command = <<>>
  /\ lines = 0
  /\ starved = FALSE
  /\ leaked = FALSE

-----------------------------------------------------------------------------
(* Splitting a line into words.                                            *)

\* The quote that is open after character c.
NextQuote(quote, c) ==
  IF c \notin Quote THEN quote
  ELSE IF quote = "none" THEN c
  ELSE IF quote = c THEN "none"
  ELSE quote

\* One look of unquote at a word: quotes that open or close are left out.
UnquoteStep(seen, c) ==
  LET quote == NextQuote(seen.quote, c)
  IN [quote |-> quote,
      text |-> IF quote = seen.quote THEN Append(seen.text, c) ELSE seen.text]

Look(quote, word) == FoldLeft(UnquoteStep, [quote |-> quote, text |-> <<>>], word)

\* Mutant: a quote of the other kind inside of quotes is not counted.
RoomWithoutInner(word) == Len(SelectSeq(word, LAMBDA c : c \notin Quote))

\* The first look finds the length to allocate (without the terminating zero).
Room(word) == Len(Look("none", word).text)

\* The second look copies.  It begins with the quote the first one ended with.
Unquote(word) == Look(Look("none", word).quote, word).text

ParseStep(seen, c) ==
  IF c = "blank" /\ seen.quote = "none"
    THEN IF seen.word = <<>> THEN seen
         ELSE [seen EXCEPT !.words = Append(@, seen.word), !.word = <<>>]
    ELSE [seen EXCEPT !.quote = NextQuote(@, c), !.word = Append(@, c)]

\* shell_parse: the words with their quotes.  A blank outside of quotes ends a
\* word, blanks that follow it are skipped.
ShellParse(string) ==
  LET seen == FoldLeft(ParseStep, [quote |-> "none", word |-> <<>>, words |-> <<>>], string)
  IN IF seen.word = <<>> THEN seen.words ELSE Append(seen.words, seen.word)

\* What cannot be reached by strfreev, which stops at the first NULL.
Unreachable(strv) ==
  \E i, j \in DOMAIN strv : i < j /\ strv[i] = NULL /\ strv[j] # NULL

\* strfreev, and the vector that replaces the one freed
Replace(strv, n) ==
  /\ leaked' = (leaked \/ Unreachable(argv))
  /\ argv' = strv
  /\ argc' = n

\* Mutant: the vector has no room for the NULL at its end.
CopiesUnterminated(copy, failed) ==
  [i \in 1..Len(copy) |-> IF i \in failed THEN NULL ELSE copy[i]]

\* A vector of copies, of which some could not be allocated.
Copies(copy, failed) ==
  [i \in 1..Len(copy) + 1 |-> IF i \in failed \cup {Len(copy) + 1} THEN NULL ELSE copy[i]]

Failures(n) == IF Faulty THEN SUBSET (1..n) ELSE {{}}

-----------------------------------------------------------------------------
(* The program.                                                            *)

\* --help or --version
Inform ==
  /\ pc = "start"
  /\ pc' = "done"
  /\ UNCHANGED <<client, words, typing, command>>

\* cli_parse_command_line: what follows the options becomes the command.
ParseCommandLine(given) ==
  /\ pc = "start"
  /\ pc' = "connect"
  /\ argc' = Len(given)
  /\ \/ \E failed \in Failures(Len(given)) :
          /\ argv' = IF given = <<>> THEN <<>> ELSE Copies(given, failed)
          /\ starved' = (failed # {})
     \/ Faulty /\ given # <<>> /\ argv' = <<>> /\ starved' = TRUE
  /\ UNCHANGED <<client, leaked, typing, command>>

\* cli_free: remote_exit, unless there is no client, and strfreev
CliFree ==
  /\ client' = IF client = "up" THEN "freed" ELSE client
  /\ Replace(<<>>, 0)
  /\ pc' = "done"

\* cli_init
Connect ==
  /\ pc = "connect"
  /\ client' = "up"
  /\ pc' = IF argc = 0 THEN "prompt" ELSE "exec"
  /\ UNCHANGED <<words, typing, command>>

ConnectFails ==
  /\ pc = "connect"
  /\ CliFree
  /\ UNCHANGED <<starved, typing, command>>

\* The user types a line.
Type ==
  /\ pc = "prompt"
  /\ input = <<>>
  /\ lines < Len(MaxLength)
  /\ lines' = lines + 1
  /\ line' \in Line(MaxLength[lines + 1])
  /\ input' = Append(line', "newline")
  /\ UNCHANGED <<pc, client, words, command>>

\* Mutant: the newline is taken not to need room.
ChunkSizeShort == LineSize - 2

\* fgets keeps one character for the terminating zero.
ChunkSize == LineSize - 1

WithoutNewline(chunk) ==
  IF Last(chunk) = "newline" THEN Front(chunk) ELSE chunk

\* readline_read: fgets takes no more than fits its buffer and leaves the rest
\* for the next time; an empty line is not parsed.
Read ==
  /\ pc = "prompt"
  /\ input # <<>>
  /\ LET n == Min({ChunkSize, Len(input)}) IN
       /\ command' = WithoutNewline(SubSeq(input, 1, n))
       /\ input' = SubSeq(input, n + 1, Len(input))
  /\ pc' = IF command' = <<>> THEN "prompt" ELSE "parse"
  /\ UNCHANGED <<client, words, line, lines>>

\* readline_read returns NULL at the end of the input, or if strdup fails.
EndOfInput ==
  /\ pc = "prompt"
  /\ input = <<>> \/ Faulty
  /\ CliFree
  /\ UNCHANGED <<starved, typing, command>>

\* Mutant: the previous words are not freed.
ParseKeepWords ==
  /\ pc = "parse"
  /\ LET raw == ShellParse(command) IN
       \E failed \in Failures(Len(raw)) :
         /\ leaked' = (leaked \/ argv # <<>>)
         /\ argv' = Copies([i \in 1..Len(raw) |-> Unquote(raw[i])], failed)
         /\ argc' = Len(raw)
         /\ starved' = (starved \/ failed # {})
         /\ pc' = "exec"
  /\ UNCHANGED <<client, typing, command>>

\* cli_parse_command: the old words go, the new ones are counted, then copied.
\* A copy that does not fit what was allocated for it may do any harm.
Parse ==
  /\ pc = "parse"
  /\ LET raw == ShellParse(command) IN
       \E failed \in Failures(Len(raw)) :
         /\ Replace(Copies([i \in 1..Len(raw) |-> Unquote(raw[i])], failed), Len(raw))
         /\ starved' = (starved \/ failed # {})
         /\ \/ pc' = "exec"
            \/ /\ \E i \in DOMAIN raw \ failed : Len(Unquote(raw[i])) > Room(raw[i])
               /\ pc' = "crashed"
  /\ UNCHANGED <<client, typing, command>>

\* Without memory for the vector the command is dropped.
ParseFails ==
  /\ Faulty
  /\ pc = "parse"
  /\ Replace(<<>>, 0)
  /\ pc' = "prompt"
  /\ UNCHANGED <<client, starved, typing, command>>

\* cli_exec: strcmp() is given the first word, which may be missing.
Exec ==
  /\ pc = "exec"
  /\ pc' = CASE argv = <<>> \/ (argv # <<>> /\ argv[1] = NULL) -> "crashed"
             [] argv # <<>> /\ argv[1] \in CommandName -> "running"
             [] OTHER -> "return"
  /\ UNCHANGED <<client, words, typing, command>>

\* A command hands a word it lacks to strcmp, strtoul, strncpy or the like.  It
\* counts its words first, as a rule, but not whether they could be copied; voip-login
\* uses three words and modem-call one, even if there are fewer.
CommandCrashes ==
  /\ pc = "running"
  /\ (\E i \in 2..argc : argv[i] = NULL) \/ argc < Needs[argv[1]]
  /\ pc' = "crashed"
  /\ UNCHANGED <<client, words, typing, command>>

\* The command returns, of which one that lacks words is also capable: it may give up
\* before it needs them.  A line is followed by the next, arguments by the end.
Return ==
  /\ pc \in {"running", "return"}
  /\ IF line # NULL
       THEN pc' = "prompt" /\ UNCHANGED <<client, words>>
       ELSE CliFree /\ UNCHANGED starved
  /\ UNCHANGED <<typing, command>>

Next ==
  \/ Inform
  \/ \E given \in Given : ParseCommandLine(given)
  \/ Connect
  \/ ConnectFails
  \/ Type
  \/ Read
  \/ EndOfInput
  \/ Parse
  \/ ParseFails
  \/ Exec
  \/ CommandCrashes
  \/ Return

Spec == Init /\ [][Next]_vars

-----------------------------------------------------------------------------
(* What a line means, piece by piece instead of character by character.    *)

Gap == [kind |-> "gap", text |-> <<>>]
Open == [kind |-> "open", text |-> <<>>]
Text(text) == [kind |-> "text", text |-> text]

\* A line is a sequence of blanks, letters and quotations, each of which reaches
\* to the next quote of its kind.
Pieces(string) ==
  LET from[i \in 1..Len(string) + 1] ==
        LET closing == {j \in i + 1..Len(string) : string[j] = string[i]} IN
        IF i > Len(string) THEN <<>>
        ELSE IF string[i] = "blank" THEN <<Gap>> \o from[i + 1]
        ELSE IF string[i] \notin Quote THEN <<Text(<<string[i]>>)>> \o from[i + 1]
        ELSE IF closing = {} THEN <<Open>>
        ELSE <<Text(SubSeq(string, i + 1, Min(closing) - 1))>> \o from[Min(closing) + 1]
  IN from[1]

Terminated(string) == Open \notin ToSet(Pieces(string))

\* Its words are what stands between gaps.
Words(string) ==
  LET piece == Pieces(string)
      Solid(r) == r[1] <= r[2] /\ \A k \in r[1]..r[2] : piece[k] # Gap
      word == {r \in (DOMAIN piece) \X (DOMAIN piece) :
                 /\ Solid(r)
                 /\ r[1] > 1 => ~Solid(<<r[1] - 1, r[2]>>)
                 /\ r[2] < Len(piece) => ~Solid(<<r[1], r[2] + 1>>)}
      order == CHOOSE s \in SetToSeqs(word) : \A i, j \in DOMAIN s : i < j => s[i][1] < s[j][1]
  IN [n \in DOMAIN order |->
        FlattenSeq([k \in 1..order[n][2] + 1 - order[n][1] |-> piece[order[n][1] + k - 1].text])]

-----------------------------------------------------------------------------
(* Properties.                                                             *)

\* Types; the vector of words has argc entries and a NULL behind them.
TypeOK ==
  /\ pc \in {"start", "connect", "prompt", "parse", "exec", "running", "return", "done", "crashed"}
  /\ client \in {"none", "up", "freed"}
  /\ argc \in Nat
  /\ argv \in Seq(Seq(Char) \cup {NULL})
  /\ argv # <<>> => Len(argv) = argc + 1 /\ Last(argv) = NULL
  /\ line \in Seq(Char) \cup {NULL}
  /\ input \in Seq(Char \cup {"newline"})
  /\ command \in Seq(Char)
  /\ lines \in Nat
  /\ starved \in BOOLEAN
  /\ leaked \in BOOLEAN

\* The command that is run has the words the user typed: blanks separate words,
\* quotes protect blanks and each other and disappear, empty words count.  It
\* holds for every line whose quotes are closed and that fits the buffer of
\* fgets; the rest of a longer line is run as a command of its own.
RunsWhatWasTyped ==
  /\ pc \in {"exec", "running"}
  /\ line # NULL /\ Len(line) < LineSize /\ Terminated(line)
  => LET typed == Words(line) IN
       /\ argc = Len(typed)
       /\ \A i \in 1..argc : argv[i] = typed[i] \/ (starved /\ argv[i] = NULL)

\* From the line to the command's use of its words the client crashes for four
\* reasons only: a word of this line, or the vector, could not be allocated; the line
\* has no word (cli_exec compares argv[0] all the same); a quote is left open, which
\* makes the second look of unquote find more than the first; or the command uses
\* more words than there are.  No other line overruns the copy of a word, and none
\* makes cli_exec look where there is nothing.
OnlyKnownCrashes ==
  pc = "crashed" =>
    \/ starved /\ (argv = <<>> \/ \E i \in 1..argc : argv[i] = NULL)
    \/ command # <<>> /\ Words(command) = <<>>
    \/ ~Terminated(command)
    \/ argv # <<>> /\ argv[1] \in CommandName /\ argc < Needs[argv[1]]

\* Every word is freed before the next line's words are made and at the end, and
\* so is the client; only words behind one that could not be allocated are lost.
NothingLeaks ==
  /\ leaked => starved
  /\ pc = "done" => argv = <<>> /\ client # "up"
=============================================================================
