----------------------------- MODULE StateRelay -----------------------------
(***************************************************************************)
(* What the interrupt channel promises about the state of a source: the    *)
(* client sees some of the source's versions, each after it has come about *)
(* and in the order in which they came about.  Versions may be skipped.    *)
(* Only a source for which an empty report reads like a state may mislead. *)
(***************************************************************************)
EXTENDS Integers

CONSTANTS
  Level,       \* the sources
  Misleading,  \* the sources for which an empty report reads like a state
  Zeroed       \* that state

VARIABLES
  level,   \* level[s]: current version of s
  seen     \* seen[s]: what the client takes for it

Init ==
  /\ level = [s \in Level |-> 0]
  /\ seen = [s \in Level |-> 0]

Change(s) ==
  /\ level' = [level EXCEPT ![s] = @ + 1]
  /\ UNCHANGED seen

\* The client is told a version between the last one it saw and the current one.
Observe(s) ==
  /\ \E v \in seen[s]..level[s] : seen' = [seen EXCEPT ![s] = v]
  /\ UNCHANGED level

Mislead(s) ==
  /\ s \in Misleading
  /\ seen' = [seen EXCEPT ![s] = Zeroed]
  /\ UNCHANGED level

Next == \E s \in Level : Change(s) \/ Observe(s) \/ Mislead(s)

Spec == Init /\ [][Next]_<<level, seen>>
=============================================================================
