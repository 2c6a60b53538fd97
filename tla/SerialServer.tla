---------------------------- MODULE SerialServer ----------------------------
(***************************************************************************)
(* What the daemon promises to its clients: one is served at a time, in    *)
(* the order in which they connected, each until it leaves.  Only the      *)
(* client that is served gets answers, one for each request.               *)
(***************************************************************************)
EXTENDS Sequences

CONSTANTS
  Conn,    \* connections
  NoConn   \* no connection

VARIABLES
  known,    \* connections that have been made
  waiting,  \* connections that wait for their turn
  serving,  \* the connection being served, also after its client has left
  gone,     \* connections whose client has left
  asking    \* connections whose client waits for an answer

vars == <<known, waiting, serving, gone, asking>>

Init ==
  /\ known = {}
  /\ waiting = <<>>
  /\ serving = NoConn
  /\ gone = {}
  /\ asking = {}

Arrive(c) ==
  /\ c \notin known
  /\ known' = known \cup {c}
  /\ waiting' = Append(waiting, c)
  /\ UNCHANGED <<serving, gone, asking>>

Ask(c) ==
  /\ c \in known \ (gone \cup asking)
  /\ asking' = asking \cup {c}
  /\ UNCHANGED <<known, waiting, serving, gone>>

Depart(c) ==
  /\ c \in known
  /\ gone' = gone \cup {c}
  /\ UNCHANGED <<known, waiting, serving, asking>>

\* The next client has its turn once the one before has left.
ServeNext ==
  /\ waiting # <<>>
  /\ serving = NoConn \/ serving \in gone
  /\ serving' = Head(waiting)
  /\ waiting' = Tail(waiting)
  /\ UNCHANGED <<known, gone, asking>>

Answer ==
  /\ serving \in asking
  /\ asking' = asking \ {serving}
  /\ UNCHANGED <<known, waiting, serving, gone>>

Next ==
  \/ \E c \in Conn : Arrive(c) \/ Ask(c) \/ Depart(c)
  \/ ServeNext
  \/ Answer

Spec == Init /\ [][Next]_vars
=============================================================================
