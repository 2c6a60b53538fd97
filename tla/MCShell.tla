------------------------------ MODULE MCShell ------------------------------
(* Small instances of Shell for TLC.                                       *)
EXTENDS Shell

\* A command with a name of one letter counts its words, one with a name of two
\* uses two words besides.
MCCommandName == {<<c>> : c \in Letter} \cup {<<c, c>> : c \in Letter}
MCNeeds == [name \in MCCommandName |-> IF Len(name) = 1 THEN 1 ELSE 3]

\* The program is started without a command, with one, with one that needs more
\* words, and with a word of none.
MCGiven ==
  {<<>>, <<<<>>>>} \cup {<<<<c>>, <<"blank">>>> : c \in Letter} \cup {<<<<c, c>>>> : c \in Letter}

\* A line one character longer than the buffer takes, then a short one.
MCMaxLength == <<6, 2>>
=============================================================================
