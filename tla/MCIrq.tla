------------------------------- MODULE MCIrq -------------------------------
(* Small instances of Irq for TLC.                                         *)
EXTENDS Irq

CONSTANTS hook, voip

\* Two events of every state source, two keys, one input/output event.
MCMaxEvents == [s \in Source |-> IF s = IO THEN 1 ELSE 2]
=============================================================================
