---------------------------- MODULE MCNbdService ----------------------------
(* The imagemount process with short queues and few signals.               *)
EXTENDS NbdService

\* Without a mount and with one, where the kernel may shut the socket down
\* early and where memory may be short, and with one that may not be started
\* or ended.
FourSettings ==
    {[mount |-> FALSE, early |-> FALSE, exhausted |-> TRUE,  nofork |-> FALSE],
     [mount |-> FALSE, early |-> TRUE,  exhausted |-> FALSE, nofork |-> FALSE],
     [mount |-> TRUE,  early |-> TRUE,  exhausted |-> TRUE,  nofork |-> FALSE],
     [mount |-> TRUE,  early |-> FALSE, exhausted |-> FALSE, nofork |-> TRUE]}
=============================================================================
