------------------------------- MODULE Channel -------------------------------
(***************************************************************************)
(* What one direction of the connection promises: messages arrive whole and *)
(* in the order they were written, until one side gives up. The modules of  *)
(* the debug session are written over this channel.                         *)
(***************************************************************************)
EXTENDS Sequences

CONSTANT Messages

VARIABLES
  queue, \* written, not yet read
  got,   \* read
  gone   \* the reader has given up

vars == <<queue, got, gone>>

Init == queue = << >> /\ got = << >> /\ gone = FALSE

Write == ~gone /\ \E msg \in Messages : queue' = Append(queue, msg) /\ UNCHANGED <<got, gone>>
Read == ~gone /\ queue # << >> /\ queue' = Tail(queue) /\ got' = Append(got, Head(queue)) /\ UNCHANGED gone
GiveUp == gone' = TRUE /\ UNCHANGED <<queue, got>>

Next == Write \/ Read \/ GiveUp

Spec == Init /\ [][Next]_vars
=============================================================================
