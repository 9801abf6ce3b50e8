----------------------------- MODULE OrderedLog -----------------------------
(***************************************************************************)
(* What a deploy's logger promises: the API has the lines its handler has  *)
(* written up to some point, each of them once and in order, and never     *)
(* loses one again.  No batch, attempt, token or lost answer is mentioned: *)
(* ControlPlane has them all and implements this module.                   *)
(***************************************************************************)
EXTENDS Naturals, Sequences

CONSTANT MaxLines   \* bound: lines a handler writes

VARIABLES written, log

vars == <<written, log>>

Lines(n) == [i \in 1..n |-> i]

Init == written = 0 /\ log = <<>>

Write == written < MaxLines /\ written' = written + 1 /\ UNCHANGED log

Receive ==
  /\ \E n \in 1..written : n > Len(log) /\ log' = Lines(n)
  /\ UNCHANGED written

Next == Write \/ Receive

Spec == Init /\ [][Next]_vars
=============================================================================
