------------------------------ MODULE EventLog ------------------------------
(***************************************************************************)
(* What the event stream of a run promises: a log that only grows, whose   *)
(* k-th entry is numbered k, and a follower that at any time holds the     *)
(* entries up to some number and no others.                                *)
(***************************************************************************)
EXTENDS Naturals, Sequences

VARIABLES log, received

Prefix(n) == {log[i] : i \in 1..n}

Init == log = <<>> /\ received = {}

Publish == /\ UNCHANGED received
           /\ Len(log') = Len(log) + 1
           /\ log'[Len(log')].sequence = Len(log')
           /\ log' = Append(log, log'[Len(log')])

Follow == /\ UNCHANGED log
          /\ \E n \in 1..Len(log) : received' = received \union Prefix(n)

Next == Publish \/ Follow

Spec == Init /\ [][Next]_<<log, received>>
=============================================================================
