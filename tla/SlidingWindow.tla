---------------------------- MODULE SlidingWindow ----------------------------
(***************************************************************************)
(* What a rate limiter promises its clients: a request is admitted exactly *)
(* when fewer than PerMinute were admitted in the Window before it.  A     *)
(* refused request does not count, and a restart forgets.                  *)
(***************************************************************************)
EXTENDS Integers, Sequences, FiniteSets

CONSTANTS Clients, PerMinute, Window

VARIABLES now,      \* the clock
          admitted, \* when the requests of each client were admitted
          verdict   \* when each client was last answered, and how

Nothing == [c \in Clients |-> <<>>]
Nobody  == [c \in Clients |-> [at |-> 0, is |-> "none"]]

Recent(c) == {i \in 1..Len(admitted[c]) : now - admitted[c][i] < Window}

Tell(c, answer) == verdict' = [verdict EXCEPT ![c] = [at |-> now, is |-> answer]]

LimiterInit == now = 0 /\ admitted = Nothing /\ verdict = Nobody

TimePasses == now' = now + 1 /\ UNCHANGED <<admitted, verdict>>

Admit(c) == /\ Cardinality(Recent(c)) < PerMinute
            /\ admitted' = [admitted EXCEPT ![c] = Append(@, now)]
            /\ Tell(c, "admitted")
            /\ UNCHANGED now

Refuse(c) == /\ Cardinality(Recent(c)) >= PerMinute
             /\ Tell(c, "rate_limited")
             /\ UNCHANGED <<now, admitted>>

\* Turned away for another reason, and not counted.
Ignore(c) == Tell(c, "too_large") /\ UNCHANGED <<now, admitted>>

Forget == admitted' = Nothing /\ UNCHANGED <<now, verdict>>

LimiterNext == \/ TimePasses \/ Forget
               \/ \E c \in Clients : Admit(c) \/ Refuse(c) \/ Ignore(c)

Spec == LimiterInit /\ [][LimiterNext]_<<now, admitted, verdict>>
=============================================================================
