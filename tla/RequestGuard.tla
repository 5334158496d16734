----------------------------- MODULE RequestGuard -----------------------------
(***************************************************************************)
(* RequestGuardMiddleware of app/core/middleware.py: per client address, a *)
(* deque of the times of the requests let through.  dispatch runs without  *)
(* an await up to its verdict, so one request is one step.  The clock is   *)
(* time.monotonic() in whole ticks.                                        *)
(***************************************************************************)
EXTENDS Integers, Sequences

CONSTANTS
  Clients,    \* client addresses; requests without one share "unknown"
  PerMinute,  \* rate_limit_per_minute
  Window,     \* the 60 seconds
  MaxBytes,   \* max_request_bytes
  Lengths,    \* bound: the lengths requests declare; -1: none, or no number
  MaxTime     \* bound: the time that passes

ASSUME GuardAssumption ==
  /\ PerMinute \in Nat /\ Window \in Nat \ {0}
  /\ MaxBytes \in Nat /\ Lengths \subseteq Int /\ MaxTime \in Nat

VARIABLES
  now,      \* the clock
  hits,     \* _hits: the bucket of each client
  log,      \* history: when each client was let through since the start
  verdict   \* what each client was last told, and when

vars == <<now, hits, log, verdict>>

Verdicts == {"none", "admitted", "rate_limited", "too_large"}

\* No bucket outgrows the limit.
TypeOK == /\ now \in 0..MaxTime
          /\ hits \in [Clients -> Seq(0..MaxTime)]
          /\ \A c \in Clients : Len(hits[c]) <= PerMinute
          /\ log \in [Clients -> Seq(0..MaxTime)]
          /\ verdict \in [Clients -> [at : 0..MaxTime, is : Verdicts]]

Init == /\ now = 0
        /\ hits = [c \in Clients |-> <<>>]
        /\ log = [c \in Clients |-> <<>>]
        /\ verdict = [c \in Clients |-> [at |-> 0, is |-> "none"]]

Tick == now < MaxTime /\ now' = now + 1 /\ UNCHANGED <<hits, log, verdict>>

Answer(c, answer) == verdict' = [verdict EXCEPT ![c] = [at |-> now, is |-> answer]]

\* A declared length over the limit: 413 before anything is counted.
TooLarge(c) == /\ \E length \in Lengths : length > MaxBytes
               /\ Answer(c, "too_large")
               /\ UNCHANGED <<now, hits, log>>

\* Mutant: a hit of exactly one window ago stays.
StaleAfterWindow(bucket, k) ==
  /\ \A i \in 1..k : now - bucket[i] > Window
  /\ k < Len(bucket) => now - bucket[k + 1] <= Window

\* The while loop pops the first k hits of the bucket.
Stale(bucket, k) ==
  /\ \A i \in 1..k : now - bucket[i] >= Window
  /\ k < Len(bucket) => now - bucket[k + 1] < Window

\* Mutant: the request is counted before the bucket is measured.
LimitCountingFirst(c) ==
  /\ \E length \in Lengths : length <= MaxBytes
  /\ \E k \in 0..Len(hits[c]) :
       /\ Stale(hits[c], k)
       /\ hits' = [hits EXCEPT ![c] = Append(SubSeq(@, k + 1, Len(@)), now)]
       /\ \/ /\ Len(hits'[c]) > PerMinute
             /\ Answer(c, "rate_limited")
             /\ UNCHANGED log
          \/ /\ Len(hits'[c]) <= PerMinute
             /\ log' = [log EXCEPT ![c] = Append(@, now)]
             /\ Answer(c, "admitted")
  /\ UNCHANGED now

\* The stale hits are popped; at the limit the request is refused and does not
\* count, below it its time is appended and it goes on.
Limit(c) ==
  /\ \E length \in Lengths : length <= MaxBytes
  /\ \E k \in 0..Len(hits[c]) :
       /\ Stale(hits[c], k)
       /\ LET bucket == SubSeq(hits[c], k + 1, Len(hits[c])) IN
          \/ /\ Len(bucket) >= PerMinute
             /\ hits' = [hits EXCEPT ![c] = bucket]
             /\ Answer(c, "rate_limited")
             /\ UNCHANGED log
          \/ /\ Len(bucket) < PerMinute
             /\ hits' = [hits EXCEPT ![c] = Append(bucket, now)]
             /\ log' = [log EXCEPT ![c] = Append(@, now)]
             /\ Answer(c, "admitted")
  /\ UNCHANGED now

\* The process is restarted with empty buckets.
Restart == /\ hits' = [c \in Clients |-> <<>>]
           /\ log' = [c \in Clients |-> <<>>]
           /\ UNCHANGED <<now, verdict>>

Next == Tick \/ Restart \/ \E c \in Clients : TooLarge(c) \/ Limit(c)

Spec == Init /\ [][Next]_vars

-----------------------------------------------------------------------------
(***************************************************************************)
(* Properties.                                                             *)
(***************************************************************************)

\* The deque that forgets is as good as the whole history: a request is let
\* through exactly when the client had fewer than PerMinute in the last Window,
\* with the one of exactly a Window ago no longer counted, refused requests
\* never counted, and a client never slowed by another.
Limiter == INSTANCE SlidingWindow WITH admitted <- log
ImplementsSlidingWindow == Limiter!Spec
=============================================================================
