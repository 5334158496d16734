-------------------------- MODULE RequestGuardProofs --------------------------
(***************************************************************************)
(* Proofs about RequestGuard for any clients, limit, window and lengths.   *)
(* The argument: a bucket is the tail of the client's history, and what it *)
(* has dropped is at least a window old; as times never decrease, what is  *)
(* left after the while loop is exactly what is recent.                    *)
(***************************************************************************)
EXTENDS RequestGuard, FiniteSetTheorems, TLAPS

\* The history of a client is in the order of time.
InOrder(times) == \A i, j \in 1..Len(times) : i <= j => times[i] <= times[j]

\* bucket is what is left of times without the first k.
TailFrom(bucket, times, k) ==
  /\ Len(bucket) = Len(times) - k
  /\ \A j \in 1..Len(bucket) : bucket[j] = times[k + j]

\* All that a bucket has dropped is stale.
Remembers(c) == \E k \in 0..Len(log[c]) :
  /\ TailFrom(hits[c], log[c], k)
  /\ \A i \in 1..k : now - log[c][i] >= Window

\* Of any PerMinute + 1 requests let through in a row, the first and the last
\* are at least a window apart: no client gets more than the limit through in
\* any window, wherever the window begins (middleware.py:43-49).
NoBurst == \A c \in Clients : \A i \in 1..Len(log[c]) :
  i + PerMinute \in 1..Len(log[c]) => log[c][i + PerMinute] - log[c][i] >= Window

IInv == /\ TypeOK
        /\ \A c \in Clients :
             /\ InOrder(log[c])
             /\ \A i \in 1..Len(log[c]) : log[c][i] <= now
             /\ Remembers(c)
        /\ NoBurst

-----------------------------------------------------------------------------
\* What the type invariant says of one client.
LEMMA ClientTypes ==
  ASSUME TypeOK, NEW c \in Clients
  PROVE  /\ log[c] \in Seq(0..MaxTime) /\ hits[c] \in Seq(0..MaxTime)
         /\ Len(log[c]) \in Nat /\ Len(hits[c]) \in Nat
         /\ now \in Nat /\ PerMinute \in Nat /\ Window \in Nat \ {0}
         /\ \A i \in 1..Len(log[c]) : log[c][i] \in Nat
         /\ \A i \in 1..Len(hits[c]) : hits[c][i] \in Nat
<1>1. log[c] \in Seq(0..MaxTime) /\ hits[c] \in Seq(0..MaxTime) /\ now \in 0..MaxTime
  BY DEF TypeOK
<1>2. Len(log[c]) \in Nat /\ Len(hits[c]) \in Nat
  BY <1>1
<1>3. \A T : \A s \in Seq(T) : \A i \in 1..Len(s) : s[i] \in T
  OBVIOUS
<1>4. \A t \in 0..MaxTime : t \in Nat
  BY GuardAssumption
<1>5. /\ \A i \in 1..Len(log[c]) : log[c][i] \in Nat
      /\ \A i \in 1..Len(hits[c]) : hits[c][i] \in Nat
  BY <1>1, <1>3, <1>4
<1>. QED  BY <1>1, <1>2, <1>4, <1>5, GuardAssumption

\* What is left of a sequence without its first n elements.
LEMMA WithoutFirst ==
  ASSUME NEW T, NEW s \in Seq(T), NEW n \in 0..Len(s)
  PROVE  /\ SubSeq(s, n + 1, Len(s)) \in Seq(T)
         /\ Len(SubSeq(s, n + 1, Len(s))) = Len(s) - n
         /\ \A j \in 1..(Len(s) - n) : SubSeq(s, n + 1, Len(s))[j] = s[n + j]
OBVIOUS

\* Popping the first n of a bucket leaves a tail, of the history too.
LEMMA TailOfTail ==
  ASSUME NEW T, NEW times \in Seq(T), NEW bucket \in Seq(T),
         NEW k \in 0..Len(times), TailFrom(bucket, times, k),
         NEW n \in 0..Len(bucket)
  PROVE  /\ k + n \in 0..Len(times)
         /\ SubSeq(bucket, n + 1, Len(bucket)) \in Seq(T)
         /\ TailFrom(SubSeq(bucket, n + 1, Len(bucket)), times, k + n)
<1> DEFINE rest == SubSeq(bucket, n + 1, Len(bucket))
<1>1. Len(rest) = Len(bucket) - n /\ rest \in Seq(T)
  BY WithoutFirst
<1>2. \A j \in 1..Len(rest) : rest[j] = bucket[n + j]
  BY <1>1, WithoutFirst
<1>3. Len(times) \in Nat /\ Len(bucket) \in Nat
  OBVIOUS
<1>4. k + n \in 0..Len(times)
  BY <1>3 DEF TailFrom
<1>5. ASSUME NEW j \in 1..Len(rest) PROVE rest[j] = times[(k + n) + j]
  <2>1. n + j \in 1..Len(bucket)
    BY <1>1, <1>3
  <2>2. bucket[n + j] = times[k + (n + j)]
    BY <2>1 DEF TailFrom
  <2>. QED  BY <2>2, <1>2, <1>3
<1>. QED  BY <1>1, <1>3, <1>4, <1>5 DEF TailFrom

\* After the while loop the bucket is what is recent of the history.
LEMMA PrunedIsRecent ==
  ASSUME IInv, NEW c \in Clients, NEW n \in 0..Len(hits[c]), Stale(hits[c], n)
  PROVE  \E k \in 0..Len(log[c]) :
           /\ TailFrom(SubSeq(hits[c], n + 1, Len(hits[c])), log[c], k)
           /\ \A i \in 1..k : now - log[c][i] >= Window
           /\ \A i \in (k + 1)..Len(log[c]) : now - log[c][i] < Window
<1>1. PICK k \in 0..Len(log[c]) :
        /\ TailFrom(hits[c], log[c], k)
        /\ \A i \in 1..k : now - log[c][i] >= Window
  BY DEF IInv, Remembers
<1>2. /\ log[c] \in Seq(0..MaxTime) /\ hits[c] \in Seq(0..MaxTime)
      /\ Len(log[c]) \in Nat /\ Len(hits[c]) \in Nat
      /\ now \in Nat /\ Window \in Nat
      /\ \A i \in 1..Len(log[c]) : log[c][i] \in Nat
      /\ \A i \in 1..Len(hits[c]) : hits[c][i] \in Nat
  BY ClientTypes DEF IInv
<1>3. /\ k + n \in 0..Len(log[c])
      /\ TailFrom(SubSeq(hits[c], n + 1, Len(hits[c])), log[c], k + n)
  BY <1>1, <1>2, TailOfTail
<1>4. ASSUME NEW i \in 1..(k + n) PROVE now - log[c][i] >= Window
  <2>1. CASE i <= k
    BY <2>1, <1>1, <1>2
  <2>2. CASE i > k
    <3>1. i - k \in 1..n /\ i - k \in 1..Len(hits[c])
      BY <2>2, <1>2
    <3>2. hits[c][i - k] = log[c][k + (i - k)]
      BY <3>1, <1>1 DEF TailFrom
    <3>3. hits[c][i - k] = log[c][i]
      BY <3>2, <1>2
    <3>. QED  BY <3>1, <3>3 DEF Stale
  <2>. QED  BY <2>1, <2>2, <1>2
<1>5. ASSUME NEW i \in (k + n + 1)..Len(log[c]) PROVE now - log[c][i] < Window
  <2>1. n < Len(hits[c]) /\ n + 1 \in 1..Len(hits[c])
    BY <1>1, <1>2 DEF TailFrom
  <2>2. hits[c][n + 1] = log[c][k + (n + 1)]
    BY <2>1, <1>1 DEF TailFrom
  <2>3. k + (n + 1) \in 1..Len(log[c]) /\ k + (n + 1) <= i
    BY <1>2
  <2>4. log[c][k + (n + 1)] <= log[c][i]
    BY <2>3, <1>2 DEF IInv, InOrder
  <2>5. now - hits[c][n + 1] < Window
    BY <2>1 DEF Stale
  <2>6. i \in 1..Len(log[c]) /\ hits[c][n + 1] <= log[c][i]
    BY <2>2, <2>3, <2>4, <1>2
  <2>. QED  BY <2>1, <2>5, <2>6, <1>2
<1>. QED  BY <1>3, <1>4, <1>5, <1>2

\* The times of the requests that are recent are a final stretch of the
\* history, so there are as many as the bucket is long.
LEMMA RecentCounted ==
  ASSUME IInv, NEW c \in Clients, NEW k \in 0..Len(log[c]),
         \A i \in 1..k : now - log[c][i] >= Window,
         \A i \in (k + 1)..Len(log[c]) : now - log[c][i] < Window
  PROVE  Cardinality(Limiter!Recent(c)) = Len(log[c]) - k
<1>1. /\ Len(log[c]) \in Nat /\ now \in Nat /\ Window \in Nat
      /\ \A i \in 1..Len(log[c]) : log[c][i] \in Nat
  BY ClientTypes DEF IInv
<1>2. Limiter!Recent(c) = (k + 1)..Len(log[c])
  <2>1. ASSUME NEW i \in 1..Len(log[c]), now - log[c][i] < Window
        PROVE  i \in (k + 1)..Len(log[c])
    BY <2>1, <1>1, GuardAssumption
  <2>2. (k + 1)..Len(log[c]) \subseteq 1..Len(log[c])
    BY <1>1
  <2>. QED  BY <2>1, <2>2 DEF Limiter!Recent
<1>3. Cardinality((k + 1)..Len(log[c]))
        = IF k + 1 > Len(log[c]) THEN 0 ELSE Len(log[c]) - (k + 1) + 1
  <2>1. k + 1 \in Int /\ Len(log[c]) \in Int
    BY <1>1
  <2>. QED  BY <2>1, FS_Interval
<1>. QED  BY <1>1, <1>2, <1>3

-----------------------------------------------------------------------------
LEMMA InitInv == Init => IInv
<1>. SUFFICES ASSUME Init PROVE IInv
  OBVIOUS
<1>1. TypeOK
  BY GuardAssumption DEF Init, TypeOK, Verdicts
<1>2. ASSUME NEW c \in Clients
      PROVE  Len(log[c]) = 0 /\ Len(hits[c]) = 0
  BY DEF Init
<1>3. ASSUME NEW c \in Clients
      PROVE  InOrder(log[c]) /\ \A i \in 1..Len(log[c]) : log[c][i] <= now
  BY <1>2 DEF InOrder
<1>4. ASSUME NEW c \in Clients PROVE Remembers(c)
  <2>1. TailFrom(hits[c], log[c], 0) /\ 0 \in 0..Len(log[c])
    BY <1>2 DEF TailFrom
  <2>. QED  BY <2>1 DEF Remembers
<1>5. NoBurst
  BY <1>2 DEF NoBurst
<1>. QED  BY <1>1, <1>3, <1>4, <1>5 DEF IInv

\* A step that leaves the histories and buckets alone, or empties them all.
LEMMA QuietKeepsInv ==
  ASSUME IInv, Tick \/ (\E c \in Clients : TooLarge(c)) \/ UNCHANGED vars
  PROVE  IInv'
<1>1. UNCHANGED <<hits, log>> /\ now' \in Nat /\ now \in Nat /\ now' >= now
  <2>1. now \in Nat
    BY GuardAssumption DEF IInv, TypeOK
  <2>2. UNCHANGED <<hits, log>> /\ (now' = now + 1 \/ now' = now)
    BY DEF Tick, TooLarge, vars
  <2>. QED  BY <2>1, <2>2
<1>2. TypeOK'
  <2>1. now' \in 0..MaxTime
    BY GuardAssumption DEF IInv, TypeOK, Tick, TooLarge, vars
  <2>2. verdict' \in [Clients -> [at : 0..MaxTime, is : Verdicts]]
    BY DEF IInv, TypeOK, Tick, TooLarge, Answer, Verdicts, vars
  <2>. QED  BY <1>1, <2>1, <2>2 DEF IInv, TypeOK
<1>3. ASSUME NEW c \in Clients, NEW i \in 1..Len(log[c])
      PROVE  log[c][i] \in Nat /\ log[c][i] <= now /\ Window \in Nat
  BY <1>3, ClientTypes DEF IInv
<1>4. ASSUME NEW c \in Clients
      PROVE  /\ InOrder(log[c])'
             /\ (\A i \in 1..Len(log[c]) : log[c][i] <= now)'
             /\ Remembers(c)'
  <2>1. PICK k \in 0..Len(log[c]) :
          /\ TailFrom(hits[c], log[c], k)
          /\ \A i \in 1..k : now - log[c][i] >= Window
    BY DEF IInv, Remembers
  <2>2. \A i \in 1..Len(log[c]) : log[c][i] <= now'
    BY <1>1, <1>3 DEF IInv
  <2>3. ASSUME NEW i \in 1..k
        PROVE  now' - log[c][i] >= Window
    <3>1. Len(log[c]) \in Nat
      BY ClientTypes DEF IInv
    <3>2. i \in 1..Len(log[c])
      BY <3>1
    <3>3. now - log[c][i] >= Window
      BY <2>1
    <3>4. log[c][i] \in Nat /\ Window \in Nat
      BY <1>3, <3>2
    <3>. QED  BY <3>3, <3>4, <1>1
  <2>. QED  BY <1>1, <2>1, <2>2, <2>3 DEF IInv, InOrder, Remembers, TailFrom
<1>5. NoBurst'
  BY <1>1 DEF IInv, NoBurst
<1>. QED  BY <1>2, <1>4, <1>5 DEF IInv

LEMMA RestartKeepsInv ==
  ASSUME IInv, Restart
  PROVE  IInv'
<1>1. TypeOK'
  BY GuardAssumption DEF IInv, TypeOK, Restart
<1>2. ASSUME NEW c \in Clients
      PROVE  Len(log'[c]) = 0 /\ Len(hits'[c]) = 0
  BY DEF Restart
<1>. QED  BY <1>1, <1>2 DEF IInv, InOrder, Remembers, TailFrom, NoBurst

\* Appending the time to a history in order keeps it in order.
LEMMA AppendInOrder ==
  ASSUME NEW T, NEW times \in Seq(T), InOrder(times), NEW t \in T, t \in Nat,
         \A i \in 1..Len(times) : times[i] <= t
  PROVE  /\ InOrder(Append(times, t))
         /\ \A i \in 1..Len(Append(times, t)) : Append(times, t)[i] <= t
<1>1. /\ Len(times) \in Nat /\ Len(Append(times, t)) = Len(times) + 1
      /\ Append(times, t)[Len(times) + 1] = t
      /\ \A i \in 1..Len(times) : Append(times, t)[i] = times[i]
  OBVIOUS
<1>2. \A i \in 1..Len(Append(times, t)) : Append(times, t)[i] <= t
  BY <1>1
<1>3. ASSUME NEW i \in 1..Len(Append(times, t)), NEW j \in 1..Len(Append(times, t)),
             i <= j
      PROVE  Append(times, t)[i] <= Append(times, t)[j]
  <2>1. CASE j = Len(times) + 1
    BY <2>1, <1>1, <1>2
  <2>2. CASE j # Len(times) + 1
    BY <2>2, <1>1, <1>3 DEF InOrder
  <2>. QED  BY <2>1, <2>2
<1>. QED  BY <1>2, <1>3 DEF InOrder

\* Appending the same time to a history and to a tail of it gives a tail.
LEMMA AppendToTail ==
  ASSUME NEW T, NEW times \in Seq(T), NEW bucket \in Seq(T), NEW t \in T,
         NEW k \in 0..Len(times), TailFrom(bucket, times, k)
  PROVE  TailFrom(Append(bucket, t), Append(times, t), k)
<1>1. /\ Len(times) \in Nat /\ Len(bucket) \in Nat
      /\ Len(Append(times, t)) = Len(times) + 1
      /\ Len(Append(bucket, t)) = Len(bucket) + 1
      /\ Append(times, t)[Len(times) + 1] = t
      /\ Append(bucket, t)[Len(bucket) + 1] = t
      /\ \A i \in 1..Len(times) : Append(times, t)[i] = times[i]
      /\ \A i \in 1..Len(bucket) : Append(bucket, t)[i] = bucket[i]
  OBVIOUS
<1>2. Len(bucket) = Len(times) - k
  BY DEF TailFrom
<1>3. ASSUME NEW j \in 1..Len(Append(bucket, t))
      PROVE  Append(bucket, t)[j] = Append(times, t)[k + j]
  <2>1. CASE j = Len(bucket) + 1
    <3>1. k + j = Len(times) + 1
      BY <2>1, <1>1, <1>2
    <3>2. Append(times, t)[k + j] = t
      BY ONLY <3>1, <1>1
    <3>3. Append(bucket, t)[j] = t
      BY ONLY <2>1, <1>1
    <3>. QED  BY ONLY <3>2, <3>3
  <2>2. CASE j # Len(bucket) + 1
    <3>0. j \in 1..(Len(bucket) + 1)
      BY <1>1
    <3> DEFINE m == Len(times)  l == Len(bucket)
    <3>1. /\ m \in Nat /\ l \in Nat /\ l = m - k /\ k \in 0..m
          /\ j \in 1..(l + 1) /\ j # l + 1
      BY <2>2, <3>0, <1>1, <1>2
    <3>. HIDE DEF m, l
    <3>3. j \in 1..l /\ k + j \in 1..m
      BY <3>1
    <3>. USE DEF m, l
    <3>2. bucket[j] = times[k + j]
      BY <3>3 DEF TailFrom
    <3>. QED  BY <3>2, <3>3, <1>1
  <2>. QED  BY <2>1, <2>2
<1>4. Len(Append(bucket, t)) = Len(Append(times, t)) - k
  <2>. DEFINE m == Len(times)  l == Len(bucket)
  <2>1. m \in Nat /\ l \in Nat /\ l = m - k /\ k \in 0..m
    BY <1>1, <1>2
  <2>. HIDE DEF m, l
  <2>2. l + 1 = (m + 1) - k
    BY <2>1
  <2>. QED  BY <1>1, <2>2 DEF m, l
<1>. QED  BY ONLY <1>3, <1>4 DEF TailFrom

\* What Limit(c) does, by what is recent of the history of c.
LimitOutcome(c, k, bucket) ==
  /\ k \in 0..Len(log[c])
  /\ bucket \in Seq(0..MaxTime)
  /\ TailFrom(bucket, log[c], k)
  /\ \A i \in 1..k : now - log[c][i] >= Window
  /\ Cardinality(Limiter!Recent(c)) = Len(bucket)
  /\ now' = now
  /\ \/ /\ Len(bucket) >= PerMinute
        /\ Len(bucket) <= Len(hits[c])
        /\ hits' = [hits EXCEPT ![c] = bucket]
        /\ log' = log
        /\ Answer(c, "rate_limited")
     \/ /\ Len(bucket) < PerMinute
        /\ hits' = [hits EXCEPT ![c] = Append(bucket, now)]
        /\ log' = [log EXCEPT ![c] = Append(@, now)]
        /\ Answer(c, "admitted")

\* The while loop of Limit leaves a bucket as long as the history is recent.
LEMMA LimitExplained ==
  ASSUME IInv, NEW c \in Clients, Limit(c)
  PROVE  \E k, bucket : LimitOutcome(c, k, bucket)
<1>1. PICK n \in 0..Len(hits[c]) :
        /\ Stale(hits[c], n)
        /\ LET bucket == SubSeq(hits[c], n + 1, Len(hits[c])) IN
           \/ /\ Len(bucket) >= PerMinute
              /\ hits' = [hits EXCEPT ![c] = bucket]
              /\ Answer(c, "rate_limited")
              /\ UNCHANGED log
           \/ /\ Len(bucket) < PerMinute
              /\ hits' = [hits EXCEPT ![c] = Append(bucket, now)]
              /\ log' = [log EXCEPT ![c] = Append(@, now)]
              /\ Answer(c, "admitted")
  BY DEF Limit
<1> DEFINE rest == SubSeq(hits[c], n + 1, Len(hits[c]))
<1>2. PICK k \in 0..Len(log[c]) :
        /\ TailFrom(rest, log[c], k)
        /\ \A i \in 1..k : now - log[c][i] >= Window
        /\ \A i \in (k + 1)..Len(log[c]) : now - log[c][i] < Window
  BY <1>1, PrunedIsRecent
<1>3. Cardinality(Limiter!Recent(c)) = Len(log[c]) - k
  BY <1>2, RecentCounted
<1>4. hits[c] \in Seq(0..MaxTime)
  BY ClientTypes DEF IInv
<1>5. rest \in Seq(0..MaxTime) /\ Len(rest) = Len(hits[c]) - n
  BY <1>4, WithoutFirst
<1>6. Len(rest) <= Len(hits[c]) /\ Len(rest) = Len(log[c]) - k
  BY <1>2, <1>4, <1>5 DEF TailFrom
<1>7. now' = now
  BY DEF Limit
<1>8. \/ /\ Len(rest) >= PerMinute
         /\ hits' = [hits EXCEPT ![c] = rest]
         /\ log' = log
         /\ Answer(c, "rate_limited")
      \/ /\ Len(rest) < PerMinute
         /\ hits' = [hits EXCEPT ![c] = Append(rest, now)]
         /\ log' = [log EXCEPT ![c] = Append(@, now)]
         /\ Answer(c, "admitted")
  BY <1>1
<1>9. LimitOutcome(c, k, rest)
  <2>. HIDE DEF rest
  <2>. QED  BY <1>2, <1>3, <1>5, <1>6, <1>7, <1>8 DEF LimitOutcome
<1>. QED  BY <1>9

\* A refused request keeps the invariant: its history is as it was.
LEMMA RefusalKeepsInv ==
  ASSUME IInv, NEW c \in Clients, NEW k, NEW bucket, LimitOutcome(c, k, bucket),
         Len(bucket) >= PerMinute, log' = log
  PROVE  IInv'
<1>1. /\ hits' = [hits EXCEPT ![c] = bucket] /\ Len(bucket) <= Len(hits[c])
      /\ Answer(c, "rate_limited") /\ now' = now
      /\ bucket \in Seq(0..MaxTime) /\ PerMinute \in Nat
  BY GuardAssumption DEF LimitOutcome
<1>2. TypeOK'
  <2>1. hits' \in [Clients -> Seq(0..MaxTime)]
    BY <1>1 DEF IInv, TypeOK
  <2>2. ASSUME NEW d \in Clients PROVE Len(hits'[d]) <= PerMinute
    <3>1. CASE d = c
      <4>1. hits'[c] = bucket
        BY <1>1 DEF IInv, TypeOK
      <4>2. Len(hits[c]) <= PerMinute /\ Len(hits[c]) \in Nat /\ Len(bucket) \in Nat
        BY <1>1, ClientTypes DEF IInv, TypeOK
      <4>. QED  BY <3>1, <4>1, <4>2, <1>1
    <3>2. CASE d # c
      BY <3>2, <1>1 DEF IInv, TypeOK
    <3>. QED  BY <3>1, <3>2
  <2>3. verdict' \in [Clients -> [at : 0..MaxTime, is : Verdicts]]
    BY <1>1 DEF IInv, TypeOK, Answer, Verdicts
  <2>. QED  BY <1>1, <2>1, <2>2, <2>3 DEF IInv, TypeOK
<1>3. ASSUME NEW d \in Clients PROVE Remembers(d)'
  <2>1. CASE d = c
    <3>1. hits'[c] = bucket
      BY <1>1 DEF IInv, TypeOK
    <3>. QED  BY <2>1, <3>1, <1>1 DEF Remembers, LimitOutcome
  <2>2. CASE d # c
    <3>1. hits'[d] = hits[d]
      BY <2>2, <1>1 DEF IInv, TypeOK
    <3>. QED  BY <3>1, <1>1 DEF Remembers, IInv
  <2>. QED  BY <2>1, <2>2
<1>4. \A d \in Clients : InOrder(log'[d]) /\ \A i \in 1..Len(log'[d]) : log'[d][i] <= now'
  BY <1>1 DEF IInv
<1>5. NoBurst'
  BY <1>1 DEF IInv, NoBurst
<1>. QED  BY <1>1, <1>2, <1>3, <1>4, <1>5 DEF IInv

\* A request let through keeps the invariant.
LEMMA AdmissionKeepsInv ==
  ASSUME IInv, NEW c \in Clients, NEW k, NEW bucket, LimitOutcome(c, k, bucket),
         Len(bucket) < PerMinute,
         hits' = [hits EXCEPT ![c] = Append(bucket, now)],
         log' = [log EXCEPT ![c] = Append(@, now)],
         Answer(c, "admitted")
  PROVE  IInv'
<1>1. /\ now' = now /\ bucket \in Seq(0..MaxTime) /\ Len(bucket) \in Nat
      /\ k \in 0..Len(log[c]) /\ TailFrom(bucket, log[c], k)
      /\ \A i \in 1..k : now - log[c][i] >= Window
  BY DEF LimitOutcome
<1>2. /\ log[c] \in Seq(0..MaxTime) /\ now \in 0..MaxTime
      /\ hits'[c] = Append(bucket, now) /\ log'[c] = Append(log[c], now)
      /\ \A d \in Clients \ {c} : hits'[d] = hits[d] /\ log'[d] = log[d]
  BY DEF IInv, TypeOK
<1>3. /\ Len(log[c]) \in Nat /\ now \in Nat /\ PerMinute \in Nat /\ Window \in Nat
      /\ \A i \in 1..Len(log[c]) : log[c][i] \in Nat
  BY ClientTypes DEF IInv
<1>4. /\ Len(log'[c]) = Len(log[c]) + 1 /\ Len(hits'[c]) = Len(bucket) + 1
      /\ log'[c][Len(log[c]) + 1] = now
      /\ \A i \in 1..Len(log[c]) : log'[c][i] = log[c][i]
  BY <1>1, <1>2
<1>5. TypeOK'
  <2>1. Append(bucket, now) \in Seq(0..MaxTime) /\ Append(log[c], now) \in Seq(0..MaxTime)
    BY <1>1, <1>2
  <2>2. hits' \in [Clients -> Seq(0..MaxTime)] /\ log' \in [Clients -> Seq(0..MaxTime)]
    BY <2>1 DEF IInv, TypeOK
  <2>3. ASSUME NEW d \in Clients PROVE Len(hits'[d]) <= PerMinute
    <3>1. CASE d = c
      BY <3>1, <1>1, <1>3, <1>4
    <3>2. CASE d # c
      BY <3>2, <1>2 DEF IInv, TypeOK
    <3>. QED  BY <3>1, <3>2
  <2>4. verdict' \in [Clients -> [at : 0..MaxTime, is : Verdicts]]
    BY <1>2 DEF IInv, TypeOK, Answer, Verdicts
  <2>. QED  BY <1>1, <1>2, <2>2, <2>3, <2>4 DEF TypeOK
<1>6. InOrder(log'[c]) /\ \A i \in 1..Len(log'[c]) : log'[c][i] <= now
  <2>1. InOrder(log[c]) /\ \A i \in 1..Len(log[c]) : log[c][i] <= now
    BY DEF IInv
  <2>2. /\ InOrder(Append(log[c], now))
        /\ \A i \in 1..Len(Append(log[c], now)) : Append(log[c], now)[i] <= now
    BY ONLY <2>1, <1>2, <1>3, AppendInOrder
  <2>. QED  BY <2>2, <1>2
<1>7. Remembers(c)'
  <2>1. TailFrom(hits'[c], log'[c], k)
    <3>1. TailFrom(Append(bucket, now), Append(log[c], now), k)
      BY <1>1, <1>2, AppendToTail
    <3>. QED  BY <3>1, <1>2
  <2>2. k \in 0..Len(log'[c]) /\ \A i \in 1..k : i \in 1..Len(log[c])
    BY <1>1, <1>3, <1>4
  <2>3. \A i \in 1..k : now' - log'[c][i] >= Window
    BY <2>2, <1>1, <1>4
  <2>. QED  BY <2>1, <2>2, <2>3 DEF Remembers
<1>8. ASSUME NEW i \in 1..Len(log'[c]), i + PerMinute \in 1..Len(log'[c])
      PROVE  log'[c][i + PerMinute] - log'[c][i] >= Window
  <2>0. Len(bucket) = Len(log[c]) - k
    BY <1>1 DEF TailFrom
  <2>1. CASE i + PerMinute = Len(log[c]) + 1
    <3>1. i \in 1..k /\ i \in 1..Len(log[c])
      BY <2>0, <2>1, <1>1, <1>3
    <3>. QED  BY <2>1, <3>1, <1>1, <1>4
  <2>2. CASE i + PerMinute # Len(log[c]) + 1
    <3> DEFINE m == Len(log[c])
    <3>1. /\ m \in Nat /\ PerMinute \in Nat /\ i \in 1..(m + 1)
          /\ i + PerMinute \in 1..(m + 1) /\ i + PerMinute # m + 1
      BY <2>2, <1>3, <1>4, <1>8
    <3>. HIDE DEF m
    <3>2. i \in 1..m /\ i + PerMinute \in 1..m
      BY <3>1
    <3>. USE DEF m
    <3>3. log[c][i + PerMinute] - log[c][i] >= Window
      BY <3>2 DEF IInv, NoBurst
    <3>. QED  BY <3>2, <3>3, <1>4
  <2>. QED  BY <2>1, <2>2
<1>9. NoBurst'
  BY <1>2, <1>8 DEF IInv, NoBurst
<1>10. ASSUME NEW d \in Clients, d # c
       PROVE  /\ InOrder(log'[d]) /\ \A i \in 1..Len(log'[d]) : log'[d][i] <= now'
              /\ Remembers(d)'
  BY <1>1, <1>2, <1>10 DEF IInv, Remembers
<1>. QED  BY <1>1, <1>5, <1>6, <1>7, <1>9, <1>10 DEF IInv

\* Every step keeps the invariant.
LEMMA StepKeepsInv == IInv /\ [Next]_vars => IInv'
<1>. SUFFICES ASSUME IInv, [Next]_vars PROVE IInv'
  OBVIOUS
<1>1. CASE Tick \/ (\E c \in Clients : TooLarge(c)) \/ UNCHANGED vars
  BY <1>1, QuietKeepsInv
<1>2. CASE Restart
  BY <1>2, RestartKeepsInv
<1>3. ASSUME NEW c \in Clients, Limit(c) PROVE IInv'
  <2>1. PICK k, bucket : LimitOutcome(c, k, bucket)
    BY <1>3, LimitExplained
  <2>. QED  BY <2>1, RefusalKeepsInv, AdmissionKeepsInv DEF LimitOutcome
<1>. QED  BY <1>1, <1>2, <1>3 DEF Next

LEMMA Invariance == Spec => []IInv
BY InitInv, StepKeepsInv, PTL DEF Spec

\* Every reachable state of the guard is well typed, and no bucket outgrows the
\* limit: what a client costs in memory is bounded (middleware.py:43-49).
THEOREM GuardTypeCorrect == Spec => []TypeOK
<1>1. IInv => TypeOK
  BY DEF IInv
<1>. QED  BY <1>1, Invariance, PTL

\* No client gets more than PerMinute requests through in any window.
THEOREM BurstsBounded == Spec => []NoBurst
<1>1. IInv => NoBurst
  BY DEF IInv
<1>. QED  BY <1>1, Invariance, PTL

-----------------------------------------------------------------------------
\* FiniteSets, instantiated with the limiter, counts as FiniteSets does.
LEMMA SameCount == \A S : Limiter!Cardinality(S) = Cardinality(S)
BY DEF Limiter!Cardinality, Cardinality

LEMMA LimiterStarts == Init => Limiter!LimiterInit
BY DEF Init, Limiter!LimiterInit, Limiter!Nothing, Limiter!Nobody

\* Every step of the guard is one of the limiter's.
LEMMA LimiterStep ==
  IInv /\ [Next]_vars => [Limiter!LimiterNext]_<<now, log, verdict>>
<1>. SUFFICES ASSUME IInv, Next
              PROVE  [Limiter!LimiterNext]_<<now, log, verdict>>
  BY DEF vars
<1>1. CASE Tick
  BY <1>1 DEF Tick, Limiter!LimiterNext, Limiter!TimePasses
<1>2. CASE Restart
  BY <1>2 DEF Restart, Limiter!LimiterNext, Limiter!Forget, Limiter!Nothing
<1>3. ASSUME NEW c \in Clients, TooLarge(c) PROVE Limiter!LimiterNext
  BY <1>3 DEF TooLarge, Answer, Limiter!LimiterNext, Limiter!Ignore, Limiter!Tell
<1>4. ASSUME NEW c \in Clients, Limit(c) PROVE Limiter!LimiterNext
  <2>1. PICK k, bucket : LimitOutcome(c, k, bucket)
    BY <1>4, LimitExplained
  <2>a. Cardinality(Limiter!Recent(c)) = Len(bucket) /\ now' = now
    BY <2>1 DEF LimitOutcome
  <2>2. CASE Len(bucket) >= PerMinute /\ log' = log /\ Answer(c, "rate_limited")
    <3>1. Limiter!Refuse(c)
      BY <2>a, <2>2, SameCount DEF Answer, Limiter!Refuse, Limiter!Tell
    <3>. QED  BY <3>1 DEF Limiter!LimiterNext
  <2>3. CASE /\ Len(bucket) < PerMinute
             /\ log' = [log EXCEPT ![c] = Append(@, now)]
             /\ Answer(c, "admitted")
    <3>1. Limiter!Admit(c)
      BY <2>a, <2>3, SameCount DEF Answer, Limiter!Admit, Limiter!Tell
    <3>. QED  BY <3>1 DEF Limiter!LimiterNext
  <2>. QED  BY <2>1, <2>2, <2>3 DEF LimitOutcome
<1>. QED  BY <1>1, <1>2, <1>3, <1>4 DEF Next

\* The deque that forgets decides as the whole history would.
THEOREM SlidingWindowImplemented == Spec => ImplementsSlidingWindow
BY LimiterStarts, LimiterStep, Invariance, PTL
   DEF Spec, ImplementsSlidingWindow, Limiter!Spec
=============================================================================
