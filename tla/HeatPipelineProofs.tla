-------------------------- MODULE HeatPipelineProofs --------------------------
(***************************************************************************)
(* Proofs about HeatPipeline for any finite set of queries and any number  *)
(* of requests, attempts, faults and expiries.  The argument: a request    *)
(* that inserts a row holds its lock and finds it absent until it commits; *)
(* only the worker writes results, so what it loaded is still the result   *)
(* when it commits; and before anything expires nobody else writes the row *)
(* at all, so the worker's commit leaves exactly the row it computed.      *)
(***************************************************************************)
EXTENDS HeatPipeline, FiniteSetTheorems, SequenceTheorems, TLAPS

\* An absent row has nothing in it.
AbsentEmpty == \A a \in Analyses : row[a].status = "absent" => row[a] = NoRow

\* A request that is to commit either inserts its row, which is absent and
\* locked until then, or replaces one that is there and has expired.
Open(r) == req[r].pc \in {"create", "commit"}
RequestSound(r) ==
  /\ req[r].pc = "insert" => req[r].row = NoRow
  /\ req[r].pc = "commit" => req[r].row.status = "queued"
  /\ req[r].pc = "create" => req[r].cols \in {{}, Columns}
  /\ Open(r) /\ "result" \in req[r].cols =>
       /\ row[req[r].key] = NoRow /\ lock[req[r].key] = r
       /\ req[r].cols = Columns
       /\ req[r].row.status = "queued" /\ req[r].row.result = 0
       /\ req[r].row.expires = "never"
  /\ Open(r) /\ "result" \notin req[r].cols =>
       row[req[r].key].status # "absent" /\ expiries # 0
RequestsSound == \A r \in Submits : RequestSound(r)

\* What the worker is going to write is a result for a success, and what it
\* leaves out is as it loaded it, or no longer a success.
Busy == worker.pc \in {"poll", "commit"}
PollSound == Busy =>
  /\ row[worker.key].status # "absent" /\ worker.row.status # "absent"
  /\ "result" \notin worker.cols => worker.row.result = row[worker.key].result
  /\ "status" \notin worker.cols /\ row[worker.key].status = "succeeded"
       => worker.row.status = "succeeded"
  /\ worker.row.status = "succeeded" => worker.row.result # 0
  /\ worker.pc = "poll" => /\ worker.cols = {} /\ worker.set = {} /\ ~worker.failed
                           /\ worker.row.activity # 0

\* A result is that of the row's own, succeeded activity.
OwnResult(x) == x.result # 0 => /\ x.result = x.activity
                                /\ jobs[x.activity].state = "succeeded"

\* Before anything expires the worker's UPDATE leaves exactly its own copy,
\* which keeps the result and, while pending, comes with a next poll.
CopySound == Busy =>
  /\ \A c \in Columns \ worker.cols : worker.row[c] = row[worker.key][c]
  /\ worker.row.expires # "expired" /\ OwnResult(worker.row)
  /\ row[worker.key].result # 0 => worker.row.result = row[worker.key].result
  /\ worker.pc = "commit" /\ worker.row.status \in {"queued", "running"}
       => "due" \in worker.set /\ worker.sched.due = "later"
UnexpiredSound == WithinTTL =>
  /\ \A a \in Analyses : row[a].expires # "expired" /\ OwnResult(row[a])
  /\ CopySound

\* The one activity that is not a fault's belongs to the row or to the request
\* that is about to commit it.
Paid(a) == \/ row[a].status # "absent"
           \/ \E r \in Submits : req[r].pc = "commit" /\ req[r].key = a
ChargesExplained == WithinTTL =>
  \A a \in Analyses : Charges(a) <= faults + (IF Paid(a) THEN 1 ELSE 0)

IInv == /\ TypeOK
        /\ AbsentEmpty
        /\ RequestsSound
        /\ PollSound
        /\ SucceededHasResult
        /\ UnexpiredSound
        /\ ScheduleDurable
        /\ ChargesExplained

-----------------------------------------------------------------------------
(***************************************************************************)
(* Lemmas about the operators.                                             *)
(***************************************************************************)

\* An UPDATE of some columns gives a row whose columns are of the one or the
\* other.
LEMMA UpdatedRow ==
  ASSUME NEW old \in Row, NEW new \in Row, NEW cols
  PROVE  /\ Updated(old, new, cols) \in Row
         /\ \A c \in Columns : Updated(old, new, cols)[c]
                                 = IF c \in cols THEN new[c] ELSE old[c]
         /\ Updated(old, new, cols).status
              = IF "status" \in cols THEN new.status ELSE old.status
         /\ Updated(old, new, cols).result
              = IF "result" \in cols THEN new.result ELSE old.result
         /\ Updated(old, new, cols).activity
              = IF "activity" \in cols THEN new.activity ELSE old.activity
         /\ Updated(old, new, cols).expires
              = IF "expires" \in cols THEN new.expires ELSE old.expires
         /\ Updated(old, new, cols).error
              = IF "error" \in cols THEN new.error ELSE old.error
BY DEF Updated, Row, Columns

\* An UPDATE that leaves out only what agrees leaves the session's copy.
LEMMA UpdatedIsCopy ==
  ASSUME NEW old \in Row, NEW new \in Row, NEW cols,
         \A c \in Columns \ cols : new[c] = old[c]
  PROVE  Updated(old, new, cols) = new
BY DEF Updated, Row, Columns

\* Rows that were well typed stay so when the provider accepts an activity.
LEMMA RowGrows ==
  ASSUME jobs \in Seq([key : Analyses, state : {"pending", "succeeded", "failed"}]),
         Len(jobs') \in Nat, Len(jobs') >= Len(jobs)
  PROVE  /\ \A x \in Row : x \in Row'
         /\ \A x \in Request : x \in Request'
         /\ \A x \in Tick : x \in Tick'
<1>1. \A i \in Ids : i \in Ids'
  BY DEF Ids
<1>2. \A x \in Row : x \in Row'
  BY <1>1 DEF Row
<1>3. Sched' = Sched /\ Statuses' = Statuses /\ Columns' = Columns
  BY DEF Sched, Statuses, Columns
<1>. QED  BY <1>2, <1>3 DEF Request, Tick

LEMMA NoRowIsRow == jobs \in Seq([key : Analyses,
                                  state : {"pending", "succeeded", "failed"}])
                      => NoRow \in Row
BY DEF NoRow, Row, Ids, Statuses

\* Activities are finitely many, and an accepted one adds one to its query's.
LEMMA ChargesType ==
  ASSUME TypeOK, NEW a \in Analyses
  PROVE  Charges(a) \in Nat
<1>1. DOMAIN jobs = 1..Len(jobs) /\ Len(jobs) \in Nat
  BY DEF TypeOK
<1>2. IsFiniteSet(1..Len(jobs))
  BY <1>1, FS_Interval
<1>3. IsFiniteSet({j \in DOMAIN jobs : jobs[j].key = a})
  <2>1. {j \in DOMAIN jobs : jobs[j].key = a} \subseteq 1..Len(jobs)
    BY <1>1
  <2>. QED  BY <1>2, <2>1, FS_Subset
<1>. QED  BY <1>3, FS_CardinalityType DEF Charges

LEMMA ChargesGrow ==
  ASSUME TypeOK, NEW a \in Analyses, NEW b \in Analyses,
         jobs' = Append(jobs, NewJob(b))
  PROVE  Charges(a)' = Charges(a) + (IF a = b THEN 1 ELSE 0)
<1>. DEFINE Old == {j \in DOMAIN jobs : jobs[j].key = a}
            New == {j \in DOMAIN jobs' : jobs'[j].key = a}
            n   == Len(jobs) + 1
<1>1. /\ DOMAIN jobs = 1..Len(jobs) /\ Len(jobs) \in Nat
      /\ DOMAIN jobs' = 1..n /\ jobs'[n].key = b
      /\ \A j \in DOMAIN jobs : jobs'[j] = jobs[j]
  BY DEF TypeOK, NewJob
<1>2. IsFiniteSet(Old) /\ n \notin Old
  <2>1. IsFiniteSet(1..Len(jobs))
    BY <1>1, FS_Interval
  <2>2. Old \subseteq 1..Len(jobs) /\ n \notin Old
    BY <1>1
  <2>. QED  BY <2>1, <2>2, FS_Subset
<1>3. New = IF a = b THEN Old \union {n} ELSE Old
  BY <1>1
<1>4. Cardinality(Old \union {n}) = Cardinality(Old) + 1
  BY <1>2, FS_AddElement
<1>5. Cardinality(Old) \in Nat
  BY <1>2, FS_CardinalityType
<1>6. Charges(a) = Cardinality(Old) /\ Charges(a)' = Cardinality(New)
  BY DEF Charges
<1>. HIDE DEF Old, New, n
<1>. QED  BY <1>3, <1>4, <1>5, <1>6

LEMMA InitInv == Init => IInv
<1>. SUFFICES ASSUME Init PROVE IInv
  OBVIOUS
<1>1. TypeOK
  BY HeatAssumption DEF Init, TypeOK, NoRequest, IdleWorker, Row, NoRow, Ids, Statuses,
                        Sched, NoPoll, CircuitThreshold, Actors, Free
<1>2. \A a \in Analyses : row[a] = NoRow /\ row[a].status = "absent"
                            /\ row[a].result = 0 /\ row[a].expires = "never"
  BY DEF Init, NoRow
<1>3. \A r \in Submits : req[r].pc = "idle"
  BY DEF Init, NoRequest
<1>4. worker.pc = "idle"
  BY DEF Init, IdleWorker
<1>5. ChargesExplained
  <2>. SUFFICES ASSUME NEW a \in Analyses PROVE Charges(a) = 0
    BY HeatAssumption DEF ChargesExplained, Init
  <2>1. {j \in DOMAIN jobs : jobs[j].key = a} = {}
    BY DEF Init
  <2>. QED  BY <2>1, FS_EmptySet DEF Charges
<1>. QED  BY <1>1, <1>2, <1>3, <1>4, <1>5
          DEF IInv, AbsentEmpty, RequestsSound, RequestSound, Open, PollSound, Busy,
              SucceededHasResult, UnexpiredSound, CopySound, OwnResult, ScheduleDurable

-----------------------------------------------------------------------------
(***************************************************************************)
(* The steps of a request.                                                 *)
(***************************************************************************)

\* What a request that leaves the tables alone has to preserve.
LEMMA RequestOnly ==
  ASSUME IInv, NEW r \in Submits, NEW x,
         x \in {NoRequest, DoneRequest} \union Request,
         req' = [req EXCEPT ![r] = x],
         row' = row, sched' = sched, jobs' = jobs, worker' = worker,
         expiries' = expiries, circuit' = circuit,
         faults' \in 0..MaxFaults, faults' >= faults,
         lock' \in [Analyses -> Actors], queue' \in Seq(Analyses),
         \A q \in Submits \ {r} : Open(q) /\ lock[req[q].key] = q
                                    => lock'[req[q].key] = q,
         req[r].pc = "commit" => faults' > faults,
         RequestSound(r)'
  PROVE  IInv'
<1>1. \A q \in Submits : req'[q] = IF q = r THEN x ELSE req[q]
  BY DEF IInv, TypeOK
<1>2. TypeOK'
  BY SMTT(60) DEF IInv, TypeOK, Row, Ids, Sched, Statuses, Request, Tick
<1>3. RequestsSound'
  <2>. SUFFICES ASSUME NEW q \in Submits, q # r PROVE RequestSound(q)'
    BY DEF RequestsSound
  <2>. QED  BY <1>1 DEF IInv, RequestsSound, RequestSound, Open
<1>4. ChargesExplained'
  <2>. SUFFICES ASSUME WithinTTL, NEW a \in Analyses
                PROVE  Charges(a)' <= faults' + (IF Paid(a)' THEN 1 ELSE 0)
    BY DEF ChargesExplained, WithinTTL
  <2>1. /\ Charges(a)' = Charges(a) /\ Charges(a) \in Nat
        /\ Charges(a) <= faults + (IF Paid(a) THEN 1 ELSE 0)
        /\ faults \in Nat /\ faults' \in Nat
    BY ChargesType, HeatAssumption DEF IInv, TypeOK, ChargesExplained, Charges
  <2>2. CASE req[r].pc = "commit"
    BY <2>1, <2>2
  <2>3. CASE req[r].pc # "commit"
    <3>1. Paid(a) => Paid(a)'
      BY <1>1, <2>3 DEF Paid
    <3>. QED  BY <2>1, <3>1
  <2>. QED  BY <2>2, <2>3
<1>5. AbsentEmpty' /\ PollSound' /\ SucceededHasResult' /\ UnexpiredSound'
      /\ ScheduleDurable'
  BY DEF IInv, AbsentEmpty, PollSound, Busy, SucceededHasResult, UnexpiredSound, CopySound,
         OwnResult, ScheduleDurable, WithinTTL
<1>. QED  BY <1>2, <1>3, <1>4, <1>5 DEF IInv

LEMMA SubmitInv ==
  ASSUME IInv, NEW r \in Submits, NEW a \in Analyses, Submit(r, a)
  PROVE  IInv'
<1>. DEFINE x == IF Cached(a) THEN DoneRequest
                 ELSE [pc |-> IF row[a].status = "absent" THEN "insert" ELSE "create",
                       key |-> a, row |-> row[a], cols |-> {}]
<1>1. x \in {NoRequest, DoneRequest} \union Request
  BY DEF IInv, TypeOK, Request
<1>2. req' = [req EXCEPT ![r] = x] /\ req'[r] = x
  BY DEF Submit, IInv, TypeOK
<1>3. RequestSound(r)'
  BY <1>2 DEF Submit, db, Cached, RequestSound, Open, IInv, AbsentEmpty, DoneRequest,
              UnexpiredSound, CopySound, WithinTTL
<1>4. req[r].pc # "commit"
  BY DEF Submit, NoRequest
<1>5. /\ UNCHANGED <<db, queue, jobs, worker, faults, expiries>>
      /\ faults' \in 0..MaxFaults /\ faults' >= faults
      /\ lock' \in [Analyses -> Actors] /\ queue' \in Seq(Analyses)
  BY HeatAssumption DEF Submit, db, IInv, TypeOK
<1>. HIDE DEF x
<1>. QED  BY <1>1, <1>2, <1>3, <1>4, <1>5, RequestOnly DEF db

LEMMA InsertInv ==
  ASSUME IInv, NEW r \in Submits, Insert(r)
  PROVE  IInv'
<1>. DEFINE a == req[r].key
            y == [req[r] EXCEPT !.pc = "create", !.row.status = "queued",
                                !.cols = Columns]
<1>1. req[r] \in Request /\ a \in Analyses /\ r # Free /\ r \in Actors
  BY HeatAssumption DEF Insert, IInv, TypeOK, NoRequest, DoneRequest, Request, Submits,
                        Free, Actors
<1>2. CASE row[a].status = "absent"
  <2>1. /\ req' = [req EXCEPT ![r] = y] /\ req'[r] = y
        /\ lock' = [lock EXCEPT ![a] = r] /\ lock'[a] = r
    BY <1>1, <1>2 DEF Insert, IInv, TypeOK
  <2>2. y \in Request
    BY <1>1 DEF Request, Row, Statuses
  <2>3. /\ row[a] = NoRow /\ req[r].row = NoRow /\ y.row.status = "queued"
        /\ y.row.result = 0 /\ y.row.expires = "never" /\ y.pc = "create"
        /\ y.cols = Columns /\ y.key = a /\ "result" \in Columns
    BY <1>1, <1>2 DEF Insert, IInv, AbsentEmpty, RequestsSound, RequestSound, NoRow,
                           Request, Columns
  <2>. HIDE DEF y
  <2>4. RequestSound(r)'
    BY <2>1, <2>3 DEF Insert, RequestSound, Open
  <2>5. /\ lock' \in [Analyses -> Actors] /\ queue' \in Seq(Analyses)
        /\ req[r].pc # "commit" /\ faults' \in 0..MaxFaults /\ faults' >= faults
    BY <1>1, <2>1, HeatAssumption DEF IInv, TypeOK, Insert
  <2>6. \A q \in Submits \ {r} : Open(q) /\ lock[req[q].key] = q
                                   => lock'[req[q].key] = q
    BY <2>1, HeatAssumption DEF Insert, IInv, TypeOK, Submits, Free
  <2>7. UNCHANGED <<row, sched, circuit, queue, jobs, worker, faults, expiries>>
    BY DEF Insert
  <2>. QED  BY <2>1, <2>2, <2>4, <2>5, <2>6, <2>7, RequestOnly
<1>3. CASE row[a].status # "absent"
  <2>1. req' = [req EXCEPT ![r] = DoneRequest] /\ req'[r] = DoneRequest
    BY <1>3 DEF Insert, Reply, IInv, TypeOK
  <2>2. RequestSound(r)'
    BY <2>1 DEF RequestSound, Open, DoneRequest
  <2>3. /\ lock' \in [Analyses -> Actors] /\ queue' \in Seq(Analyses)
        /\ req[r].pc # "commit" /\ faults' \in 0..MaxFaults /\ faults' >= faults
        /\ UNCHANGED <<row, sched, circuit, lock, queue, jobs, worker, faults, expiries>>
    BY <1>3, HeatAssumption DEF IInv, TypeOK, Insert
  <2>. QED  BY <2>1, <2>2, <2>3, RequestOnly
<1>. QED  BY <1>2, <1>3

LEMMA EnqueueInv ==
  ASSUME IInv, NEW r \in Submits, Enqueue(r)
  PROVE  IInv'
<1>1. req[r].key \in Analyses
  BY DEF Enqueue, IInv, TypeOK, NoRequest, DoneRequest, Request
<1>2. req' = [req EXCEPT ![r] = DoneRequest] /\ req'[r] = DoneRequest
  BY DEF Enqueue, Reply, IInv, TypeOK
<1>3. RequestSound(r)'
  BY <1>2 DEF RequestSound, Open, DoneRequest
<1>4. /\ lock' \in [Analyses -> Actors] /\ queue' \in Seq(Analyses)
      /\ req[r].pc # "commit" /\ faults' \in 0..MaxFaults /\ faults' >= faults
      /\ UNCHANGED <<db, jobs, worker, faults, expiries>>
  BY <1>1, HeatAssumption DEF Enqueue, db, IInv, TypeOK
<1>. QED  BY <1>2, <1>3, <1>4, RequestOnly DEF db

LEMMA RequestLostInv ==
  ASSUME IInv, NEW r \in Submits, RequestLost(r)
  PROVE  IInv'
<1>1. req' = [req EXCEPT ![r] = DoneRequest] /\ req'[r] = DoneRequest
  BY DEF RequestLost, Reply, IInv, TypeOK
<1>2. RequestSound(r)'
  BY <1>1 DEF RequestSound, Open, DoneRequest
<1>3. faults' \in 0..MaxFaults /\ faults' > faults
  BY HeatAssumption DEF RequestLost, IInv, TypeOK
<1>4. /\ lock' \in [Analyses -> Actors] /\ queue' \in Seq(Analyses)
      /\ UNCHANGED <<row, sched, circuit, queue, jobs, worker, expiries>>
  BY DEF RequestLost, Unlock, IInv, TypeOK, Actors
<1>5. \A q \in Submits \ {r} : Open(q) /\ lock[req[q].key] = q
                                 => lock'[req[q].key] = q
  <2>. TAKE q \in Submits \ {r}
  <2>1. Open(q) => req[q].key \in Analyses
    BY DEF Open, IInv, TypeOK, NoRequest, DoneRequest, Request
  <2>. QED  BY <2>1 DEF RequestLost, Unlock, IInv, TypeOK
<1>6. faults' >= faults
  BY <1>3, HeatAssumption DEF IInv, TypeOK
<1>. QED  BY <1>1, <1>2, <1>3, <1>4, <1>5, <1>6, RequestOnly

\* What a request that writes its row and ends its transaction has to preserve.
LEMMA RequestWrites ==
  ASSUME IInv, NEW r \in Submits, NEW x, NEW y, NEW a \in Analyses,
         Open(r), req[r].key = a,
         x \in {NoRequest, DoneRequest} \union Request,
         x.pc \notin {"insert", "create", "commit"},
         req' = [req EXCEPT ![r] = x],
         y \in Row, row' = [row EXCEPT ![a] = y],
         sched' \in [Analyses -> Sched],
         \A b \in Analyses \ {a} : sched'[b] = sched[b],
         Unlock(r, a),
         UNCHANGED <<circuit, queue, jobs, worker, faults, expiries>>,
         "result" \in req[r].cols =>
           y.status \in {"queued", "failed"} /\ y.result = 0 /\ y.expires = "never",
         "result" \notin req[r].cols =>
           y.status \in {"queued", "failed", row[a].status} /\ y.result = row[a].result,
         WithinTTL /\ y.status \in {"queued", "running"} => sched'[a].due # "none",
         req[r].pc = "commit" => y.status # "absent"
  PROVE  IInv'
<1>1. /\ \A q \in Submits : req'[q] = IF q = r THEN x ELSE req[q]
      /\ \A b \in Analyses : row'[b] = IF b = a THEN y ELSE row[b]
      /\ \A b \in Analyses : lock'[b] = IF b = a /\ lock[b] = r THEN Free ELSE lock[b]
      /\ lock' \in [Analyses -> Actors]
  BY DEF IInv, TypeOK, Unlock, Actors
<1>2. TypeOK'
  <2>1. Row' = Row /\ Request' = Request /\ Tick' = Tick /\ Sched' = Sched
    BY DEF Row, Ids, Statuses, Request, Tick, Sched
  <2>2. /\ row' \in [Analyses -> Row]
        /\ req' \in [Submits -> {NoRequest, DoneRequest} \union Request]
    BY DEF IInv, TypeOK
  <2>. QED  BY <1>1, <2>1, <2>2 DEF IInv, TypeOK
<1>3. y.status # "absent"
  BY DEF IInv, RequestsSound, RequestSound, Open
<1>4. \A q \in Submits : req[q].pc \in {"create", "commit"} => req[q].key \in Analyses
  BY DEF IInv, TypeOK, NoRequest, DoneRequest, Request
<1>5. RequestsSound'
  <2>. SUFFICES ASSUME NEW q \in Submits PROVE RequestSound(q)'
    BY DEF RequestsSound
  <2>1. CASE q = r
    BY <1>1, <2>1 DEF RequestSound, Open
  <2>2. CASE q # r
    <3>1. req'[q] = req[q] /\ RequestSound(q)
      BY <1>1, <2>2 DEF IInv, RequestsSound
    <3>2. Open(q) /\ "result" \in req[q].cols
            => lock'[req[q].key] = q /\ row'[req[q].key] = NoRow
      <4>1. SUFFICES ASSUME Open(q), "result" \in req[q].cols
                     PROVE  lock'[req[q].key] = q /\ row'[req[q].key] = NoRow
        OBVIOUS
      <4>2. lock[req[q].key] = q /\ row[req[q].key] = NoRow /\ req[q].key \in Analyses
        BY <1>4, <3>1, <4>1 DEF RequestSound, Open
      <4>3. req[q].key # a
        BY <2>2, <4>2 DEF NoRow, IInv, RequestsSound, RequestSound
      <4>. QED  BY <1>1, <4>2, <4>3
    <3>3. Open(q) /\ "result" \notin req[q].cols => row'[req[q].key].status # "absent"
      BY <1>1, <1>3, <1>4, <3>1 DEF RequestSound, Open
    <3>. QED  BY <3>1, <3>2, <3>3 DEF RequestSound, Open
  <2>. QED  BY <2>1, <2>2
<1>6. Busy => worker.key \in Analyses
  BY DEF Busy, IInv, TypeOK, IdleWorker, Tick
<1>7. "result" \in req[r].cols => row[a] = NoRow
  BY DEF IInv, RequestsSound, RequestSound
<1>8. WithinTTL => "result" \in req[r].cols
  BY DEF IInv, RequestsSound, RequestSound, WithinTTL
<1>9. PollSound'
  <2>. SUFFICES ASSUME Busy PROVE PollSound'
    BY DEF PollSound, Busy
  <2>1. CASE worker.key = a
    <3>1. "result" \notin req[r].cols
      BY <1>7, <2>1 DEF NoRow, IInv, PollSound
    <3>. QED  BY <1>1, <1>3, <1>6, <2>1, <3>1 DEF IInv, PollSound, Busy
  <2>2. CASE worker.key # a
    BY <1>1, <1>6, <2>2 DEF IInv, PollSound, Busy
  <2>. QED  BY <2>1, <2>2
<1>10. SucceededHasResult' /\ AbsentEmpty'
  BY <1>1, <1>3 DEF IInv, SucceededHasResult, AbsentEmpty
<1>11. UnexpiredSound'
  <2>. SUFFICES ASSUME WithinTTL PROVE UnexpiredSound'
    BY DEF UnexpiredSound, CopySound, WithinTTL
  <2>1. y.result = 0 /\ y.expires = "never" /\ row[a].status = "absent"
    BY <1>7, <1>8 DEF NoRow
  <2>2. Busy => worker.key # a
    BY <2>1 DEF IInv, PollSound
  <2>3. \A b \in Analyses : row'[b].expires # "expired" /\ OwnResult(row[b])'
    BY <1>1, <2>1 DEF IInv, UnexpiredSound, CopySound, OwnResult
  <2>. QED  BY <1>1, <1>6, <2>2, <2>3 DEF IInv, UnexpiredSound, CopySound, Busy,
                                              WithinTTL, OwnResult
<1>12. ScheduleDurable'
  BY <1>1 DEF IInv, ScheduleDurable, WithinTTL
<1>13. ChargesExplained'
  <2>. SUFFICES ASSUME WithinTTL, NEW b \in Analyses
                PROVE  Charges(b)' <= faults' + (IF Paid(b)' THEN 1 ELSE 0)
    BY DEF ChargesExplained, WithinTTL
  <2>1. /\ Charges(b)' = Charges(b) /\ Charges(b) \in Nat
        /\ Charges(b) <= faults + (IF Paid(b) THEN 1 ELSE 0)
        /\ faults \in Nat /\ faults' = faults
    BY ChargesType, HeatAssumption DEF IInv, TypeOK, ChargesExplained, Charges
  <2>2. Paid(b) => Paid(b)'
    BY <1>1, <1>3 DEF Paid
  <2>. QED  BY <2>1, <2>2
<1>. QED  BY <1>2, <1>5, <1>9, <1>10, <1>11, <1>12, <1>13 DEF IInv

LEMMA RejectedInv ==
  ASSUME IInv, NEW r \in Submits, Rejected(r)
  PROVE  IInv'
<1>. DEFINE a     == req[r].key
            stale == req[r].row.result # 0
            new   == [req[r].row EXCEPT !.error = TRUE,
                                        !.status = IF stale THEN @ ELSE "failed"]
            cols  == req[r].cols \union Changed(req[r].row, new)
            y     == Updated(row[a], new, cols)
<1>1. /\ req[r] \in Request /\ a \in Analyses /\ row[a] \in Row /\ Open(r)
      /\ req[r].row \in Row
  BY DEF Rejected, IInv, TypeOK, NoRequest, DoneRequest, Request, Open
<1>2. new \in Row /\ new.result = req[r].row.result
      /\ new.status = (IF stale THEN req[r].row.status ELSE "failed")
      /\ new.expires = req[r].row.expires
  BY <1>1 DEF Row, Statuses
<1>3. "result" \in cols <=> "result" \in req[r].cols
  BY <1>2 DEF Changed
<1>4. "status" \in cols /\ "status" \notin req[r].cols => new.status = "failed"
  BY <1>2 DEF Changed
<1>5. /\ req[r].cols \in {{}, Columns}
      /\ "result" \in req[r].cols =>
           new.result = 0 /\ new.status = "failed" /\ new.expires = "never"
  BY <1>1, <1>2 DEF Rejected, IInv, RequestsSound, RequestSound
<1>6. /\ row' = [row EXCEPT ![a] = y] /\ req' = [req EXCEPT ![r] = DoneRequest]
      /\ Unlock(r, a) /\ UNCHANGED <<sched, circuit, queue, jobs, worker, faults, expiries>>
      /\ req[r].pc # "commit"
  BY DEF Rejected, Reply
<1>. HIDE DEF new
<1>7. /\ y \in Row
      /\ y.status = (IF "status" \in cols THEN new.status ELSE row[a].status)
      /\ y.result = (IF "result" \in cols THEN new.result ELSE row[a].result)
      /\ y.expires = (IF "expires" \in cols THEN new.expires ELSE row[a].expires)
  BY <1>1, <1>2, UpdatedRow
<1>. HIDE DEF y, cols, stale
<1>8. "result" \in req[r].cols =>
        y.status \in {"queued", "failed"} /\ y.result = 0 /\ y.expires = "never"
  <2>1. "result" \in req[r].cols => req[r].cols = Columns /\ Columns \subseteq cols
    BY <1>5 DEF Columns, cols
  <2>. QED  BY <1>5, <1>7, <2>1 DEF Columns
<1>9. "result" \notin req[r].cols =>
        y.status \in {"queued", "failed", row[a].status} /\ y.result = row[a].result
  <2>1. "result" \notin req[r].cols => "status" \notin req[r].cols
    BY <1>5 DEF Columns
  <2>. QED  BY <1>3, <1>4, <1>7, <2>1
<1>10. DoneRequest.pc \notin {"insert", "create", "commit"} /\ sched' \in [Analyses -> Sched]
       /\ \A b \in Analyses \ {a} : sched'[b] = sched[b]
  BY <1>6 DEF DoneRequest, IInv, TypeOK
<1>11. WithinTTL => "result" \in req[r].cols
  BY <1>1 DEF IInv, RequestsSound, RequestSound, WithinTTL
<1>12. WithinTTL /\ y.status \in {"queued", "running"} => sched'[a].due # "none"
  <2>1. WithinTTL => y.status = "failed"
    <3>1. WithinTTL => "status" \in cols
      BY <1>5, <1>11 DEF cols, Columns
    <3>. QED  BY <1>5, <1>7, <1>11, <3>1
  <2>. QED  BY <2>1
<1>. HIDE DEF a
<1>. QED  BY <1>1, <1>6, <1>7, <1>8, <1>9, <1>10, <1>12, RequestWrites DEF a

LEMMA CommitSubmissionInv ==
  ASSUME IInv, NEW r \in Submits, CommitSubmission(r)
  PROVE  IInv'
<1>. DEFINE a == req[r].key
            x == [req[r] EXCEPT !.pc = "enqueue", !.row = NoRow, !.cols = {}]
            y == Updated(row[a], req[r].row, req[r].cols)
<1>1. /\ req[r] \in Request /\ a \in Analyses /\ row[a] \in Row /\ Open(r)
      /\ req[r].row \in Row /\ req[r].pc = "commit" /\ req[r].row.status = "queued"
  BY DEF CommitSubmission, IInv, TypeOK, NoRequest, DoneRequest, Request, Open,
         RequestsSound, RequestSound
<1>2. x \in {NoRequest, DoneRequest} \union Request
      /\ x.pc \notin {"insert", "create", "commit"}
  BY <1>1, NoRowIsRow DEF Request, IInv, TypeOK
<1>3. /\ y \in Row
      /\ y.status = (IF "status" \in req[r].cols THEN "queued" ELSE row[a].status)
      /\ y.result = (IF "result" \in req[r].cols THEN req[r].row.result ELSE row[a].result)
      /\ y.expires = (IF "expires" \in req[r].cols THEN req[r].row.expires ELSE row[a].expires)
  BY <1>1, UpdatedRow
<1>4. /\ row' = [row EXCEPT ![a] = y] /\ req' = [req EXCEPT ![r] = x] /\ Unlock(r, a)
      /\ UNCHANGED <<circuit, queue, jobs, worker, faults, expiries>>
  BY DEF CommitSubmission, IInv, TypeOK
<1>5. /\ sched' \in [Analyses -> Sched] /\ sched'[a].due = "now"
      /\ \A b \in Analyses \ {a} : sched'[b] = sched[b]
  BY <1>1, HeatAssumption DEF CommitSubmission, IInv, TypeOK, Sched
<1>6. "result" \in req[r].cols =>
        y.status \in {"queued", "failed"} /\ y.result = 0 /\ y.expires = "never"
  BY <1>1, <1>3 DEF IInv, RequestsSound, RequestSound, Columns
<1>7. "result" \notin req[r].cols =>
        /\ y.status \in {"queued", "failed", row[a].status} /\ y.result = row[a].result
        /\ row[a].status # "absent"
  BY <1>1, <1>3 DEF IInv, RequestsSound, RequestSound
<1>. HIDE DEF y, x
<1>. QED  BY <1>1, <1>2, <1>3, <1>4, <1>5, <1>6, <1>7, RequestWrites

\* When an activity is added the rows and copies of the tables stay well typed
\* and the results that were there keep their activity.
LEMMA JobAdded ==
  ASSUME TypeOK, NEW b \in Analyses, jobs' = Append(jobs, NewJob(b))
  PROVE  /\ \A x \in Row : x \in Row'
         /\ \A x \in Request : x \in Request'
         /\ \A x \in Tick : x \in Tick'
         /\ jobs' \in Seq([key : Analyses, state : {"pending", "succeeded", "failed"}])
         /\ \A x \in Row : OwnResult(x) /\ x.result # 0 =>
              x.result = x.activity /\ jobs'[x.activity].state = "succeeded"
<1>1. /\ jobs \in Seq([key : Analyses, state : {"pending", "succeeded", "failed"}])
      /\ Len(jobs') = Len(jobs) + 1 /\ Len(jobs) \in Nat
      /\ \A j \in 1..Len(jobs) : jobs'[j] = jobs[j]
      /\ jobs' \in Seq([key : Analyses, state : {"pending", "succeeded", "failed"}])
  BY DEF TypeOK, NewJob
<1>2. /\ \A x \in Row : x \in Row'
      /\ \A x \in Request : x \in Request'
      /\ \A x \in Tick : x \in Tick'
  BY <1>1, RowGrows
<1>3. ASSUME NEW x \in Row, OwnResult(x), x.result # 0
      PROVE  x.result = x.activity /\ jobs'[x.activity].state = "succeeded"
  BY <1>1, <1>3 DEF OwnResult, Row, Ids
<1>. QED  BY <1>1, <1>2, <1>3

LEMMA LostAnswerInv ==
  ASSUME IInv, NEW r \in Submits, LostAnswer(r)
  PROVE  IInv'
<1>. DEFINE a == req[r].key
<1>1. a \in Analyses /\ jobs' = Append(jobs, NewJob(a)) /\ TypeOK
  BY DEF LostAnswer, IInv, TypeOK, NoRequest, DoneRequest, Request
<1>2. /\ faults' \in 0..MaxFaults /\ faults' = faults + 1 /\ faults \in Nat
      /\ UNCHANGED <<row, sched, circuit, lock, queue, req, worker, expiries>>
  BY HeatAssumption DEF LostAnswer, IInv, TypeOK, db
<1>. HIDE DEF a
<1>3. TypeOK'
  <2>1. /\ row' \in [Analyses -> Row'] /\ Sched' = Sched
        /\ req' \in [Submits -> {NoRequest, DoneRequest} \union Request']
        /\ worker' \in {IdleWorker} \union Tick'
    BY <1>1, <1>2, JobAdded DEF TypeOK, Sched
  <2>. QED  BY <1>1, <1>2, <2>1, JobAdded DEF TypeOK
<1>4. RequestsSound' /\ AbsentEmpty' /\ PollSound' /\ SucceededHasResult' /\ ScheduleDurable'
  BY <1>2 DEF IInv, RequestsSound, RequestSound, Open, AbsentEmpty, PollSound, Busy,
              SucceededHasResult, ScheduleDurable, WithinTTL
<1>5. UnexpiredSound'
  <2>. SUFFICES ASSUME WithinTTL PROVE UnexpiredSound'
    BY <1>2 DEF UnexpiredSound, CopySound, WithinTTL
  <2>1. ASSUME NEW b \in Analyses PROVE row'[b].expires # "expired" /\ OwnResult(row[b])'
    BY <1>1, <1>2, JobAdded DEF IInv, TypeOK, UnexpiredSound, CopySound, OwnResult
  <2>2. Busy => OwnResult(worker.row)'
    <3>1. Busy => worker.row \in Row
      BY DEF IInv, TypeOK, Busy, Tick, IdleWorker
    <3>2. Busy => OwnResult(worker.row)
      BY DEF IInv, UnexpiredSound, CopySound
    <3>. QED  BY <1>1, <1>2, <3>1, <3>2, JobAdded DEF OwnResult
  <2>. QED  BY <1>2, <2>1, <2>2 DEF IInv, UnexpiredSound, CopySound, Busy, WithinTTL
<1>6. ChargesExplained'
  <2>. SUFFICES ASSUME WithinTTL, NEW b \in Analyses
                PROVE  Charges(b)' <= faults' + (IF Paid(b)' THEN 1 ELSE 0)
    BY <1>2 DEF ChargesExplained, WithinTTL
  <2>1. /\ Charges(b)' <= Charges(b) + 1 /\ Charges(b)' \in Nat /\ Charges(b) \in Nat
        /\ Charges(b) <= faults + (IF Paid(b) THEN 1 ELSE 0)
        /\ Paid(b)' <=> Paid(b)
    BY <1>1, <1>2, ChargesType, ChargesGrow DEF IInv, ChargesExplained, Paid
  <2>. QED  BY <1>2, <2>1
<1>. QED  BY <1>3, <1>4, <1>5, <1>6 DEF IInv

LEMMA AcceptedInv ==
  ASSUME IInv, NEW r \in Submits, Accepted(r)
  PROVE  IInv'
<1>. DEFINE a    == req[r].key
            new  == [req[r].row EXCEPT !.status = "queued", !.error = FALSE,
                                       !.activity = Len(jobs) + 1]
            cols == req[r].cols \union Changed(req[r].row, new)
            x    == [req[r] EXCEPT !.pc = "commit", !.row = new, !.cols = cols]
<1>1. /\ req[r] \in Request /\ a \in Analyses /\ r # Free /\ r \in Actors /\ Open(r)
      /\ req[r].pc = "create" /\ req[r].row \in Row /\ "result" \in Columns
  BY HeatAssumption DEF Accepted, IInv, TypeOK, NoRequest, DoneRequest, Request, Submits,
                        Free, Actors, Open, Columns
<1>2. /\ jobs' = Append(jobs, NewJob(a)) /\ TypeOK /\ lock[a] \in {Free, r}
      /\ req' = [req EXCEPT ![r] = x]
      /\ lock' = [lock EXCEPT ![a] = r]
      /\ UNCHANGED <<row, sched, circuit, queue, worker, faults, expiries>>
  BY <1>1 DEF Accepted, IInv, TypeOK, MayWrite
<1>3. /\ new \in Row' /\ new.result = req[r].row.result /\ new.status = "queued"
      /\ new.expires = req[r].row.expires
  <2>1. req[r].row \in Row' /\ Len(jobs') = Len(jobs) + 1 /\ Len(jobs) \in Nat
    BY <1>1, <1>2, JobAdded DEF TypeOK
  <2>2. /\ new.result = req[r].row.result /\ new.status = "queued"
        /\ new.expires = req[r].row.expires /\ new.error = FALSE
        /\ new.activity = Len(jobs) + 1
    BY <1>1 DEF Row
  <2>3. new.activity \in Ids'
    BY <2>1, <2>2 DEF Ids
  <2>4. new = [req[r].row EXCEPT !.status = "queued", !.error = FALSE,
                                 !.activity = new.activity]
    BY <2>2
  <2>5. new \in Row'
    BY <2>1, <2>3, <2>4 DEF Row, Statuses
  <2>. QED  BY <2>2, <2>5
<1>4. /\ "result" \in cols <=> "result" \in req[r].cols
      /\ cols \subseteq Columns
      /\ req[r].cols = Columns => cols = Columns
  BY <1>1, <1>3 DEF Changed, Request
<1>. HIDE DEF new, cols
<1>5. x.pc = "commit" /\ x.key = a /\ x.row = new /\ x.cols = cols /\ x \in Request'
  <2>1. req[r] \in Request' /\ Columns' = Columns
    BY <1>1, <1>2, JobAdded DEF Columns
  <2>. QED  BY <1>3, <1>4, <2>1 DEF Request
<1>. HIDE DEF x
<1>6. /\ \A q \in Submits : req'[q] = IF q = r THEN x ELSE req[q]
      /\ \A b \in Analyses : lock'[b] = IF b = a THEN r ELSE lock[b]
      /\ lock' \in [Analyses -> Actors]
  BY <1>1, <1>2 DEF TypeOK
<1>. HIDE DEF a
<1>7. TypeOK'
  <2>1. /\ row' \in [Analyses -> Row'] /\ Sched' = Sched
        /\ req' \in [Submits -> {NoRequest, DoneRequest} \union Request']
        /\ worker' \in {IdleWorker} \union Tick'
    BY <1>1, <1>2, <1>5, JobAdded DEF TypeOK, Sched
  <2>. QED  BY <1>1, <1>2, <1>6, <2>1, JobAdded DEF TypeOK
<1>8. \A q \in Submits : req[q].pc \in {"create", "commit"} => req[q].key \in Analyses
  BY DEF IInv, TypeOK, NoRequest, DoneRequest, Request
<1>9. RequestsSound'
  <2>. SUFFICES ASSUME NEW q \in Submits PROVE RequestSound(q)'
    BY DEF RequestsSound
  <2>0. RequestSound(q) /\ RequestSound(r)
    BY DEF IInv, RequestsSound
  <2>1. CASE q = r
    <3>1. CASE "result" \in req[r].cols
      BY <1>1, <1>2, <1>3, <1>4, <1>5, <1>6, <2>0, <2>1, <3>1 DEF RequestSound, Open, a
    <3>2. CASE "result" \notin req[r].cols
      BY <1>1, <1>2, <1>3, <1>4, <1>5, <1>6, <2>0, <2>1, <3>2 DEF RequestSound, Open, a
    <3>. QED  BY <3>1, <3>2
  <2>2. CASE q # r
    <3>1. req'[q] = req[q]
      BY <1>6, <2>2
    <3>2. Open(q) /\ lock[req[q].key] = q => lock'[req[q].key] = q
      BY <1>2, <1>6, <1>8, <2>2, HeatAssumption DEF Open, Free, Submits
    <3>. QED  BY <1>2, <2>0, <3>1, <3>2 DEF RequestSound, Open
  <2>. QED  BY <2>1, <2>2
<1>10. AbsentEmpty' /\ PollSound' /\ SucceededHasResult' /\ ScheduleDurable'
  BY <1>2 DEF IInv, AbsentEmpty, PollSound, Busy, SucceededHasResult, ScheduleDurable,
              WithinTTL
<1>11. UnexpiredSound'
  <2>. SUFFICES ASSUME WithinTTL PROVE UnexpiredSound'
    BY <1>2 DEF UnexpiredSound, CopySound, WithinTTL
  <2>1. ASSUME NEW b \in Analyses PROVE row'[b].expires # "expired" /\ OwnResult(row[b])'
    BY <1>1, <1>2, JobAdded DEF IInv, TypeOK, UnexpiredSound, CopySound, OwnResult
  <2>2. Busy => OwnResult(worker.row)'
    <3>1. Busy => worker.row \in Row
      BY DEF IInv, TypeOK, Busy, Tick, IdleWorker
    <3>2. Busy => OwnResult(worker.row)
      BY DEF IInv, UnexpiredSound, CopySound
    <3>. QED  BY <1>1, <1>2, <3>1, <3>2, JobAdded DEF OwnResult
  <2>. QED  BY <1>2, <2>1, <2>2 DEF IInv, UnexpiredSound, CopySound, Busy, WithinTTL
<1>12. ChargesExplained'
  <2>. SUFFICES ASSUME WithinTTL, NEW b \in Analyses
                PROVE  Charges(b)' <= faults' + (IF Paid(b)' THEN 1 ELSE 0)
    BY <1>2 DEF ChargesExplained, WithinTTL
  <2>1. /\ Charges(b)' = Charges(b) + (IF b = a THEN 1 ELSE 0) /\ Charges(b) \in Nat
        /\ Charges(b) <= faults + (IF Paid(b) THEN 1 ELSE 0) /\ faults \in Nat
    BY <1>1, <1>2, ChargesType, ChargesGrow, HeatAssumption
       DEF IInv, TypeOK, ChargesExplained
  <2>2. CASE b # a
    <3>1. Paid(b) => Paid(b)'
      BY <1>1, <1>2, <1>6, <2>2 DEF Paid, a
    <3>. QED  BY <1>2, <2>1, <2>2, <3>1
  <2>3. CASE b = a
    <3>1. Paid(b)'
      BY <1>5, <1>6, <2>3 DEF Paid
    <3>2. \A q \in Submits :
             Open(q) => lock[req[q].key] = q /\ row[req[q].key].status = "absent"
      BY DEF IInv, RequestsSound, RequestSound, WithinTTL, NoRow
    <3>3. ~Paid(b)
      <4>1. row[b].status = "absent" /\ lock[b] = r
        BY <1>1, <2>3, <3>2 DEF a
      <4>2. \A q \in Submits : req[q].pc = "commit" => req[q].key # b
        BY <1>1, <3>2, <4>1 DEF Open
      <4>. QED  BY <4>1, <4>2 DEF Paid
    <3>. QED  BY <1>2, <2>1, <2>3, <3>1, <3>3
  <2>. QED  BY <2>2, <2>3
<1>. QED  BY <1>7, <1>9, <1>10, <1>11, <1>12 DEF IInv

-----------------------------------------------------------------------------
(***************************************************************************)
(* The steps of the worker.                                                *)
(***************************************************************************)

\* What a step that leaves the tables and the requests alone has to preserve.
LEMMA WorkerOnly ==
  ASSUME IInv, worker' \in {IdleWorker} \union Tick, queue' \in Seq(Analyses),
         UNCHANGED <<row, sched, circuit, jobs, req, expiries>>,
         faults' \in 0..MaxFaults, faults' >= faults,
         lock' \in [Analyses -> Actors],
         \A a \in Analyses : lock[a] \in Submits => lock'[a] = lock[a],
         PollSound', WithinTTL => CopySound'
  PROVE  IInv'
<1>1. TypeOK'
  <2>1. Row' = Row /\ Request' = Request /\ Tick' = Tick /\ Sched' = Sched
    BY DEF Row, Ids, Statuses, Request, Tick, Sched
  <2>. QED  BY <2>1 DEF IInv, TypeOK
<1>2. \A q \in Submits : req[q].pc \in {"create", "commit"} => req[q].key \in Analyses
  BY DEF IInv, TypeOK, NoRequest, DoneRequest, Request
<1>3. RequestsSound'
  BY <1>2 DEF IInv, RequestsSound, RequestSound, Open
<1>4. AbsentEmpty' /\ SucceededHasResult' /\ ScheduleDurable' /\ UnexpiredSound'
  BY DEF IInv, AbsentEmpty, SucceededHasResult, ScheduleDurable, UnexpiredSound, OwnResult,
         WithinTTL
<1>5. ChargesExplained'
  <2>. SUFFICES ASSUME WithinTTL, NEW b \in Analyses
                PROVE  Charges(b)' <= faults' + (IF Paid(b)' THEN 1 ELSE 0)
    BY DEF ChargesExplained, WithinTTL
  <2>1. /\ Charges(b)' = Charges(b) /\ Charges(b) \in Nat
        /\ Charges(b) <= faults + (IF Paid(b) THEN 1 ELSE 0)
        /\ faults \in Nat /\ faults' \in Nat
    BY ChargesType, HeatAssumption DEF IInv, TypeOK, ChargesExplained, Charges
  <2>2. Paid(b) => Paid(b)'
    BY DEF Paid
  <2>. QED  BY <2>1, <2>2
<1>. QED  BY <1>1, <1>3, <1>4, <1>5 DEF IInv

LEMMA DequeueInv ==
  ASSUME IInv, Dequeue
  PROVE  IInv'
<1>. DEFINE a == Head(queue)
<1>1. a \in Analyses /\ queue' \in Seq(Analyses) /\ row[a] \in Row
  BY DEF Dequeue, IInv, TypeOK
<1>2. /\ worker'.pc = IF row[a].activity = 0 \/ circuit.until = "later"
                      THEN "skipped" ELSE "poll"
      /\ worker'.key = a /\ worker'.row = row[a] /\ worker'.cols = {}
      /\ worker'.set = {} /\ worker'.failed = FALSE
      /\ worker' \in Tick
  BY <1>1, HeatAssumption DEF Dequeue, Tick, Sched, NoPoll
<1>3. /\ UNCHANGED <<row, sched, circuit, lock, jobs, req, expiries, faults>>
      /\ faults' \in 0..MaxFaults /\ faults' >= faults /\ lock' \in [Analyses -> Actors]
  BY HeatAssumption DEF Dequeue, db, IInv, TypeOK
<1>. HIDE DEF a
<1>4. Busy' => row[a].status # "absent"
  BY <1>1, <1>2 DEF Busy, IInv, AbsentEmpty, NoRow
<1>5. PollSound'
  BY <1>1, <1>2, <1>3, <1>4 DEF PollSound, Busy, IInv, SucceededHasResult
<1>6. WithinTTL => CopySound'
  BY <1>1, <1>2, <1>3 DEF CopySound, Busy, IInv, UnexpiredSound, OwnResult
<1>. QED  BY <1>1, <1>2, <1>3, <1>5, <1>6, WorkerOnly

LEMMA PollAnsweredInv ==
  ASSUME IInv, PollAnswered
  PROVE  IInv'
<1>. DEFINE a == worker.key
            j == worker.row.activity
<1>1. /\ worker \in Tick /\ a \in Analyses /\ worker.row \in Row /\ Busy
      /\ worker.pc = "poll" /\ worker.cols = {} /\ worker.set = {} /\ j \in 1..Len(jobs)
      /\ jobs[j].state \in {"pending", "succeeded", "failed"}
      /\ sched[a] \in Sched /\ row[a] \in Row
  <2>1. worker \in Tick /\ worker.pc = "poll" /\ Busy
    BY DEF PollAnswered, IInv, TypeOK, IdleWorker, Busy
  <2>2. worker.cols = {} /\ worker.set = {} /\ j # 0
    BY <2>1 DEF IInv, PollSound
  <2>3. a \in Analyses /\ worker.row \in Row
    BY <2>1 DEF Tick
  <2>4. j \in 1..Len(jobs)
    <3>1. j \in 0..Len(jobs) /\ Len(jobs) \in Nat
      BY <2>3 DEF IInv, TypeOK, Row, Ids
    <3>. QED  BY <2>2, <3>1
  <2>5. jobs[j] \in [key : Analyses, state : {"pending", "succeeded", "failed"}]
    <3>1. jobs \in Seq([key : Analyses, state : {"pending", "succeeded", "failed"}])
      BY DEF IInv, TypeOK
    <3>. QED  BY <2>4, <3>1, ElementOfSeq
  <2>6. sched[a] \in Sched /\ row[a] \in Row
    BY <2>3 DEF IInv, TypeOK
  <2>. QED  BY <2>1, <2>2, <2>3, <2>4, <2>5, <2>6
<1>2. PICK answer \in IF jobs[j].state = "pending" THEN {"queued", "running"}
                      ELSE {jobs[j].state} :
        LET done == answer = "succeeded"
            new  == [worker.row EXCEPT !.status = answer,
                       !.result = ResultOf(answer, j),
                       !.expires = IF done THEN "fresh" ELSE @]
            cols == Changed(worker.row, new)
                    \union (IF done THEN {"expires"} ELSE {})
            next == NextPoll(answer)
        IN  /\ MayWrite(Poller, a, cols)
            /\ lock' = IF cols = {} THEN lock ELSE [lock EXCEPT ![a] = Poller]
            /\ worker' = [worker EXCEPT !.pc = "commit", !.row = new, !.cols = cols,
                 !.sched = [attempts |-> OneMore(sched[a].attempts), due |-> next],
                 !.set = {"attempts"} \union
                         (IF {next, sched[a].due} = {"none"} THEN {} ELSE {"due"})]
  BY DEF PollAnswered
<1>. DEFINE done == answer = "succeeded"
            new  == [worker.row EXCEPT !.status = answer,
                       !.result = ResultOf(answer, j),
                       !.expires = IF done THEN "fresh" ELSE @]
            cols == Changed(worker.row, new) \union (IF done THEN {"expires"} ELSE {})
            next == NextPoll(answer)
            nsch == [attempts |-> OneMore(sched[a].attempts), due |-> next]
            nset == {"attempts"} \union
                    (IF {next, sched[a].due} = {"none"} THEN {} ELSE {"due"})
<1>3. /\ answer \in {"queued", "running", "succeeded", "failed"}
      /\ done => jobs[j].state = "succeeded"
      /\ jobs[j].state = "succeeded" => done
  BY <1>1, <1>2
<1>4. /\ new \in Row /\ new.status = answer /\ new.result = (IF done THEN j ELSE 0)
      /\ new.activity = j /\ new.error = worker.row.error
      /\ new.expires = (IF done THEN "fresh" ELSE worker.row.expires)
  <2>1. /\ new.status = answer /\ new.result = (IF done THEN j ELSE 0)
        /\ new.activity = j /\ new.error = worker.row.error
        /\ new.expires = (IF done THEN "fresh" ELSE worker.row.expires)
    BY <1>1, <1>3 DEF Row, ResultOf
  <2>2. new.result \in Ids /\ new.status \in Statuses
        /\ new.expires \in {"never", "fresh", "expired"}
    <3>1. worker.row.expires \in {"never", "fresh", "expired"} /\ Len(jobs) \in Nat
      BY <1>1 DEF Row, IInv, TypeOK
    <3>. QED  BY <1>1, <1>3, <2>1, <3>1 DEF Ids, Statuses
  <2>3. new = [worker.row EXCEPT !.status = new.status, !.result = new.result,
                                 !.expires = new.expires]
    BY <2>1 DEF ResultOf
  <2>4. new \in Row
    BY <1>1, <2>2, <2>3 DEF Row
  <2>. QED  BY <2>1, <2>4
<1>5. nsch \in Sched /\ nset \subseteq {"attempts", "due"}
      /\ (answer \in {"queued", "running"} => "due" \in nset /\ nsch.due = "later")
  BY <1>1, <1>3, HeatAssumption DEF Sched, OneMore, NextPoll, Terminal
<1>6. /\ worker' = [worker EXCEPT !.pc = "commit", !.row = new, !.cols = cols,
                                  !.sched = nsch, !.set = nset]
      /\ MayWrite(Poller, a, cols)
      /\ lock' = IF cols = {} THEN lock ELSE [lock EXCEPT ![a] = Poller]
  BY <1>2
<1>7. cols \subseteq Columns /\ \A c \in Columns \ cols : new[c] = worker.row[c]
  BY DEF Changed, Columns
<1>8. "result" \notin cols => new.result = worker.row.result
  BY <1>7 DEF Columns
<1>9. "status" \notin cols => new.status = worker.row.status
  BY <1>7 DEF Columns
<1>. HIDE DEF new, cols, nsch, nset, next
<1>10. /\ worker' \in Tick /\ worker'.pc = "commit" /\ worker'.key = a /\ worker'.row = new
       /\ worker'.cols = cols /\ worker'.sched = nsch /\ worker'.set = nset
  BY <1>1, <1>4, <1>5, <1>6, <1>7 DEF Tick
<1>11. /\ UNCHANGED <<row, sched, circuit, queue, jobs, req, faults, expiries>>
       /\ queue' \in Seq(Analyses) /\ faults' \in 0..MaxFaults /\ faults' >= faults
       /\ lock' \in [Analyses -> Actors]
       /\ \A b \in Analyses : lock[b] \in Submits => lock'[b] = lock[b]
  <2>1. lock' \in [Analyses -> Actors]
    BY <1>1, <1>6 DEF IInv, TypeOK, Actors
  <2>2. \A b \in Analyses : lock[b] \in Submits => lock'[b] = lock[b]
    BY <1>1, <1>6, HeatAssumption DEF IInv, TypeOK, MayWrite, Submits, Free, Poller
  <2>3. UNCHANGED <<row, sched, circuit, queue, jobs, req, faults, expiries>>
    BY DEF PollAnswered
  <2>. QED  BY <2>1, <2>2, <2>3, HeatAssumption DEF IInv, TypeOK
<1>12. PollSound'
  <2>1. /\ row[a].status # "absent" /\ worker.row.result = row[a].result
        /\ row[a].status = "succeeded" => worker.row.status = "succeeded"
    BY <1>1 DEF IInv, PollSound
  <2>2. new.status # "absent" /\ (new.status = "succeeded" => new.result # 0)
    BY <1>1, <1>3, <1>4
  <2>. QED  BY <1>8, <1>9, <1>10, <1>11, <2>1, <2>2 DEF PollSound, Busy
<1>13. WithinTTL => CopySound'
  <2>. SUFFICES ASSUME WithinTTL PROVE CopySound'
    OBVIOUS
  <2>1. /\ \A c \in Columns : worker.row[c] = row[a][c]
        /\ worker.row.expires # "expired" /\ OwnResult(worker.row)
        /\ worker.row.result = row[a].result
    BY <1>1 DEF IInv, UnexpiredSound, CopySound, PollSound
  <2>2. \A c \in Columns \ cols : new[c] = row[a][c]
    BY <1>7, <2>1
  <2>3. new.expires # "expired" /\ OwnResult(new)
    BY <1>3, <1>4, <2>1 DEF OwnResult
  <2>4. row[a].result # 0 => new.result = row[a].result
    BY <1>3, <1>4, <2>1 DEF OwnResult
  <2>5. new.status \in {"queued", "running"} => "due" \in nset /\ nsch.due = "later"
    BY <1>4, <1>5
  <2>6. OwnResult(worker.row)'
    BY <1>10, <1>11, <2>3 DEF OwnResult
  <2>7. \A c \in Columns \ worker'.cols : worker'.row[c] = row'[worker'.key][c]
    BY <1>10, <1>11, <2>2
  <2>8. Columns' = Columns
    BY DEF Columns
  <2>. QED  BY <1>10, <1>11, <2>3, <2>4, <2>5, <2>6, <2>7, <2>8 DEF CopySound, Busy
<1>. QED  BY <1>10, <1>11, <1>12, <1>13, WorkerOnly

LEMMA PollFailedInv ==
  ASSUME IInv, PollFailed
  PROVE  IInv'
<1>. DEFINE a == worker.key
<1>1. /\ worker \in Tick /\ a \in Analyses /\ worker.row \in Row /\ Busy
      /\ worker.pc = "poll" /\ worker.cols = {} /\ worker.set = {}
      /\ sched[a] \in Sched /\ row[a] \in Row
  <2>1. worker \in Tick /\ worker.pc = "poll" /\ Busy
    BY DEF PollFailed, IInv, TypeOK, IdleWorker, Busy
  <2>2. worker.cols = {} /\ worker.set = {}
    BY <2>1 DEF IInv, PollSound
  <2>. QED  BY <2>1, <2>2 DEF IInv, TypeOK, Tick
<1>2. PICK retryable \in BOOLEAN :
        LET retry == MayRetry(sched[a].attempts, retryable)
            new   == FailedRow(worker.row, retry)
        IN  worker' = [worker EXCEPT !.pc = "commit", !.failed = TRUE, !.row = new,
              !.cols = Changed(worker.row, new),
              !.sched = IF retry THEN [attempts |-> OneMore(sched[a].attempts),
                                       due |-> "later"]
                        ELSE sched[a],
              !.set = IF retry THEN {"attempts", "due"} ELSE {}]
  BY DEF PollFailed
<1>. DEFINE retry == MayRetry(sched[a].attempts, retryable)
            new   == FailedRow(worker.row, retry)
            cols  == Changed(worker.row, new)
            nsch  == IF retry THEN [attempts |-> OneMore(sched[a].attempts), due |-> "later"]
                     ELSE sched[a]
            nset  == IF retry THEN {"attempts", "due"} ELSE {}
<1>3. /\ new \in Row /\ new.status = (IF retry THEN "running" ELSE "failed")
      /\ new.result = worker.row.result /\ new.activity = worker.row.activity
      /\ new.expires = worker.row.expires
  BY <1>1 DEF Row, Statuses, FailedRow
<1>4. nsch \in Sched /\ nset \subseteq {"attempts", "due"}
      /\ (new.status \in {"queued", "running"} => "due" \in nset /\ nsch.due = "later")
  BY <1>1, <1>3, HeatAssumption DEF Sched, OneMore
<1>5. cols \subseteq Columns /\ \A c \in Columns \ cols : new[c] = worker.row[c]
  BY DEF Changed, Columns
<1>6. worker' = [worker EXCEPT !.pc = "commit", !.failed = TRUE, !.row = new,
                               !.cols = cols, !.sched = nsch, !.set = nset]
  BY <1>2
<1>7. "status" \notin cols => new.status = worker.row.status
  BY <1>5 DEF Columns
<1>. HIDE DEF retry, new, cols, nsch, nset
<1>8. /\ worker' \in Tick /\ worker'.pc = "commit" /\ worker'.key = a /\ worker'.row = new
      /\ worker'.cols = cols /\ worker'.sched = nsch /\ worker'.set = nset
  BY <1>1, <1>3, <1>4, <1>5, <1>6 DEF Tick
<1>9. /\ UNCHANGED <<row, sched, circuit, lock, queue, jobs, req, faults, expiries>>
      /\ queue' \in Seq(Analyses) /\ faults' \in 0..MaxFaults /\ faults' >= faults
      /\ lock' \in [Analyses -> Actors]
  BY HeatAssumption DEF PollFailed, db, IInv, TypeOK
<1>10. PollSound'
  <2>1. /\ row[a].status # "absent" /\ worker.row.result = row[a].result
        /\ row[a].status = "succeeded" => worker.row.status = "succeeded"
    BY <1>1 DEF IInv, PollSound
  <2>. QED  BY <1>3, <1>7, <1>8, <1>9, <2>1 DEF PollSound, Busy
<1>11. WithinTTL => CopySound'
  <2>. SUFFICES ASSUME WithinTTL PROVE CopySound'
    OBVIOUS
  <2>1. /\ \A c \in Columns : worker.row[c] = row[a][c]
        /\ worker.row.expires # "expired" /\ OwnResult(worker.row)
        /\ worker.row.result = row[a].result
    BY <1>1 DEF IInv, UnexpiredSound, CopySound, PollSound
  <2>2. \A c \in Columns \ cols : new[c] = row[a][c]
    BY <1>5, <2>1
  <2>3. new.expires # "expired" /\ OwnResult(new)
    BY <1>3, <2>1 DEF OwnResult
  <2>4. OwnResult(worker.row)'
    BY <1>8, <1>9, <2>3 DEF OwnResult
  <2>5. \A c \in Columns \ worker'.cols : worker'.row[c] = row'[worker'.key][c]
    BY <1>8, <1>9, <2>2
  <2>6. Columns' = Columns
    BY DEF Columns
  <2>. QED  BY <1>3, <1>4, <1>8, <1>9, <2>1, <2>3, <2>4, <2>5, <2>6 DEF CopySound, Busy
<1>. QED  BY <1>8, <1>9, <1>10, <1>11, WorkerOnly

\* The schedule after a commit of some of its columns.
LEMMA SchedUpdated ==
  ASSUME NEW old \in Sched, NEW new \in Sched, NEW set,
         NEW y, y = [f \in {"attempts", "due"} |-> IF f \in set THEN new[f] ELSE old[f]]
  PROVE  y \in Sched /\ ("due" \in set => y.due = new.due)
BY DEF Sched

\* The worker's lock is released and no request's.
LEMMA Unlocked ==
  ASSUME lock \in [Analyses -> Actors], NEW a \in Analyses, Unlock(Poller, a)
  PROVE  /\ lock' \in [Analyses -> Actors]
         /\ \A b \in Analyses : lock[b] \in Submits => lock'[b] = lock[b]
<1>1. Free \in Actors /\ Poller \notin Submits
  BY HeatAssumption DEF Actors, Submits, Poller
<1>2. lock' \in [Analyses -> Actors]
  BY <1>1 DEF Unlock
<1>3. \A b \in Analyses : lock[b] \in Submits => lock'[b] = lock[b]
  BY <1>1 DEF Unlock
<1>. QED  BY <1>2, <1>3

LEMMA PollCommitInv ==
  ASSUME IInv, PollCommit
  PROVE  IInv'
<1>. DEFINE a == worker.key
            y == Updated(row[a], worker.row, worker.cols)
            z == [f \in {"attempts", "due"} |->
                    IF f \in worker.set THEN worker.sched[f] ELSE sched[a][f]]
<1>1. /\ worker \in Tick /\ a \in Analyses /\ worker.row \in Row /\ Busy
      /\ worker.pc = "commit" /\ row[a] \in Row /\ sched[a] \in Sched
      /\ worker.sched \in Sched
  <2>1. worker \in Tick /\ worker.pc = "commit" /\ Busy
    BY DEF PollCommit, IInv, TypeOK, IdleWorker, Busy
  <2>. QED  BY <2>1 DEF IInv, TypeOK, Tick
<1>2. /\ y \in Row
      /\ y.status = (IF "status" \in worker.cols THEN worker.row.status ELSE row[a].status)
      /\ y.result = (IF "result" \in worker.cols THEN worker.row.result ELSE row[a].result)
  BY <1>1, UpdatedRow
<1>3. z \in Sched /\ ("due" \in worker.set => z.due = worker.sched.due)
  BY <1>1, SchedUpdated
<1>4. /\ row' = [row EXCEPT ![a] = y] /\ sched' = [sched EXCEPT ![a] = z]
      /\ lock[a] \in Submits => worker.cols = {}
      /\ Unlock(Poller, a)
      /\ UNCHANGED <<queue, jobs, req, faults, expiries>>
  BY HeatAssumption DEF PollCommit, MayWrite, Free, Poller, Submits
<1>. HIDE DEF y, z
<1>5. /\ \A b \in Analyses : row'[b] = IF b = a THEN y ELSE row[b]
      /\ \A b \in Analyses : sched'[b] = IF b = a THEN z ELSE sched[b]
      /\ \A b \in Analyses : lock[b] \in Submits => lock'[b] = lock[b]
      /\ lock' \in [Analyses -> Actors]
  BY <1>1, <1>4, Unlocked DEF IInv, TypeOK
<1>6. worker' \in Tick /\ worker'.pc = "after"
  BY <1>1, NoRowIsRow DEF PollCommit, Tick, IInv, TypeOK
<1>7. circuit' \in [failures : 0..CircuitThreshold, until : {"none", "later", "past"}]
  BY DEF PollCommit, Failures, CircuitThreshold, IInv, TypeOK
<1>8. TypeOK'
  <2>1. Row' = Row /\ Request' = Request /\ Tick' = Tick /\ Sched' = Sched
    BY <1>4 DEF Row, Ids, Statuses, Request, Tick, Sched
  <2>2. row' \in [Analyses -> Row] /\ sched' \in [Analyses -> Sched]
    BY <1>2, <1>3, <1>4 DEF IInv, TypeOK
  <2>. QED  BY <1>4, <1>5, <1>6, <1>7, <2>1, <2>2 DEF IInv, TypeOK
<1>9. /\ row[a].status # "absent" /\ y.status # "absent"
      /\ y.status = "succeeded" => y.result # 0
  BY <1>1, <1>2 DEF IInv, PollSound, SucceededHasResult
<1>10. \A q \in Submits : req[q].pc \in {"create", "commit"} => req[q].key \in Analyses
  BY DEF IInv, TypeOK, NoRequest, DoneRequest, Request
<1>11. RequestsSound'
  <2>. SUFFICES ASSUME NEW q \in Submits PROVE RequestSound(q)'
    BY DEF RequestsSound
  <2>1. RequestSound(q) /\ req' = req /\ expiries' = expiries /\ Columns' = Columns
    BY <1>4 DEF IInv, RequestsSound, Columns
  <2>2. Open(q) /\ "result" \in req[q].cols =>
          row'[req[q].key] = row[req[q].key] /\ lock'[req[q].key] = lock[req[q].key]
    <3>. SUFFICES ASSUME Open(q), "result" \in req[q].cols
                  PROVE  row'[req[q].key] = row[req[q].key]
                         /\ lock'[req[q].key] = lock[req[q].key]
      OBVIOUS
    <3>1. row[req[q].key] = NoRow /\ lock[req[q].key] = q /\ req[q].key \in Analyses
      BY <1>10, <2>1 DEF RequestSound, Open
    <3>2. req[q].key # a
      BY <1>9, <3>1 DEF NoRow
    <3>. QED  BY <1>5, <3>1, <3>2
  <2>3. Open(q) /\ "result" \notin req[q].cols => row'[req[q].key].status # "absent"
    BY <1>5, <1>9, <1>10, <2>1 DEF RequestSound, Open
  <2>. QED  BY <2>1, <2>2, <2>3 DEF RequestSound, Open
<1>12. PollSound'
  BY <1>6 DEF PollSound, Busy
<1>13. AbsentEmpty' /\ SucceededHasResult'
  BY <1>5, <1>9 DEF IInv, AbsentEmpty, SucceededHasResult
<1>14. WithinTTL => y = worker.row
  BY <1>1, UpdatedIsCopy DEF IInv, UnexpiredSound, CopySound, y
<1>15. UnexpiredSound'
  <2>. SUFFICES ASSUME WithinTTL
                PROVE  \A b \in Analyses : row'[b].expires # "expired" /\ OwnResult(row[b])'
    BY <1>4, <1>6 DEF UnexpiredSound, CopySound, Busy, WithinTTL
  <2>1. y.expires # "expired" /\ OwnResult(y)
    BY <1>1, <1>14 DEF IInv, UnexpiredSound, CopySound
  <2>. QED  BY <1>4, <1>5, <2>1 DEF IInv, UnexpiredSound, OwnResult
<1>16. ScheduleDurable'
  <2>. SUFFICES ASSUME WithinTTL, NEW b \in Analyses, row'[b].status \in {"queued", "running"}
                PROVE  sched'[b].due # "none"
    BY <1>4 DEF ScheduleDurable, WithinTTL
  <2>1. CASE b = a
    <3>1. "due" \in worker.set /\ worker.sched.due = "later"
      BY <1>1, <1>5, <1>14, <2>1 DEF IInv, UnexpiredSound, CopySound
    <3>. QED  BY <1>3, <1>5, <2>1, <3>1
  <2>2. CASE b # a
    BY <1>5, <2>2 DEF IInv, ScheduleDurable
  <2>. QED  BY <2>1, <2>2
<1>17. ChargesExplained'
  <2>. SUFFICES ASSUME WithinTTL, NEW b \in Analyses
                PROVE  Charges(b)' <= faults' + (IF Paid(b)' THEN 1 ELSE 0)
    BY <1>4 DEF ChargesExplained, WithinTTL
  <2>1. /\ Charges(b)' = Charges(b) /\ Charges(b) \in Nat
        /\ Charges(b) <= faults + (IF Paid(b) THEN 1 ELSE 0)
        /\ faults \in Nat /\ faults' = faults
    BY <1>4, ChargesType, HeatAssumption DEF IInv, TypeOK, ChargesExplained, Charges
  <2>2. Paid(b) => Paid(b)'
    BY <1>4, <1>5, <1>9 DEF Paid
  <2>. QED  BY <2>1, <2>2
<1>. QED  BY <1>8, <1>11, <1>12, <1>13, <1>15, <1>16, <1>17 DEF IInv

\* Whatever is left of a tick changes only the queue and the worker.
LEMMA ScheduleNextInv ==
  ASSUME IInv, ScheduleNext
  PROVE  IInv'
<1>1. /\ worker \in Tick /\ worker.key \in Analyses /\ ~Busy
  <2>1. worker \in Tick /\ ~Busy
    BY DEF ScheduleNext, IInv, TypeOK, IdleWorker, Busy
  <2>. QED  BY <2>1 DEF Tick
<1>2. /\ worker' \in {IdleWorker} \union Tick /\ worker'.pc \in {"idle", "sleep"}
      /\ queue' \in Seq(Analyses)
  <2>1. CASE worker' = IdleWorker
    BY <1>1, <2>1 DEF ScheduleNext, IdleWorker, IInv, TypeOK
  <2>2. CASE worker' = [worker EXCEPT !.pc = "sleep", !.row = NoRow, !.sched = NoPoll]
             /\ UNCHANGED queue
    <3>1. NoPoll \in Sched
      BY HeatAssumption DEF NoPoll, Sched
    <3>2. NoRow \in Row /\ queue \in Seq(Analyses)
      BY NoRowIsRow DEF IInv, TypeOK
    <3>3. worker' \in Tick /\ worker'.pc = "sleep"
      BY <1>1, <2>2, <3>1, <3>2 DEF Tick
    <3>. QED  BY <2>2, <3>2, <3>3
  <2>3. \/ worker' = IdleWorker
        \/ /\ worker' = [worker EXCEPT !.pc = "sleep", !.row = NoRow, !.sched = NoPoll]
           /\ UNCHANGED queue
    BY DEF ScheduleNext
  <2>. QED  BY <2>1, <2>2, <2>3
<1>3. /\ UNCHANGED <<row, sched, circuit, lock, jobs, req, expiries, faults>>
      /\ faults' \in 0..MaxFaults /\ faults' >= faults /\ lock' \in [Analyses -> Actors]
  BY HeatAssumption DEF ScheduleNext, db, IInv, TypeOK
<1>. QED  BY <1>2, <1>3, WorkerOnly DEF PollSound, CopySound, Busy

LEMMA WakeInv ==
  ASSUME IInv, Wake
  PROVE  IInv'
<1>1. worker \in Tick /\ worker.key \in Analyses
  BY DEF Wake, IInv, TypeOK, IdleWorker, Tick
<1>2. /\ worker' = IdleWorker /\ worker'.pc = "idle" /\ queue' \in Seq(Analyses)
  BY <1>1 DEF Wake, IdleWorker, IInv, TypeOK
<1>3. /\ UNCHANGED <<row, sched, circuit, lock, jobs, req, expiries, faults>>
      /\ faults' \in 0..MaxFaults /\ faults' >= faults /\ lock' \in [Analyses -> Actors]
  BY HeatAssumption DEF Wake, db, IInv, TypeOK
<1>. QED  BY <1>2, <1>3, WorkerOnly DEF PollSound, CopySound, Busy

LEMMA RecoverDueInv ==
  ASSUME IInv, RecoverDue
  PROVE  IInv'
<1>1. worker' = worker /\ worker.pc = "idle" /\ worker' = IdleWorker
  BY DEF RecoverDue, IdleWorker
<1>2. queue' \in Seq(Analyses)
  <2>1. PICK order \in [1..Cardinality(Due) -> Due] : queue' = order
    BY DEF RecoverDue
  <2>2. Due \subseteq Analyses
    BY DEF Due
  <2>3. IsFiniteSet(Due)
    BY <2>2, HeatAssumption, FS_Subset
  <2>4. Cardinality(Due) \in Nat
    BY <2>3, FS_CardinalityType
  <2>5. order \in [1..Cardinality(Due) -> Analyses]
    BY <2>2
  <2>. HIDE DEF Due
  <2>. QED  BY <2>1, <2>4, <2>5
<1>3. /\ UNCHANGED <<row, sched, circuit, lock, jobs, req, expiries, faults>>
      /\ faults' \in 0..MaxFaults /\ faults' >= faults /\ lock' \in [Analyses -> Actors]
  BY HeatAssumption DEF RecoverDue, db, IInv, TypeOK
<1>. QED  BY <1>1, <1>2, <1>3, WorkerOnly DEF PollSound, CopySound, Busy

LEMMA TickLostInv ==
  ASSUME IInv, TickLost
  PROVE  IInv'
<1>1. worker' = IdleWorker /\ worker'.pc = "idle"
  BY DEF TickLost, IdleWorker
<1>2. /\ UNCHANGED <<row, sched, circuit, queue, jobs, req, expiries>>
      /\ faults' \in 0..MaxFaults /\ faults' >= faults /\ queue' \in Seq(Analyses)
  BY HeatAssumption DEF TickLost, IInv, TypeOK
<1>3. /\ lock' \in [Analyses -> Actors]
      /\ \A a \in Analyses : lock[a] \in Submits => lock'[a] = lock[a]
  BY Unlocked DEF TickLost, IInv, TypeOK, Tick, IdleWorker
<1>. QED  BY <1>1, <1>2, <1>3, WorkerOnly DEF PollSound, CopySound, Busy

-----------------------------------------------------------------------------
(***************************************************************************)
(* The provider, Redis and the passage of time.                            *)
(***************************************************************************)
LEMMA QueueLostInv ==
  ASSUME IInv, QueueLost
  PROVE  IInv'
<1>1. /\ UNCHANGED <<row, sched, circuit, lock, jobs, req, worker, expiries>>
      /\ faults' \in 0..MaxFaults /\ faults' >= faults /\ queue' \in Seq(Analyses)
      /\ lock' \in [Analyses -> Actors] /\ worker' \in {IdleWorker} \union Tick
      /\ Columns' = Columns
  <2>1. Tick' = Tick
    BY DEF QueueLost, Tick, Row, Ids, Statuses, Sched
  <2>. QED  BY <2>1, HeatAssumption DEF QueueLost, db, IInv, TypeOK, Columns
<1>2. PollSound' /\ (WithinTTL => CopySound')
  BY <1>1 DEF IInv, PollSound, UnexpiredSound, CopySound, Busy, OwnResult
<1>. QED  BY <1>1, <1>2, WorkerOnly

LEMMA CircuitElapsesInv ==
  ASSUME IInv, CircuitElapses
  PROVE  IInv'
<1>1. UNCHANGED <<row, sched, lock, queue, jobs, req, worker, faults, expiries>>
  BY DEF CircuitElapses
<1>2. circuit' \in [failures : 0..CircuitThreshold, until : {"none", "later", "past"}]
  BY DEF CircuitElapses, IInv, TypeOK
<1>3. TypeOK'
  BY <1>1, <1>2 DEF IInv, TypeOK, Row, Ids, Statuses, Request, Tick, Sched
<1>. QED  BY <1>1, <1>3 DEF IInv, AbsentEmpty, RequestsSound, RequestSound, Open, PollSound,
                            Busy, SucceededHasResult, UnexpiredSound, CopySound, OwnResult,
                            ScheduleDurable, ChargesExplained, Charges, Paid, WithinTTL

LEMMA PollDueInv ==
  ASSUME IInv, NEW a \in Analyses, PollDue(a)
  PROVE  IInv'
<1>1. UNCHANGED <<row, circuit, lock, queue, jobs, req, worker, faults, expiries>>
  BY DEF PollDue
<1>2. /\ sched' \in [Analyses -> Sched]
      /\ \A b \in Analyses : sched'[b].due = "none" => sched[b].due = "none"
  BY DEF PollDue, IInv, TypeOK, Sched
<1>3. TypeOK'
  BY <1>1, <1>2 DEF IInv, TypeOK, Row, Ids, Statuses, Request, Tick, Sched
<1>. QED  BY <1>1, <1>2, <1>3
          DEF IInv, AbsentEmpty, RequestsSound, RequestSound, Open, PollSound, Busy,
              SucceededHasResult, UnexpiredSound, CopySound, OwnResult, ScheduleDurable,
              ChargesExplained, Charges, Paid, WithinTTL

LEMMA ExpireInv ==
  ASSUME IInv, NEW a \in Analyses, Expire(a)
  PROVE  IInv'
<1>1. /\ UNCHANGED <<sched, circuit, lock, queue, jobs, req, worker, faults>>
      /\ expiries' \in 0..MaxExpiries /\ expiries' # 0
      /\ row[a].expires = "fresh"
  BY HeatAssumption DEF Expire, IInv, TypeOK
<1>2. /\ row' \in [Analyses -> Row]
      /\ \A b \in Analyses : row'[b].status = row[b].status /\ row'[b].result = row[b].result
      /\ \A b \in Analyses : b # a => row'[b] = row[b]
  BY DEF Expire, IInv, TypeOK, Row
<1>3. TypeOK'
  <2>1. Row' = Row /\ Request' = Request /\ Tick' = Tick /\ Sched' = Sched
    BY <1>1 DEF Row, Ids, Statuses, Request, Tick, Sched
  <2>. QED  BY <1>1, <1>2, <2>1 DEF IInv, TypeOK
<1>4. ~WithinTTL'
  BY <1>1 DEF WithinTTL
<1>5. row[a] # NoRow
  BY <1>1 DEF NoRow
<1>6. \A q \in Submits : req[q].pc \in {"create", "commit"} => req[q].key \in Analyses
  BY DEF IInv, TypeOK, NoRequest, DoneRequest, Request
<1>7. RequestsSound'
  <2>. SUFFICES ASSUME NEW q \in Submits PROVE RequestSound(q)'
    BY DEF RequestsSound
  <2>1. RequestSound(q) /\ Columns' = Columns
    BY DEF IInv, RequestsSound, Columns
  <2>2. Open(q) /\ row[req[q].key] = NoRow => row'[req[q].key] = NoRow
    BY <1>2, <1>5, <1>6 DEF Open
  <2>3. Open(q) => row'[req[q].key].status = row[req[q].key].status
    BY <1>2, <1>6 DEF Open
  <2>. QED  BY <1>1, <2>1, <2>2, <2>3 DEF RequestSound, Open
<1>8. Busy => worker.key \in Analyses
  BY DEF Busy, IInv, TypeOK, IdleWorker, Tick
<1>9. AbsentEmpty' /\ PollSound' /\ SucceededHasResult'
  BY <1>1, <1>2, <1>5, <1>8 DEF IInv, AbsentEmpty, PollSound, Busy, SucceededHasResult
<1>. QED  BY <1>3, <1>4, <1>7, <1>9
          DEF IInv, UnexpiredSound, ScheduleDurable, ChargesExplained

LEMMA JobEndsInv ==
  ASSUME IInv, NEW j \in 1..(MaxSubmits + MaxFaults), JobEnds(j)
  PROVE  IInv'
<1>1. /\ UNCHANGED <<row, sched, circuit, lock, queue, req, worker, faults, expiries>>
      /\ jobs[j].state = "pending" /\ j \in 1..Len(jobs)
  BY DEF JobEnds, db, IInv, TypeOK
<1>2. PICK s \in Terminal : jobs' = [jobs EXCEPT ![j].state = s]
  BY DEF JobEnds
<1>3. /\ jobs' \in Seq([key : Analyses, state : {"pending", "succeeded", "failed"}])
      /\ DOMAIN jobs' = DOMAIN jobs /\ Len(jobs') = Len(jobs)
      /\ \A i \in DOMAIN jobs : /\ jobs'[i].key = jobs[i].key
                                /\ jobs[i].state = "succeeded" => jobs'[i].state = "succeeded"
  <2>. DEFINE S == [key : Analyses, state : {"pending", "succeeded", "failed"}]
              e == [jobs[j] EXCEPT !.state = s]
  <2>1. jobs \in Seq(S) /\ jobs[j] \in S
    BY <1>1, ElementOfSeq DEF IInv, TypeOK
  <2>2. e \in S /\ e.key = jobs[j].key /\ jobs' = [jobs EXCEPT ![j] = e]
    BY <1>2, <2>1 DEF Terminal
  <2>3. \A i \in DOMAIN jobs : jobs'[i] = IF i = j THEN e ELSE jobs[i]
    BY <2>2
  <2>. HIDE DEF S, e
  <2>4. jobs' \in Seq(S) /\ Len(jobs') = Len(jobs) /\ DOMAIN jobs' = DOMAIN jobs
    BY <1>1, <2>1, <2>2, ExceptSeq
  <2>5. \A i \in DOMAIN jobs : /\ jobs'[i].key = jobs[i].key
                               /\ jobs[i].state = "succeeded" => jobs'[i].state = "succeeded"
    BY <1>1, <2>2, <2>3
  <2>6. jobs' \in Seq([key : Analyses, state : {"pending", "succeeded", "failed"}])
    BY <2>4 DEF S
  <2>. QED  BY <2>4, <2>5, <2>6
<1>4. TypeOK'
  <2>1. Row' = Row /\ Request' = Request /\ Tick' = Tick /\ Sched' = Sched
    BY <1>3 DEF Row, Ids, Statuses, Request, Tick, Sched
  <2>. QED  BY <1>1, <1>3, <2>1 DEF IInv, TypeOK
<1>5. RequestsSound' /\ AbsentEmpty' /\ PollSound' /\ SucceededHasResult' /\ ScheduleDurable'
  BY <1>1 DEF IInv, RequestsSound, RequestSound, Open, AbsentEmpty, PollSound, Busy,
              SucceededHasResult, ScheduleDurable, WithinTTL
<1>6. ASSUME NEW x \in Row, OwnResult(x), x.result # 0
      PROVE  x.result = x.activity /\ jobs'[x.activity].state = "succeeded"
  <2>1. x.result = x.activity /\ jobs[x.activity].state = "succeeded"
        /\ x.activity \in 0..Len(jobs) /\ x.activity # 0
    BY <1>6 DEF OwnResult, Row, Ids
  <2>2. x.activity \in DOMAIN jobs
    BY <2>1 DEF IInv, TypeOK
  <2>. QED  BY <1>3, <2>1, <2>2
<1>7. UnexpiredSound'
  <2>. SUFFICES ASSUME WithinTTL PROVE UnexpiredSound'
    BY <1>1 DEF UnexpiredSound, WithinTTL
  <2>1. ASSUME NEW b \in Analyses PROVE row'[b].expires # "expired" /\ OwnResult(row[b])'
    BY <1>1, <1>6 DEF IInv, TypeOK, UnexpiredSound, OwnResult
  <2>2. Busy => OwnResult(worker.row)'
    <3>1. Busy => worker.row \in Row
      BY DEF IInv, TypeOK, Busy, Tick, IdleWorker
    <3>2. Busy => OwnResult(worker.row)
      BY DEF IInv, UnexpiredSound, CopySound
    <3>. QED  BY <1>1, <1>6, <3>1, <3>2 DEF OwnResult
  <2>. QED  BY <1>1, <2>1, <2>2 DEF IInv, UnexpiredSound, CopySound, Busy, WithinTTL
<1>8. ChargesExplained'
  <2>1. ASSUME NEW a \in Analyses PROVE Charges(a)' = Charges(a)
    <3>1. {i \in DOMAIN jobs' : jobs'[i].key = a} = {i \in DOMAIN jobs : jobs[i].key = a}
      BY <1>3
    <3>. QED  BY <3>1 DEF Charges
  <2>2. ASSUME NEW a \in Analyses PROVE Paid(a)' <=> Paid(a)
    BY <1>1 DEF Paid
  <2>. SUFFICES ASSUME WithinTTL, NEW a \in Analyses
                PROVE  Charges(a)' <= faults' + (IF Paid(a)' THEN 1 ELSE 0)
    BY <1>1 DEF ChargesExplained, WithinTTL
  <2>3. Charges(a) <= faults + (IF Paid(a) THEN 1 ELSE 0)
    BY DEF IInv, ChargesExplained
  <2>4. CASE Paid(a)
    BY <1>1, <2>1, <2>2, <2>3, <2>4
  <2>5. CASE ~Paid(a)
    BY <1>1, <2>1, <2>2, <2>3, <2>5
  <2>. QED  BY <2>4, <2>5
<1>. QED  BY <1>4, <1>5, <1>7, <1>8 DEF IInv

-----------------------------------------------------------------------------
(***************************************************************************)
(* The theorems.                                                           *)
(***************************************************************************)
LEMMA NextInv == IInv /\ [Next]_vars => IInv'
<1>. SUFFICES ASSUME IInv, [Next]_vars PROVE IInv'
  OBVIOUS
<1>1. ASSUME NEW r \in Submits,
             \/ \E a \in Analyses : Submit(r, a)
             \/ RequestStep(r) \/ LostAnswer(r) \/ RequestLost(r)
      PROVE  IInv'
  BY <1>1, SubmitInv, InsertInv, AcceptedInv, RejectedInv, CommitSubmissionInv, EnqueueInv,
     LostAnswerInv, RequestLostInv DEF RequestStep
<1>2. ASSUME WorkerStep \/ TickLost
      PROVE  IInv'
  BY <1>2, DequeueInv, PollAnsweredInv, PollFailedInv, PollCommitInv, ScheduleNextInv,
     WakeInv, RecoverDueInv, TickLostInv DEF WorkerStep
<1>3. ASSUME \/ QueueLost \/ CircuitElapses
             \/ \E j \in 1..(MaxSubmits + MaxFaults) : JobEnds(j)
             \/ \E a \in Analyses : PollDue(a) \/ Expire(a)
      PROVE  IInv'
  BY <1>3, QueueLostInv, CircuitElapsesInv, JobEndsInv, PollDueInv, ExpireInv
<1>4. CASE UNCHANGED vars
  <2>1. Row' = Row /\ Request' = Request /\ Tick' = Tick /\ Sched' = Sched
    BY <1>4 DEF vars, Row, Ids, Statuses, Request, Tick, Sched
  <2>. QED
    BY <1>4, <2>1
    DEF vars, db, IInv, TypeOK, AbsentEmpty, RequestsSound, RequestSound, Open, PollSound,
        Busy, SucceededHasResult, UnexpiredSound, CopySound, OwnResult, ScheduleDurable,
        ChargesExplained, Charges, Paid, WithinTTL
<1>. QED  BY <1>1, <1>2, <1>3, <1>4 DEF Next

THEOREM Invariant == Spec => []IInv
BY InitInv, NextInv, PTL DEF Spec

\* Every table row, session copy, queue item and counter has its type: the
\* worker's copies of a row never carry a status the table cannot hold.
THEOREM HeatTypeCorrect == Spec => []TypeOK
BY Invariant, PTL DEF IInv

\* A row that says it succeeded has a result, whichever sessions wrote its
\* columns (app/services/heat.py, submit and poll).
THEOREM SuccessHasResult == Spec => []SucceededHasResult
BY Invariant, PTL DEF IInv

\* A pending analysis has a next poll in the database, so recovery finds it
\* after any crash or loss of the list (recover_due_heat_activities).
THEOREM PendingIsScheduled == Spec => []ScheduleDurable
BY Invariant, PTL DEF IInv

\* FortyGuard is paid at most once for a query and once for each fault, until
\* a result expires, for any number of concurrent requests (HeatService.submit).
THEOREM PaidOnce == Spec => []ChargedOnce
<1>1. IInv => ChargedOnce
  <2>. SUFFICES ASSUME IInv, WithinTTL, NEW a \in Analyses PROVE Charges(a) <= 1 + faults
    BY DEF ChargedOnce
  <2>1. Charges(a) \in Nat /\ faults \in Nat
    BY ChargesType, HeatAssumption DEF IInv, TypeOK
  <2>2. Charges(a) <= faults + (IF Paid(a) THEN 1 ELSE 0)
    BY DEF IInv, ChargesExplained
  <2>3. CASE Paid(a)
    BY <2>1, <2>2, <2>3
  <2>4. CASE ~Paid(a)
    BY <2>1, <2>2, <2>4
  <2>. QED  BY <2>3, <2>4
<1>. QED  BY <1>1, Invariant, PTL

\* Until it expires a result stays as the first poll stored it, through later
\* polls, failures and overlapping requests (HeatService.poll).
THEOREM ResultsSurvive == Spec => ResultKept
<1>. DEFINE Kept == \A a \in Analyses : WithinTTL /\ row[a].result # 0
                                          => row'[a].result = row[a].result
<1>1. ASSUME IInv, [Next]_vars PROVE Kept
  <2>. USE <1>1
  <2>. SUFFICES ASSUME NEW a \in Analyses, WithinTTL, row[a].result # 0
                PROVE  row'[a].result = row[a].result
    OBVIOUS
  <2>1. ASSUME NEW r \in Submits, Rejected(r) \/ CommitSubmission(r)
        PROVE  row'[a] = row[a]
    <3>1. Open(r) /\ row'= [row EXCEPT ![req[r].key] = row'[req[r].key]]
          /\ req[r].key \in Analyses
      BY <2>1 DEF Open, Rejected, CommitSubmission, IInv, TypeOK, NoRequest, DoneRequest,
                  Request
    <3>2. row[req[r].key] = NoRow
      BY <3>1 DEF IInv, RequestsSound, RequestSound, WithinTTL
    <3>3. a # req[r].key
      BY <3>2 DEF NoRow
    <3>. QED  BY <3>1, <3>3 DEF IInv, TypeOK
  <2>2. ASSUME PollCommit PROVE row'[a].result = row[a].result
    <3>1. /\ worker \in Tick /\ worker.pc = "commit" /\ Busy
      BY <2>2 DEF PollCommit, IInv, TypeOK, IdleWorker, Busy
    <3>2. worker.row \in Row /\ row \in [Analyses -> Row] /\ worker.key \in Analyses
      BY <3>1 DEF IInv, TypeOK, Tick
    <3>3. Updated(row[worker.key], worker.row, worker.cols) = worker.row
      BY <3>1, <3>2, UpdatedIsCopy DEF IInv, UnexpiredSound, CopySound
    <3>4. row[worker.key].result # 0 => worker.row.result = row[worker.key].result
      BY <3>1 DEF IInv, UnexpiredSound, CopySound
    <3>5. row' = [row EXCEPT ![worker.key] = worker.row]
      BY <2>2, <3>3 DEF PollCommit
    <3>. QED  BY <3>2, <3>4, <3>5
  <2>3. ASSUME NEW b \in Analyses, Expire(b) PROVE row'[a].result = row[a].result
    BY <2>3 DEF Expire, IInv, TypeOK, Row
  <2>4. CASE UNCHANGED row
    BY <2>4
  <2>. QED
    BY <2>1, <2>2, <2>3, <2>4
    DEF Next, vars, db, RequestStep, WorkerStep, Submit, Insert, Accepted, Enqueue, LostAnswer,
        RequestLost, Dequeue, PollAnswered, PollFailed, ScheduleNext, Wake, RecoverDue,
        TickLost, QueueLost, CircuitElapses, JobEnds, PollDue
<1>2. ASSUME IInv, [Next]_vars PROVE [Kept]_vars
  BY <1>1, <1>2
<1>. HIDE DEF Kept
<1>3. Spec => [][Kept]_vars
  BY <1>2, Invariant, PTL DEF Spec
<1>. QED  BY <1>3 DEF ResultKept, Kept
=============================================================================
