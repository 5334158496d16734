---------------------------- MODULE HeatPipeline ----------------------------
(***************************************************************************)
(* Paid heat analyses (app/services/heat.py): POST /heat-analyses submits  *)
(* an analysis to FortyGuard at most once per query while its row is       *)
(* cached, commits it with its polling schedule and pushes its id on a     *)
(* Redis list; the one polling worker (app/worker.py, app/workers/) pops   *)
(* ids, polls the provider, persists the answer and the next due time, and *)
(* recovers due rows from PostgreSQL when the list is empty.               *)
(*                                                                         *)
(* Clocks are flags that the passage of time flips: a poll is due "later"  *)
(* or "now", a result is "fresh" or "expired", an open circuit ends        *)
(* "later" or is "past".  As in AgentRuns, a session writes only the       *)
(* columns it changed, and an UPDATE holds the row lock until COMMIT.      *)
(***************************************************************************)
EXTENDS Integers, Sequences, FiniteSets

CONSTANTS
  Analyses,      \* idempotency keys: one row of heat_analyses each
  MaxAttempts,   \* fortyguard_max_attempts
  MaxSubmits,    \* bound: POST /heat-analyses requests
  MaxFaults,     \* bound: crashes, lost answers, failed ticks, list losses
  MaxExpiries    \* bound: results that outlive heat_cache_ttl_seconds

ASSUME HeatAssumption ==
  /\ IsFiniteSet(Analyses) /\ MaxAttempts \in Nat \ {0}
  /\ MaxSubmits \in Nat /\ MaxFaults \in Nat /\ MaxExpiries \in Nat

Submits  == 1..MaxSubmits
Statuses == {"absent", "queued", "running", "succeeded", "failed"}
Terminal == {"succeeded", "failed"}
NoRow    == [status |-> "absent", result |-> 0, activity |-> 0,
             expires |-> "never", error |-> FALSE]
NoPoll   == [attempts |-> 0, due |-> "none"]
CircuitThreshold == 3

VARIABLES
  row,      \* heat_analyses; result names the activity whose data it is
  sched,    \* fortyguard_activities: attempts and next_poll_at
  circuit,  \* provider_circuits
  lock,     \* who holds the row lock of each analysis
  queue,    \* the Redis list
  jobs,     \* the provider's activities, each one charged
  req,      \* the submit requests and their sessions
  worker,   \* the polling worker and its session
  faults, expiries

db   == <<row, sched, circuit, lock>>
vars == <<db, queue, jobs, req, worker, faults, expiries>>

Columns == {"status", "result", "activity", "expires", "error"}
Ids  == 0..Len(jobs)
Row  == [status : Statuses, result : Ids, activity : Ids,
         expires : {"never", "fresh", "expired"}, error : BOOLEAN]
Sched == [attempts : 0..MaxAttempts, due : {"none", "later", "now"}]
Free   == 0
Poller == -1
Actors == Submits \union {Poller, Free}

\* A submit under way and an item being polled: what to do next, and the
\* session's copies with the columns it has changed.
Request == [pc : {"insert", "create", "commit", "enqueue"},
            key : Analyses, row : Row, cols : SUBSET Columns]
Tick    == [pc : {"poll", "skipped", "commit", "after", "sleep"},
            key : Analyses, row : Row, cols : SUBSET Columns,
            sched : Sched, set : SUBSET {"attempts", "due"}, failed : BOOLEAN]
NoRequest   == [pc |-> "idle"]
DoneRequest == [pc |-> "done"]
IdleWorker  == [pc |-> "idle"]

TypeOK ==
  /\ row \in [Analyses -> Row] /\ sched \in [Analyses -> Sched]
  /\ circuit \in [failures : 0..CircuitThreshold, until : {"none", "later", "past"}]
  /\ lock \in [Analyses -> Actors]
  /\ queue \in Seq(Analyses)
  /\ jobs \in Seq([key : Analyses, state : {"pending", "succeeded", "failed"}])
  /\ req \in [Submits -> {NoRequest, DoneRequest} \union Request]
  /\ worker \in {IdleWorker} \union Tick
  /\ faults \in 0..MaxFaults /\ expiries \in 0..MaxExpiries

Init ==
  /\ row = [a \in Analyses |-> NoRow] /\ sched = [a \in Analyses |-> NoPoll]
  /\ circuit = [failures |-> 0, until |-> "none"]
  /\ lock = [a \in Analyses |-> Free]
  /\ queue = <<>> /\ jobs = <<>>
  /\ req = [r \in Submits |-> NoRequest] /\ worker = IdleWorker
  /\ faults = 0 /\ expiries = 0

Changed(old, new) == {c \in Columns : old[c] # new[c]}
Updated(old, new, cols) == [c \in Columns |-> IF c \in cols THEN new[c] ELSE old[c]]

\* An UPDATE of cols by `who` waits while another session holds the row.
MayWrite(who, a, cols) == cols # {} => lock[a] \in {Free, who}
Unlock(who, a) == lock' = [lock EXCEPT ![a] = IF @ = who THEN Free ELSE @]

-----------------------------------------------------------------------------
(***************************************************************************)
(* HeatService.submit and create_heat_analysis.                            *)
(***************************************************************************)
Cached(a) == row[a].status # "absent" /\ row[a].expires # "expired"

Reply(r) == req' = [req EXCEPT ![r] = DoneRequest]

\* The SELECT by key: a cached row is the answer, an expired one is reused,
\* a missing one is inserted.
Submit(r, a) ==
  /\ req[r] = NoRequest /\ \A q \in 1..(r - 1) : req[q] # NoRequest
  /\ req' = [req EXCEPT ![r] =
       IF Cached(a) THEN DoneRequest
       ELSE [pc |-> IF row[a].status = "absent" THEN "insert" ELSE "create",
             key |-> a, row |-> row[a], cols |-> {}]]
  /\ UNCHANGED <<db, queue, jobs, worker, faults, expiries>>

\* Mutant: no unique key makes a second insert wait for the first.
InsertUnserialized(r) ==
  LET a == req[r].key IN
  /\ req[r].pc = "insert"
  /\ req' = [req EXCEPT ![r].pc = "create", ![r].row.status = "queued",
                        ![r].cols = Columns]
  /\ UNCHANGED <<db, queue, jobs, worker, faults, expiries>>

\* flush() of a new row: the unique key makes a concurrent insert wait for
\* the first one's transaction and then raise IntegrityError.
Insert(r) ==
  LET a == req[r].key IN
  /\ req[r].pc = "insert" /\ lock[a] = Free
  /\ IF row[a].status = "absent"
     THEN /\ lock' = [lock EXCEPT ![a] = r]
          /\ req' = [req EXCEPT ![r].pc = "create", ![r].row.status = "queued",
                                ![r].cols = Columns]
     ELSE Reply(r) /\ UNCHANGED lock
  /\ UNCHANGED <<row, sched, circuit, queue, jobs, worker, faults, expiries>>

NewJob(a) == [key |-> a, state |-> "pending"]

\* The POST is charged but its answer is lost; _request posts again.
LostAnswer(r) ==
  /\ req[r].pc = "create" /\ faults < MaxFaults
  /\ jobs' = Append(jobs, NewJob(req[r].key)) /\ faults' = faults + 1
  /\ UNCHANGED <<db, queue, req, worker, expiries>>

\* create_analysis returns an activity id; the SELECT of the activity flushes
\* the changed columns of an existing row and takes its lock.
Accepted(r) ==
  LET a   == req[r].key
      new == [req[r].row EXCEPT !.status = "queued", !.error = FALSE,
                                !.activity = Len(jobs) + 1]
  IN  /\ req[r].pc = "create" /\ MayWrite(r, a, Columns)
      /\ jobs' = Append(jobs, NewJob(a))
      /\ lock' = [lock EXCEPT ![a] = r]
      /\ req' = [req EXCEPT ![r].pc = "commit", ![r].row = new,
                            ![r].cols = @ \union Changed(req[r].row, new)]
      /\ UNCHANGED <<row, sched, circuit, queue, worker, faults, expiries>>

\* FortyGuardError: an existing row with a result is answered as stale, any
\* other row is committed FAILED and the request ends with 503.
Rejected(r) ==
  LET a     == req[r].key
      stale == req[r].row.result # 0
      new   == [req[r].row EXCEPT !.error = TRUE,
                                  !.status = IF stale THEN @ ELSE "failed"]
      cols  == req[r].cols \union Changed(req[r].row, new)
  IN  /\ req[r].pc = "create" /\ MayWrite(r, a, cols)
      /\ row' = [row EXCEPT ![a] = Updated(@, new, cols)]
      /\ Unlock(r, a) /\ Reply(r)
      /\ UNCHANGED <<sched, circuit, queue, jobs, worker, faults, expiries>>

\* Mutant: the row is committed without its polling schedule.
CommitUnscheduled(r) ==
  LET a == req[r].key IN
  /\ req[r].pc = "commit"
  /\ row' = [row EXCEPT ![a] = Updated(@, req[r].row, req[r].cols)]
  /\ Unlock(r, a)
  /\ req' = [req EXCEPT ![r].pc = "enqueue", ![r].row = NoRow, ![r].cols = {}]
  /\ UNCHANGED <<sched, circuit, queue, jobs, worker, faults, expiries>>

\* The row and its schedule (no attempt yet, due now) in one transaction.
CommitSubmission(r) ==
  LET a == req[r].key IN
  /\ req[r].pc = "commit"
  /\ row' = [row EXCEPT ![a] = Updated(@, req[r].row, req[r].cols)]
  /\ sched' = [sched EXCEPT ![a] = [attempts |-> 0, due |-> "now"]]
  /\ Unlock(r, a)
  /\ req' = [req EXCEPT ![r].pc = "enqueue", ![r].row = NoRow, ![r].cols = {}]
  /\ UNCHANGED <<circuit, queue, jobs, worker, faults, expiries>>

\* After the commits, the id is pushed for the worker.
Enqueue(r) ==
  /\ req[r].pc = "enqueue"
  /\ queue' = Append(queue, req[r].key) /\ Reply(r)
  /\ UNCHANGED <<db, jobs, worker, faults, expiries>>

\* The request dies (a crash, Redis or PostgreSQL unreachable): its open
\* transaction is rolled back.
RequestLost(r) ==
  /\ req[r].pc \notin {"idle", "done"} /\ faults < MaxFaults
  /\ faults' = faults + 1
  /\ Unlock(r, req[r].key) /\ Reply(r)
  /\ UNCHANGED <<row, sched, circuit, queue, jobs, worker, expiries>>

-----------------------------------------------------------------------------
(***************************************************************************)
(* The worker: consume_heat_queue, HeatService.poll, recovery.             *)
(***************************************************************************)

\* BLPOP removes the item; the row and the circuit are read, and poll returns
\* at once while the circuit is open.
Dequeue ==
  /\ worker = IdleWorker /\ queue # <<>>
  /\ LET a == Head(queue) IN
     worker' = [pc  |-> IF row[a].activity = 0 \/ circuit.until = "later"
                        THEN "skipped" ELSE "poll",
                key |-> a, row |-> row[a], cols |-> {}, sched |-> NoPoll,
                set |-> {}, failed |-> FALSE]
  /\ queue' = Tail(queue)
  /\ UNCHANGED <<db, jobs, req, faults, expiries>>

\* attempts is only ever compared with MaxAttempts.
OneMore(attempts) == IF attempts < MaxAttempts THEN attempts + 1 ELSE attempts

\* next_poll_at after an answer.
NextPoll(status) == IF status \in Terminal THEN "none" ELSE "later"

\* Mutant: a completed activity may omit its result.
ResultOptional(answer, id) == 0

\* normalize_activity: only a completed activity carries a result.
ResultOf(answer, id) == IF answer = "succeeded" THEN id ELSE 0

\* get_activity answers, and the SELECT of the activity flushes the row.
PollAnswered ==
  LET a == worker.key
      j == worker.row.activity IN
  /\ worker.pc = "poll"
  /\ \E answer \in IF jobs[j].state = "pending" THEN {"queued", "running"}
                   ELSE {jobs[j].state} :
       LET done == answer = "succeeded"
           new  == [worker.row EXCEPT !.status = answer,
                      !.result = ResultOf(answer, j),
                      !.expires = IF done THEN "fresh" ELSE @]
           cols == Changed(worker.row, new)
                   \union (IF done THEN {"expires"} ELSE {})
           next == NextPoll(answer)
       IN  /\ MayWrite(Poller, a, cols)
           /\ lock' = IF cols = {} THEN lock ELSE [lock EXCEPT ![a] = Poller]
           /\ worker' = [worker EXCEPT !.pc = "commit", !.row = new, !.cols = cols,
                !.sched = [attempts |-> OneMore(sched[a].attempts), due |-> next],
                !.set = {"attempts"} \union
                        (IF {next, sched[a].due} = {"none"} THEN {} ELSE {"due"})]
  /\ UNCHANGED <<row, sched, circuit, queue, jobs, req, faults, expiries>>

\* A failed poll is retried while attempts remain and the error allows it.
MayRetry(attempts, retryable) == retryable /\ attempts + 1 < MaxAttempts

\* Mutant: the activity's own status is copied to the analysis.
FailedRowRetrying(old, retry) ==
  [old EXCEPT !.error = TRUE, !.status = IF retry THEN "retrying" ELSE "failed"]

\* Mutant: a failed poll erases the result.
FailedRowErased(old, retry) ==
  [old EXCEPT !.error = TRUE, !.result = 0,
              !.status = IF retry THEN "running" ELSE "failed"]

\* The row after a failed poll.
FailedRow(old, retry) ==
  [old EXCEPT !.error = TRUE, !.status = IF retry THEN "running" ELSE "failed"]

\* FortyGuardError: only the circuit is flushed before the activity is read.
PollFailed ==
  LET a == worker.key IN
  /\ worker.pc = "poll"
  /\ \E retryable \in BOOLEAN :
       LET retry == MayRetry(sched[a].attempts, retryable)
           new   == FailedRow(worker.row, retry)
       IN  worker' = [worker EXCEPT !.pc = "commit", !.failed = TRUE, !.row = new,
             !.cols = Changed(worker.row, new),
             !.sched = IF retry THEN [attempts |-> OneMore(sched[a].attempts),
                                      due |-> "later"]
                       ELSE sched[a],
             !.set = IF retry THEN {"attempts", "due"} ELSE {}]
  /\ UNCHANGED <<db, queue, jobs, req, faults, expiries>>

Failures == IF worker.failed
            THEN IF circuit.failures < CircuitThreshold THEN circuit.failures + 1
                 ELSE circuit.failures
            ELSE 0

\* One transaction for the row, the schedule and the circuit.
PollCommit ==
  LET a == worker.key IN
  /\ worker.pc = "commit" /\ MayWrite(Poller, a, worker.cols)
  /\ row' = [row EXCEPT ![a] = Updated(@, worker.row, worker.cols)]
  /\ sched' = [sched EXCEPT ![a] =
       [f \in {"attempts", "due"} |-> IF f \in worker.set THEN worker.sched[f] ELSE @[f]]]
  /\ circuit' = [failures |-> Failures,
                 until |-> IF Failures >= CircuitThreshold THEN "later" ELSE "none"]
  /\ Unlock(Poller, a)
  /\ worker' = [worker EXCEPT !.pc = "after", !.row = NoRow, !.cols = {},
                              !.set = {}, !.failed = FALSE]
  /\ UNCHANGED <<queue, jobs, req, faults, expiries>>

\* poll_queued_heat_analysis after poll: drop the item, wait until it is due,
\* or push it back.  A skipped poll has refreshed nothing but the schedule.
ScheduleNext ==
  LET a      == worker.key
      status == IF worker.pc = "after" THEN row[a].status ELSE worker.row.status
      due    == IF worker.pc = "after" THEN worker.sched.due ELSE sched[a].due
  IN  /\ worker.pc \in {"after", "skipped"}
      /\ \/ /\ status \in Terminal \/ due = "none"
            /\ worker' = IdleWorker /\ UNCHANGED queue
         \/ /\ status \notin Terminal /\ due = "later"
            /\ worker' = [worker EXCEPT !.pc = "sleep", !.row = NoRow,
                                        !.sched = NoPoll]
            /\ UNCHANGED queue
         \/ /\ status \notin Terminal /\ due = "now"
            /\ worker' = IdleWorker /\ queue' = Append(queue, a)
      /\ UNCHANGED <<db, jobs, req, faults, expiries>>

\* asyncio.sleep ends when the schedule is due; the item is pushed back.
Wake ==
  /\ worker.pc = "sleep" /\ sched[worker.key].due # "later"
  /\ queue' = Append(queue, worker.key) /\ worker' = IdleWorker
  /\ UNCHANGED <<db, jobs, req, faults, expiries>>

\* Mutant: only rows never polled are recovered.
DueUnpolled == {a \in Analyses : row[a].status = "queued" /\ sched[a].due = "now"
                                 /\ sched[a].attempts = 0}

\* The rows recover_due_heat_activities selects.
Due == {a \in Analyses : /\ row[a].status \notin Terminal \union {"absent"}
                         /\ sched[a].due = "now"}

\* An empty tick enqueues every due row, oldest first.
RecoverDue ==
  /\ worker = IdleWorker /\ queue = <<>> /\ Due # {}
  /\ \E order \in [1..Cardinality(Due) -> Due] :
       {order[i] : i \in DOMAIN order} = Due /\ queue' = order
  /\ UNCHANGED <<db, jobs, req, worker, faults, expiries>>

\* The tick raises or the worker restarts: the popped item is gone and the
\* transaction rolled back.
TickLost ==
  /\ worker # IdleWorker /\ faults < MaxFaults
  /\ faults' = faults + 1
  /\ Unlock(Poller, worker.key) /\ worker' = IdleWorker
  /\ UNCHANGED <<row, sched, circuit, queue, jobs, req, expiries>>

-----------------------------------------------------------------------------
(***************************************************************************)
(* The environment: the provider, Redis and the passage of time.           *)
(***************************************************************************)
JobEnds(j) ==
  /\ j \in DOMAIN jobs /\ jobs[j].state = "pending"
  /\ \E s \in Terminal : jobs' = [jobs EXCEPT ![j].state = s]
  /\ UNCHANGED <<db, queue, req, worker, faults, expiries>>

QueueLost ==
  /\ queue # <<>> /\ faults < MaxFaults
  /\ queue' = <<>> /\ faults' = faults + 1
  /\ UNCHANGED <<db, jobs, req, worker, expiries>>

PollDue(a) ==
  /\ sched[a].due = "later" /\ sched' = [sched EXCEPT ![a].due = "now"]
  /\ UNCHANGED <<row, circuit, lock, queue, jobs, req, worker, faults, expiries>>

CircuitElapses ==
  /\ circuit.until = "later" /\ circuit' = [circuit EXCEPT !.until = "past"]
  /\ UNCHANGED <<row, sched, lock, queue, jobs, req, worker, faults, expiries>>

Expire(a) ==
  /\ row[a].expires = "fresh" /\ expiries < MaxExpiries
  /\ row' = [row EXCEPT ![a].expires = "expired"] /\ expiries' = expiries + 1
  /\ UNCHANGED <<sched, circuit, lock, queue, jobs, req, worker, faults>>

RequestStep(r) == \/ Insert(r) \/ Accepted(r) \/ Rejected(r)
                  \/ CommitSubmission(r) \/ Enqueue(r)
WorkerStep == \/ Dequeue \/ PollAnswered \/ PollFailed \/ PollCommit
              \/ ScheduleNext \/ Wake \/ RecoverDue

Next ==
  \/ \E r \in Submits : \/ \E a \in Analyses : Submit(r, a)
                        \/ RequestStep(r) \/ LostAnswer(r) \/ RequestLost(r)
  \/ WorkerStep \/ TickLost \/ QueueLost \/ CircuitElapses
  \/ \E j \in 1..(MaxSubmits + MaxFaults) : JobEnds(j)
  \/ \E a \in Analyses : PollDue(a) \/ Expire(a)

Spec == Init /\ [][Next]_vars

\* Handlers and the worker keep running, the provider ends every activity it
\* has accepted, and time passes.
Fairness ==
  /\ \A r \in Submits : WF_vars(RequestStep(r))
  /\ WF_vars(WorkerStep) /\ WF_vars(CircuitElapses)
  /\ \A j \in 1..(MaxSubmits + MaxFaults) : WF_vars(JobEnds(j))
  /\ \A a \in Analyses : WF_vars(PollDue(a))
FairSpec == Spec /\ Fairness

-----------------------------------------------------------------------------
(***************************************************************************)
(* Properties.                                                             *)
(***************************************************************************)
Charges(a) == Cardinality({j \in DOMAIN jobs : jobs[j].key = a})
WithinTTL  == expiries = 0

\* However requests for one query overlap, the provider is paid once for it,
\* plus once for each fault, as long as no result has expired (submit).
ChargedOnce == \A a \in Analyses : WithinTTL => Charges(a) <= 1 + faults

\* A succeeded analysis has a result, whatever columns overlapping sessions
\* write over each other (normalize_activity, submit, poll).
SucceededHasResult ==
  \A a \in Analyses : row[a].status = "succeeded" => row[a].result # 0

\* Until a result expires, an analysis that is not over has a durable next
\* poll, so the recovery scan finds it wherever its queue item was lost.
ScheduleDurable ==
  \A a \in Analyses :
    WithinTTL /\ row[a].status \in {"queued", "running"} => sched[a].due # "none"

\* Until it expires, a result that was paid for is neither erased nor
\* replaced, even when a duplicate queue item polls the activity again.
ResultKept ==
  [][\A a \in Analyses : WithinTTL /\ row[a].result # 0
                           => row'[a].result = row[a].result]_vars

\* Until a result expires, every analysis that is committed and pending ends,
\* whichever queue items, ticks or requests are lost
\* (recover_due_heat_activities).
AnalysesSettle ==
  \A a \in Analyses : row[a].status \in {"queued", "running"}
                        ~> row[a].status \in Terminal \/ ~WithinTTL

\* "PostgreSQL remains the source of truth for the schedule, so an activity
\* whose queue item was lost while a worker was stopped is recovered on the next
\* empty queue tick" (app/workers/heat_polling.py:81-83): a pending analysis
\* that no queue, worker or request holds any more has a durable next poll.
Held(a) == \/ \E i \in DOMAIN queue : queue[i] = a
           \/ worker # IdleWorker /\ worker.key = a
           \/ \E r \in Submits : req[r].pc \notin {"idle", "done"} /\ req[r].key = a
LostItemsRecoverable ==
  \A a \in Analyses : row[a].status \in {"queued", "running"} /\ ~Held(a)
                        => sched[a].due # "none"

\* "An expired successful result remains a usable stale fallback"
\* (app/services/heat.py:166-168): polling the replacement keeps it.
StaleFallbackKept ==
  [][\A a \in Analyses : row[a].result # 0 => row'[a].result # 0]_row

\* "the provider-credit idempotency key for a heat request.  FortyGuard charges
\* per analysis" (app/services/heat.py:87-90): while an analysis of a query is
\* pending, no second one is bought.
NoChargeWhilePending ==
  [][\A a \in Analyses :
       row[a].status \in {"queued", "running"} => Charges(a)' = Charges(a)]_jobs
=============================================================================
