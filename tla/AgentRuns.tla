------------------------------ MODULE AgentRuns ------------------------------
(***************************************************************************)
(* The durable life of one governed agent run (app/agents/runtime.py and   *)
(* app/api/agents.py): the agent_runs row, its append-only agent_events    *)
(* and agent_approvals, the HTTP requests that change them, each with its  *)
(* own database session, and a reader of the event stream.                 *)
(*                                                                         *)
(* A session keeps the row it loaded (expire_on_commit=False) and writes   *)
(* back only the columns whose value it changed.  A transaction has two    *)
(* steps: _event's SELECT first flushes the pending UPDATE, which takes    *)
(* PostgreSQL's row lock, and then reads the greatest sequence; COMMIT     *)
(* publishes the writes and releases the lock.  Runs share no state, so    *)
(* one run stands for them all.                                            *)
(***************************************************************************)
EXTENDS Integers, Sequences, FiniteSets

CONSTANTS
  MaxRequests,       \* bound: HTTP requests that reach this run
  MaxInFlight,       \* bound: requests handled at the same time
  MaxCrashes,        \* bound: handlers lost before they finish
  MaxFrames,         \* bound: the greatest sequence the reader is sent
  ProviderOutcomes   \* can provider_from_settings build a provider?

ASSUME BoundsAssumption ==
  /\ MaxRequests \in Nat /\ MaxInFlight \in Nat
  /\ MaxCrashes \in Nat /\ MaxFrames \in Nat
ASSUME ProviderAssumption == ProviderOutcomes \subseteq BOOLEAN

\* A request is named by the order in which its handler first reads the run.
Requests == 1..MaxRequests
None     == 0

AgentNames == <<"heat_intelligence", "intervention_analyst", "portfolio",
                "verification">>
Stages     == Len(AgentNames)

Statuses  == {"absent", "queued", "running", "waiting_approval", "approved",
              "rejected", "completed", "failed"}
Nodes     == {AgentNames[i] : i \in 1..Stages} \union {"none"}
Columns   == {"status", "node", "revision", "error"}
Row       == [status : Statuses, node : Nodes, revision : Nat, error : BOOLEAN]
AbsentRow == [status |-> "absent", node |-> "none", revision |-> 0,
              error |-> FALSE]

Roles     == {"viewer", "analyst", "manager", "admin"}
Decisions == {"approve", "reject", "revise"}

\* Mutant: the event is named after the bare decision.
BareDecisionEvent == [approve |-> "run.approve", reject |-> "run.reject",
                      revise |-> "run.revise"]

\* The event a decision leaves behind; the code appends "d" to the decision.
DecisionEvent == [approve |-> "run.approved", reject |-> "run.rejectd",
                  revise |-> "run.revision_requested"]
DecidedStatus == [approve |-> "approved", reject |-> "rejected",
                  revise |-> "queued"]
EventTypes == {"run.created", "run.started", "node.completed",
               "approval.required", "run.failed", "run.completed"}
              \union {"run.approved", "run.rejectd", "run.revision_requested"}
Event    == [sequence : Nat, type : EventTypes, node : Nodes]
Approval == [decision : Decisions, revision : Nat]
NoApproval == [decision |-> "none", revision |-> 0]

VARIABLES
  row,        \* the committed agent_runs row
  events,     \* the committed agent_events rows, in commit order
  approvals,  \* the committed agent_approvals rows, in commit order
  lock,       \* the request whose transaction holds the row lock
  pc,         \* what each request does next
  decision,   \* the decision in the body of each approval request
  mem,        \* each session's in-memory copy of the row
  stage,      \* node checkpoints a request has staged in this execution
  txn,        \* the flushed but uncommitted transaction of each session
  seen,       \* events the stream reader holds
  cursor,     \* the greatest sequence the reader has received
  crashes     \* handlers lost so far

handlers == <<lock, pc, decision, mem, stage, txn>>
database == <<row, events, approvals>>
reader   == <<seen, cursor>>
vars     == <<database, handlers, reader, crashes>>

Control == {"idle", "decide", "begin", "invoke", "checkpoint", "gate", "fail",
            "finalize", "commit", "done"}
Txn   == [cols : SUBSET Columns, event : Event,
          approval : Approval \union {NoApproval}, next : Control]
NoTxn == [next |-> "idle"]

TypeOK ==
  /\ row \in Row
  /\ events \in Seq(Event)
  /\ approvals \in Seq(Approval)
  /\ lock \in Requests \union {None}
  /\ pc \in [Requests -> Control]
  /\ decision \in [Requests -> Decisions \union {"none"}]
  /\ mem \in [Requests -> Row]
  /\ stage \in [Requests -> 0..Stages]
  /\ txn \in [Requests -> Txn \union {NoTxn}]
  /\ seen \subseteq {events[i] : i \in DOMAIN events}
  /\ cursor \in Nat
  /\ crashes \in Nat

Init ==
  /\ row = AbsentRow /\ events = <<>> /\ approvals = <<>>
  /\ lock = None
  /\ pc = [r \in Requests |-> "idle"]
  /\ decision = [r \in Requests |-> "none"]
  /\ mem = [r \in Requests |-> AbsentRow]
  /\ stage = [r \in Requests |-> 0]
  /\ txn = [r \in Requests |-> NoTxn]
  /\ seen = {} /\ cursor = 0
  /\ crashes = 0

-----------------------------------------------------------------------------
(***************************************************************************)
(* Transactions.                                                           *)
(***************************************************************************)
InFlight == {r \in Requests : pc[r] \notin {"idle", "done"}}

NextArrival(r) == /\ pc[r] = "idle"
                  /\ \A q \in 1..(r - 1) : pc[q] # "idle"
                  /\ Cardinality(InFlight) < MaxInFlight

\* Mutant: the greatest sequence itself is reused.
ReusedSequence ==
  IF events = <<>> THEN 1
  ELSE CHOOSE m \in {events[i].sequence : i \in DOMAIN events} :
         \A i \in DOMAIN events : events[i].sequence <= m

\* _event: max(sequence) + 1 over the committed events of the run.
NextSequence ==
  IF events = <<>> THEN 1
  ELSE 1 + CHOOSE m \in {events[i].sequence : i \in DOMAIN events} :
             \A i \in DOMAIN events : events[i].sequence <= m

\* Mutant: an UPDATE writes the whole row of the session.
WholeRow(old, new) == Columns

\* The columns an UPDATE writes are those whose in-memory value changed.
Changed(old, new) == {c \in Columns : old[c] # new[c]}

\* An UPDATE waits for the row lock; without a changed column there is none.
RowLockFree(cols) == cols # {} => lock = None

\* Mutant: the approval row is committed ahead of its transaction.
EarlyApprovalFlush(r, new, type, node, approval, next) ==
  LET cols == Changed(mem[r], new) IN
  /\ RowLockFree(cols)
  /\ lock' = IF cols # {} THEN r ELSE lock
  /\ mem' = [mem EXCEPT ![r] = new]
  /\ txn' = [txn EXCEPT ![r] =
       [cols |-> cols, approval |-> NoApproval, next |-> next,
        event |-> [sequence |-> NextSequence, type |-> type, node |-> node]]]
  /\ pc' = [pc EXCEPT ![r] = "commit"]
  /\ approvals' = IF approval = NoApproval THEN approvals
                  ELSE Append(approvals, approval)
  /\ UNCHANGED <<row, events, reader, crashes, decision>>

\* Mutant: without autoflush, the sequence is read before the row is locked.
LateFlush(r, new, type, node, approval, next) ==
  /\ mem' = [mem EXCEPT ![r] = new]
  /\ txn' = [txn EXCEPT ![r] =
       [cols |-> Changed(mem[r], new), approval |-> approval, next |-> next,
        event |-> [sequence |-> NextSequence, type |-> type, node |-> node]]]
  /\ pc' = [pc EXCEPT ![r] = "commit"]
  /\ UNCHANGED <<database, reader, crashes, decision, lock>>

\* session.scalar(select max(sequence)) with autoflush: r's pending changes
\* reach the database, the event gets its number, and only COMMIT remains.
Flush(r, new, type, node, approval, next) ==
  LET cols == Changed(mem[r], new) IN
  /\ RowLockFree(cols)
  /\ lock' = IF cols # {} THEN r ELSE lock
  /\ mem' = [mem EXCEPT ![r] = new]
  /\ txn' = [txn EXCEPT ![r] =
       [cols |-> cols, approval |-> approval, next |-> next,
        event |-> [sequence |-> NextSequence, type |-> type, node |-> node]]]
  /\ pc' = [pc EXCEPT ![r] = "commit"]
  /\ UNCHANGED <<database, reader, crashes, decision>>

\* The row after an UPDATE of cols with the values in new.
Updated(old, new, cols) ==
  [status   |-> IF "status"   \in cols THEN new.status   ELSE old.status,
   node     |-> IF "node"     \in cols THEN new.node     ELSE old.node,
   revision |-> IF "revision" \in cols THEN new.revision ELSE old.revision,
   error    |-> IF "error"    \in cols THEN new.error    ELSE old.error]

Commit(r) ==
  /\ pc[r] = "commit"
  /\ row' = Updated(row, mem[r], txn[r].cols)
  /\ events' = Append(events, txn[r].event)
  /\ approvals' = IF txn[r].approval = NoApproval THEN approvals
                  ELSE Append(approvals, txn[r].approval)
  /\ lock' = IF lock = r THEN None ELSE lock
  /\ pc' = [pc EXCEPT ![r] = txn[r].next]
  /\ txn' = [txn EXCEPT ![r] = NoTxn]
  /\ mem' = IF txn[r].next = "done" THEN [mem EXCEPT ![r] = AbsentRow] ELSE mem
  /\ UNCHANGED <<reader, crashes, decision, stage>>

-----------------------------------------------------------------------------
(***************************************************************************)
(* start_agent_run and execute_run.                                        *)
(***************************************************************************)

\* POST /agent-runs: create_run's single transaction, then execute_run.  The
\* row is invisible until its commit, so the transaction is one step.
CreateRun(r) ==
  LET created == [AbsentRow EXCEPT !.status = "queued"] IN
  /\ NextArrival(r) /\ row.status = "absent" /\ lock = None
  /\ row' = created
  /\ events' = Append(events, [sequence |-> NextSequence,
                               type |-> "run.created", node |-> "none"])
  /\ mem' = [mem EXCEPT ![r] = created]
  /\ pc' = [pc EXCEPT ![r] = "begin"]
  /\ UNCHANGED <<approvals, lock, decision, stage, txn, reader, crashes>>

\* A handler ends without a further write: an error response or its return.
Finish(r) ==
  /\ pc' = [pc EXCEPT ![r] = "done"]
  /\ mem' = [mem EXCEPT ![r] = AbsentRow]
  /\ UNCHANGED <<database, reader, crashes, lock, decision, stage, txn>>

\* execute_run builds the provider before its try block: a ProviderError
\* leaves the handler, and the run as it was.
ProviderUnavailable(r) ==
  /\ pc[r] = "begin" /\ FALSE \in ProviderOutcomes
  /\ Finish(r)

BeginExecution(r) ==
  /\ pc[r] = "begin" /\ TRUE \in ProviderOutcomes
  /\ Flush(r, [mem[r] EXCEPT !.status = "running"], "run.started", "none",
           NoApproval, "invoke")
  /\ UNCHANGED stage

\* Mutant: a failing node is not caught, and leaves the handler.
UncaughtInvoke(r) ==
  /\ pc[r] = "invoke"
  /\ \E outcome \in {"checkpoint", "done"} : pc' = [pc EXCEPT ![r] = outcome]
  /\ stage' = [stage EXCEPT ![r] = 0]
  /\ UNCHANGED <<database, reader, crashes, lock, decision, mem, txn>>

\* resolve_grounding and the compiled graph: long awaits that either deliver
\* the final state or raise.
Invoke(r) ==
  /\ pc[r] = "invoke"
  /\ \E outcome \in {"checkpoint", "fail"} : pc' = [pc EXCEPT ![r] = outcome]
  /\ stage' = [stage EXCEPT ![r] = 0]
  /\ UNCHANGED <<database, reader, crashes, lock, decision, mem, txn>>

\* Mutant: the loop stops one node early.
NodeLeftButOne(r) == stage[r] < Stages - 1

\* The loop over AGENT_NAMES runs as long as a node is left to record.
NodeLeft(r) == stage[r] < Stages

\* One iteration: current_node, revision and node.completed in one commit.
Checkpoint(r) ==
  LET name == AgentNames[stage[r] + 1] IN
  /\ pc[r] = "checkpoint" /\ NodeLeft(r)
  /\ Flush(r, [mem[r] EXCEPT !.node = name, !.revision = @ + 1],
           "node.completed", name, NoApproval, "checkpoint")
  /\ stage' = [stage EXCEPT ![r] = @ + 1]

\* All four recorded: the approval gate opens.
OpenGate(r) ==
  /\ pc[r] = "checkpoint" /\ ~NodeLeft(r)
  /\ Flush(r, [mem[r] EXCEPT !.status = "waiting_approval"],
           "approval.required", "none", NoApproval, "done")
  /\ UNCHANGED stage

\* except Exception: every node failure becomes a durable FAILED status.
FailRun(r) ==
  /\ pc[r] = "fail"
  /\ Flush(r, [mem[r] EXCEPT !.status = "failed", !.error = TRUE],
           "run.failed", mem[r].node, NoApproval, "done")
  /\ UNCHANGED stage

-----------------------------------------------------------------------------
(***************************************************************************)
(* approve_agent_run, decide_run and finalize_approved_run.                *)
(***************************************************************************)
MayReview(role) == role \in {"manager", "admin"}

\* Mutant: a run still in execution can be decided on.
AwaitsOrRuns(copy) == copy.status \in {"waiting_approval", "running"}

\* Mutant: any run can be decided on.
AnyStatus(copy) == TRUE

\* decide_run looks at the status of the session's copy only.
AwaitsApproval(copy) == copy.status = "waiting_approval"

\* The SELECT and every guard that follows it, with no await in between: role,
\* organization and status.  A request that fails one ends with an error.
LoadForDecision(r) ==
  /\ NextArrival(r) /\ row.status # "absent"
  /\ \E permitted \in {MayReview(role) /\ sameOrganization :
                         role \in Roles, sameOrganization \in BOOLEAN} :
       \/ /\ permitted /\ AwaitsApproval(row)
          /\ pc' = [pc EXCEPT ![r] = "decide"]
          /\ mem' = [mem EXCEPT ![r] = row]
          /\ \E d \in Decisions : decision' = [decision EXCEPT ![r] = d]
       \/ /\ ~(permitted /\ AwaitsApproval(row))
          /\ pc' = [pc EXCEPT ![r] = "done"]
          /\ UNCHANGED <<mem, decision>>
  /\ UNCHANGED <<database, reader, crashes, lock, stage, txn>>

\* What approve_agent_run does once the decision is committed.
AfterDecision(d) == CASE d = "approve" -> "finalize"
                      [] d = "revise"  -> "begin"
                      [] d = "reject"  -> "done"

DecideRun(r) ==
  LET d == decision[r] IN
  /\ pc[r] = "decide"
  /\ Flush(r, [mem[r] EXCEPT !.status = DecidedStatus[d]], DecisionEvent[d],
           "none", [decision |-> d, revision |-> mem[r].revision],
           AfterDecision(d))
  /\ UNCHANGED stage

\* Its guard, status APPROVED, is on the copy decide_run has just set.
FinalizeApprovedRun(r) ==
  /\ pc[r] = "finalize" /\ mem[r].status = "approved"
  /\ Flush(r, [mem[r] EXCEPT !.status = "completed", !.node = "verification"],
           "run.completed", "verification", NoApproval, "done")
  /\ UNCHANGED stage

-----------------------------------------------------------------------------
(***************************************************************************)
(* The event stream, process loss and the specification.                   *)
(***************************************************************************)
Received(after, upto) ==
  {events[i] : i \in {j \in DOMAIN events : after < events[j].sequence
                                            /\ events[j].sequence <= upto}}

\* stream_events: one SELECT of the events after the reader's last sequence,
\* streamed in order until its end or until the connection drops after frame
\* `upto`.  (The plan page replays from 0 and drops the sequences it holds.)
StreamEvents ==
  \E i \in DOMAIN events :
    LET upto == events[i].sequence IN
    /\ upto > cursor /\ upto <= MaxFrames
    /\ seen' = seen \union Received(cursor, upto)
    /\ cursor' = upto
    /\ UNCHANGED <<database, handlers, crashes>>

\* The process or its database connection is lost: PostgreSQL rolls the open
\* transaction back and no request is ever resumed.
Crash(r) ==
  /\ r \in InFlight /\ crashes < MaxCrashes
  /\ crashes' = crashes + 1
  /\ pc' = [pc EXCEPT ![r] = "done"]
  /\ lock' = IF lock = r THEN None ELSE lock
  /\ mem' = [mem EXCEPT ![r] = AbsentRow]
  /\ txn' = [txn EXCEPT ![r] = NoTxn]
  /\ UNCHANGED <<database, reader, decision, stage>>

Arrive(r) == CreateRun(r) \/ LoadForDecision(r)

\* The steps a handler takes by itself once its request has been accepted.
Step(r) == \/ ProviderUnavailable(r) \/ BeginExecution(r) \/ Invoke(r)
           \/ Checkpoint(r) \/ OpenGate(r) \/ FailRun(r)
           \/ DecideRun(r) \/ FinalizeApprovedRun(r) \/ Commit(r)

Next == \/ \E r \in Requests : Arrive(r) \/ Step(r) \/ Crash(r)
        \/ StreamEvents

Spec == Init /\ [][Next]_vars

\* The event loop runs every handler that can continue, and PostgreSQL grants
\* a released row lock: no clients' request or reader is ever obliged to act.
Fairness == \A r \in Requests : WF_vars(Step(r))
FairSpec == Spec /\ Fairness

-----------------------------------------------------------------------------
(***************************************************************************)
(* Properties of every execution, requests interleaved and lost.           *)
(***************************************************************************)

\* The k-th committed event of a run has sequence k: concurrent handlers never
\* number two events alike and never leave a gap, although agent_events has no
\* unique constraint (_event reads max(sequence) under the row lock).
SequencesDense == \A i \in DOMAIN events : events[i].sequence = i

\* A reader that resumes after the last sequence it received holds every event
\* up to that sequence: none was committed behind its back with a smaller
\* number (stream_events).
NoMissedEvent ==
  seen = {events[i] : i \in {j \in DOMAIN events : events[j].sequence <= cursor}}

Count(type, node) ==
  Cardinality({i \in DOMAIN events : events[i].type = type /\ events[i].node = node})

\* At any time every one of the four agents has completed at least as often as
\* approval was asked for: no execution opens the gate on a partial graph.
GateAfterEveryNode ==
  \A n \in 1..Stages :
    Count("approval.required", "none") <= Count("node.completed", AgentNames[n])

\* The status that every event but a checkpoint puts the row in.
StatusAfter == [t \in EventTypes \ {"node.completed"} |->
                  CASE t = "run.created"            -> "queued"
                    [] t = "run.started"            -> "running"
                    [] t = "approval.required"      -> "waiting_approval"
                    [] t = "run.approved"           -> "approved"
                    [] t = "run.rejectd"            -> "rejected"
                    [] t = "run.revision_requested" -> "queued"
                    [] t = "run.completed"          -> "completed"
                    [] t = "run.failed"             -> "failed"]
StatusEvents == {i \in DOMAIN events : events[i].type \in DOMAIN StatusAfter}
StatusAsLogged ==
  /\ StatusEvents = {} => row.status = "absent"
  /\ \A i \in StatusEvents : (\A j \in StatusEvents : j <= i) =>
       row.status = StatusAfter[events[i].type]

\* What may happen only as often as something else has happened before it.
Earns  == [execution  |-> {"run.created", "run.revision_requested"},
           ending     |-> {"run.started"},
           completion |-> {"run.approved"}]
Spends == [execution  |-> {"run.started"},
           ending     |-> {"approval.required", "run.failed"},
           completion |-> {"run.completed"}]
Occurrences(types) == Cardinality({i \in DOMAIN events : events[i].type \in types})
TrailBalances ==
  \A a \in DOMAIN Earns : Occurrences(Spends[a]) <= Occurrences(Earns[a])

\* Requests that race or are lost leave an event log from which the run can be
\* reconstructed: its last event that is not a checkpoint tells the row's
\* status; and at no time are there more executions than were asked for, more
\* gates and failures than executions, or more completions than approvals.
AuditTrail == StatusAsLogged /\ TrailBalances

\* The run's event log and its append-only approvals tell the same story in
\* the same order: a decision is in both or in neither, crash or race, and the
\* k-th decision event is of the k-th approval.
DecisionOf == [t \in {"run.approved", "run.rejectd", "run.revision_requested"} |->
                 CASE t = "run.approved" -> "approve"
                   [] t = "run.rejectd"  -> "reject"
                   [] OTHER              -> "revise"]
DecisionEvents == {i \in DOMAIN events : events[i].type \in DOMAIN DecisionOf}
DecisionsUpTo(i) == {j \in DecisionEvents : j <= i}
DecisionsLogged ==
  /\ Cardinality(DecisionEvents) = Len(approvals)
  /\ \A i \in DecisionEvents :
       approvals[Cardinality(DecisionsUpTo(i))].decision = DecisionOf[events[i].type]

\* The committed events and the reader are an append-only log, numbered
\* without gaps, and a follower of it.
Log == INSTANCE EventLog WITH log <- events,
                              received <- seen
ImplementsEventLog == Log!Spec

(***************************************************************************)
(* Properties of a run whose requests do not overlap (MaxInFlight = 1).    *)
(***************************************************************************)

\* Every decision is about a whole execution: the revision it records is one
\* at which all four checkpoints of the latest execution were written.
DecidedWholeRevision ==
  \A i \in DOMAIN approvals :
    approvals[i].revision > 0 /\ approvals[i].revision % Stages = 0

\* Taken one at a time, the requests drive the row through the governed
\* lifecycle: nothing moves a run but its next legal step, decisions happen
\* only at the gate, and completed, rejected and failed are final.
Lifecycle == INSTANCE RunLifecycle WITH status <- row.status,
                                        revision <- row.revision
ImplementsLifecycle == Lifecycle!Spec

(***************************************************************************)
(* Liveness, and claims of the repository that its code does not keep.     *)
(***************************************************************************)
InProgress == row.status \in {"running", "approved"}

\* Unless a handler is lost, an execution reaches the gate or FAILED, and an
\* approved run is finalized: no interleaving leaves a run RUNNING or APPROVED
\* for good, and no request waits for ever for the row lock.
ExecutionSettles == InProgress ~> (~InProgress \/ crashes > 0)

\* "keeping rejected/revised runs from being reported as completed"
\* (app/api/agents.py:108-110): a rejected run never becomes completed.
RejectedNeverCompleted ==
  [][row.status = "rejected" => row'.status # "completed"]_row
=============================================================================
