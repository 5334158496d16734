--------------------------- MODULE AgentRunsProofs ---------------------------
(***************************************************************************)
(* Proofs about AgentRuns for any number of requests, any overlap of them  *)
(* and any number of crashes.  The argument is the row lock: a transaction *)
(* that has read max(sequence) always changed a column first, so it holds  *)
(* the lock until it commits, and the number it read stays the greatest.   *)
(* What the log says of the run is then counted: each handler stands for   *)
(* something the log has recorded and nothing has used up yet.  The last   *)
(* part is about requests that are taken one at a time.                    *)
(***************************************************************************)
EXTENDS AgentRuns, SequenceTheorems, FiniteSetTheorems, TLAPS

\* Where a handler may go on after a commit.
Continuations == {"begin", "invoke", "checkpoint", "finalize", "done"}

\* A transaction waiting for COMMIT wrote a column, holds the row lock, and
\* carries the number after the last committed one; nobody else holds it.
LockHeldToCommit ==
  /\ \A r \in Requests : pc[r] = "commit" =>
       /\ txn[r] \in Txn
       /\ lock = r
       /\ txn[r].event.sequence = Len(events) + 1
       /\ txn[r].next \in Continuations
  /\ lock # None => pc[lock] = "commit"

\* The status each session believes in, by what it is about to do.  It is why
\* no transaction leaves the row unchanged and goes without the lock.
Believes(r, at) ==
  /\ at = "decide" => /\ mem[r].status = "waiting_approval"
                      /\ decision[r] \in Decisions
  /\ at = "begin" => mem[r].status = "queued"
  /\ at \in {"invoke", "checkpoint", "fail"} => mem[r].status = "running"
  /\ at = "finalize" => mem[r].status = "approved"
StatusBelieved ==
  \A r \in Requests :
    Believes(r, IF pc[r] = "commit" THEN txn[r].next ELSE pc[r])

\* An approve decision is committed before anything is completed because of it.
Approved == \E i \in DOMAIN approvals : approvals[i].decision = "approve"
ApprovalFirst ==
  /\ row.status = "completed" => Approved
  /\ \A r \in Requests :
       /\ pc[r] = "finalize" => Approved
       /\ pc[r] = "commit" /\ mem[r].status = "completed" => Approved
       /\ pc[r] = "commit" /\ txn[r].next = "finalize" =>
            txn[r].approval # NoApproval /\ txn[r].approval.decision = "approve"

IInv == /\ TypeOK
        /\ LockHeldToCommit
        /\ StatusBelieved
        /\ SequencesDense
        /\ cursor <= Len(events)
        /\ NoMissedEvent
        /\ ApprovalFirst

-----------------------------------------------------------------------------
(***************************************************************************)
(* Lemmas about the operators of a transaction.                            *)
(***************************************************************************)

\* While the committed events are numbered without gaps, max(sequence) + 1 is
\* the number after the last of them (_event).
LEMMA NextSequenceIsNext ==
  ASSUME TypeOK, SequencesDense
  PROVE  NextSequence = Len(events) + 1
<1>1. CASE events = <<>>
  BY <1>1 DEF NextSequence
<1>2. CASE events # <<>>
  <2> DEFINE Numbers == {events[i].sequence : i \in DOMAIN events}
             Greatest(m) == \A i \in DOMAIN events : events[i].sequence <= m
  <2>1. /\ DOMAIN events = 1..Len(events)
        /\ Len(events) \in Nat \ {0}
    BY <1>2, EmptySeq DEF TypeOK
  <2>2. /\ Len(events) \in Numbers
        /\ Greatest(Len(events))
    BY <2>1 DEF SequencesDense
  <2>3. ASSUME NEW m \in Numbers, Greatest(m)
        PROVE  m = Len(events)
    <3>1. PICK i \in DOMAIN events : m = events[i].sequence
      OBVIOUS
    <3>2. m = i /\ events[Len(events)].sequence = Len(events)
      BY <2>1, <3>1 DEF SequencesDense
    <3>. QED  BY <2>1, <2>3, <3>1, <3>2
  <2>4. (CHOOSE m \in Numbers : Greatest(m)) = Len(events)
    BY <2>2, <2>3
  <2>5. NextSequence = 1 + (CHOOSE m \in Numbers : Greatest(m))
    BY <1>2, Zenon DEF NextSequence
  <2>6. NextSequence = 1 + Len(events)
    BY <2>4, <2>5, Zenon
  <2>. QED  BY <2>1, <2>6
<1>. QED  BY <1>1, <1>2

\* Updating some columns of one row with those of another gives a row, with
\* the status of either (the UPDATE of a session's changed columns).
LEMMA UpdatedRow ==
  ASSUME NEW old \in Row, NEW new \in Row, NEW cols \in SUBSET Columns
  PROVE  /\ Updated(old, new, cols) \in Row
         /\ Updated(old, new, cols).status \in {old.status, new.status}
BY DEF Updated, Row

LEMMA AbsentRowIsRow == AbsentRow \in Row
BY DEF AbsentRow, Row, Statuses, Nodes

\* A changed status or revision is a changed column.
LEMMA ChangedColumns ==
  ASSUME NEW old \in Row, NEW new \in Row
  PROVE  /\ Changed(old, new) \in SUBSET Columns
         /\ old.status # new.status => Changed(old, new) # {}
         /\ old.revision # new.revision => Changed(old, new) # {}
BY DEF Changed, Columns, Row

\* An approval once recorded stays recorded, and one just added counts.
LEMMA ApprovalsGrow ==
  ASSUME approvals \in Seq(Approval), NEW a \in Approval,
         approvals' = Append(approvals, a)
  PROVE  /\ approvals' \in Seq(Approval)
         /\ Approved => Approved'
         /\ a.decision = "approve" => Approved'
<1>1. /\ approvals' \in Seq(Approval)
      /\ Len(approvals) \in Nat
      /\ Len(approvals') = Len(approvals) + 1
      /\ DOMAIN approvals = 1..Len(approvals)
      /\ DOMAIN approvals' = 1..Len(approvals')
      /\ approvals'[Len(approvals')] = a
      /\ \A i \in 1..Len(approvals) : approvals'[i] = approvals[i]
  OBVIOUS
<1>2. Len(approvals') \in DOMAIN approvals' /\ DOMAIN approvals \subseteq DOMAIN approvals'
  BY <1>1
<1>3. Approved => Approved'
  BY <1>1, <1>2, Zenon DEF Approved
<1>4. a.decision = "approve" => Approved'
  BY <1>1, <1>2, Zenon DEF Approved
<1>. QED  BY <1>1, <1>3, <1>4

\* The invariant holds before the run exists.
THEOREM InitIInv == Init => IInv
<1> SUFFICES ASSUME Init PROVE IInv
  OBVIOUS
<1>1. TypeOK
  BY EmptySeq, BoundsAssumption
     DEF Init, TypeOK, AbsentRow, Row, Statuses, Nodes, Control, None, Stages, AgentNames
<1>2. LockHeldToCommit /\ StatusBelieved /\ ApprovalFirst
  BY DEF Init, LockHeldToCommit, StatusBelieved, Believes, ApprovalFirst, AbsentRow, None
<1>3. SequencesDense /\ NoMissedEvent /\ cursor <= Len(events)
  BY DEF Init, SequencesDense, NoMissedEvent
<1>. QED  BY <1>1, <1>2, <1>3 DEF IInv

-----------------------------------------------------------------------------
(***************************************************************************)
(* The two halves of a transaction preserve the invariant.                 *)
(***************************************************************************)

\* Flushing a transaction that changes the row, from any point of a handler.
LEMMA FlushKeepsIInv ==
  ASSUME IInv, NEW r \in Requests, pc[r] # "commit",
         NEW new \in Row, Changed(mem[r], new) # {},
         NEW type \in EventTypes, NEW node \in Nodes,
         NEW approval \in Approval \union {NoApproval},
         NEW next \in Continuations,
         next = "begin" => new.status = "queued",
         next \in {"invoke", "checkpoint"} => new.status = "running",
         next = "finalize" => /\ new.status = "approved"
                              /\ approval # NoApproval
                              /\ approval.decision = "approve",
         new.status = "completed" => Approved,
         stage' \in [Requests -> 0..Stages],
         Flush(r, new, type, node, approval, next)
  PROVE  IInv'
<1> DEFINE cols == Changed(mem[r], new)
           event == [sequence |-> NextSequence, type |-> type, node |-> node]
           open == [cols |-> cols, approval |-> approval, next |-> next,
                    event |-> event]
<1>1. /\ lock = None /\ lock' = r
      /\ mem' = [mem EXCEPT ![r] = new]
      /\ txn' = [txn EXCEPT ![r] = open]
      /\ pc' = [pc EXCEPT ![r] = "commit"]
      /\ UNCHANGED <<row, events, approvals, seen, cursor, crashes, decision>>
  BY Zenon DEF Flush, RowLockFree, database, reader
<1>2. /\ Len(events) \in Nat
      /\ event.sequence = Len(events) + 1
      /\ event \in Event
  BY NextSequenceIsNext DEF IInv, TypeOK, Event
<1>3. open \in Txn
  BY <1>2, ChangedColumns DEF Txn, Continuations, Control, IInv, TypeOK
<1>4. TypeOK'
  BY <1>1, <1>3 DEF IInv, TypeOK, Control
<1>5. LockHeldToCommit'
  BY <1>1, <1>2, <1>3 DEF IInv, TypeOK, LockHeldToCommit, None, Requests, Control
<1>6. StatusBelieved'
  <2> SUFFICES ASSUME NEW q \in Requests
               PROVE  Believes(q, IF pc[q] = "commit" THEN txn[q].next ELSE pc[q])'
    BY DEF StatusBelieved
  <2>1. CASE q = r
    BY <1>1, <2>1 DEF IInv, TypeOK, Believes, Continuations
  <2>2. CASE q # r
    BY <1>1, <2>2 DEF IInv, TypeOK, StatusBelieved, Believes
  <2>. QED  BY <2>1, <2>2
<1>7. SequencesDense' /\ NoMissedEvent' /\ (cursor <= Len(events))'
  BY <1>1 DEF IInv, SequencesDense, NoMissedEvent
<1>8. ApprovalFirst'
  BY <1>1 DEF IInv, TypeOK, ApprovalFirst, Approved
<1>. QED  BY <1>4, <1>5, <1>6, <1>7, <1>8 DEF IInv

\* COMMIT publishes exactly the event that was numbered under the lock.
LEMMA CommitKeepsIInv ==
  ASSUME IInv, NEW r \in Requests, Commit(r)
  PROVE  IInv'
<1> DEFINE t == txn[r]
<1>1. /\ pc[r] = "commit" /\ lock = r /\ t \in Txn
      /\ t.event \in Event /\ t.event.sequence = Len(events) + 1
      /\ t.next \in Continuations
      /\ t.cols \in SUBSET Columns
      /\ t.approval \in Approval \union {NoApproval}
  BY DEF Commit, IInv, LockHeldToCommit, Txn
<1>2. /\ row' = Updated(row, mem[r], t.cols)
      /\ events' = Append(events, t.event)
      /\ approvals' = IF t.approval = NoApproval THEN approvals
                      ELSE Append(approvals, t.approval)
      /\ lock' = None
      /\ pc' = [pc EXCEPT ![r] = t.next]
      /\ txn' = [txn EXCEPT ![r] = NoTxn]
      /\ mem' = IF t.next = "done" THEN [mem EXCEPT ![r] = AbsentRow] ELSE mem
      /\ UNCHANGED <<seen, cursor, crashes, decision, stage>>
  BY <1>1, Zenon DEF Commit, reader
<1>3. /\ row' \in Row
      /\ row'.status \in {row.status, mem[r].status}
  BY <1>1, <1>2, UpdatedRow DEF IInv, TypeOK
<1>4. /\ Len(events) \in Nat /\ events' \in Seq(Event)
      /\ Len(events') = Len(events) + 1
      /\ events'[Len(events')] = t.event
      /\ \A i \in 1..Len(events) : events'[i] = events[i]
      /\ DOMAIN events = 1..Len(events) /\ DOMAIN events' = 1..Len(events')
  BY <1>1, <1>2 DEF IInv, TypeOK
<1>5. approvals' \in Seq(Approval) /\ (Approved => Approved')
  <2>1. CASE t.approval = NoApproval
    BY <1>2, <2>1 DEF IInv, TypeOK, Approved
  <2>2. CASE t.approval # NoApproval
    <3>1. approvals' = Append(approvals, t.approval) /\ t.approval \in Approval
      BY <1>1, <1>2, <2>2
    <3>. QED  BY <3>1, ApprovalsGrow DEF IInv, TypeOK
  <2>. QED  BY <2>1, <2>2
<1>6. t.next = "finalize" => Approved'
  <2> SUFFICES ASSUME t.next = "finalize" PROVE Approved'
    OBVIOUS
  <2>1. /\ t.approval # NoApproval /\ t.approval.decision = "approve"
        /\ t.approval \in Approval
    BY <1>1 DEF IInv, ApprovalFirst
  <2>2. approvals' = Append(approvals, t.approval)
    BY <1>2, <2>1
  <2>. QED  BY <2>1, <2>2, ApprovalsGrow DEF IInv, TypeOK
<1>7. AbsentRow \in Row
  BY AbsentRowIsRow
<1>8. TypeOK'
  <2>1. {events[i] : i \in DOMAIN events} \subseteq {events'[i] : i \in DOMAIN events'}
    BY <1>4
  <2>2. pc' \in [Requests -> Control]
    BY <1>1, <1>2 DEF IInv, TypeOK, Control, Continuations
  <2>3. mem' \in [Requests -> Row]
    BY <1>2, <1>7 DEF IInv, TypeOK
  <2>. QED  BY <1>2, <1>3, <1>4, <1>5, <2>1, <2>2, <2>3 DEF IInv, TypeOK
<1>9. LockHeldToCommit'
  BY <1>1, <1>2 DEF IInv, TypeOK, LockHeldToCommit, None, Continuations
<1>10. StatusBelieved'
  <2> SUFFICES ASSUME NEW q \in Requests
               PROVE  Believes(q, IF pc[q] = "commit" THEN txn[q].next ELSE pc[q])'
    BY DEF StatusBelieved
  <2>1. Believes(q, IF pc[q] = "commit" THEN txn[q].next ELSE pc[q])
    BY DEF IInv, StatusBelieved
  <2>2. CASE q = r
    BY <1>1, <1>2, <2>1, <2>2 DEF IInv, TypeOK, Believes, Continuations
  <2>3. CASE q # r
    BY <1>1, <1>2, <2>1, <2>3 DEF IInv, TypeOK, Believes
  <2>. QED  BY <2>2, <2>3
<1>11. SequencesDense'
  BY <1>1, <1>4 DEF IInv, SequencesDense
<1>12. NoMissedEvent'
  <2>1. cursor \in Nat /\ cursor <= Len(events)
    BY DEF IInv, TypeOK
  <2>. QED  BY <1>1, <1>2, <1>4, <2>1 DEF IInv, NoMissedEvent, SequencesDense
<1>13. ApprovalFirst'
  <2>1. row'.status = "completed" => Approved'
    BY <1>1, <1>3, <1>5 DEF IInv, ApprovalFirst
  <2>2. ASSUME NEW q \in Requests, pc'[q] = "finalize"
        PROVE  Approved'
    BY <1>1, <1>2, <1>5, <1>6, <2>2 DEF IInv, TypeOK, ApprovalFirst
  <2>3. ASSUME NEW q \in Requests, pc'[q] = "commit"
        PROVE  q # r /\ pc[q] = "commit" /\ mem'[q] = mem[q] /\ txn'[q] = txn[q]
    BY <1>1, <1>2, <2>3 DEF IInv, TypeOK, Continuations
  <2>. QED  BY <1>5, <2>1, <2>2, <2>3 DEF IInv, ApprovalFirst
<1>14. cursor' <= Len(events')
  BY <1>2, <1>4 DEF IInv, TypeOK
<1>. QED  BY <1>8, <1>9, <1>10, <1>11, <1>12, <1>13, <1>14 DEF IInv

-----------------------------------------------------------------------------
(***************************************************************************)
(* The inductive step, action by action.                                   *)
(***************************************************************************)

\* Some actions only move handlers: the database and the reader stand still.
LEMMA HandlerStepFrame ==
  ASSUME NEW r \in Requests,
         ProviderUnavailable(r) \/ Invoke(r) \/ LoadForDecision(r) \/ Crash(r)
  PROVE  UNCHANGED <<row, events, approvals, seen, cursor>>
<1>1. CASE ProviderUnavailable(r)
  BY <1>1 DEF ProviderUnavailable, Finish, database, reader
<1>2. CASE Invoke(r)
  BY <1>2 DEF Invoke, database, reader
<1>3. CASE LoadForDecision(r)
  BY <1>3 DEF LoadForDecision, database, reader
<1>4. CASE Crash(r)
  BY <1>4 DEF Crash, database, reader
<1>. QED  BY <1>1, <1>2, <1>3, <1>4

LEMMA HandlerStepKeepsIInv ==
  ASSUME IInv, NEW r \in Requests,
         ProviderUnavailable(r) \/ Invoke(r) \/ LoadForDecision(r) \/ Crash(r)
  PROVE  IInv'
<1>1. UNCHANGED <<row, events, approvals, seen, cursor>>
  BY HandlerStepFrame
<1>2. SequencesDense' /\ NoMissedEvent' /\ (cursor <= Len(events))'
  BY <1>1 DEF IInv, SequencesDense, NoMissedEvent
<1>3. CASE ProviderUnavailable(r)
  <2>1. /\ pc[r] = "begin" /\ pc' = [pc EXCEPT ![r] = "done"]
        /\ mem' = [mem EXCEPT ![r] = AbsentRow]
        /\ UNCHANGED <<lock, decision, stage, txn, crashes>>
    BY <1>3 DEF ProviderUnavailable, Finish
  <2>3. TypeOK'
    BY <1>1, <2>1, AbsentRowIsRow DEF IInv, TypeOK, Control
  <2>4. LockHeldToCommit'
    BY <1>1, <2>1 DEF IInv, TypeOK, LockHeldToCommit, None, Requests
  <2>5. StatusBelieved'
    BY <1>1, <2>1 DEF IInv, TypeOK, StatusBelieved, Believes
  <2>6. ApprovalFirst'
    BY <1>1, <2>1 DEF IInv, TypeOK, ApprovalFirst, Approved
  <2>. QED  BY <1>2, <2>3, <2>4, <2>5, <2>6 DEF IInv
<1>4. CASE Invoke(r)
  <2>1. /\ pc[r] = "invoke"
        /\ \E o \in {"checkpoint", "fail"} : pc' = [pc EXCEPT ![r] = o]
        /\ stage' = [stage EXCEPT ![r] = 0]
        /\ UNCHANGED <<lock, decision, mem, txn, crashes>>
    BY <1>4 DEF Invoke
  <2>2. 0 \in 0..Stages
    BY DEF Stages, AgentNames
  <2>3. TypeOK'
    BY <1>1, <2>1, <2>2, AbsentRowIsRow DEF IInv, TypeOK, Control
  <2>4. LockHeldToCommit'
    BY <1>1, <2>1 DEF IInv, TypeOK, LockHeldToCommit, None, Requests
  <2>5. StatusBelieved'
    BY <1>1, <2>1 DEF IInv, TypeOK, StatusBelieved, Believes
  <2>6. ApprovalFirst'
    BY <1>1, <2>1 DEF IInv, TypeOK, ApprovalFirst, Approved
  <2>. QED  BY <1>2, <2>3, <2>4, <2>5, <2>6 DEF IInv
<1>5. CASE LoadForDecision(r)
  <2>1. pc[r] = "idle" /\ UNCHANGED <<lock, stage, txn, crashes>>
    BY <1>5 DEF LoadForDecision, NextArrival
  <2>2. \/ /\ row.status = "waiting_approval"
           /\ pc' = [pc EXCEPT ![r] = "decide"]
           /\ mem' = [mem EXCEPT ![r] = row]
           /\ \E d \in Decisions : decision' = [decision EXCEPT ![r] = d]
        \/ /\ pc' = [pc EXCEPT ![r] = "done"]
           /\ UNCHANGED <<mem, decision>>
    BY <1>5 DEF LoadForDecision, AwaitsApproval
  <2>3. TypeOK'
    <3>1. /\ pc' \in [Requests -> Control] /\ mem' \in [Requests -> Row]
          /\ decision' \in [Requests -> Decisions \union {"none"}]
      <4>1. "decide" \in Control /\ "done" \in Control
        BY DEF Control
      <4>2. /\ row \in Row /\ pc \in [Requests -> Control]
            /\ mem \in [Requests -> Row]
            /\ decision \in [Requests -> Decisions \union {"none"}]
        BY DEF IInv, TypeOK
      <4>. QED  BY <2>2, <4>1, <4>2
    <3>. QED  BY <1>1, <2>1, <3>1 DEF IInv, TypeOK
  <2>4. LockHeldToCommit'
    BY <1>1, <2>1, <2>2 DEF IInv, TypeOK, LockHeldToCommit, None, Requests
  <2>5. StatusBelieved'
    BY <1>1, <2>1, <2>2 DEF IInv, TypeOK, StatusBelieved, Believes
  <2>6. ApprovalFirst'
    BY <1>1, <2>1, <2>2 DEF IInv, TypeOK, ApprovalFirst, Approved
  <2>. QED  BY <1>2, <2>3, <2>4, <2>5, <2>6 DEF IInv
<1>6. CASE Crash(r)
  <2>1. /\ pc' = [pc EXCEPT ![r] = "done"]
        /\ lock' = IF lock = r THEN None ELSE lock
        /\ mem' = [mem EXCEPT ![r] = AbsentRow]
        /\ txn' = [txn EXCEPT ![r] = NoTxn]
        /\ crashes' = crashes + 1
        /\ UNCHANGED <<decision, stage>>
    BY <1>6 DEF Crash
  <2>3. TypeOK'
    BY <1>1, <2>1, AbsentRowIsRow DEF IInv, TypeOK, Control
  <2>4. LockHeldToCommit'
    BY <1>1, <2>1 DEF IInv, TypeOK, LockHeldToCommit, None, Requests
  <2>5. StatusBelieved'
    BY <1>1, <2>1 DEF IInv, TypeOK, StatusBelieved, Believes
  <2>6. ApprovalFirst'
    BY <1>1, <2>1 DEF IInv, TypeOK, ApprovalFirst, Approved
  <2>. QED  BY <1>2, <2>3, <2>4, <2>5, <2>6 DEF IInv
<1>. QED  BY <1>3, <1>4, <1>5, <1>6

\* The transactions of execute_run, decide_run and finalize_approved_run each
\* change the status or the revision their session believes in.
LEMMA TransactionKeepsIInv ==
  ASSUME IInv, NEW r \in Requests,
         \/ BeginExecution(r) \/ Checkpoint(r) \/ OpenGate(r)
         \/ FailRun(r) \/ DecideRun(r) \/ FinalizeApprovedRun(r)
  PROVE  IInv'
<1> USE DEF Continuations
<1>1. mem[r] \in Row /\ mem[r].revision \in Nat /\ stage \in [Requests -> 0..Stages]
  BY DEF IInv, TypeOK, Row
<1>2. NoApproval \in Approval \union {NoApproval} /\ "none" \in Nodes
  BY DEF Nodes
<1>3. pc[r] # "commit" => Believes(r, pc[r])
  BY DEF IInv, StatusBelieved
<1>4. CASE BeginExecution(r)
  <2> DEFINE new == [mem[r] EXCEPT !.status = "running"]
  <2>1. /\ pc[r] = "begin" /\ mem[r].status = "queued" /\ stage' = stage
        /\ Flush(r, new, "run.started", "none", NoApproval, "invoke")
    BY <1>3, <1>4 DEF BeginExecution, Believes
  <2>2. new \in Row /\ new.status = "running" /\ Changed(mem[r], new) # {}
    BY <1>1, <2>1, ChangedColumns DEF Row, Statuses
  <2>3. "run.started" \in EventTypes
    BY DEF EventTypes
  <2>. QED  BY <1>1, <1>2, <2>1, <2>2, <2>3, FlushKeepsIInv
<1>5. CASE Checkpoint(r)
  <2> DEFINE name == AgentNames[stage[r] + 1]
             new == [mem[r] EXCEPT !.node = name, !.revision = @ + 1]
  <2>1. /\ pc[r] = "checkpoint" /\ mem[r].status = "running"
        /\ stage[r] < Stages /\ stage' = [stage EXCEPT ![r] = @ + 1]
        /\ Flush(r, new, "node.completed", name, NoApproval, "checkpoint")
    BY <1>3, <1>5 DEF Checkpoint, NodeLeft, Believes
  <2>2. name \in Nodes /\ stage' \in [Requests -> 0..Stages]
    BY <1>1, <2>1 DEF Nodes, Stages, AgentNames
  <2>3. new \in Row /\ new.status = "running" /\ Changed(mem[r], new) # {}
    <3>1. mem[r].revision + 1 \in Nat
      BY <1>1
    <3>2. /\ new \in Row /\ new.status = mem[r].status
          /\ new.revision = mem[r].revision + 1
      BY <1>1, <2>2, <3>1 DEF Row
    <3>3. new.revision # mem[r].revision
      BY <1>1, <3>2
    <3> HIDE DEF new
    <3>. QED  BY <1>1, <2>1, <3>2, <3>3, ChangedColumns
  <2>4. "node.completed" \in EventTypes
    BY DEF EventTypes
  <2>. QED  BY <1>1, <1>2, <2>1, <2>2, <2>3, <2>4, FlushKeepsIInv
<1>6. CASE OpenGate(r)
  <2> DEFINE new == [mem[r] EXCEPT !.status = "waiting_approval"]
  <2>1. /\ pc[r] = "checkpoint" /\ mem[r].status = "running" /\ stage' = stage
        /\ Flush(r, new, "approval.required", "none", NoApproval, "done")
    BY <1>3, <1>6 DEF OpenGate, Believes
  <2>2. new \in Row /\ new.status = "waiting_approval" /\ Changed(mem[r], new) # {}
    BY <1>1, <2>1, ChangedColumns DEF Row, Statuses
  <2>3. "approval.required" \in EventTypes
    BY DEF EventTypes
  <2>. QED  BY <1>1, <1>2, <2>1, <2>2, <2>3, FlushKeepsIInv
<1>7. CASE FailRun(r)
  <2> DEFINE new == [mem[r] EXCEPT !.status = "failed", !.error = TRUE]
  <2>1. /\ pc[r] = "fail" /\ mem[r].status = "running" /\ stage' = stage
        /\ Flush(r, new, "run.failed", mem[r].node, NoApproval, "done")
    BY <1>3, <1>7 DEF FailRun, Believes
  <2>2. new \in Row /\ new.status = "failed" /\ Changed(mem[r], new) # {}
    BY <1>1, <2>1, ChangedColumns DEF Row, Statuses
  <2>3. "run.failed" \in EventTypes /\ mem[r].node \in Nodes
    BY <1>1 DEF EventTypes, Row
  <2>. QED  BY <1>1, <1>2, <2>1, <2>2, <2>3, FlushKeepsIInv
<1>8. CASE DecideRun(r)
  <2> DEFINE d == decision[r]
             new == [mem[r] EXCEPT !.status = DecidedStatus[d]]
             approval == [decision |-> d, revision |-> mem[r].revision]
  <2>1. /\ pc[r] = "decide" /\ mem[r].status = "waiting_approval" /\ stage' = stage
        /\ d \in Decisions
        /\ Flush(r, new, DecisionEvent[d], "none", approval, AfterDecision(d))
    BY <1>3, <1>8 DEF DecideRun, Believes
  <2>2. /\ approval \in Approval /\ approval # NoApproval /\ approval.decision = d
        /\ DecisionEvent[d] \in EventTypes
        /\ DecidedStatus[d] \in {"approved", "rejected", "queued"}
    BY <1>1, <2>1 DEF Approval, NoApproval, Decisions, DecisionEvent, EventTypes,
       DecidedStatus
  <2>3. /\ AfterDecision(d) \in {"finalize", "begin", "done"}
        /\ AfterDecision(d) = "begin" => DecidedStatus[d] = "queued"
        /\ AfterDecision(d) = "finalize" => DecidedStatus[d] = "approved" /\ d = "approve"
    BY <2>1 DEF AfterDecision, Decisions, DecidedStatus
  <2>4. /\ new \in Row /\ new.status = DecidedStatus[d]
        /\ Changed(mem[r], new) # {}
    BY <1>1, <2>1, <2>2, ChangedColumns DEF Row, Statuses
  <2>5. /\ AfterDecision(d) \in Continuations
        /\ AfterDecision(d) = "begin" => new.status = "queued"
        /\ AfterDecision(d) \notin {"invoke", "checkpoint"}
        /\ AfterDecision(d) = "finalize" =>
             new.status = "approved" /\ approval # NoApproval /\ approval.decision = "approve"
        /\ new.status # "completed"
    BY <2>2, <2>3, <2>4
  <2>6. /\ approval \in Approval \union {NoApproval} /\ "none" \in Nodes
        /\ stage' \in [Requests -> 0..Stages] /\ pc[r] # "commit"
    BY <1>1, <1>2, <2>1, <2>2
  <2> HIDE DEF d, new, approval, Continuations
  <2>. QED  BY <2>1, <2>2, <2>4, <2>5, <2>6, FlushKeepsIInv DEF Continuations
<1>9. CASE FinalizeApprovedRun(r)
  <2> DEFINE new == [mem[r] EXCEPT !.status = "completed", !.node = "verification"]
  <2>1. /\ pc[r] = "finalize" /\ mem[r].status = "approved" /\ stage' = stage
        /\ Flush(r, new, "run.completed", "verification", NoApproval, "done")
    BY <1>9 DEF FinalizeApprovedRun
  <2>2. "run.completed" \in EventTypes /\ "verification" \in Nodes
    BY DEF EventTypes, Nodes, Stages, AgentNames
  <2>3. new \in Row /\ new.status = "completed" /\ Changed(mem[r], new) # {}
    BY <1>1, <2>1, <2>2, ChangedColumns DEF Row, Statuses
  <2>4. Approved
    BY <2>1 DEF IInv, ApprovalFirst
  <2>. QED  BY <1>1, <1>2, <2>1, <2>2, <2>3, <2>4, FlushKeepsIInv
<1>. QED  BY <1>4, <1>5, <1>6, <1>7, <1>8, <1>9

\* create_run publishes the first event while nobody holds the row.
LEMMA CreateRunKeepsIInv ==
  ASSUME IInv, NEW r \in Requests, CreateRun(r)
  PROVE  IInv'
<1> DEFINE created == [AbsentRow EXCEPT !.status = "queued"]
           event == [sequence |-> NextSequence, type |-> "run.created", node |-> "none"]
<1>1. /\ pc[r] = "idle" /\ lock = None
      /\ row' = created /\ events' = Append(events, event)
      /\ mem' = [mem EXCEPT ![r] = created]
      /\ pc' = [pc EXCEPT ![r] = "begin"]
      /\ UNCHANGED <<approvals, lock, decision, stage, txn, seen, cursor, crashes>>
  BY DEF CreateRun, NextArrival, reader
<1>2. /\ event \in Event /\ event.sequence = Len(events) + 1
      /\ created \in Row /\ created.status = "queued"
      /\ Len(events) \in Nat
  <2>1. NextSequence = Len(events) + 1 /\ Len(events) \in Nat
    BY NextSequenceIsNext DEF IInv, TypeOK
  <2>2. event \in Event
    BY <2>1 DEF Event, EventTypes, Nodes
  <2>3. created \in Row /\ created.status = "queued"
    BY DEF AbsentRow, Row, Statuses, Nodes
  <2>. QED  BY <2>1, <2>2, <2>3
<1>3. /\ events' \in Seq(Event)
      /\ Len(events') = Len(events) + 1
      /\ events'[Len(events')] = event
      /\ \A i \in 1..Len(events) : events'[i] = events[i]
      /\ DOMAIN events = 1..Len(events) /\ DOMAIN events' = 1..Len(events')
  BY <1>1, <1>2 DEF IInv, TypeOK
<1>4. \A q \in Requests : pc[q] # "commit"
  BY <1>1 DEF IInv, LockHeldToCommit, None, Requests
<1>5. {events[i] : i \in DOMAIN events} \subseteq {events'[i] : i \in DOMAIN events'}
  BY <1>3
<1>6. TypeOK'
  BY <1>1, <1>2, <1>3, <1>5 DEF IInv, TypeOK, Control
<1>7. LockHeldToCommit' /\ StatusBelieved'
  BY <1>1, <1>2, <1>4 DEF IInv, TypeOK, LockHeldToCommit, StatusBelieved, Believes
<1>8. SequencesDense' /\ (cursor <= Len(events))'
  BY <1>1, <1>2, <1>3 DEF IInv, TypeOK, SequencesDense
<1>9. NoMissedEvent'
  BY <1>1, <1>2, <1>3 DEF IInv, TypeOK, NoMissedEvent, SequencesDense
<1>10. ApprovalFirst'
  BY <1>1, <1>2 DEF IInv, TypeOK, ApprovalFirst, Approved
<1>. QED  BY <1>6, <1>7, <1>8, <1>9, <1>10 DEF IInv

\* A replay hands over exactly the events between two sequences.
LEMMA StreamEventsKeepsIInv ==
  ASSUME IInv, StreamEvents
  PROVE  IInv'
<1>1. UNCHANGED <<row, events, approvals, lock, pc, decision, mem, stage, txn, crashes>>
  BY DEF StreamEvents, database, handlers
<1>2. PICK i \in DOMAIN events :
        /\ events[i].sequence > cursor
        /\ seen' = seen \union Received(cursor, events[i].sequence)
        /\ cursor' = events[i].sequence
  BY DEF StreamEvents
<1>3. events[i].sequence = i /\ i \in 1..Len(events) /\ Len(events) \in Nat
  BY DEF IInv, TypeOK, SequencesDense
<1>4. Received(cursor, i) \subseteq {events[j] : j \in DOMAIN events}
  BY DEF Received
<1>5. TypeOK' /\ (cursor <= Len(events))'
  BY <1>1, <1>2, <1>3, <1>4 DEF IInv, TypeOK
<1>6. NoMissedEvent'
  <2>1. seen \union Received(cursor, i)
          = {events[j] : j \in {k \in DOMAIN events : events[k].sequence <= i}}
    <3> DEFINE Before == {k \in DOMAIN events : events[k].sequence <= cursor}
               Between == {k \in DOMAIN events : cursor < events[k].sequence
                                                 /\ events[k].sequence <= i}
               UpTo == {k \in DOMAIN events : events[k].sequence <= i}
    <3>1. \A k \in DOMAIN events : events[k].sequence \in Nat
      BY <1>3 DEF IInv, TypeOK, SequencesDense
    <3>2. cursor \in Nat /\ i \in Nat /\ cursor < i
      BY <1>2, <1>3 DEF IInv, TypeOK
    <3>3. Before \union Between = UpTo
      BY <3>1, <3>2
    <3>4. seen = {events[j] : j \in Before}
      BY DEF IInv, NoMissedEvent
    <3>5. Received(cursor, i) = {events[j] : j \in Between}
      BY DEF Received
    <3> HIDE DEF Before, Between, UpTo
    <3>6. {events[j] : j \in Before} \union {events[j] : j \in Between}
            = {events[j] : j \in UpTo}
      BY <3>3
    <3>. QED  BY <3>4, <3>5, <3>6 DEF UpTo
  <2>. QED  BY <1>1, <1>2, <1>3, <2>1 DEF NoMissedEvent
<1>. QED
  BY <1>1, <1>5, <1>6 DEF IInv, LockHeldToCommit, StatusBelieved, Believes,
     SequencesDense, ApprovalFirst, Approved

\* The invariant is inductive over every action of the specification.
THEOREM NextKeepsIInv == IInv /\ [Next]_vars => IInv'
<1> SUFFICES ASSUME IInv, [Next]_vars PROVE IInv'
  OBVIOUS
<1>1. CASE UNCHANGED vars
  BY <1>1 DEF vars, database, handlers, reader, IInv, TypeOK, LockHeldToCommit,
     StatusBelieved, Believes, SequencesDense, NoMissedEvent, ApprovalFirst, Approved
<1>2. ASSUME NEW r \in Requests, Arrive(r)
      PROVE  IInv'
  BY <1>2, CreateRunKeepsIInv, HandlerStepKeepsIInv DEF Arrive
<1>3. ASSUME NEW r \in Requests, Step(r)
      PROVE  IInv'
  BY <1>3, HandlerStepKeepsIInv, TransactionKeepsIInv, CommitKeepsIInv DEF Step
<1>4. ASSUME NEW r \in Requests, Crash(r)
      PROVE  IInv'
  BY <1>4, HandlerStepKeepsIInv
<1>5. CASE StreamEvents
  BY <1>5, StreamEventsKeepsIInv
<1>. QED  BY <1>1, <1>2, <1>3, <1>4, <1>5 DEF Next

\* IInv holds in every state of every execution.
THEOREM Invariance == Spec => []IInv
BY InitIInv, NextKeepsIInv, PTL DEF Spec

-----------------------------------------------------------------------------
(***************************************************************************)
(* What the invariant gives.                                               *)
(***************************************************************************)

\* Every variable keeps its type: in particular a session in the middle of a
\* transaction has one, and no status or event outside the code's appears.
THEOREM TypeCorrect == Spec => []TypeOK
<1>1. IInv => TypeOK
  BY DEF IInv
<1>. QED  BY <1>1, Invariance, PTL

\* Committed events are numbered 1, 2, 3, ... in commit order, however many
\* requests interleave and crash (runtime._event without a unique constraint).
THEOREM EventsNumberedDensely == Spec => []SequencesDense
<1>1. IInv => SequencesDense
  BY DEF IInv
<1>. QED  BY <1>1, Invariance, PTL

\* A reader that resumes at its last sequence never misses an event
\* (stream_events and the ?after= parameter of the events endpoint).
THEOREM ReaderMissesNothing == Spec => []NoMissedEvent
<1>1. IInv => NoMissedEvent
  BY DEF IInv
<1>. QED  BY <1>1, Invariance, PTL

CompletedWasApproved == row.status = "completed" => Approved

\* No race makes a run COMPLETED that nobody approved (finalize_approved_run
\* runs only after decide_run committed its approval).
THEOREM CompletionNeedsApproval == Spec => []CompletedWasApproved
<1>1. IInv => CompletedWasApproved
  BY DEF IInv, ApprovalFirst, CompletedWasApproved
<1>. QED  BY <1>1, Invariance, PTL

\* One step of the system is a step of the abstract event log or leaves it.
LEMMA StepOfLog ==
  ASSUME IInv, [Next]_vars
  PROVE  [Log!Next]_<<events, seen>>
<1>1. ASSUME NEW e \in Event, e.sequence = Len(events) + 1,
             events' = Append(events, e), UNCHANGED seen
      PROVE  Log!Next
  <2>1. /\ Len(events) \in Nat /\ Len(events') = Len(events) + 1
        /\ events'[Len(events')] = e
    BY <1>1 DEF IInv, TypeOK
  <2>. QED  BY <1>1, <2>1 DEF Log!Next, Log!Publish
<1>2. ASSUME NEW r \in Requests, Commit(r)
      PROVE  Log!Next
  <2>1. /\ txn[r].event \in Event /\ txn[r].event.sequence = Len(events) + 1
        /\ events' = Append(events, txn[r].event) /\ UNCHANGED seen
    BY <1>2 DEF Commit, IInv, LockHeldToCommit, Txn, reader
  <2>. QED  BY <1>1, <2>1
<1>3. ASSUME NEW r \in Requests, CreateRun(r)
      PROVE  Log!Next
  <2> DEFINE e == [sequence |-> NextSequence, type |-> "run.created", node |-> "none"]
  <2>1. events' = Append(events, e) /\ UNCHANGED seen
    BY <1>3 DEF CreateRun, reader
  <2>2. NextSequence = Len(events) + 1 /\ Len(events) \in Nat
    BY NextSequenceIsNext DEF IInv, TypeOK
  <2>3. e \in Event /\ e.sequence = Len(events) + 1
    BY <2>2 DEF Event, EventTypes, Nodes
  <2>. QED  BY <1>1, <2>1, <2>3
<1>4. CASE StreamEvents
  <2>1. PICK i \in DOMAIN events :
          /\ events[i].sequence > cursor
          /\ seen' = seen \union Received(cursor, events[i].sequence)
    BY <1>4 DEF StreamEvents
  <2>2. /\ events[i].sequence = i /\ i \in 1..Len(events)
        /\ DOMAIN events = 1..Len(events) /\ Len(events) \in Nat
        /\ cursor \in Nat /\ UNCHANGED events
    BY <1>4 DEF IInv, TypeOK, SequencesDense, StreamEvents, database
  <2> DEFINE Old == {k \in DOMAIN events : events[k].sequence <= cursor}
             New == {k \in DOMAIN events : cursor < events[k].sequence
                                            /\ events[k].sequence <= i}
  <2>3. \A k \in DOMAIN events : events[k].sequence = k
    BY DEF IInv, SequencesDense
  <2>4. Old \union New = 1..i /\ Old \subseteq 1..i
    BY <2>1, <2>2, <2>3
  <2>5. /\ seen = {events[k] : k \in Old}
        /\ Received(cursor, i) = {events[k] : k \in New}
    BY DEF IInv, NoMissedEvent, Received
  <2> HIDE DEF Old, New
  <2>6. seen' = seen \union Log!Prefix(i)
    BY <2>1, <2>2, <2>4, <2>5 DEF Log!Prefix
  <2>. QED  BY <2>2, <2>6 DEF Log!Next, Log!Follow
<1>5. ASSUME NEW r \in Requests, \/ ProviderUnavailable(r) \/ Invoke(r)
                                \/ LoadForDecision(r) \/ Crash(r)
      PROVE  UNCHANGED <<events, seen>>
  BY <1>5, HandlerStepFrame
<1>6. ASSUME NEW r \in Requests,
             \/ BeginExecution(r) \/ Checkpoint(r) \/ OpenGate(r)
             \/ FailRun(r) \/ DecideRun(r) \/ FinalizeApprovedRun(r)
      PROVE  UNCHANGED <<events, seen>>
  BY <1>6, Zenon DEF BeginExecution, Checkpoint, OpenGate, FailRun, DecideRun,
     FinalizeApprovedRun, Flush, database, reader
<1>7. CASE UNCHANGED vars
  BY <1>7 DEF vars, database, reader
<1>. QED
  BY <1>2, <1>3, <1>4, <1>5, <1>6, <1>7 DEF Next, Arrive, Step

\* The event table and its reader implement the abstract log: whatever the
\* requests do, events are only appended, and a reader sees a prefix of them.
THEOREM EventLogImplemented == Spec => ImplementsEventLog
<1>1. Init => Log!Init
  BY DEF Init, Log!Init
<1>2. IInv /\ [Next]_vars => [Log!Next]_<<events, seen>>
  BY StepOfLog
<1>. QED  BY <1>1, <1>2, Invariance, PTL DEF Spec, ImplementsEventLog, Log!Spec

-----------------------------------------------------------------------------
(***************************************************************************)
(* Counting in the log.  The approval gate and the audit trail are claims  *)
(* about how often events occur, so the invariant counts: a handler that   *)
(* has committed a checkpoint stands for one completion of that node which *)
(* no gate has used up, until it commits its gate or is lost.              *)
(***************************************************************************)

\* What an open transaction will publish: a checkpoint is of the node just
\* staged, and an approval row goes with its decision event and no other.
TxnEvents ==
  \A r \in Requests : pc[r] = "commit" =>
    LET t == txn[r] IN
    /\ t.next = "checkpoint" <=> t.event.type = "node.completed"
    /\ t.next = "checkpoint" => /\ stage[r] \in 1..Stages
                                /\ t.event.node = AgentNames[stage[r]]
    /\ t.approval = NoApproval => t.event.type \notin DOMAIN DecisionOf
    /\ t.approval # NoApproval =>
         /\ t.event.type \in DOMAIN DecisionOf
         /\ DecisionOf[t.event.type] = t.approval.decision

\* Handler r has committed checkpoint n of its execution, and not yet its gate.
HasCheckpoint(r, n) ==
  \/ pc[r] = "checkpoint" /\ stage[r] >= n
  \/ /\ pc[r] = "commit"
     /\ \/ txn[r].event.type = "node.completed" /\ stage[r] > n
        \/ txn[r].event.type = "approval.required"
Checkpointed(n) == {r \in Requests : HasCheckpoint(r, n)}

\* Each of them accounts for one completion that no gate has used up.
GateCounted ==
  \A n \in 1..Stages :
    Count("approval.required", "none") + Cardinality(Checkpointed(n))
      <= Count("node.completed", AgentNames[n])

LogInv == IInv /\ TxnEvents /\ GateCounted /\ DecisionsLogged

\* The agents have different names (AGENT_NAMES).
LEMMA NamesDiffer ==
  /\ Stages = 4
  /\ \A i, j \in 1..Stages : AgentNames[i] = AgentNames[j] => i = j
BY DEF Stages, AgentNames

\* The log is finite, so occurrences in it can be counted.
LEMMA CountFinite ==
  ASSUME events \in Seq(Event), NEW type, NEW node
  PROVE  /\ IsFiniteSet({i \in DOMAIN events :
                          events[i].type = type /\ events[i].node = node})
         /\ Count(type, node) \in Nat
<1> DEFINE Found == {i \in DOMAIN events :
                       events[i].type = type /\ events[i].node = node}
<1>1. Len(events) \in Nat /\ DOMAIN events = 1..Len(events)
  OBVIOUS
<1>2. IsFiniteSet(1..Len(events))
  BY <1>1, FS_Interval
<1>3. Found \in SUBSET (1..Len(events))
  BY <1>1
<1>4. IsFiniteSet(Found)
  BY <1>2, <1>3, FS_Subset
<1>5. Cardinality(Found) \in Nat
  BY <1>4, FS_CardinalityType
<1>. QED  BY <1>4, <1>5 DEF Count

\* Publishing an event raises the count of its own type and node by one.
LEMMA CountAppended ==
  ASSUME events \in Seq(Event), NEW e \in Event, events' = Append(events, e),
         NEW type, NEW node
  PROVE  /\ Count(type, node) \in Nat
         /\ Count(type, node)' = Count(type, node)
              + (IF e.type = type /\ e.node = node THEN 1 ELSE 0)
<1> DEFINE last == Len(events) + 1
           Old == {i \in DOMAIN events : events[i].type = type /\ events[i].node = node}
           New == {i \in DOMAIN events' : events'[i].type = type /\ events'[i].node = node}
<1>1. /\ Len(events) \in Nat /\ DOMAIN events = 1..Len(events)
      /\ DOMAIN events' = 1..last /\ events'[last] = e
      /\ \A i \in 1..Len(events) : events'[i] = events[i]
  OBVIOUS
<1>2. /\ IsFiniteSet(Old) /\ Cardinality(Old) \in Nat
      /\ Count(type, node) = Cardinality(Old)
      /\ Count(type, node)' = Cardinality(New)
  <2>1. IsFiniteSet(Old) /\ Count(type, node) \in Nat
    BY CountFinite, Zenon
  <2>2. Count(type, node) = Cardinality(Old)
    BY Zenon DEF Count
  <2>3. Count(type, node)' = Cardinality(New)
    BY Zenon DEF Count
  <2>. QED  BY <2>1, <2>2, <2>3, Zenon
<1>3. last \notin Old
  BY <1>1
<1>4. CASE e.type = type /\ e.node = node
  <2>1. New = Old \union {last}
    BY <1>1, <1>4
  <2> HIDE DEF Old, New, last
  <2>2. Cardinality(New) = Cardinality(Old) + 1
    BY <1>2, <1>3, <2>1, FS_AddElement
  <2>. QED  BY <1>2, <1>4, <2>2
<1>5. CASE ~(e.type = type /\ e.node = node)
  <2>1. New = Old
    BY <1>1, <1>5
  <2> HIDE DEF Old, New
  <2>. QED  BY <1>2, <1>5, <2>1
<1>. QED  BY <1>4, <1>5

\* The audit trail and the log, one commit later: a decision event comes with
\* its approval, and any other event with none.
LEMMA DecisionAppended ==
  ASSUME events \in Seq(Event), approvals \in Seq(Approval), DecisionsLogged,
         NEW e \in Event, events' = Append(events, e),
         NEW a \in Approval \union {NoApproval},
         approvals' = IF a = NoApproval THEN approvals ELSE Append(approvals, a),
         a = NoApproval => e.type \notin DOMAIN DecisionOf,
         a # NoApproval => e.type \in DOMAIN DecisionOf /\ DecisionOf[e.type] = a.decision
  PROVE  DecisionsLogged'
<1>0. PICK last \in Nat : last = Len(events) + 1
  OBVIOUS
<1>1. /\ Len(events) \in Nat /\ DOMAIN events = 1..Len(events)
      /\ DOMAIN events' = 1..last /\ events'[last] = e
      /\ \A i \in 1..Len(events) : events'[i] = events[i]
  BY <1>0
<1>2. /\ DecisionEvents \subseteq 1..Len(events) /\ IsFiniteSet(DecisionEvents)
      /\ last \notin DecisionEvents
  <2>1. DecisionEvents \subseteq 1..Len(events) /\ IsFiniteSet(1..Len(events))
    BY <1>1, FS_Interval DEF DecisionEvents
  <2>2. IsFiniteSet(DecisionEvents)
    BY <2>1, FS_Subset
  <2>. QED  BY <1>0, <1>1, <2>1, <2>2
<1>3. DecisionEvents' = IF a = NoApproval THEN DecisionEvents
                        ELSE DecisionEvents \union {last}
  BY <1>1 DEF DecisionEvents
<1>4. ASSUME NEW i \in DecisionEvents
      PROVE  /\ DecisionsUpTo(i)' = DecisionsUpTo(i)
             /\ Cardinality(DecisionsUpTo(i)) \in 1..Len(approvals)
             /\ approvals[Cardinality(DecisionsUpTo(i))].decision = DecisionOf[events'[i].type]
  <2>1. DecisionsUpTo(i)' = DecisionsUpTo(i)
    BY <1>0, <1>1, <1>2, <1>3 DEF DecisionsUpTo
  <2>2. DecisionsUpTo(i) \subseteq DecisionEvents /\ DecisionsUpTo(i) # {}
    BY <1>1, <1>2 DEF DecisionsUpTo
  <2>3. /\ IsFiniteSet(DecisionsUpTo(i)) /\ Cardinality(DecisionsUpTo(i)) \in Nat
        /\ Cardinality(DecisionsUpTo(i)) <= Cardinality(DecisionEvents)
    BY <1>2, <2>2, FS_Subset, FS_CardinalityType
  <2>4. Cardinality(DecisionsUpTo(i)) # 0
    BY <2>2, <2>3, FS_EmptySet
  <2>5. Cardinality(DecisionEvents) = Len(approvals)
    BY DEF DecisionsLogged
  <2>6. events'[i] = events[i]
    BY <1>1, <1>2
  <2>. QED  BY <2>1, <2>3, <2>4, <2>5, <2>6 DEF DecisionsLogged
<1>5. CASE a = NoApproval
  <2>1. approvals' = approvals /\ DecisionEvents' = DecisionEvents
    BY <1>3, <1>5
  <2>. QED  BY <1>4, <2>1 DEF DecisionsLogged
<1>6. CASE a # NoApproval
  <2>1. /\ DecisionEvents' = DecisionEvents \union {last}
        /\ Cardinality(DecisionEvents)' = Len(approvals) + 1
    BY <1>2, <1>3, <1>6, FS_AddElement DEF DecisionsLogged
  <2>2. /\ Len(approvals) \in Nat /\ Len(approvals') = Len(approvals) + 1
        /\ approvals'[Len(approvals) + 1] = a
        /\ \A k \in 1..Len(approvals) : approvals'[k] = approvals[k]
    <3>1. a \in Approval /\ approvals' = Append(approvals, a)
      BY <1>6
    <3>. QED  BY <3>1
  <2>3. DecisionsUpTo(last)' = DecisionEvents'
    <3>1. \A j \in DecisionEvents' : j <= last
      BY <1>0, <1>1, <1>2, <2>1
    <3>2. DecisionsUpTo(last)' = {j \in DecisionEvents' : j <= last}
      BY Zenon DEF DecisionsUpTo
    <3>. QED  BY <3>1, <3>2
  <2>4. approvals'[Cardinality(DecisionsUpTo(last)')].decision = DecisionOf[events'[last].type]
    BY <1>1, <1>6, <2>1, <2>2, <2>3
  <2>5. ASSUME NEW i \in DecisionEvents
        PROVE  approvals'[Cardinality(DecisionsUpTo(i)')].decision = DecisionOf[events'[i].type]
    BY <1>4, <2>2
  <2>. QED  BY <2>1, <2>2, <2>4, <2>5 DEF DecisionsLogged
<1>. QED  BY <1>5, <1>6

\* There are finitely many handlers.
LEMMA CheckpointedFinite ==
  ASSUME NEW n
  PROVE  /\ IsFiniteSet(Checkpointed(n)) /\ IsFiniteSet(Checkpointed(n)')
         /\ Cardinality(Checkpointed(n)) \in Nat
         /\ Cardinality(Checkpointed(n)') \in Nat
<1>1. IsFiniteSet(Requests)
  BY BoundsAssumption, FS_Interval DEF Requests
<1>2. Checkpointed(n) \subseteq Requests /\ Checkpointed(n)' \subseteq Requests
  BY DEF Checkpointed
<1>3. IsFiniteSet(Checkpointed(n)) /\ IsFiniteSet(Checkpointed(n)')
  BY <1>1, <1>2, FS_Subset
<1>. QED  BY <1>3, FS_CardinalityType

\* The invariant holds before the run exists.
THEOREM InitLogInv == Init => LogInv
<1> SUFFICES ASSUME Init PROVE LogInv
  OBVIOUS
<1>1. TxnEvents
  BY DEF Init, TxnEvents
<1>2. events = <<>> /\ DOMAIN events = {}
  BY DEF Init
<1>3. \A type, node : Count(type, node) = 0
  <2> SUFFICES ASSUME NEW type, NEW node PROVE Count(type, node) = 0
    OBVIOUS
  <2>1. {i \in DOMAIN events : events[i].type = type /\ events[i].node = node} = {}
    BY <1>2
  <2>. QED  BY <2>1, FS_EmptySet DEF Count
<1>4. GateCounted
  <2>1. \A n \in 1..Stages : Checkpointed(n) = {}
    BY DEF Init, Checkpointed, HasCheckpoint
  <2>. QED  BY <1>3, <2>1, FS_EmptySet DEF GateCounted
<1>5. DecisionsLogged
  <2>1. DecisionEvents = {}
    BY <1>2 DEF DecisionEvents
  <2>2. Len(approvals) = 0
    BY DEF Init
  <2>. QED  BY <2>1, <2>2, FS_EmptySet DEF DecisionsLogged
<1>. QED  BY <1>1, <1>4, <1>5, InitIInv DEF LogInv

\* A step of handler r that publishes nothing and adds no checkpoint of r.
LEMMA QuietStepKeepsLogInv ==
  ASSUME LogInv, IInv', NEW r \in Requests,
         UNCHANGED <<events, approvals>>,
         \A q \in Requests \ {r} :
           pc'[q] = pc[q] /\ txn'[q] = txn[q] /\ stage'[q] = stage[q],
         \A n \in 1..Stages : HasCheckpoint(r, n)' => HasCheckpoint(r, n),
         pc'[r] = "commit" =>
           LET t == txn'[r] IN
           /\ t.next = "checkpoint" <=> t.event.type = "node.completed"
           /\ t.next = "checkpoint" => /\ stage'[r] \in 1..Stages
                                       /\ t.event.node = AgentNames[stage'[r]]
           /\ t.approval = NoApproval => t.event.type \notin DOMAIN DecisionOf
           /\ t.approval # NoApproval =>
                /\ t.event.type \in DOMAIN DecisionOf
                /\ DecisionOf[t.event.type] = t.approval.decision
  PROVE  LogInv'
<1>1. TxnEvents'
  BY DEF LogInv, TxnEvents
<1>2. \A type, node : Count(type, node)' = Count(type, node)
  BY DEF Count
<1>3. \A n \in 1..Stages : Checkpointed(n)' \subseteq Checkpointed(n)
  <2> SUFFICES ASSUME NEW n \in 1..Stages, NEW q \in Requests, HasCheckpoint(q, n)'
               PROVE  HasCheckpoint(q, n)
    BY DEF Checkpointed
  <2>1. CASE q = r
    BY <2>1
  <2>2. CASE q # r
    BY <2>2 DEF HasCheckpoint
  <2>. QED  BY <2>1, <2>2
<1>4. GateCounted'
  <2> SUFFICES ASSUME NEW n \in 1..Stages
               PROVE  Count("approval.required", "none")' + Cardinality(Checkpointed(n))'
                        <= Count("node.completed", AgentNames[n])'
    BY DEF GateCounted
  <2>1. /\ Count("approval.required", "none") \in Nat
        /\ Count("node.completed", AgentNames[n]) \in Nat
    BY CountFinite DEF LogInv, IInv, TypeOK
  <2>2. Count("approval.required", "none") + Cardinality(Checkpointed(n))
          <= Count("node.completed", AgentNames[n])
    BY DEF LogInv, GateCounted
  <2>3. /\ Cardinality(Checkpointed(n)) \in Nat
        /\ Cardinality(Checkpointed(n)') \in Nat
        /\ Cardinality(Checkpointed(n)') <= Cardinality(Checkpointed(n))
    BY <1>3, CheckpointedFinite, FS_Subset
  <2>. QED  BY <1>2, <2>1, <2>2, <2>3
<1>5. DecisionsLogged'
  BY DEF LogInv, DecisionsLogged, DecisionEvents, DecisionsUpTo
<1>. QED  BY <1>1, <1>4, <1>5 DEF LogInv

\* What each transaction publishes, from the point of its handler.
LEMMA FlushKeepsLogInv ==
  ASSUME LogInv, IInv', NEW r \in Requests, NEW new, NEW type, NEW node,
         NEW approval, NEW next, Flush(r, new, type, node, approval, next),
         \A q \in Requests \ {r} : stage'[q] = stage[q],
         next = "checkpoint" <=> type = "node.completed",
         next = "checkpoint" => /\ pc[r] = "checkpoint"
                                /\ stage'[r] = stage[r] + 1
                                /\ stage'[r] \in 1..Stages
                                /\ node = AgentNames[stage'[r]],
         type = "approval.required" => pc[r] = "checkpoint" /\ stage[r] = Stages,
         approval = NoApproval => type \notin DOMAIN DecisionOf,
         approval # NoApproval => /\ type \in DOMAIN DecisionOf
                                  /\ DecisionOf[type] = approval.decision
  PROVE  LogInv'
<1>1. /\ pc' = [pc EXCEPT ![r] = "commit"]
      /\ UNCHANGED <<events, approvals>>
      /\ txn'[r].event.type = type /\ txn'[r].event.node = node
      /\ txn'[r].approval = approval /\ txn'[r].next = next
      /\ \A q \in Requests \ {r} : txn'[q] = txn[q]
  BY DEF Flush, database, LogInv, IInv, TypeOK
<1>2. pc'[r] = "commit" /\ \A q \in Requests \ {r} : pc'[q] = pc[q]
  BY <1>1 DEF LogInv, IInv, TypeOK
<1>3. ASSUME NEW n \in 1..Stages, HasCheckpoint(r, n)'
      PROVE  HasCheckpoint(r, n)
  <2>1. stage[r] \in Nat /\ n \in Nat /\ n <= Stages /\ Stages = 4
    BY NamesDiffer DEF LogInv, IInv, TypeOK
  <2>2. CASE type = "node.completed"
    BY <1>1, <1>2, <1>3, <2>1, <2>2 DEF HasCheckpoint
  <2>3. CASE type = "approval.required"
    BY <2>1, <2>3 DEF HasCheckpoint
  <2>4. CASE type \notin {"node.completed", "approval.required"}
    BY <1>1, <1>2, <1>3, <2>4 DEF HasCheckpoint
  <2>. QED  BY <2>2, <2>3, <2>4
<1>. QED  BY <1>1, <1>2, <1>3, QuietStepKeepsLogInv

\* The transactions of execute_run, decide_run and finalize_approved_run.
LEMMA TransactionKeepsLogInv ==
  ASSUME LogInv, IInv', NEW r \in Requests,
         \/ BeginExecution(r) \/ Checkpoint(r) \/ OpenGate(r)
         \/ FailRun(r) \/ DecideRun(r) \/ FinalizeApprovedRun(r)
  PROVE  LogInv'
<1> USE DEF DecisionOf
<1>1. /\ stage \in [Requests -> 0..Stages] /\ Stages = 4
      /\ stage[r] \in 0..4
  BY NamesDiffer DEF LogInv, IInv, TypeOK
<1>2. \A q \in Requests \ {r} : stage'[q] = stage[q]
  BY <1>1 DEF BeginExecution, Checkpoint, OpenGate, FailRun, DecideRun, FinalizeApprovedRun
<1>3. CASE BeginExecution(r)
  <2> DEFINE new == [mem[r] EXCEPT !.status = "running"]
  <2>1. Flush(r, new, "run.started", "none", NoApproval, "invoke")
    BY <1>3 DEF BeginExecution
  <2> HIDE DEF new
  <2>. QED  BY <1>2, <2>1, FlushKeepsLogInv
<1>4. CASE Checkpoint(r)
  <2> DEFINE name == AgentNames[stage[r] + 1]
             new == [mem[r] EXCEPT !.node = name, !.revision = @ + 1]
  <2>1. /\ pc[r] = "checkpoint" /\ stage[r] < Stages
        /\ stage' = [stage EXCEPT ![r] = @ + 1]
        /\ Flush(r, new, "node.completed", name, NoApproval, "checkpoint")
    BY <1>4 DEF Checkpoint, NodeLeft
  <2>2. stage'[r] = stage[r] + 1 /\ stage'[r] \in 1..Stages
    BY <1>1, <2>1
  <2> HIDE DEF new
  <2>. QED  BY <1>2, <2>1, <2>2, FlushKeepsLogInv
<1>5. CASE OpenGate(r)
  <2> DEFINE new == [mem[r] EXCEPT !.status = "waiting_approval"]
  <2>1. /\ pc[r] = "checkpoint" /\ ~(stage[r] < Stages)
        /\ Flush(r, new, "approval.required", "none", NoApproval, "done")
    BY <1>5 DEF OpenGate, NodeLeft
  <2> HIDE DEF new
  <2>2. stage[r] = Stages
    BY <1>1, <2>1
  <2>. QED  BY <1>2, <2>1, <2>2, FlushKeepsLogInv
<1>6. CASE FailRun(r)
  <2> DEFINE new == [mem[r] EXCEPT !.status = "failed", !.error = TRUE]
             node == mem[r].node
  <2>1. Flush(r, new, "run.failed", node, NoApproval, "done")
    BY <1>6 DEF FailRun
  <2> HIDE DEF new, node
  <2>. QED  BY <1>2, <2>1, FlushKeepsLogInv
<1>7. CASE DecideRun(r)
  <2> DEFINE d == decision[r]
             new == [mem[r] EXCEPT !.status = DecidedStatus[d]]
             approval == [decision |-> d, revision |-> mem[r].revision]
  <2>1. /\ d \in Decisions
        /\ Flush(r, new, DecisionEvent[d], "none", approval, AfterDecision(d))
    BY <1>7 DEF DecideRun, LogInv, IInv, StatusBelieved, Believes
  <2>2. /\ approval # NoApproval /\ approval.decision = d
        /\ DecisionEvent[d] \in DOMAIN DecisionOf
        /\ DecisionOf[DecisionEvent[d]] = d
        /\ DecisionEvent[d] \notin {"node.completed", "approval.required"}
        /\ AfterDecision(d) # "checkpoint"
    BY <2>1 DEF Decisions, DecisionEvent, NoApproval, AfterDecision
  <2> HIDE DEF d, new, approval, DecisionOf
  <2>. QED  BY <1>2, <2>1, <2>2, FlushKeepsLogInv
<1>8. CASE FinalizeApprovedRun(r)
  <2> DEFINE new == [mem[r] EXCEPT !.status = "completed", !.node = "verification"]
  <2>1. Flush(r, new, "run.completed", "verification", NoApproval, "done")
    BY <1>8 DEF FinalizeApprovedRun
  <2> HIDE DEF new
  <2>. QED  BY <1>2, <2>1, FlushKeepsLogInv
<1>. QED  BY <1>3, <1>4, <1>5, <1>6, <1>7, <1>8

\* The steps that only move a handler: a lost or finished one has no checkpoint
\* to its name, and a new execution starts from none.
LEMMA HandlerStepKeepsLogInv ==
  ASSUME LogInv, IInv', NEW r \in Requests,
         ProviderUnavailable(r) \/ Invoke(r) \/ LoadForDecision(r) \/ Crash(r)
  PROVE  LogInv'
<1>1. UNCHANGED <<events, approvals>>
  BY HandlerStepFrame
<1>2. /\ \E at \in {"done", "checkpoint", "fail", "decide"} :
            /\ pc' = [pc EXCEPT ![r] = at]
            /\ at = "checkpoint" => stage' = [stage EXCEPT ![r] = 0]
      /\ \A q \in Requests \ {r} : txn'[q] = txn[q] /\ stage'[q] = stage[q]
  <2>1. CASE ProviderUnavailable(r)
    BY <2>1 DEF ProviderUnavailable, Finish
  <2>2. CASE Invoke(r)
    BY <2>2 DEF Invoke, LogInv, IInv, TypeOK
  <2>3. CASE LoadForDecision(r)
    BY <2>3 DEF LoadForDecision
  <2>4. CASE Crash(r)
    BY <2>4 DEF Crash, LogInv, IInv, TypeOK
  <2>. QED  BY <2>1, <2>2, <2>3, <2>4
<1>3. /\ pc'[r] # "commit"
      /\ \A q \in Requests \ {r} : pc'[q] = pc[q]
      /\ pc'[r] = "checkpoint" => stage'[r] = 0
  BY <1>2 DEF LogInv, IInv, TypeOK
<1>4. ASSUME NEW n \in 1..Stages PROVE ~HasCheckpoint(r, n)'
  BY <1>3, NamesDiffer DEF HasCheckpoint
<1>. QED  BY <1>1, <1>2, <1>3, <1>4, QuietStepKeepsLogInv

\* COMMIT publishes one event: if it is a checkpoint its handler counts from now
\* on, if it opens the gate its handler no longer does; and a decision event is
\* published together with its approval.
LEMMA CommitKeepsLogInv ==
  ASSUME LogInv, IInv', NEW r \in Requests, Commit(r)
  PROVE  LogInv'
<1> DEFINE t == txn[r]
           last == Len(events) + 1
<1>1. /\ pc[r] = "commit" /\ t.event \in Event /\ t.next \in Continuations
      /\ t.approval \in Approval \union {NoApproval}
      /\ events' = Append(events, t.event)
      /\ approvals' = IF t.approval = NoApproval THEN approvals
                      ELSE Append(approvals, t.approval)
      /\ pc' = [pc EXCEPT ![r] = t.next]
      /\ txn' = [txn EXCEPT ![r] = NoTxn] /\ stage' = stage
      /\ events \in Seq(Event) /\ approvals \in Seq(Approval)
      /\ stage \in [Requests -> 0..Stages] /\ Stages = 4
  BY NamesDiffer DEF Commit, LogInv, IInv, TypeOK, LockHeldToCommit, Txn
<1>2. /\ pc'[r] = t.next /\ pc'[r] # "commit"
      /\ \A q \in Requests \ {r} : pc'[q] = pc[q] /\ txn'[q] = txn[q]
  BY <1>1 DEF Continuations, LogInv, IInv, TypeOK
<1>3. TxnEvents'
  BY <1>1, <1>2 DEF LogInv, TxnEvents
<1>4. /\ t.next = "checkpoint" <=> t.event.type = "node.completed"
      /\ t.next = "checkpoint" => /\ stage[r] \in 1..Stages
                                  /\ t.event.node = AgentNames[stage[r]]
      /\ t.approval = NoApproval => t.event.type \notin DOMAIN DecisionOf
      /\ t.approval # NoApproval =>
           /\ t.event.type \in DOMAIN DecisionOf
           /\ DecisionOf[t.event.type] = t.approval.decision
  BY <1>1 DEF LogInv, TxnEvents
<1>5. ASSUME NEW n \in 1..Stages, NEW q \in Requests \ {r}
      PROVE  HasCheckpoint(q, n)' <=> HasCheckpoint(q, n)
  BY <1>1, <1>2 DEF HasCheckpoint
<1>6. ASSUME NEW n \in 1..Stages
      PROVE  Count("approval.required", "none")' + Cardinality(Checkpointed(n))'
               <= Count("node.completed", AgentNames[n])'
  <2> DEFINE gates == Count("approval.required", "none")
             nodes == Count("node.completed", AgentNames[n])
  <2>1. /\ gates \in Nat /\ nodes \in Nat
        /\ gates' = gates + (IF /\ t.event.type = "approval.required"
                                /\ t.event.node = "none" THEN 1 ELSE 0)
        /\ nodes' = nodes + (IF /\ t.event.type = "node.completed"
                                /\ t.event.node = AgentNames[n] THEN 1 ELSE 0)
    <3>1. Count("approval.required", "none")' = Count("approval.required", "none")
            + (IF t.event.type = "approval.required" /\ t.event.node = "none" THEN 1 ELSE 0)
      BY <1>1, CountAppended
    <3>2. Count("node.completed", AgentNames[n])' = Count("node.completed", AgentNames[n])
            + (IF t.event.type = "node.completed" /\ t.event.node = AgentNames[n] THEN 1 ELSE 0)
      BY <1>1, CountAppended
    <3>. QED  BY <1>1, <3>1, <3>2, CountFinite
  <2>2. gates + Cardinality(Checkpointed(n)) <= nodes
    BY DEF LogInv, GateCounted
  <2>3. /\ IsFiniteSet(Checkpointed(n)) /\ Cardinality(Checkpointed(n)) \in Nat
    BY CheckpointedFinite
  <2> HIDE DEF gates, nodes, t
  <2>4. CASE t.event.type = "node.completed"
    <3>1. /\ pc'[r] = "checkpoint" /\ stage[r] \in 1..Stages
          /\ t.event.node = AgentNames[stage[r]] /\ stage'[r] = stage[r]
      BY <1>1, <1>2, <1>4, <2>4
    <3>2. CASE n = stage[r]
      <4>1. Checkpointed(n)' = Checkpointed(n) \union {r}
        <5>1. HasCheckpoint(r, n)'
          BY <3>1, <3>2 DEF HasCheckpoint
        <5>. QED  BY <1>5, <5>1 DEF Checkpointed
      <4>2. r \notin Checkpointed(n)
        BY <1>1, <2>4, <3>2 DEF Checkpointed, HasCheckpoint, t
      <4>3. Cardinality(Checkpointed(n))' = Cardinality(Checkpointed(n)) + 1
        BY <2>3, <4>1, <4>2, FS_AddElement
      <4>4. gates' = gates /\ nodes' = nodes + 1
        BY <2>1, <2>4, <3>1, <3>2
      <4>. QED  BY <2>1, <2>2, <2>3, <4>3, <4>4 DEF gates, nodes
    <3>3. CASE n # stage[r]
      <4>1. HasCheckpoint(r, n)' <=> HasCheckpoint(r, n)
        BY <1>1, <2>4, <3>1, <3>3 DEF HasCheckpoint, t
      <4>2. Checkpointed(n)' = Checkpointed(n)
        BY <1>5, <4>1 DEF Checkpointed
      <4>3. gates' = gates /\ nodes' = nodes
        BY <2>1, <2>4, <3>1, <3>3, NamesDiffer
      <4>. QED  BY <2>2, <4>2, <4>3 DEF gates, nodes
    <3>. QED  BY <3>2, <3>3
  <2>5. CASE t.event.type = "approval.required"
    <3>1. pc'[r] # "checkpoint"
      BY <1>2, <1>4, <2>5
    <3>2. Checkpointed(n)' = Checkpointed(n) \ {r}
      <4>1. ~HasCheckpoint(r, n)'
        BY <1>2, <3>1 DEF HasCheckpoint
      <4>. QED  BY <1>5, <4>1 DEF Checkpointed
    <3>3. r \in Checkpointed(n)
      BY <1>1, <2>5 DEF Checkpointed, HasCheckpoint, t
    <3>4. Cardinality(Checkpointed(n))' = Cardinality(Checkpointed(n)) - 1
      BY <2>3, <3>2, <3>3, FS_RemoveElement
    <3>5. gates' <= gates + 1 /\ gates' \in Nat /\ nodes' = nodes
      BY <2>1, <2>5
    <3>. QED  BY <2>1, <2>2, <2>3, <3>4, <3>5 DEF gates, nodes
  <2>6. CASE t.event.type \notin {"node.completed", "approval.required"}
    <3>1. pc'[r] # "checkpoint"
      BY <1>2, <1>4, <2>6
    <3>2. ~HasCheckpoint(r, n)' /\ ~HasCheckpoint(r, n)
      BY <1>1, <1>2, <2>6, <3>1 DEF HasCheckpoint, t
    <3>3. Checkpointed(n)' = Checkpointed(n)
      BY <1>5, <3>2 DEF Checkpointed
    <3>4. gates' = gates /\ nodes' = nodes
      BY <2>1, <2>6
    <3>. QED  BY <2>2, <3>3, <3>4 DEF gates, nodes
  <2>. QED  BY <2>4, <2>5, <2>6
<1>7. GateCounted'
  BY <1>6 DEF GateCounted
<1>8. DecisionsLogged'
  BY <1>1, <1>4, DecisionAppended DEF LogInv
<1>. QED  BY <1>3, <1>7, <1>8 DEF LogInv

\* create_run's event is neither a checkpoint, a gate nor a decision.
LEMMA CreateRunKeepsLogInv ==
  ASSUME LogInv, IInv', NEW r \in Requests, CreateRun(r)
  PROVE  LogInv'
<1> DEFINE event == [sequence |-> NextSequence, type |-> "run.created", node |-> "none"]
<1>1. /\ pc[r] = "idle" /\ pc' = [pc EXCEPT ![r] = "begin"]
      /\ events' = Append(events, event) /\ approvals' = approvals
      /\ stage' = stage /\ txn' = txn
      /\ events \in Seq(Event) /\ approvals \in Seq(Approval)
  BY DEF CreateRun, NextArrival, LogInv, IInv, TypeOK
<1>2. event \in Event /\ event.type = "run.created"
  <2>1. NextSequence = Len(events) + 1 /\ Len(events) \in Nat
    BY NextSequenceIsNext DEF LogInv, IInv, TypeOK
  <2>. QED  BY <2>1 DEF Event, EventTypes, Nodes
<1> HIDE DEF event
<1>3. /\ pc'[r] = "begin"
      /\ \A q \in Requests \ {r} : pc'[q] = pc[q]
  BY <1>1 DEF LogInv, IInv, TypeOK
<1>4. TxnEvents'
  BY <1>1, <1>3 DEF LogInv, TxnEvents
<1>5. \A n \in 1..Stages : Checkpointed(n)' = Checkpointed(n)
  <2>1. \A n \in 1..Stages, q \in Requests : HasCheckpoint(q, n)' <=> HasCheckpoint(q, n)
    BY <1>1, <1>3 DEF HasCheckpoint
  <2>. QED  BY <2>1 DEF Checkpointed
<1>6. GateCounted'
  <2> SUFFICES ASSUME NEW n \in 1..Stages
               PROVE  Count("approval.required", "none")' + Cardinality(Checkpointed(n))'
                        <= Count("node.completed", AgentNames[n])'
    BY DEF GateCounted
  <2>1. /\ Count("approval.required", "none")' = Count("approval.required", "none")
        /\ Count("node.completed", AgentNames[n])' = Count("node.completed", AgentNames[n])
    <3>1. ASSUME NEW type, NEW node, type # "run.created"
          PROVE  Count(type, node)' = Count(type, node)
      BY <1>1, <1>2, <3>1, CountAppended, CountFinite
    <3>. QED  BY <3>1
  <2>. QED  BY <1>5, <2>1 DEF LogInv, GateCounted
<1>7. DecisionsLogged'
  <2>1. "run.created" \notin DOMAIN DecisionOf
    BY DEF DecisionOf
  <2>. QED  BY <1>1, <1>2, <2>1, DecisionAppended DEF LogInv
<1>. QED  BY <1>4, <1>6, <1>7 DEF LogInv

\* The counting invariant is inductive.
THEOREM NextKeepsLogInv == LogInv /\ [Next]_vars => LogInv'
<1> SUFFICES ASSUME LogInv, [Next]_vars PROVE LogInv'
  OBVIOUS
<1>0. IInv'
  BY NextKeepsIInv DEF LogInv
<1>1. CASE UNCHANGED <<events, approvals, pc, txn, stage>>
  <2>1. TxnEvents' /\ DecisionsLogged'
    BY <1>1 DEF LogInv, TxnEvents, DecisionsLogged, DecisionEvents, DecisionsUpTo
  <2>2. \A n \in 1..Stages : Checkpointed(n)' = Checkpointed(n)
    BY <1>1 DEF Checkpointed, HasCheckpoint
  <2>3. \A type, node : Count(type, node)' = Count(type, node)
    BY <1>1 DEF Count
  <2>4. GateCounted'
    BY <2>2, <2>3 DEF LogInv, GateCounted
  <2>. QED  BY <1>0, <2>1, <2>4 DEF LogInv
<1>2. ASSUME NEW r \in Requests, Arrive(r)
      PROVE  LogInv'
  BY <1>0, <1>2, CreateRunKeepsLogInv, HandlerStepKeepsLogInv DEF Arrive
<1>3. ASSUME NEW r \in Requests, Step(r)
      PROVE  LogInv'
  BY <1>0, <1>3, HandlerStepKeepsLogInv, TransactionKeepsLogInv, CommitKeepsLogInv DEF Step
<1>4. ASSUME NEW r \in Requests, Crash(r)
      PROVE  LogInv'
  BY <1>0, <1>4, HandlerStepKeepsLogInv
<1>5. CASE UNCHANGED vars
  BY <1>1, <1>5 DEF vars, database, handlers
<1>6. CASE StreamEvents
  BY <1>1, <1>6 DEF StreamEvents, database, handlers
<1>. QED  BY <1>2, <1>3, <1>4, <1>5, <1>6 DEF Next

\* LogInv holds in every state of every execution.
THEOREM LogInvariance == Spec => []LogInv
BY InitLogInv, NextKeepsLogInv, PTL DEF Spec

\* Whatever interleaves or is lost, every one of the four agents has completed
\* at least as often as approval was asked for (execute_run's loop and gate).
THEOREM GateFollowsEveryNode == Spec => []GateAfterEveryNode
<1>1. LogInv => GateAfterEveryNode
  <2> SUFFICES ASSUME LogInv, NEW n \in 1..Stages
               PROVE  Count("approval.required", "none") <= Count("node.completed", AgentNames[n])
    BY DEF GateAfterEveryNode
  <2>1. /\ Count("approval.required", "none") \in Nat
        /\ Count("node.completed", AgentNames[n]) \in Nat
    BY CountFinite DEF LogInv, IInv, TypeOK
  <2>2. Cardinality(Checkpointed(n)) \in Nat
    BY CheckpointedFinite
  <2>. QED  BY <2>1, <2>2 DEF LogInv, GateCounted
<1>. QED  BY <1>1, LogInvariance, PTL

\* The event log and the append-only approvals record the same decisions in the
\* same order, for any overlap of requests and any crash (decide_run's single
\* transaction, under the row lock).
THEOREM DecisionsInBothOrNeither == Spec => []DecisionsLogged
<1>1. LogInv => DecisionsLogged
  BY DEF LogInv
<1>. QED  BY <1>1, LogInvariance, PTL

-----------------------------------------------------------------------------
(***************************************************************************)
(* The audit trail.  Every event of a transaction says what the UPDATE     *)
(* beside it did to the status and where its handler goes next; and each   *)
(* handler stands for an execution, an ending or a completion that the log *)
(* has granted and that has not happened yet.                              *)
(***************************************************************************)

\* Where the commit of each event leaves its handler.
GoesOn == [t \in EventTypes |->
             CASE t \in {"run.created", "run.revision_requested"} -> "begin"
               [] t = "run.started"    -> "invoke"
               [] t = "node.completed" -> "checkpoint"
               [] t = "run.approved"   -> "finalize"
               [] OTHER                -> "done"]

TrailTold(r) ==
  LET t == txn[r] IN
  /\ t.event.type \in EventTypes
  /\ t.next = GoesOn[t.event.type]
  /\ "status" \in t.cols <=> t.event.type # "node.completed"
  /\ t.event.type # "node.completed" => mem[r].status = StatusAfter[t.event.type]
TxnTrail == \A r \in Requests : pc[r] = "commit" => TrailTold(r)

\* Where a handler may still spend what it was granted, and what it publishes
\* on the way without spending it.
Standing == [execution  |-> {"begin"},
             ending     |-> {"invoke", "checkpoint", "fail"},
             completion |-> {"finalize"}]
Keeps == [execution |-> {}, ending |-> {"node.completed"}, completion |-> {}]
Accounts == {"execution", "ending", "completion"}

Entitled(r, a) ==
  \/ pc[r] \in Standing[a]
  \/ pc[r] = "commit" /\ txn[r].event.type \in Spends[a] \union Keeps[a]
Holders(a) == {r \in Requests : Entitled(r, a)}
Balanced ==
  \A a \in Accounts :
    Occurrences(Spends[a]) + Cardinality(Holders(a)) <= Occurrences(Earns[a])

TrailInv == IInv /\ TxnTrail /\ StatusAsLogged /\ Balanced

\* An event earns, spends, keeps or does not touch an account, and leaves its
\* handler entitled just when it earns or keeps.
LEMMA AccountsApart ==
  ASSUME NEW a \in Accounts, NEW type \in EventTypes
  PROVE  /\ GoesOn[type] \in Standing[a] <=> type \in Earns[a] \union Keeps[a]
         /\ ~(type \in Earns[a] /\ type \in Spends[a])
         /\ ~(type \in Earns[a] /\ type \in Keeps[a])
         /\ ~(type \in Spends[a] /\ type \in Keeps[a])
         /\ "commit" \notin Standing[a]
BY DEF Accounts, EventTypes, GoesOn, Standing, Keeps, Earns, Spends

\* Publishing an event raises the occurrences of the sets that have its type.
LEMMA OccurrencesAppended ==
  ASSUME events \in Seq(Event), NEW e \in Event, events' = Append(events, e),
         NEW types
  PROVE  /\ Occurrences(types) \in Nat
         /\ Occurrences(types)' = Occurrences(types) + (IF e.type \in types THEN 1 ELSE 0)
<1> DEFINE last == Len(events) + 1
           Old == {i \in DOMAIN events : events[i].type \in types}
           New == {i \in DOMAIN events' : events'[i].type \in types}
<1>1. /\ Len(events) \in Nat /\ DOMAIN events = 1..Len(events)
      /\ DOMAIN events' = 1..last /\ events'[last] = e
      /\ \A i \in 1..Len(events) : events'[i] = events[i]
  OBVIOUS
<1>2. IsFiniteSet(Old) /\ Cardinality(Old) \in Nat
  <2>1. IsFiniteSet(1..Len(events)) /\ Old \subseteq 1..Len(events)
    BY <1>1, FS_Interval
  <2> HIDE DEF Old
  <2>. QED  BY <2>1, FS_Subset, FS_CardinalityType
<1>3. /\ Occurrences(types) = Cardinality(Old)
      /\ Occurrences(types)' = Cardinality(New)
  BY Zenon DEF Occurrences
<1>4. last \notin Old
  BY <1>1
<1>5. CASE e.type \in types
  <2>1. New = Old \union {last}
    BY <1>1, <1>5
  <2> HIDE DEF Old, New, last
  <2>2. Cardinality(New) = Cardinality(Old) + 1
    BY <1>2, <1>4, <2>1, FS_AddElement
  <2>. QED  BY <1>2, <1>3, <1>5, <2>2
<1>6. CASE e.type \notin types
  <2>1. New = Old
    BY <1>1, <1>6
  <2> HIDE DEF Old, New
  <2>. QED  BY <1>2, <1>3, <1>6, <2>1
<1>. QED  BY <1>5, <1>6

\* The log is finite, so what occurs in it can be counted.
LEMMA OccurrencesFinite ==
  ASSUME events \in Seq(Event), NEW types
  PROVE  Occurrences(types) \in Nat
<1> DEFINE Found == {i \in DOMAIN events : events[i].type \in types}
<1>1. Len(events) \in Nat /\ DOMAIN events = 1..Len(events)
  OBVIOUS
<1>2. IsFiniteSet(1..Len(events)) /\ Found \subseteq 1..Len(events)
  BY <1>1, FS_Interval
<1> HIDE DEF Found
<1>3. Cardinality(Found) \in Nat
  BY <1>2, FS_Subset, FS_CardinalityType
<1>. QED  BY <1>3 DEF Found, Occurrences

\* There are finitely many handlers.
LEMMA HoldersFinite ==
  ASSUME NEW a
  PROVE  /\ IsFiniteSet(Holders(a)) /\ IsFiniteSet(Holders(a)')
         /\ Cardinality(Holders(a)) \in Nat /\ Cardinality(Holders(a)') \in Nat
<1>1. IsFiniteSet(Requests)
  BY BoundsAssumption, FS_Interval DEF Requests
<1>2. Holders(a) \subseteq Requests /\ Holders(a)' \subseteq Requests
  BY DEF Holders
<1>3. IsFiniteSet(Holders(a)) /\ IsFiniteSet(Holders(a)')
  BY <1>1, <1>2, FS_Subset
<1>. QED  BY <1>3, FS_CardinalityType

\* The log goes on telling the status when an event that tells it is published
\* with that status, and a checkpoint with the status as it was.
LEMMA StatusAppended ==
  ASSUME events \in Seq(Event), StatusAsLogged,
         NEW e \in Event, events' = Append(events, e),
         e.type = "node.completed" => row'.status = row.status,
         e.type # "node.completed" => row'.status = StatusAfter[e.type]
  PROVE  StatusAsLogged'
<1>0. PICK last \in Nat : last = Len(events) + 1
  OBVIOUS
<1>1. /\ DOMAIN events = 1..Len(events) /\ Len(events) \in Nat
      /\ DOMAIN events' = 1..last /\ events'[last] = e
      /\ \A i \in 1..Len(events) : events'[i] = events[i]
  BY <1>0
<1>2. e.type \in EventTypes /\ DOMAIN StatusAfter = EventTypes \ {"node.completed"}
  BY DEF Event, StatusAfter
<1>3. StatusEvents \subseteq 1..Len(events)
  BY <1>1 DEF StatusEvents
<1>4. CASE e.type = "node.completed"
  <2>1. StatusEvents' = StatusEvents
    BY <1>0, <1>1, <1>2, <1>4 DEF StatusEvents
  <2>2. \A i \in StatusEvents : events'[i] = events[i]
    BY <1>1, <1>3
  <2>. QED  BY <1>4, <2>1, <2>2 DEF StatusAsLogged
<1>5. CASE e.type # "node.completed"
  <2>1. last \in StatusEvents'
    BY <1>1, <1>2, <1>5 DEF StatusEvents
  <2>2. \A i \in StatusEvents' : i \in 1..last
    BY <1>1 DEF StatusEvents
  <2>3. \A i \in StatusEvents' : (\A j \in StatusEvents' : j <= i) => i = last
    BY <1>0, <2>1, <2>2
  <2>. QED  BY <1>1, <1>5, <2>1, <2>3 DEF StatusAsLogged
<1>. QED  BY <1>4, <1>5

\* The invariant holds before the run exists.
THEOREM InitTrailInv == Init => TrailInv
<1> SUFFICES ASSUME Init PROVE TrailInv
  OBVIOUS
<1>1. TxnTrail
  BY DEF Init, TxnTrail
<1>2. events = <<>> /\ DOMAIN events = {}
  BY DEF Init
<1>3. StatusAsLogged
  BY <1>2 DEF Init, StatusAsLogged, StatusEvents, AbsentRow
<1>4. \A types : Occurrences(types) = 0
  <2> SUFFICES ASSUME NEW types PROVE Occurrences(types) = 0
    OBVIOUS
  <2>1. {i \in DOMAIN events : events[i].type \in types} = {}
    BY <1>2
  <2>. QED  BY <2>1, FS_EmptySet DEF Occurrences
<1>5. Balanced
  <2>1. \A a \in Accounts : Holders(a) = {}
    BY DEF Init, Holders, Entitled, Accounts, Standing
  <2>. QED  BY <1>4, <2>1, FS_EmptySet DEF Balanced
<1>. QED  BY <1>1, <1>3, <1>5, InitIInv DEF TrailInv

\* A step of handler r that publishes nothing and entitles r to nothing new.
LEMMA QuietStepKeepsTrailInv ==
  ASSUME TrailInv, IInv', NEW r \in Requests,
         UNCHANGED <<row, events>>,
         \A q \in Requests \ {r} :
           pc'[q] = pc[q] /\ txn'[q] = txn[q] /\ mem'[q] = mem[q],
         \A a \in Accounts : Entitled(r, a)' => Entitled(r, a),
         pc'[r] = "commit" => TrailTold(r)'
  PROVE  TrailInv'
<1>1. TxnTrail'
  <2> SUFFICES ASSUME NEW q \in Requests, pc'[q] = "commit"
               PROVE  TrailTold(q)'
    BY DEF TxnTrail
  <2>1. CASE q = r
    BY <2>1
  <2>2. CASE q # r
    BY <2>2 DEF TrailInv, TxnTrail, TrailTold
  <2>. QED  BY <2>1, <2>2
<1>2. StatusAsLogged'
  BY DEF TrailInv, StatusAsLogged, StatusEvents
<1>3. \A types : Occurrences(types)' = Occurrences(types)
  BY DEF Occurrences
<1>4. \A a \in Accounts : Holders(a)' \subseteq Holders(a)
  <2> SUFFICES ASSUME NEW a \in Accounts, NEW q \in Requests, Entitled(q, a)'
               PROVE  Entitled(q, a)
    BY DEF Holders
  <2>1. CASE q = r
    BY <2>1
  <2>2. CASE q # r
    BY <2>2 DEF Entitled
  <2>. QED  BY <2>1, <2>2
<1>5. Balanced'
  <2> SUFFICES ASSUME NEW a \in Accounts
               PROVE  Occurrences(Spends[a])' + Cardinality(Holders(a))'
                        <= Occurrences(Earns[a])'
    BY DEF Balanced
  <2>1. Occurrences(Spends[a]) \in Nat /\ Occurrences(Earns[a]) \in Nat
    BY OccurrencesFinite DEF TrailInv, IInv, TypeOK
  <2>2. Occurrences(Spends[a]) + Cardinality(Holders(a)) <= Occurrences(Earns[a])
    BY DEF TrailInv, Balanced
  <2>3. /\ Cardinality(Holders(a)) \in Nat /\ Cardinality(Holders(a)') \in Nat
        /\ Cardinality(Holders(a)') <= Cardinality(Holders(a))
    BY <1>4, HoldersFinite, FS_Subset
  <2>. QED  BY <1>3, <2>1, <2>2, <2>3
<1>. QED  BY <1>1, <1>2, <1>5 DEF TrailInv

\* Opening a transaction: the handler was entitled to the event it will publish,
\* which tells the status it changes.
LEMMA FlushKeepsTrailInv ==
  ASSUME TrailInv, IInv', NEW r \in Requests, NEW new \in Row,
         NEW type \in EventTypes, NEW node, NEW approval, NEW next,
         Flush(r, new, type, node, approval, next),
         next = GoesOn[type],
         new.status # mem[r].status <=> type # "node.completed",
         type # "node.completed" => new.status = StatusAfter[type],
         \A a \in Accounts :
           type \in Spends[a] \union Keeps[a] => pc[r] \in Standing[a]
  PROVE  TrailInv'
<1>1. /\ pc' = [pc EXCEPT ![r] = "commit"]
      /\ UNCHANGED <<row, events>>
      /\ txn'[r].event.type = type /\ txn'[r].next = next
      /\ txn'[r].cols = Changed(mem[r], new)
      /\ mem'[r] = new
      /\ \A q \in Requests \ {r} : txn'[q] = txn[q] /\ mem'[q] = mem[q]
  BY DEF Flush, database, TrailInv, IInv, TypeOK
<1>2. pc'[r] = "commit" /\ \A q \in Requests \ {r} : pc'[q] = pc[q]
  BY <1>1 DEF TrailInv, IInv, TypeOK
<1>3. "status" \in Changed(mem[r], new) <=> new.status # mem[r].status
  BY DEF Changed, Columns
<1>4. TrailTold(r)'
  BY <1>1, <1>3 DEF TrailTold
<1>5. ASSUME NEW a \in Accounts, Entitled(r, a)' PROVE Entitled(r, a)
  BY <1>1, <1>2, <1>5, AccountsApart DEF Entitled
<1>. QED  BY <1>1, <1>2, <1>4, <1>5, QuietStepKeepsTrailInv

\* The transactions of execute_run, decide_run and finalize_approved_run.
LEMMA TransactionKeepsTrailInv ==
  ASSUME TrailInv, IInv', NEW r \in Requests,
         \/ BeginExecution(r) \/ Checkpoint(r) \/ OpenGate(r)
         \/ FailRun(r) \/ DecideRun(r) \/ FinalizeApprovedRun(r)
  PROVE  TrailInv'
<1> USE DEF Spends, Keeps, Standing, GoesOn, StatusAfter, EventTypes
<1>1. mem[r] \in Row /\ mem' \in [Requests -> Row]
  BY DEF TrailInv, IInv, TypeOK
<1>2. Believes(r, pc[r]) \/ pc[r] = "commit"
  BY DEF TrailInv, IInv, StatusBelieved
<1>3. CASE BeginExecution(r)
  <2> DEFINE new == [mem[r] EXCEPT !.status = "running"]
  <2>1. pc[r] = "begin" /\ Flush(r, new, "run.started", "none", NoApproval, "invoke")
    BY <1>3 DEF BeginExecution
  <2>2. new \in Row /\ new.status = "running" /\ mem[r].status = "queued"
    BY <1>1, <1>2, <2>1 DEF Believes, Row, Statuses
  <2>3. \A a \in Accounts : "run.started" \in Spends[a] \union Keeps[a] => "begin" \in Standing[a]
    BY DEF Accounts
  <2> HIDE DEF new
  <2>. QED  BY <2>1, <2>2, <2>3, FlushKeepsTrailInv
<1>4. CASE Checkpoint(r)
  <2> DEFINE name == AgentNames[stage[r] + 1]
             new == [mem[r] EXCEPT !.node = name, !.revision = @ + 1]
  <2>1. /\ pc[r] = "checkpoint"
        /\ Flush(r, new, "node.completed", name, NoApproval, "checkpoint")
    BY <1>4 DEF Checkpoint
  <2>2. mem'[r] = new
    BY <2>1 DEF Flush, TrailInv, IInv, TypeOK
  <2>3. new \in Row /\ new.status = mem[r].status
    BY <1>1, <2>2 DEF Row
  <2>4. \A a \in Accounts : "node.completed" \in Spends[a] \union Keeps[a] => "checkpoint" \in Standing[a]
    BY DEF Accounts
  <2> HIDE DEF new, name
  <2>. QED  BY <2>1, <2>3, <2>4, FlushKeepsTrailInv
<1>5. CASE OpenGate(r)
  <2> DEFINE new == [mem[r] EXCEPT !.status = "waiting_approval"]
  <2>1. /\ pc[r] = "checkpoint"
        /\ Flush(r, new, "approval.required", "none", NoApproval, "done")
    BY <1>5 DEF OpenGate
  <2>2. new \in Row /\ new.status = "waiting_approval" /\ mem[r].status = "running"
    BY <1>1, <1>2, <2>1 DEF Believes, Row, Statuses
  <2>3. \A a \in Accounts : "approval.required" \in Spends[a] \union Keeps[a] => "checkpoint" \in Standing[a]
    BY DEF Accounts
  <2> HIDE DEF new
  <2>. QED  BY <2>1, <2>2, <2>3, FlushKeepsTrailInv
<1>6. CASE FailRun(r)
  <2> DEFINE new == [mem[r] EXCEPT !.status = "failed", !.error = TRUE]
             node == mem[r].node
  <2>1. pc[r] = "fail" /\ Flush(r, new, "run.failed", node, NoApproval, "done")
    BY <1>6 DEF FailRun
  <2>2. new \in Row /\ new.status = "failed" /\ mem[r].status = "running"
    BY <1>1, <1>2, <2>1 DEF Believes, Row, Statuses
  <2>3. \A a \in Accounts : "run.failed" \in Spends[a] \union Keeps[a] => "fail" \in Standing[a]
    BY DEF Accounts
  <2> HIDE DEF new, node
  <2>. QED  BY <2>1, <2>2, <2>3, FlushKeepsTrailInv
<1>7. CASE DecideRun(r)
  <2> DEFINE d == decision[r]
             new == [mem[r] EXCEPT !.status = DecidedStatus[d]]
             approval == [decision |-> d, revision |-> mem[r].revision]
  <2>1. /\ pc[r] = "decide" /\ d \in Decisions
        /\ Flush(r, new, DecisionEvent[d], "none", approval, AfterDecision(d))
    BY <1>2, <1>7 DEF DecideRun, Believes
  <2>2. /\ new \in Row /\ new.status = DecidedStatus[d]
        /\ mem[r].status = "waiting_approval"
    BY <1>1, <1>2, <2>1 DEF Believes, Row, Statuses, DecidedStatus, Decisions
  <2>3. /\ DecidedStatus[d] # "waiting_approval"
        /\ DecisionEvent[d] \in EventTypes \ {"node.completed"}
        /\ StatusAfter[DecisionEvent[d]] = DecidedStatus[d]
        /\ GoesOn[DecisionEvent[d]] = AfterDecision(d)
        /\ \A a \in Accounts : DecisionEvent[d] \notin Spends[a] \union Keeps[a]
    BY <2>1 DEF Decisions, DecidedStatus, DecisionEvent, AfterDecision, Accounts
  <2> HIDE DEF new, approval, d
  <2>. QED  BY <2>1, <2>2, <2>3, FlushKeepsTrailInv
<1>8. CASE FinalizeApprovedRun(r)
  <2> DEFINE new == [mem[r] EXCEPT !.status = "completed", !.node = "verification"]
  <2>1. /\ pc[r] = "finalize" /\ mem[r].status = "approved"
        /\ Flush(r, new, "run.completed", "verification", NoApproval, "done")
    BY <1>8 DEF FinalizeApprovedRun
  <2>2. mem'[r] = new
    BY <2>1 DEF Flush, TrailInv, IInv, TypeOK
  <2>3. new \in Row /\ new.status = "completed"
    BY <1>1, <2>2 DEF Row
  <2>4. \A a \in Accounts : "run.completed" \in Spends[a] \union Keeps[a] => "finalize" \in Standing[a]
    BY DEF Accounts
  <2> HIDE DEF new
  <2>. QED  BY <2>1, <2>3, <2>4, FlushKeepsTrailInv
<1>. QED  BY <1>3, <1>4, <1>5, <1>6, <1>7, <1>8

\* The steps that only move a handler: none of them entitles it to anything.
LEMMA HandlerStepKeepsTrailInv ==
  ASSUME TrailInv, IInv', NEW r \in Requests,
         ProviderUnavailable(r) \/ Invoke(r) \/ LoadForDecision(r) \/ Crash(r)
  PROVE  TrailInv'
<1>1. UNCHANGED <<row, events>>
  BY HandlerStepFrame
<1>2. /\ \E at \in {"done", "checkpoint", "fail", "decide"} :
            /\ pc' = [pc EXCEPT ![r] = at]
            /\ at \in {"checkpoint", "fail"} => pc[r] = "invoke"
      /\ \A q \in Requests \ {r} : txn'[q] = txn[q] /\ mem'[q] = mem[q]
  <2>1. CASE ProviderUnavailable(r)
    BY <2>1 DEF ProviderUnavailable, Finish, TrailInv, IInv, TypeOK
  <2>2. CASE Invoke(r)
    BY <2>2 DEF Invoke
  <2>3. CASE LoadForDecision(r)
    BY <2>3 DEF LoadForDecision, TrailInv, IInv, TypeOK
  <2>4. CASE Crash(r)
    BY <2>4 DEF Crash, TrailInv, IInv, TypeOK
  <2>. QED  BY <2>1, <2>2, <2>3, <2>4
<1>3. /\ pc'[r] \in {"done", "checkpoint", "fail", "decide"}
      /\ pc'[r] \in {"checkpoint", "fail"} => pc[r] = "invoke"
      /\ \A q \in Requests \ {r} : pc'[q] = pc[q]
  BY <1>2 DEF TrailInv, IInv, TypeOK
<1>4. ASSUME NEW a \in Accounts, Entitled(r, a)' PROVE Entitled(r, a)
  BY <1>3, <1>4 DEF Entitled, Accounts, Standing
<1>. QED  BY <1>1, <1>2, <1>3, <1>4, QuietStepKeepsTrailInv

\* The accounts, one event later: its handler may have gained or spent a grant.
LEMMA BalancedAppended ==
  ASSUME Balanced, events \in Seq(Event), NEW e \in Event,
         events' = Append(events, e), NEW r \in Requests,
         \A q \in Requests \ {r}, a \in Accounts : Entitled(q, a)' <=> Entitled(q, a),
         \A a \in Accounts :
           /\ e.type \in Spends[a] \union Keeps[a] => Entitled(r, a)
           /\ Entitled(r, a)' => e.type \in Earns[a] \union Keeps[a]
  PROVE  Balanced'
<1> SUFFICES ASSUME NEW a \in Accounts
             PROVE  Occurrences(Spends[a])' + Cardinality(Holders(a))'
                      <= Occurrences(Earns[a])'
  BY DEF Balanced
<1>1. /\ Occurrences(Spends[a]) \in Nat /\ Occurrences(Earns[a]) \in Nat
      /\ Occurrences(Spends[a])' = Occurrences(Spends[a]) + (IF e.type \in Spends[a] THEN 1 ELSE 0)
      /\ Occurrences(Earns[a])' = Occurrences(Earns[a]) + (IF e.type \in Earns[a] THEN 1 ELSE 0)
  BY OccurrencesAppended
<1>2. Occurrences(Spends[a]) + Cardinality(Holders(a)) <= Occurrences(Earns[a])
  BY DEF Balanced
<1>3. /\ IsFiniteSet(Holders(a)) /\ IsFiniteSet(Holders(a)')
      /\ Cardinality(Holders(a)) \in Nat /\ Cardinality(Holders(a)') \in Nat
  BY HoldersFinite
<1>4. e.type \in EventTypes
  BY DEF Event
<1>5. CASE e.type \in Earns[a]
  <2>1. Holders(a)' \subseteq Holders(a) \union {r}
    BY DEF Holders
  <2>2. /\ IsFiniteSet(Holders(a) \union {r})
        /\ Cardinality(Holders(a) \union {r}) <= Cardinality(Holders(a)) + 1
        /\ Cardinality(Holders(a) \union {r}) \in Nat
    <3>1. /\ IsFiniteSet(Holders(a) \union {r})
          /\ Cardinality(Holders(a) \union {r})
               = IF r \in Holders(a) THEN Cardinality(Holders(a))
                 ELSE Cardinality(Holders(a)) + 1
      BY <1>3, FS_AddElement, Zenon
    <3>. QED  BY <1>3, <3>1
  <2>3. Cardinality(Holders(a)') <= Cardinality(Holders(a)) + 1
    BY <1>3, <2>1, <2>2, FS_Subset
  <2>4. e.type \notin Spends[a]
    BY <1>4, <1>5, AccountsApart
  <2>. QED  BY <1>1, <1>2, <1>3, <1>5, <2>3, <2>4
<1>6. CASE e.type \in Spends[a]
  <2>1. e.type \notin Earns[a] /\ e.type \notin Keeps[a]
    BY <1>4, <1>6, AccountsApart
  <2>2. Holders(a)' = Holders(a) \ {r} /\ r \in Holders(a)
    BY <1>6, <2>1 DEF Holders
  <2>3. Cardinality(Holders(a)') = Cardinality(Holders(a)) - 1
    BY <1>3, <2>2, FS_RemoveElement
  <2>. QED  BY <1>1, <1>2, <1>3, <1>6, <2>1, <2>3
<1>7. CASE e.type \notin Earns[a] \union Spends[a]
  <2>1. Holders(a)' \subseteq Holders(a)
    BY <1>7 DEF Holders
  <2>2. Cardinality(Holders(a)') <= Cardinality(Holders(a))
    BY <1>3, <2>1, FS_Subset
  <2>. QED  BY <1>1, <1>2, <1>3, <1>7, <2>2
<1>. QED  BY <1>5, <1>6, <1>7

\* COMMIT: the row takes the status the event tells, and the handler goes on to
\* where the event leaves it.
LEMMA CommitKeepsTrailInv ==
  ASSUME TrailInv, IInv', NEW r \in Requests, Commit(r)
  PROVE  TrailInv'
<1> DEFINE t == txn[r]
<1>1. /\ pc[r] = "commit" /\ t.event \in Event /\ t.cols \subseteq Columns
      /\ row' = Updated(row, mem[r], t.cols)
      /\ events' = Append(events, t.event)
      /\ pc' = [pc EXCEPT ![r] = t.next]
      /\ txn' = [txn EXCEPT ![r] = NoTxn]
      /\ events \in Seq(Event)
      /\ t.next \in Continuations
      /\ \A q \in Requests \ {r} : mem'[q] = mem[q]
  BY DEF Commit, TrailInv, IInv, TypeOK, LockHeldToCommit, Txn
<1>2. TrailTold(r)
  BY <1>1 DEF TrailInv, TxnTrail
<1>3. /\ pc'[r] = t.next /\ pc'[r] # "commit"
      /\ \A q \in Requests \ {r} : pc'[q] = pc[q] /\ txn'[q] = txn[q]
  BY <1>1 DEF Continuations, TrailInv, IInv, TypeOK
<1>4. TxnTrail'
  BY <1>1, <1>3 DEF TrailInv, TxnTrail, TrailTold
<1>5. StatusAsLogged'
  <2>1. row'.status = IF "status" \in t.cols THEN mem[r].status ELSE row.status
    BY <1>1 DEF Updated
  <2> HIDE DEF t
  <2>2. /\ t.event.type = "node.completed" => row'.status = row.status
        /\ t.event.type # "node.completed" => row'.status = StatusAfter[t.event.type]
    BY <1>2, <2>1 DEF TrailTold, t
  <2>. QED  BY <1>1, <2>2, StatusAppended DEF TrailInv
<1>6. Balanced'
  <2>1. \A q \in Requests \ {r}, a \in Accounts : Entitled(q, a)' <=> Entitled(q, a)
    BY <1>3 DEF Entitled
  <2>2. ASSUME NEW a \in Accounts
        PROVE  /\ t.event.type \in Spends[a] \union Keeps[a] => Entitled(r, a)
               /\ Entitled(r, a)' => t.event.type \in Earns[a] \union Keeps[a]
    <3>1. GoesOn[t.event.type] \in Standing[a] <=> t.event.type \in Earns[a] \union Keeps[a]
      BY <1>2, AccountsApart DEF TrailTold
    <3>. QED  BY <1>1, <1>2, <1>3, <3>1 DEF Entitled, TrailTold
  <2> HIDE DEF t
  <2>. QED  BY <1>1, <2>1, <2>2, BalancedAppended DEF TrailInv
<1>. QED  BY <1>4, <1>5, <1>6 DEF TrailInv

\* create_run publishes run.created with the queued row, and entitles its
\* handler to the execution.
LEMMA CreateRunKeepsTrailInv ==
  ASSUME TrailInv, IInv', NEW r \in Requests, CreateRun(r)
  PROVE  TrailInv'
<1> DEFINE event == [sequence |-> NextSequence, type |-> "run.created", node |-> "none"]
<1>1. /\ pc[r] = "idle" /\ pc' = [pc EXCEPT ![r] = "begin"]
      /\ events' = Append(events, event)
      /\ txn' = txn /\ row'.status = "queued"
      /\ events \in Seq(Event)
      /\ \A q \in Requests \ {r} : mem'[q] = mem[q]
  BY DEF CreateRun, NextArrival, AbsentRow, TrailInv, IInv, TypeOK
<1>2. event \in Event /\ event.type = "run.created"
  <2>1. NextSequence = Len(events) + 1 /\ Len(events) \in Nat
    BY NextSequenceIsNext DEF TrailInv, IInv, TypeOK
  <2>. QED  BY <2>1 DEF Event, EventTypes, Nodes
<1> HIDE DEF event
<1>3. pc'[r] = "begin" /\ \A q \in Requests \ {r} : pc'[q] = pc[q]
  BY <1>1 DEF TrailInv, IInv, TypeOK
<1>4. TxnTrail'
  BY <1>1, <1>3 DEF TrailInv, TxnTrail, TrailTold
<1>5. StatusAsLogged'
  <2>1. StatusAfter["run.created"] = "queued"
    BY DEF StatusAfter, EventTypes
  <2>. QED  BY <1>1, <1>2, <2>1, StatusAppended DEF TrailInv
<1>6. Balanced'
  <2>1. \A q \in Requests \ {r}, a \in Accounts : Entitled(q, a)' <=> Entitled(q, a)
    BY <1>1, <1>3 DEF Entitled
  <2>2. ASSUME NEW a \in Accounts
        PROVE  /\ "run.created" \notin Spends[a] \union Keeps[a]
               /\ Entitled(r, a)' => "run.created" \in Earns[a]
    BY <1>3 DEF Accounts, Entitled, Standing, Spends, Keeps, Earns
  <2>. QED  BY <1>1, <1>2, <2>1, <2>2, BalancedAppended DEF TrailInv
<1>. QED  BY <1>4, <1>5, <1>6 DEF TrailInv

\* The invariant of the audit trail is inductive.
THEOREM NextKeepsTrailInv == TrailInv /\ [Next]_vars => TrailInv'
<1> SUFFICES ASSUME TrailInv, [Next]_vars PROVE TrailInv'
  OBVIOUS
<1>0. IInv'
  BY NextKeepsIInv DEF TrailInv
<1>1. CASE UNCHANGED <<row, events, pc, txn, mem>>
  <2>1. TxnTrail' /\ StatusAsLogged'
    BY <1>1 DEF TrailInv, TxnTrail, TrailTold, StatusAsLogged, StatusEvents
  <2>2. \A a \in Accounts : Holders(a)' = Holders(a)
    BY <1>1 DEF Holders, Entitled
  <2>3. \A types : Occurrences(types)' = Occurrences(types)
    BY <1>1 DEF Occurrences
  <2>4. Balanced'
    BY <2>2, <2>3 DEF TrailInv, Balanced
  <2>. QED  BY <1>0, <2>1, <2>4 DEF TrailInv
<1>2. ASSUME NEW r \in Requests, Arrive(r)
      PROVE  TrailInv'
  BY <1>0, <1>2, CreateRunKeepsTrailInv, HandlerStepKeepsTrailInv DEF Arrive
<1>3. ASSUME NEW r \in Requests, Step(r)
      PROVE  TrailInv'
  BY <1>0, <1>3, HandlerStepKeepsTrailInv, TransactionKeepsTrailInv, CommitKeepsTrailInv DEF Step
<1>4. ASSUME NEW r \in Requests, Crash(r)
      PROVE  TrailInv'
  BY <1>0, <1>4, HandlerStepKeepsTrailInv
<1>5. CASE UNCHANGED vars
  BY <1>1, <1>5 DEF vars, database, handlers
<1>6. CASE StreamEvents
  BY <1>1, <1>6 DEF StreamEvents, database, handlers
<1>. QED  BY <1>2, <1>3, <1>4, <1>5, <1>6 DEF Next

\* TrailInv holds in every state of every execution.
THEOREM TrailInvariance == Spec => []TrailInv
BY InitTrailInv, NextKeepsTrailInv, PTL DEF Spec

\* Whatever interleaves or is lost, the event log tells the status of the row,
\* and has no execution nobody asked for, no gate or failure without one, and no
\* completion without an approval of its own (execute_run, decide_run,
\* finalize_approved_run and _event).
THEOREM TrailExplainsRun == Spec => []AuditTrail
<1>1. TrailInv => AuditTrail
  <2> SUFFICES ASSUME TrailInv, NEW a \in Accounts
               PROVE  Occurrences(Spends[a]) <= Occurrences(Earns[a])
    BY DEF AuditTrail, TrailBalances, TrailInv, Accounts, Earns
  <2>1. Occurrences(Spends[a]) \in Nat /\ Occurrences(Earns[a]) \in Nat
    BY OccurrencesFinite DEF TrailInv, IInv, TypeOK
  <2>2. Cardinality(Holders(a)) \in Nat
    BY HoldersFinite
  <2>. QED  BY <2>1, <2>2 DEF TrailInv, Balanced
<1>. QED  BY <1>1, TrailInvariance, PTL

-----------------------------------------------------------------------------
(***************************************************************************)
(* Requests one at a time (MaxInFlight = 1).  The code does not serialize  *)
(* the requests of a run, so this is a hypothesis and not a fact: under it *)
(* a session's copy of the row is the row, every commit is one lawful step *)
(* of the lifecycle, and the races the runs report cannot happen.          *)
(***************************************************************************)
Whole(n) == n > 0 /\ n % Stages = 0

\* The revisions at which a row can rest in each status.
Settled(x) ==
  /\ x.status = "absent" => x.revision = 0
  /\ x.status \in {"queued", "failed"} => x.revision % Stages = 0
  /\ x.status \in {"waiting_approval", "approved", "rejected", "completed"} =>
       Whole(x.revision)

\* One step of the lifecycle after the run's creation, from row to row.
Lawful(old, new) ==
  \/ /\ old.status = "running" /\ new.status = "running"
     /\ new.revision = old.revision + 1
  \/ /\ new.revision = old.revision
     /\ \/ old.status = "queued" /\ new.status = "running"
        \/ old.status = "running" /\ new.status = "waiting_approval" /\ Whole(old.revision)
        \/ old.status = "running" /\ new.status = "failed" /\ old.revision % Stages = 0
        \/ /\ old.status = "waiting_approval"
           /\ new.status \in {"approved", "rejected", "queued"}
        \/ old.status = "approved" /\ new.status = "completed"

OneAtATime == \A q, r \in InFlight : q = r

\* The revision a handler has reached when it is to continue at `at`.
Progress(r, at) ==
  /\ at \in {"begin", "invoke", "fail"} => mem[r].revision % Stages = 0
  /\ at = "checkpoint" => /\ mem[r].revision >= stage[r]
                          /\ mem[r].revision % Stages = stage[r] % Stages

\* The one handler in flight knows the row, and will change it lawfully.
SerialHandler ==
  \A r \in InFlight :
    /\ pc[r] # "commit" => mem[r] = row /\ Progress(r, pc[r])
    /\ pc[r] = "commit" =>
         /\ txn[r].cols = Changed(row, mem[r]) /\ Lawful(row, mem[r])
         /\ Progress(r, txn[r].next)
         /\ txn[r].approval # NoApproval => Whole(txn[r].approval.revision)

SerialInv == OneAtATime /\ Settled(row) /\ SerialHandler /\ DecidedWholeRevision

\* Writing back every changed column writes the session's copy.
LEMMA UpdatedIsNew ==
  ASSUME NEW old \in Row, NEW new \in Row
  PROVE  Updated(old, new, Changed(old, new)) = new
<1>1. /\ "status" \notin Changed(old, new) => old.status = new.status
      /\ "node" \notin Changed(old, new) => old.node = new.node
      /\ "revision" \notin Changed(old, new) => old.revision = new.revision
      /\ "error" \notin Changed(old, new) => old.error = new.error
  BY DEF Changed, Columns
<1>2. new = [status |-> new.status, node |-> new.node,
             revision |-> new.revision, error |-> new.error]
  BY DEF Row
<1> DEFINE cols == Changed(old, new)
<1>3. /\ (IF "status" \in cols THEN new.status ELSE old.status) = new.status
      /\ (IF "node" \in cols THEN new.node ELSE old.node) = new.node
      /\ (IF "revision" \in cols THEN new.revision ELSE old.revision) = new.revision
      /\ (IF "error" \in cols THEN new.error ELSE old.error) = new.error
  BY <1>1
<1> HIDE DEF cols
<1>4. Updated(old, new, cols) = [status |-> new.status, node |-> new.node,
                                 revision |-> new.revision, error |-> new.error]
  BY <1>3 DEF Updated
<1>. QED  BY <1>2, <1>4, Zenon DEF cols

\* A lawful step leads from a settled row to a settled row.
LEMMA LawfulSettles ==
  ASSUME NEW old \in Row, NEW new \in Row, Settled(old), Lawful(old, new)
  PROVE  Settled(new)
BY NamesDiffer DEF Settled, Lawful, Whole, Row, Statuses

\* An arriving request finds no other in flight.
LEMMA ArrivesAlone ==
  ASSUME MaxInFlight = 1, NEW r \in Requests, NextArrival(r)
  PROVE  InFlight = {}
<1>1. IsFiniteSet(Requests) /\ InFlight \subseteq Requests
  BY BoundsAssumption, FS_Interval DEF Requests, InFlight
<1>2. IsFiniteSet(InFlight) /\ Cardinality(InFlight) \in Nat
  BY <1>1, FS_Subset, FS_CardinalityType
<1>3. Cardinality(InFlight) = 0
  BY <1>2 DEF NextArrival
<1>. QED  BY <1>2, <1>3, FS_EmptySet

\* A flush of the one handler in flight.
LEMMA FlushKeepsSerialInv ==
  ASSUME IInv, SerialInv, NEW r \in InFlight, pc[r] # "commit",
         NEW new \in Row, NEW type, NEW node, NEW approval, NEW next,
         Flush(r, new, type, node, approval, next),
         Lawful(row, new), Progress(r, next)',
         approval # NoApproval => Whole(approval.revision)
  PROVE  SerialInv'
<1>1. /\ r \in Requests /\ mem[r] = row
      /\ pc' = [pc EXCEPT ![r] = "commit"]
      /\ mem' = [mem EXCEPT ![r] = new]
      /\ UNCHANGED <<row, approvals>>
      /\ txn'[r].cols = Changed(mem[r], new)
      /\ txn'[r].approval = approval /\ txn'[r].next = next
  BY DEF Flush, database, InFlight, SerialInv, SerialHandler, IInv, TypeOK
<1>2. pc'[r] = "commit" /\ mem'[r] = new
      /\ \A q \in Requests \ {r} : pc'[q] = pc[q]
  BY <1>1 DEF IInv, TypeOK
<1>3. InFlight' \subseteq {r}
  BY <1>2 DEF InFlight, SerialInv, OneAtATime
<1>4. OneAtATime'
  BY <1>3 DEF OneAtATime
<1>5. SerialHandler'
  BY <1>1, <1>2, <1>3 DEF SerialHandler
<1>6. Settled(row)' /\ DecidedWholeRevision'
  BY <1>1 DEF SerialInv, Settled, DecidedWholeRevision
<1>. QED  BY <1>4, <1>5, <1>6 DEF SerialInv

\* Each transaction of the one handler in flight is lawful: it starts from the
\* row itself, at the revision its execution has reached.
LEMMA TransactionKeepsSerialInv ==
  ASSUME IInv, SerialInv, NEW r \in Requests,
         \/ BeginExecution(r) \/ Checkpoint(r) \/ OpenGate(r)
         \/ FailRun(r) \/ DecideRun(r) \/ FinalizeApprovedRun(r)
  PROVE  SerialInv'
<1>1. pc[r] \in {"begin", "checkpoint", "fail", "decide", "finalize"}
  BY DEF BeginExecution, Checkpoint, OpenGate, FailRun, DecideRun, FinalizeApprovedRun
<1>2. /\ r \in InFlight /\ pc[r] # "commit"
      /\ mem[r] = row /\ Progress(r, pc[r]) /\ Believes(r, pc[r])
      /\ row \in Row /\ row.revision \in Nat /\ Settled(row)
      /\ mem \in [Requests -> Row]
      /\ stage \in [Requests -> 0..Stages] /\ stage[r] \in 0..4 /\ Stages = 4
  BY <1>1, NamesDiffer
     DEF InFlight, SerialInv, SerialHandler, IInv, TypeOK, StatusBelieved, Row
<1>3. ASSUME NEW new \in Row, NEW type, NEW node, NEW approval, NEW next,
             Flush(r, new, type, node, approval, next)
      PROVE  mem'[r] = new
  BY <1>2, <1>3 DEF Flush
<1>4. CASE BeginExecution(r)
  <2> DEFINE new == [row EXCEPT !.status = "running"]
  <2>1. /\ pc[r] = "begin" /\ row.status = "queued"
        /\ Flush(r, new, "run.started", "none", NoApproval, "invoke")
    BY <1>2, <1>4 DEF BeginExecution, Believes
  <2>2. /\ new \in Row /\ new.status = "running" /\ new.revision = row.revision
        /\ row.revision % Stages = 0
    BY <1>2, <2>1 DEF Row, Statuses, Progress
  <2> HIDE DEF new
  <2>3. Lawful(row, new) /\ Progress(r, "invoke")'
    BY <1>3, <2>1, <2>2 DEF Lawful, Progress
  <2>. QED  BY <1>2, <2>1, <2>2, <2>3, FlushKeepsSerialInv
<1>5. CASE Checkpoint(r)
  <2> DEFINE name == AgentNames[stage[r] + 1]
             new == [row EXCEPT !.node = name, !.revision = @ + 1]
  <2>1. /\ pc[r] = "checkpoint" /\ row.status = "running"
        /\ stage[r] < Stages /\ stage' = [stage EXCEPT ![r] = @ + 1]
        /\ Flush(r, new, "node.completed", name, NoApproval, "checkpoint")
    BY <1>2, <1>5 DEF Checkpoint, NodeLeft, Believes
  <2>2. name \in Nodes
    BY <1>2, <2>1 DEF Nodes
  <2>3. new \in Row /\ new.status = "running" /\ new.revision = row.revision + 1
    <3>1. row.revision + 1 \in Nat
      BY <1>2
    <3>2. /\ new \in Row /\ new.status = row.status
          /\ new.revision = row.revision + 1
      BY <1>2, <2>2, <3>1 DEF Row
    <3>. QED  BY <2>1, <3>2
  <2>4. stage'[r] = stage[r] + 1
    BY <1>2, <2>1
  <2>5. row.revision >= stage[r] /\ row.revision % 4 = stage[r] % 4
    BY <1>2, <2>1 DEF Progress
  <2>6. /\ row.revision + 1 >= stage[r] + 1
        /\ (row.revision + 1) % 4 = (stage[r] + 1) % 4
    <3>1. \A a, b \in Nat : a % 4 = b % 4 => (a + 1) % 4 = (b + 1) % 4
      OBVIOUS
    <3>2. row.revision \in Nat /\ stage[r] \in Nat
      BY <1>2
    <3>. QED  BY <2>5, <3>1, <3>2
  <2> HIDE DEF new, name
  <2>7. Lawful(row, new)
    BY <2>1, <2>3 DEF Lawful
  <2>8. Progress(r, "checkpoint")'
    BY <1>2, <1>3, <2>1, <2>3, <2>4, <2>6 DEF Progress
  <2>. QED  BY <1>2, <2>1, <2>3, <2>7, <2>8, FlushKeepsSerialInv
<1>6. CASE OpenGate(r)
  <2> DEFINE new == [row EXCEPT !.status = "waiting_approval"]
  <2>1. /\ pc[r] = "checkpoint" /\ row.status = "running" /\ ~(stage[r] < Stages)
        /\ Flush(r, new, "approval.required", "none", NoApproval, "done")
    BY <1>2, <1>6 DEF OpenGate, NodeLeft, Believes
  <2>2. new \in Row /\ new.status = "waiting_approval" /\ new.revision = row.revision
    BY <1>2, <2>1 DEF Row, Statuses
  <2>3. Whole(row.revision)
    BY <1>2, <2>1 DEF Progress, Whole
  <2> HIDE DEF new
  <2>4. Lawful(row, new) /\ Progress(r, "done")'
    BY <2>1, <2>2, <2>3 DEF Lawful, Progress
  <2>. QED  BY <1>2, <2>1, <2>2, <2>4, FlushKeepsSerialInv
<1>7. CASE FailRun(r)
  <2> DEFINE new == [row EXCEPT !.status = "failed", !.error = TRUE]
             node == row.node
  <2>1. /\ pc[r] = "fail" /\ row.status = "running"
        /\ Flush(r, new, "run.failed", node, NoApproval, "done")
    BY <1>2, <1>7 DEF FailRun, Believes
  <2>2. new \in Row /\ new.status = "failed" /\ new.revision = row.revision
    BY <1>2, <2>1 DEF Row, Statuses
  <2>3. row.revision % Stages = 0
    BY <1>2, <2>1 DEF Progress
  <2> HIDE DEF new, node
  <2>4. Lawful(row, new) /\ Progress(r, "done")'
    BY <2>1, <2>2, <2>3 DEF Lawful, Progress
  <2>. QED  BY <1>2, <2>1, <2>2, <2>4, FlushKeepsSerialInv
<1>8. CASE DecideRun(r)
  <2> DEFINE d == decision[r]
             new == [row EXCEPT !.status = DecidedStatus[d]]
             approval == [decision |-> d, revision |-> row.revision]
  <2>1. /\ row.status = "waiting_approval" /\ d \in Decisions
        /\ Flush(r, new, DecisionEvent[d], "none", approval, AfterDecision(d))
    BY <1>2, <1>8 DEF DecideRun, Believes
  <2>2. Whole(row.revision) /\ approval.revision = row.revision
    BY <1>2, <2>1 DEF Settled
  <2>3. DecidedStatus[d] \in {"approved", "rejected", "queued"}
    BY <2>1 DEF Decisions, DecidedStatus
  <2>4. /\ new \in Row /\ new.status = DecidedStatus[d]
        /\ new.revision = row.revision
    BY <1>2, <2>3 DEF Row, Statuses
  <2>5. PICK next \in {"finalize", "begin", "done"} : next = AfterDecision(d)
    BY <2>1 DEF AfterDecision, Decisions
  <2> DEFINE type == DecisionEvent[d]
  <2> HIDE DEF d, new, approval, type
  <2>6. Flush(r, new, type, "none", approval, next)
    BY <2>1, <2>5 DEF type
  <2>7. Lawful(row, new)
    BY <2>1, <2>3, <2>4 DEF Lawful
  <2>8. mem'[r].revision % Stages = 0
    BY <1>3, <2>2, <2>4, <2>6 DEF Whole
  <2>9. Progress(r, next)'
    BY <2>5, <2>8, Zenon DEF Progress
  <2>. QED  BY <1>2, <2>2, <2>4, <2>6, <2>7, <2>9, FlushKeepsSerialInv
<1>9. CASE FinalizeApprovedRun(r)
  <2> DEFINE new == [row EXCEPT !.status = "completed", !.node = "verification"]
  <2>1. /\ row.status = "approved"
        /\ Flush(r, new, "run.completed", "verification", NoApproval, "done")
    BY <1>2, <1>9 DEF FinalizeApprovedRun
  <2>2. "verification" \in Nodes
    BY DEF Nodes, Stages, AgentNames
  <2>3. new \in Row /\ new.status = "completed" /\ new.revision = row.revision
    BY <1>2, <2>1, <2>2 DEF Row, Statuses
  <2> HIDE DEF new
  <2>4. Lawful(row, new) /\ Progress(r, "done")'
    BY <2>1, <2>3 DEF Lawful, Progress
  <2>. QED  BY <1>2, <2>1, <2>3, <2>4, FlushKeepsSerialInv
<1>. QED  BY <1>4, <1>5, <1>6, <1>7, <1>8, <1>9

\* COMMIT makes the handler's copy the row.
LEMMA CommitKeepsSerialInv ==
  ASSUME IInv, SerialInv, NEW r \in Requests, Commit(r)
  PROVE  /\ Lawful(row, row')
         /\ SerialInv'
<1> DEFINE t == txn[r]
<1>1. /\ pc[r] = "commit" /\ t.next \in Continuations
      /\ t.approval \in Approval \union {NoApproval}
      /\ row' = Updated(row, mem[r], t.cols)
      /\ approvals' = IF t.approval = NoApproval THEN approvals
                      ELSE Append(approvals, t.approval)
      /\ pc' = [pc EXCEPT ![r] = t.next]
      /\ mem' = IF t.next = "done" THEN [mem EXCEPT ![r] = AbsentRow] ELSE mem
      /\ stage' = stage
      /\ approvals \in Seq(Approval) /\ row \in Row /\ mem[r] \in Row
  BY DEF Commit, IInv, TypeOK, LockHeldToCommit, Txn
<1>2. /\ r \in InFlight /\ t.cols = Changed(row, mem[r])
      /\ Lawful(row, mem[r]) /\ Progress(r, t.next)
      /\ t.approval # NoApproval => Whole(t.approval.revision)
      /\ Settled(row)
  BY <1>1 DEF InFlight, SerialInv, SerialHandler
<1>3. row' = mem[r]
  BY <1>1, <1>2, UpdatedIsNew
<1>4. Lawful(row, row') /\ Settled(row)'
  <2>1. Settled(mem[r])
    BY <1>1, <1>2, LawfulSettles
  <2>. QED  BY <1>2, <1>3, <2>1 DEF Settled
<1>5. /\ pc'[r] = t.next /\ t.next # "commit"
      /\ \A q \in Requests \ {r} : pc'[q] = pc[q]
  BY <1>1 DEF IInv, TypeOK, Continuations
<1>6. InFlight' \subseteq {r}
  BY <1>2, <1>5 DEF InFlight, SerialInv, OneAtATime
<1>7. SerialHandler'
  <2>1. PICK next \in Continuations : next = t.next
    BY <1>1
  <2>2. ASSUME r \in InFlight'
        PROVE  mem'[r] = row' /\ Progress(r, next)'
    <3>1. next # "done"
      BY <1>5, <2>1, <2>2 DEF InFlight
    <3>2. mem' = mem
      BY <1>1, <2>1, <3>1
    <3>. QED  BY <1>1, <1>2, <1>3, <2>1, <3>2 DEF Progress
  <2>. QED  BY <1>5, <1>6, <2>1, <2>2 DEF SerialHandler
<1>8. DecidedWholeRevision'
  <2>1. CASE t.approval = NoApproval
    BY <1>1, <2>1 DEF SerialInv, DecidedWholeRevision
  <2>2. CASE t.approval # NoApproval
    <3>1. /\ t.approval \in Approval /\ approvals' = Append(approvals, t.approval)
          /\ Whole(t.approval.revision)
      BY <1>1, <1>2, <2>2
    <3>. QED  BY <1>1, <3>1 DEF SerialInv, DecidedWholeRevision, Whole
  <2>. QED  BY <2>1, <2>2
<1>9. OneAtATime'
  BY <1>6 DEF OneAtATime
<1>. QED  BY <1>4, <1>7, <1>8, <1>9 DEF SerialInv

\* The other steps of a handler: it arrives alone and loads the row, invokes the
\* graph, or leaves nobody in flight.
LEMMA HandlerStepKeepsSerialInv ==
  ASSUME MaxInFlight = 1, IInv, SerialInv, NEW r \in Requests,
         ProviderUnavailable(r) \/ Invoke(r) \/ LoadForDecision(r) \/ Crash(r)
  PROVE  SerialInv'
<1>1. UNCHANGED <<row, approvals>>
  BY HandlerStepFrame
<1>2. Settled(row)' /\ DecidedWholeRevision'
  BY <1>1 DEF SerialInv, Settled, DecidedWholeRevision
<1>3. /\ InFlight' \subseteq {r}
      /\ r \in InFlight' => /\ pc'[r] # "commit" /\ mem'[r] = row
                            /\ Progress(r, pc[r])'
  <2>1. CASE ProviderUnavailable(r)
    <3>1. pc[r] = "begin" /\ pc' = [pc EXCEPT ![r] = "done"]
      BY <2>1 DEF ProviderUnavailable, Finish
    <3>2. InFlight' = {}
      BY <3>1 DEF InFlight, SerialInv, OneAtATime, IInv, TypeOK
    <3>. QED  BY <3>2
  <2>2. CASE Invoke(r)
    <3>1. PICK at \in {"checkpoint", "fail"} : pc' = [pc EXCEPT ![r] = at]
      BY <2>2 DEF Invoke
    <3>2. /\ pc[r] = "invoke" /\ stage' = [stage EXCEPT ![r] = 0] /\ mem' = mem
      BY <2>2 DEF Invoke
    <3>3. /\ r \in InFlight /\ mem[r] = row /\ Progress(r, "invoke")
          /\ row.revision \in Nat
      BY <3>2 DEF InFlight, SerialInv, SerialHandler, IInv, TypeOK, Row
    <3>4. /\ InFlight' \subseteq {r} /\ pc'[r] = at
      BY <3>1, <3>3 DEF InFlight, SerialInv, OneAtATime, IInv, TypeOK
    <3>5. stage'[r] = 0
      BY <3>2 DEF IInv, TypeOK
    <3>6. Progress(r, at)'
      BY <3>2, <3>3, <3>5, NamesDiffer DEF Progress
    <3>. QED  BY <3>2, <3>3, <3>4, <3>6
  <2>3. CASE LoadForDecision(r)
    <3>1. PICK at \in {"decide", "done"} : pc' = [pc EXCEPT ![r] = at]
      BY <2>3 DEF LoadForDecision
    <3>2. InFlight = {} /\ (at = "decide" => mem' = [mem EXCEPT ![r] = row])
      BY <2>3, <3>1, ArrivesAlone DEF LoadForDecision, IInv, TypeOK
    <3>3. InFlight' \subseteq {r} /\ pc'[r] = at
      BY <3>1, <3>2 DEF InFlight, IInv, TypeOK
    <3>. QED  BY <3>2, <3>3 DEF Progress, InFlight, IInv, TypeOK
  <2>4. CASE Crash(r)
    <3>1. r \in InFlight /\ pc' = [pc EXCEPT ![r] = "done"]
      BY <2>4 DEF Crash
    <3>2. InFlight' = {}
      BY <3>1 DEF InFlight, SerialInv, OneAtATime, IInv, TypeOK
    <3>. QED  BY <3>2
  <2>. QED  BY <2>1, <2>2, <2>3, <2>4
<1>4. OneAtATime'
  BY <1>3 DEF OneAtATime
<1>5. SerialHandler'
  BY <1>1, <1>3 DEF SerialHandler
<1>. QED  BY <1>2, <1>4, <1>5 DEF SerialInv

\* create_run is the lifecycle's first step, by a handler that is alone.
LEMMA CreateRunKeepsSerialInv ==
  ASSUME MaxInFlight = 1, IInv, SerialInv, NEW r \in Requests, CreateRun(r)
  PROVE  SerialInv'
<1> DEFINE created == [AbsentRow EXCEPT !.status = "queued"]
<1>1. /\ row' = created /\ mem' = [mem EXCEPT ![r] = created]
      /\ pc' = [pc EXCEPT ![r] = "begin"] /\ approvals' = approvals
  BY DEF CreateRun
<1>2. InFlight = {}
  BY ArrivesAlone DEF CreateRun
<1>3. /\ InFlight' \subseteq {r} /\ pc'[r] = "begin" /\ mem'[r] = row'
  BY <1>1, <1>2 DEF InFlight, IInv, TypeOK
<1>4. row'.status = "queued" /\ row'.revision = 0
  BY <1>1 DEF AbsentRow
<1>5. Progress(r, "begin")' /\ Settled(row)'
  BY <1>3, <1>4, NamesDiffer DEF Progress, Settled
<1>6. OneAtATime' /\ SerialHandler'
  BY <1>3, <1>5 DEF OneAtATime, SerialHandler
<1>7. DecidedWholeRevision'
  BY <1>1 DEF SerialInv, DecidedWholeRevision
<1>. QED  BY <1>5, <1>6, <1>7 DEF SerialInv

\* How one step moves the row when requests come one at a time.
LEMMA SerialStep ==
  ASSUME MaxInFlight = 1, IInv, SerialInv, [Next]_vars
  PROVE  /\ SerialInv'
         /\ \/ row' = row
            \/ Lawful(row, row')
            \/ row.status = "absent" /\ row' = [AbsentRow EXCEPT !.status = "queued"]
<1>1. CASE UNCHANGED <<row, approvals, pc, mem, stage, txn>>
  BY <1>1 DEF SerialInv, OneAtATime, InFlight, Settled, SerialHandler, Progress,
     DecidedWholeRevision
<1>2. ASSUME NEW r \in Requests, CreateRun(r)
      PROVE  /\ SerialInv' /\ row.status = "absent"
             /\ row' = [AbsentRow EXCEPT !.status = "queued"]
  BY <1>2, CreateRunKeepsSerialInv DEF CreateRun
<1>3. ASSUME NEW r \in Requests, \/ ProviderUnavailable(r) \/ Invoke(r)
                                \/ LoadForDecision(r) \/ Crash(r)
      PROVE  SerialInv' /\ row' = row
  BY <1>3, HandlerStepKeepsSerialInv, HandlerStepFrame
<1>4. ASSUME NEW r \in Requests,
             \/ BeginExecution(r) \/ Checkpoint(r) \/ OpenGate(r)
             \/ FailRun(r) \/ DecideRun(r) \/ FinalizeApprovedRun(r)
      PROVE  SerialInv' /\ row' = row
  <2>1. row' = row
    BY <1>4, Zenon DEF BeginExecution, Checkpoint, OpenGate, FailRun, DecideRun,
       FinalizeApprovedRun, Flush, database
  <2>. QED  BY <1>4, <2>1, TransactionKeepsSerialInv
<1>5. ASSUME NEW r \in Requests, Commit(r)
      PROVE  SerialInv' /\ Lawful(row, row')
  BY <1>5, CommitKeepsSerialInv
<1>6. CASE StreamEvents
  BY <1>1, <1>6 DEF StreamEvents, database, handlers
<1>7. CASE UNCHANGED vars
  BY <1>1, <1>7 DEF vars, database, handlers
<1>. QED  BY <1>2, <1>3, <1>4, <1>5, <1>6, <1>7 DEF Next, Arrive, Step

LEMMA InitSerialInv == Init => SerialInv
BY DEF Init, SerialInv, OneAtATime, InFlight, Settled, SerialHandler,
   DecidedWholeRevision, AbsentRow

\* The serial invariant is inductive.
THEOREM SerialInvariance ==
  ASSUME MaxInFlight = 1
  PROVE  Spec => []SerialInv
<1>1. IInv /\ SerialInv /\ [Next]_vars => SerialInv'
  BY SerialStep
<1>. QED  BY <1>1, InitSerialInv, Invariance, PTL DEF Spec

\* Taken one at a time, every decision is about a whole execution: its approval
\* records a revision at which all four checkpoints were written (decide_run).
THEOREM DecisionsOnWholeRevisions ==
  ASSUME MaxInFlight = 1
  PROVE  Spec => []DecidedWholeRevision
<1>1. SerialInv => DecidedWholeRevision
  BY DEF SerialInv
<1>. QED  BY <1>1, SerialInvariance, PTL

\* Taken one at a time, the requests implement the governed lifecycle.
THEOREM LifecycleImplemented ==
  ASSUME MaxInFlight = 1
  PROVE  Spec => ImplementsLifecycle
<1>1. Init => Lifecycle!Init
  BY DEF Init, Lifecycle!Init, AbsentRow
<1>2. IInv /\ SerialInv /\ [Next]_vars => [Lifecycle!Next]_<<row.status, row.revision>>
  <2> SUFFICES ASSUME IInv, SerialInv, [Next]_vars
               PROVE  [Lifecycle!Next]_<<row.status, row.revision>>
    OBVIOUS
  <2>1. CASE row' = row
    BY <2>1
  <2>2. CASE Lawful(row, row')
    BY <2>2 DEF Lawful, Whole, Lifecycle!Next, Lifecycle!Move, Lifecycle!Begin,
       Lifecycle!Checkpoint, Lifecycle!OpenGate, Lifecycle!WholeExecution,
       Lifecycle!Fail, Lifecycle!Decide, Lifecycle!Finalize
  <2>3. CASE row.status = "absent" /\ row' = [AbsentRow EXCEPT !.status = "queued"]
    <3>1. row.revision = 0
      BY <2>3 DEF SerialInv, Settled
    <3>2. row'.status = "queued" /\ row'.revision = 0
      BY <2>3 DEF AbsentRow
    <3>. QED  BY <2>3, <3>1, <3>2 DEF Lifecycle!Next, Lifecycle!Create, Lifecycle!Move
  <2>. QED  BY <2>1, <2>2, <2>3, SerialStep
<1>. QED
  BY <1>1, <1>2, Invariance, SerialInvariance, PTL
  DEF Spec, ImplementsLifecycle, Lifecycle!Spec
=============================================================================
