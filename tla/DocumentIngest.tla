--------------------------- MODULE DocumentIngest ---------------------------
(***************************************************************************)
(* One uploaded document (app/api/documents.py, app/retrieval/documents.py)*)
(* and the evidence that cites it (app/api/interventions.py): finalize     *)
(* replaces the document's chunks, search serves those of a READY row,     *)
(* evidence points at a chunk and goes with it.                            *)
(*                                                                         *)
(* As in AgentRuns a session writes only the columns that differ from the  *)
(* row it loaded.  PostgreSQL runs READ COMMITTED: a DELETE fixes the rows *)
(* it will visit when it starts, and waits for each one that another       *)
(* transaction has deleted but not committed; an INSERT waits for such a   *)
(* row when it holds the same unique key.                                  *)
(***************************************************************************)
EXTENDS Integers, FiniteSets

CONSTANTS
  Valid,        \* contents that pass the checks of the upload
  Invalid,      \* contents that raise ValueError: empty, binary, too large
  Length,       \* Length[c]: how many chunks the valid content c gives
  MaxRequests,  \* bound: finalize and evidence requests
  MaxInFlight,  \* bound: requests handled at the same time
  MaxCrashes    \* bound: handlers lost before they finish

ASSUME DocumentAssumption ==
  /\ Length \in [Valid -> Nat] /\ Valid \intersect Invalid = {}
  /\ MaxRequests \in Nat /\ MaxInFlight \in Nat /\ MaxCrashes \in Nat

Requests == 1..MaxRequests
None     == 0
Contents == Valid \union Invalid

\* sha256 stands for the content it is the hash of; error is the key "error"
\* of the row's metadata.
Columns   == {"status", "sha", "error"}
Row       == [status : {"absent", "pending", "ready", "failed"},
              sha : Contents \union {"pending"}, error : BOOLEAN]
AbsentRow == [status |-> "absent", sha |-> "pending", error |-> FALSE]

\* A chunk has a fresh id: it is named by its finalization and its ordinal.
Chunk == [by : Requests, ordinal : Nat]

VARIABLES
  doc,        \* the committed documents row
  chunks,     \* the committed document_chunks rows
  evidence,   \* the chunks that committed intervention_evidence rows cite
  docLock,    \* the request whose transaction has updated the documents row
  pc,         \* what each request does next
  mem,        \* the row each session loaded
  content,    \* the content each request finalizes
  read,       \* the chunks a request's DELETE visits, or the one it will cite
  gone,       \* the chunks its open transaction has deleted
  overwrote,  \* history: did a request commit over a row it had not loaded?
  crashes     \* handlers lost so far

database == <<doc, chunks, evidence>>
session  == <<mem, content, read>>
vars     == <<database, docLock, pc, session, gone, overwrote, crashes>>

Control == {"idle", "delete", "lock", "save", "insert", "reject", "cite", "done"}

TypeOK ==
  /\ doc \in Row
  /\ chunks \subseteq Chunk /\ evidence \subseteq Chunk
  /\ docLock \in Requests \union {None}
  /\ pc \in [Requests -> Control]
  /\ mem \in [Requests -> Row]
  /\ content \in [Requests -> Contents \union {"none"}]
  /\ read \in [Requests -> SUBSET Chunk]
  /\ gone \in [Requests -> SUBSET Chunk]
  /\ overwrote \in BOOLEAN /\ crashes \in Nat

Init ==
  /\ doc = AbsentRow /\ chunks = {} /\ evidence = {}
  /\ docLock = None
  /\ pc = [r \in Requests |-> "idle"]
  /\ mem = [r \in Requests |-> AbsentRow]
  /\ content = [r \in Requests |-> "none"]
  /\ read = [r \in Requests |-> {}]
  /\ gone = [r \in Requests |-> {}]
  /\ overwrote = FALSE /\ crashes = 0

-----------------------------------------------------------------------------
(***************************************************************************)
(* Requests and transactions.                                              *)
(***************************************************************************)
InFlight == {r \in Requests : pc[r] \notin {"idle", "done"}}

NextArrival(r) == /\ pc[r] = "idle" /\ doc.status # "absent"
                  /\ \A q \in 1..(r - 1) : pc[q] # "idle"
                  /\ Cardinality(InFlight) < MaxInFlight

Changed(old, new) == {c \in Columns : old[c] # new[c]}

\* The row after an UPDATE of cols with the values in new.
Updated(old, new, cols) ==
  [status |-> IF "status" \in cols THEN new.status ELSE old.status,
   sha    |-> IF "sha"    \in cols THEN new.sha    ELSE old.sha,
   error  |-> IF "error"  \in cols THEN new.error  ELSE old.error]

\* Do the chunks in s include one that another open transaction deleted?
HeldByOther(r, s) == \E q \in Requests \ {r} : gone[q] \intersect s # {}

\* The session of r ends: its locks go, and with them what it had read.
Leave(r) == /\ pc' = [pc EXCEPT ![r] = "done"]
            /\ gone' = [gone EXCEPT ![r] = {}]
            /\ docLock' = IF docLock = r THEN None ELSE docLock
            /\ mem' = [mem EXCEPT ![r] = AbsentRow]
            /\ read' = [read EXCEPT ![r] = {}]
            /\ UNCHANGED content

\* An error response: PostgreSQL rolls the open transaction back.
Rollback(r) == Leave(r) /\ UNCHANGED <<database, overwrote, crashes>>

-----------------------------------------------------------------------------
(***************************************************************************)
(* create_upload and finalize.                                             *)
(***************************************************************************)
CreateUpload ==
  /\ doc.status = "absent"
  /\ doc' = [AbsentRow EXCEPT !.status = "pending"]
  /\ UNCHANGED <<chunks, evidence, docLock, pc, session, gone, overwrote, crashes>>

\* session.get, then the body's text or the object the client has put in S3
\* meanwhile, then prepare_upload: a failed fetch or a ValueError leads to
\* FAILED, and none of them can come after the DELETE.
Finalize(r) ==
  /\ NextArrival(r)
  /\ mem' = [mem EXCEPT ![r] = doc]
  /\ \/ \E c \in Contents :
          /\ content' = [content EXCEPT ![r] = c]
          /\ pc' = [pc EXCEPT ![r] = IF c \in Valid THEN "delete" ELSE "reject"]
     \/ /\ pc' = [pc EXCEPT ![r] = "reject"]
        /\ UNCHANGED content
  /\ UNCHANGED <<database, docLock, read, gone, overwrote, crashes>>

\* Unknown document, intervention or chunk, another organization, no bucket.
Refuse(r) == NextArrival(r) /\ Rollback(r)

\* The columns r writes, given the row it means to leave behind.
Writes(r, new) == Changed(mem[r], new)
CommitRow(r, new) == /\ doc' = Updated(doc, new, Writes(r, new))
                     /\ overwrote' = (overwrote \/ doc # mem[r])

\* A failed fetch or validation: status FAILED in a transaction of its own.
Reject(r) ==
  LET new == [mem[r] EXCEPT !.status = "failed"] IN
  /\ pc[r] = "reject"
  /\ Writes(r, new) # {} => docLock = None
  /\ CommitRow(r, new)
  /\ Leave(r)
  /\ UNCHANGED <<chunks, evidence, crashes>>

\* DELETE FROM document_chunks: its snapshot, then the row locks.
DeleteStarts(r) ==
  /\ pc[r] = "delete"
  /\ read' = [read EXCEPT ![r] = chunks]
  /\ pc' = [pc EXCEPT ![r] = "lock"]
  /\ UNCHANGED <<database, docLock, mem, content, gone, overwrote, crashes>>

DeleteEnds(r) ==
  /\ pc[r] = "lock" /\ ~HeldByOther(r, read[r])
  /\ gone' = [gone EXCEPT ![r] = read[r] \intersect chunks]
  /\ pc' = [pc EXCEPT ![r] = "save"]
  /\ UNCHANGED <<database, docLock, session, overwrote, crashes>>

\* Mutant: a status the column does not know.
Processed(r) == [mem[r] EXCEPT !.sha = content[r], !.status = "processed"]

\* Mutant: a document is ready as soon as its content has been read.
AlwaysReady(r) == [mem[r] EXCEPT !.sha = content[r], !.status = "ready"]

\* What finalize_document makes of the row it was given.
Finalized(r) ==
  IF Length[content[r]] > 0
  THEN [mem[r] EXCEPT !.sha = content[r], !.status = "ready"]
  ELSE [mem[r] EXCEPT !.sha = content[r], !.status = "failed", !.error = TRUE]

\* The flush before COMMIT: first the UPDATE of the documents row ...
SaveRow(r) ==
  LET cols == Writes(r, Finalized(r)) IN
  /\ pc[r] = "save"
  /\ cols # {} => docLock = None
  /\ docLock' = IF cols # {} THEN r ELSE docLock
  /\ pc' = [pc EXCEPT ![r] = "insert"]
  /\ UNCHANGED <<database, session, gone, overwrote, crashes>>

\* ... then the INSERT of the chunks, numbered from 0.
Chunking(r) == {[by |-> r, ordinal |-> k] : k \in 0..(Length[content[r]] - 1)}

\* Mutant: (document_id, ordinal) is not unique.
NothingInTheWay(r) == {}

\* The rows that hold an ordinal r inserts: (document_id, ordinal) is unique.
InTheWay(r) == {c \in chunks \ gone[r] : c.ordinal < Length[content[r]]}

\* Mutant: evidence does not go with the chunk it cites.
CommitOrphaning(r) ==
  /\ pc[r] = "insert" /\ InTheWay(r) = {}
  /\ CommitRow(r, Finalized(r))
  /\ chunks' = (chunks \ gone[r]) \union Chunking(r)
  /\ Leave(r)
  /\ UNCHANGED <<evidence, crashes>>

\* Mutant: the status is committed, and the chunks follow later.
CommitStatusFirst(r) ==
  /\ pc[r] = "insert" /\ InTheWay(r) = {}
  /\ IF doc.status # Finalized(r).status
     THEN /\ CommitRow(r, Finalized(r))
          /\ mem' = [mem EXCEPT ![r] = Finalized(r)]
          /\ UNCHANGED <<chunks, evidence, docLock, pc, read, content, gone, crashes>>
     ELSE /\ CommitRow(r, Finalized(r))
          /\ chunks' = (chunks \ gone[r]) \union Chunking(r)
          /\ evidence' = evidence \ gone[r]
          /\ Leave(r)
          /\ UNCHANGED crashes

\* COMMIT: evidence of the deleted chunks goes with them (ON DELETE CASCADE).
InsertAndCommit(r) ==
  /\ pc[r] = "insert" /\ InTheWay(r) = {}
  /\ CommitRow(r, Finalized(r))
  /\ chunks' = (chunks \ gone[r]) \union Chunking(r)
  /\ evidence' = evidence \ gone[r]
  /\ Leave(r)
  /\ UNCHANGED crashes

\* Mutant: the failed session is never closed.
ConflictLeaksSession(r) ==
  /\ pc[r] = "insert" /\ InTheWay(r) # {} /\ ~HeldByOther(r, InTheWay(r))
  /\ pc' = [pc EXCEPT ![r] = "done"]
  /\ UNCHANGED <<database, docLock, session, gone, overwrote, crashes>>

\* IntegrityError: another finalization's chunks are there for good.
InsertConflicts(r) ==
  /\ pc[r] = "insert" /\ InTheWay(r) # {} /\ ~HeldByOther(r, InTheWay(r))
  /\ Rollback(r)

\* r has updated the row and waits for a chunk that q deleted, while q waits
\* for the row.
WaitCycle(r, q) ==
  /\ pc[r] = "insert" /\ docLock = r /\ gone[q] \intersect InTheWay(r) # {}
  /\ pc[q] = "save" /\ Writes(q, Finalized(q)) # {}

\* PostgreSQL's deadlock detector aborts one of the two.
DeadlockBroken(r) ==
  /\ \E q \in Requests \ {r} : WaitCycle(r, q) \/ WaitCycle(q, r)
  /\ Rollback(r)

-----------------------------------------------------------------------------
(***************************************************************************)
(* add_evidence and remove_evidence.                                       *)
(***************************************************************************)

\* The three session.get: the chunk is there when it is looked up.
LoadForEvidence(r) ==
  /\ NextArrival(r)
  /\ \E c \in chunks : read' = [read EXCEPT ![r] = {c}]
  /\ pc' = [pc EXCEPT ![r] = "cite"]
  /\ UNCHANGED <<database, docLock, mem, content, gone, overwrote, crashes>>

\* The INSERT: a chunk that went meanwhile (foreign key) or is cited already
\* (unique key) is an IntegrityError; one that is being deleted is waited for.
AddEvidence(r) ==
  /\ pc[r] = "cite" /\ ~HeldByOther(r, read[r])
  /\ evidence' = evidence \union (read[r] \intersect chunks)
  /\ Leave(r)
  /\ UNCHANGED <<doc, chunks, overwrote, crashes>>

RemoveEvidence(r) ==
  /\ NextArrival(r)
  /\ \E c \in evidence : evidence' = evidence \ {c}
  /\ Leave(r)
  /\ UNCHANGED <<doc, chunks, overwrote, crashes>>

-----------------------------------------------------------------------------
\* The process or its connection is lost: the open transaction rolls back.
Crash(r) ==
  /\ r \in InFlight /\ crashes < MaxCrashes
  /\ crashes' = crashes + 1
  /\ Leave(r)
  /\ UNCHANGED <<database, overwrote>>

Arrive(r) == Finalize(r) \/ Refuse(r) \/ LoadForEvidence(r) \/ RemoveEvidence(r)

Step(r) == \/ Reject(r) \/ DeleteStarts(r) \/ DeleteEnds(r) \/ SaveRow(r)
           \/ InsertAndCommit(r) \/ InsertConflicts(r) \/ DeadlockBroken(r)
           \/ AddEvidence(r)

Next == \/ CreateUpload
        \/ \E r \in Requests : Arrive(r) \/ Step(r) \/ Crash(r)

Spec == Init /\ [][Next]_vars

\* The event loop resumes every handler, and PostgreSQL grants released locks
\* and breaks deadlocks: no client is obliged to send anything.
Fairness == \A r \in Requests : WF_vars(Step(r))
FairSpec == Spec /\ Fairness

-----------------------------------------------------------------------------
(***************************************************************************)
(* Properties.                                                             *)
(***************************************************************************)

\* The committed chunks are the whole chunking of one finalization: however
\* finalizations overlap, fail or are lost, the chunks of two are never mixed
\* and never incomplete (finalize_document's DELETE and INSERTs).
WholeDocument ==
  chunks # {} => \E r \in Requests : content[r] \in Valid /\ chunks = Chunking(r)

\* Evidence always cites a chunk that exists, although a finalization may
\* replace the chunks between add_evidence's look-up and its INSERT.
EvidenceBacked == evidence \subseteq chunks

\* As long as no request has committed over a row other than the one it had
\* loaded, a READY document has chunks, and they are those of the content
\* whose hash it shows (search and list_documents agree).
ReadyServesItsContent ==
  ~overwrote /\ doc.status = "ready" =>
    chunks # {} /\ \A c \in chunks : content[c.by] = doc.sha

\* Search sees a document change from one whole finalization to another or to
\* nothing, and a new one at the very commit that ends it (HybridRetriever
\* filters on status READY in the SELECT that reads the chunks).
Searched == IF doc.status = "ready" THEN {c.by : c \in chunks} ELSE {}
Index == INSTANCE SearchIndex WITH Finalizations <- Requests,
                                   served <- Searched,
                                   finished <- {r \in Requests : pc[r] = "done"}
ImplementsSearchIndex == Index!Spec

\* Every request that is being handled ends: lock waits, unique-key waits and
\* the deadlocks among them are all resolved.
RequestsEnd == \A r \in Requests : r \in InFlight ~> r \notin InFlight
=============================================================================
