------------------------ MODULE DocumentIngestProofs ------------------------
(***************************************************************************)
(* Proofs about DocumentIngest for any contents, any number of requests,   *)
(* any overlap of them and any number of crashes.  The argument: a DELETE  *)
(* that finds chunks takes all there are, so a transaction that ends with  *)
(* chunks of its own either deleted every other one or found none; if it   *)
(* missed one, ordinal 0 of that document is in its way.                   *)
(***************************************************************************)
EXTENDS DocumentIngest, TLAPS

\* A request past validation has content to ingest.
Ingesting == \A r \in Requests :
  pc[r] \in {"delete", "lock", "save", "insert"} => content[r] \in Valid

\* Whatever is stored or was read comes from finalizations that are over.
FromThePast == /\ \A c \in chunks : pc[c.by] = "done"
               /\ \A r \in Requests : \A c \in read[r] : pc[c.by] = "done"

\* A DELETE under way will meet all of the chunks there are, or none.
VisitsAllOrNone == \A r \in Requests :
  pc[r] = "lock" => read[r] \intersect chunks \in {{}, chunks}

\* Only one open transaction has deleted anything, and it deleted everything.
HoldsAll ==
  /\ \A r \in Requests : gone[r] # {} =>
       gone[r] = chunks /\ pc[r] \in {"save", "insert"}
  /\ \A r, q \in Requests : gone[r] # {} /\ gone[q] # {} => r = q

IInv == /\ TypeOK
        /\ Ingesting
        /\ FromThePast
        /\ VisitsAllOrNone
        /\ HoldsAll
        /\ WholeDocument
        /\ EvidenceBacked
        /\ ReadyServesItsContent

-----------------------------------------------------------------------------
(***************************************************************************)
(* Lemmas about the operators of a transaction.                            *)
(***************************************************************************)

\* Updating some columns of one row with those of another gives a row, with
\* the status of either (the UPDATE of a session's changed columns).
LEMMA UpdatedRow ==
  ASSUME NEW old \in Row, NEW new \in Row, NEW cols
  PROVE  /\ Updated(old, new, cols) \in Row
         /\ Updated(old, new, cols).status \in {old.status, new.status}
BY DEF Updated, Row

\* On the row it was computed for, an UPDATE of the changed columns leaves
\* exactly what the session meant to leave.
LEMMA UpdatedLoadedRow ==
  ASSUME NEW old \in Row, NEW new \in Row
  PROVE  Updated(old, new, Changed(old, new)) = new
<1>1. \A c \in Columns : c \in Changed(old, new) \/ old[c] = new[c]
  BY DEF Changed
<1>2. "status" \in Columns /\ "sha" \in Columns /\ "error" \in Columns
  BY DEF Columns
<1>. QED  BY <1>1, <1>2 DEF Updated, Row

\* What finalize_document writes is a row, READY exactly when there are chunks.
LEMMA FinalizedRow ==
  ASSUME TypeOK, NEW r \in Requests, content[r] \in Valid
  PROVE  /\ Length[content[r]] \in Nat
         /\ Finalized(r) \in Row
         /\ Finalized(r).sha = content[r]
         /\ Finalized(r).status = IF Length[content[r]] > 0 THEN "ready" ELSE "failed"
<1>1. Length[content[r]] \in Nat /\ mem[r] \in Row /\ content[r] \in Contents
  BY DocumentAssumption DEF TypeOK, Contents
<1>. QED  BY <1>1 DEF Finalized, Row

\* A row with the status FAILED is a row (the error paths of finalize).
LEMMA FailedRow ==
  ASSUME TypeOK, NEW r \in Requests
  PROVE  [mem[r] EXCEPT !.status = "failed"] \in Row
BY DEF TypeOK, Row

\* The chunks of a content are numbered from 0.
LEMMA ChunkingFacts ==
  ASSUME NEW r \in Requests, Length[content[r]] \in Nat
  PROVE  /\ Chunking(r) \subseteq Chunk
         /\ \A c \in Chunking(r) : c.by = r
         /\ Length[content[r]] > 0 => \E c \in Chunking(r) : c.ordinal = 0
         /\ Length[content[r]] = 0 => Chunking(r) = {}
<1>1. \A c \in Chunking(r) : c \in Chunk /\ c.by = r
  BY DEF Chunking, Chunk
<1>2. ASSUME Length[content[r]] > 0
      PROVE  \E c \in Chunking(r) : c.ordinal = 0
  <2>1. [by |-> r, ordinal |-> 0] \in Chunking(r)
    BY <1>2 DEF Chunking
  <2>. QED  BY <2>1
<1>3. ASSUME Length[content[r]] = 0
      PROVE  Chunking(r) = {}
  BY <1>3 DEF Chunking
<1>. QED  BY <1>1, <1>2, <1>3

\* A committing finalization replaces all the chunks, or it has none to add
\* and leaves those it never met (InsertAndCommit).
LEMMA CommitReplaces ==
  ASSUME IInv, NEW r \in Requests, InsertAndCommit(r)
  PROVE  \/ chunks' = Chunking(r) /\ gone[r] = chunks
         \/ chunks' = chunks /\ gone[r] = {} /\ Chunking(r) = {}
<1>1. /\ content[r] \in Valid
      /\ Length[content[r]] \in Nat
  BY FinalizedRow DEF IInv, Ingesting, InsertAndCommit
<1>2. CASE gone[r] = chunks
  BY <1>2 DEF InsertAndCommit
<1>3. CASE gone[r] # chunks
  <2>1. gone[r] = {} /\ chunks # {}
    BY <1>3 DEF IInv, HoldsAll
  <2>2. PICK q \in Requests : content[q] \in Valid /\ chunks = Chunking(q)
    BY <2>1 DEF IInv, WholeDocument
  <2>3. Length[content[q]] \in Nat
    BY <2>2, DocumentAssumption
  <2>4. PICK c \in chunks : c.ordinal = 0
    BY <2>1, <2>2, <2>3, ChunkingFacts
  <2>5. ~(c.ordinal < Length[content[r]])
    BY <2>1, <2>4 DEF InsertAndCommit, InTheWay
  <2>6. Chunking(r) = {}
    BY <1>1, <2>4, <2>5, ChunkingFacts
  <2>. QED  BY <2>1, <2>6 DEF InsertAndCommit
<1>. QED  BY <1>2, <1>3

\* The invariant holds before anything is uploaded.
THEOREM InitIInv == Init => IInv
<1> SUFFICES ASSUME Init PROVE IInv
  OBVIOUS
<1>1. TypeOK
  BY DEF Init, TypeOK, AbsentRow, Row, Control, None
<1>2. Ingesting /\ FromThePast /\ VisitsAllOrNone /\ HoldsAll
  BY DEF Init, Ingesting, FromThePast, VisitsAllOrNone, HoldsAll
<1>3. WholeDocument /\ EvidenceBacked /\ ReadyServesItsContent
  BY DEF Init, WholeDocument, EvidenceBacked, ReadyServesItsContent, AbsentRow
<1>. QED  BY <1>1, <1>2, <1>3 DEF IInv

-----------------------------------------------------------------------------
(***************************************************************************)
(* Every step preserves the invariant.                                     *)
(***************************************************************************)
SessionTypeOK == /\ docLock \in Requests \union {None}
                 /\ pc \in [Requests -> Control]
                 /\ mem \in [Requests -> Row]
                 /\ content \in [Requests -> Contents \union {"none"}]
                 /\ read \in [Requests -> SUBSET Chunk]
                 /\ gone \in [Requests -> SUBSET Chunk]

\* A session that ends without touching the chunks disturbs none of the parts
\* of the invariant that speak of sessions and chunks.
LEMMA LeavePreserves ==
  ASSUME IInv, NEW r \in Requests, Leave(r), chunks' = chunks
  PROVE  /\ SessionTypeOK'
         /\ Ingesting' /\ FromThePast' /\ VisitsAllOrNone' /\ HoldsAll'
         /\ WholeDocument'
<1> USE DEF IInv, Leave
<1>1. SessionTypeOK'
  BY DEF TypeOK, SessionTypeOK, Control, AbsentRow, Row
<1>2. \A q \in Requests : pc'[q] = IF q = r THEN "done" ELSE pc[q]
  BY DEF TypeOK
<1>3. \A q \in Requests : /\ gone'[q] = IF q = r THEN {} ELSE gone[q]
                          /\ read'[q] = IF q = r THEN {} ELSE read[q]
  BY DEF TypeOK
<1>4. Ingesting' /\ VisitsAllOrNone' /\ HoldsAll'
  BY <1>2, <1>3 DEF Ingesting, VisitsAllOrNone, HoldsAll
<1>5. \A q \in Requests : pc[q] = "done" => pc'[q] = "done"
  BY <1>2
<1>6. \A c \in Chunk : c.by \in Requests
  BY DEF Chunk
<1>7. \A q \in Requests : read[q] \subseteq Chunk
  BY DEF TypeOK
<1>8. FromThePast'
  BY <1>3, <1>5, <1>6, <1>7 DEF FromThePast, TypeOK
<1>9. WholeDocument'
  BY DEF WholeDocument, Chunking
<1>. QED  BY <1>1, <1>4, <1>8, <1>9

\* ReadyServesItsContent stays while the row, the chunks and the contents of
\* the finalizations that are over stay.
LEMMA ServingKept ==
  ASSUME IInv, UNCHANGED <<doc, chunks, content, overwrote>>
  PROVE  ReadyServesItsContent'
BY DEF IInv, ReadyServesItsContent

\* A handler that ends without a commit: an error response or its loss.
LEMMA RollbackPreserves ==
  ASSUME IInv, NEW r \in Requests, Leave(r), UNCHANGED <<database, overwrote>>,
         crashes' \in Nat
  PROVE  IInv'
<1>1. UNCHANGED <<doc, chunks, evidence, content, overwrote>>
  BY DEF Leave, database
<1>2. TypeOK'
  BY <1>1, LeavePreserves DEF IInv, TypeOK, SessionTypeOK
<1>3. EvidenceBacked'
  BY <1>1 DEF IInv, EvidenceBacked
<1>. QED  BY <1>1, <1>2, <1>3, LeavePreserves, ServingKept DEF IInv

\* A step inside a transaction, or before it: only the session changes.
LEMMA DatabaseKept ==
  ASSUME IInv, UNCHANGED <<database, overwrote, content>>, SessionTypeOK',
         crashes' = crashes
  PROVE  TypeOK' /\ WholeDocument' /\ EvidenceBacked' /\ ReadyServesItsContent'
<1>1. UNCHANGED <<doc, chunks, evidence>>
  BY DEF database
<1>2. TypeOK'
  BY <1>1 DEF IInv, TypeOK, SessionTypeOK
<1>3. WholeDocument' /\ EvidenceBacked'
  BY <1>1 DEF IInv, WholeDocument, EvidenceBacked, Chunking
<1>. QED  BY <1>1, <1>2, <1>3, ServingKept

LEMMA CreateUploadPreserves ==
  ASSUME IInv, CreateUpload
  PROVE  IInv'
<1> USE DEF IInv, CreateUpload, session
<1>1. TypeOK'
  BY DEF TypeOK, AbsentRow, Row
<1>2. Ingesting' /\ FromThePast' /\ VisitsAllOrNone' /\ HoldsAll'
  BY DEF Ingesting, FromThePast, VisitsAllOrNone, HoldsAll
<1>3. WholeDocument' /\ EvidenceBacked'
  BY DEF WholeDocument, EvidenceBacked, Chunking
<1>4. ReadyServesItsContent'
  BY DEF ReadyServesItsContent, AbsentRow
<1>. QED  BY <1>1, <1>2, <1>3, <1>4

LEMMA FinalizePreserves ==
  ASSUME IInv, NEW r \in Requests, Finalize(r)
  PROVE  IInv'
<1> USE DEF IInv
<1>1. /\ pc[r] = "idle"
      /\ UNCHANGED <<doc, chunks, evidence, docLock, read, gone, overwrote, crashes>>
  BY DEF Finalize, NextArrival, database
<1>2. /\ pc' \in [Requests -> Control]
      /\ pc'[r] \in {"delete", "reject"}
      /\ \A q \in Requests \ {r} : pc'[q] = pc[q]
      /\ content' \in [Requests -> Contents \union {"none"}]
      /\ pc'[r] = "delete" => content'[r] \in Valid
      /\ \A q \in Requests \ {r} : content'[q] = content[q]
  BY DEF Finalize, TypeOK, Control
<1>3. TypeOK'
  BY <1>1, <1>2 DEF TypeOK, Finalize
<1>4. Ingesting' /\ VisitsAllOrNone' /\ HoldsAll'
  BY <1>1, <1>2 DEF Ingesting, VisitsAllOrNone, HoldsAll
<1>5. \A c \in chunks : c.by \in Requests \ {r}
  BY <1>1 DEF FromThePast, TypeOK, Chunk
<1>6. \A q \in Requests : \A c \in read[q] : c.by \in Requests \ {r}
  BY <1>1 DEF FromThePast, TypeOK, Chunk
<1>7. FromThePast'
  BY <1>1, <1>2, <1>5, <1>6 DEF FromThePast
<1>8. WholeDocument'
  <2>1. SUFFICES ASSUME chunks # {}
                 PROVE  \E q \in Requests : content'[q] \in Valid /\ chunks = Chunking(q)'
    BY <1>1 DEF WholeDocument
  <2>2. PICK q \in Requests : content[q] \in Valid /\ chunks = Chunking(q)
    BY <2>1 DEF WholeDocument
  <2>3. q # r
    <3>1. Length[content[q]] \in Nat
      BY <2>2, DocumentAssumption
    <3>2. \E c \in chunks : c.by = q
      BY <2>1, <2>2, <3>1, ChunkingFacts
    <3>. QED  BY <1>5, <3>2
  <2>4. content'[q] = content[q]
    BY <1>2, <2>3
  <2>5. Chunking(q)' = Chunking(q)
    BY <2>4 DEF Chunking
  <2>. QED  BY <2>2, <2>4, <2>5
<1>9. EvidenceBacked' /\ ReadyServesItsContent'
  BY <1>1, <1>2, <1>5 DEF EvidenceBacked, ReadyServesItsContent
<1>. QED  BY <1>3, <1>4, <1>7, <1>8, <1>9

LEMMA RejectPreserves ==
  ASSUME IInv, NEW r \in Requests, Reject(r)
  PROVE  IInv'
<1> DEFINE failed == [mem[r] EXCEPT !.status = "failed"]
<1>1. /\ Leave(r) /\ CommitRow(r, failed)
      /\ UNCHANGED <<chunks, evidence, crashes>>
  BY DEF Reject
<1>2. failed \in Row /\ mem[r] \in Row /\ doc \in Row /\ failed.status = "failed"
  BY FailedRow DEF IInv, TypeOK, Row
<1>3. TypeOK'
  <2>1. doc' \in Row /\ overwrote' \in BOOLEAN
    BY <1>1, <1>2, UpdatedRow DEF CommitRow, IInv, TypeOK
  <2>. QED  BY <1>1, <2>1, LeavePreserves DEF IInv, TypeOK, SessionTypeOK
<1>4. EvidenceBacked'
  BY <1>1 DEF IInv, EvidenceBacked
<1>5. ReadyServesItsContent'
  <2>1. CASE doc = mem[r]
    <3>1. doc' = failed
      BY <1>1, <1>2, <2>1, UpdatedLoadedRow DEF CommitRow, Writes
    <3>. QED  BY <1>2, <3>1 DEF ReadyServesItsContent
  <2>2. CASE doc # mem[r]
    BY <1>1, <2>2 DEF ReadyServesItsContent, CommitRow
  <2>. QED  BY <2>1, <2>2
<1>. QED  BY <1>1, <1>3, <1>4, <1>5, LeavePreserves DEF IInv

LEMMA DeleteStartsPreserves ==
  ASSUME IInv, NEW r \in Requests, DeleteStarts(r)
  PROVE  IInv'
<1>1. /\ pc[r] = "delete"
      /\ UNCHANGED <<doc, chunks, evidence, docLock, mem, content, gone, overwrote, crashes>>
      /\ \A q \in Requests : /\ pc'[q] = IF q = r THEN "lock" ELSE pc[q]
                             /\ read'[q] = IF q = r THEN chunks ELSE read[q]
  BY DEF DeleteStarts, IInv, TypeOK, database
<1>2. SessionTypeOK'
  BY <1>1 DEF DeleteStarts, IInv, TypeOK, SessionTypeOK, Control
<1>3. Ingesting' /\ VisitsAllOrNone' /\ HoldsAll'
  BY <1>1 DEF IInv, Ingesting, VisitsAllOrNone, HoldsAll
<1>4. /\ \A c \in chunks : c.by \in Requests
      /\ \A q \in Requests : \A c \in read[q] : c.by \in Requests
  BY DEF IInv, TypeOK, Chunk
<1>5. FromThePast'
  BY <1>1, <1>4 DEF IInv, FromThePast
<1>. QED  BY <1>1, <1>2, <1>3, <1>5, DatabaseKept DEF IInv, database

LEMMA DeleteEndsPreserves ==
  ASSUME IInv, NEW r \in Requests, DeleteEnds(r)
  PROVE  IInv'
<1> DEFINE taken == read[r] \intersect chunks
<1>1. /\ pc[r] = "lock" /\ ~HeldByOther(r, read[r])
      /\ UNCHANGED <<doc, chunks, evidence, docLock, mem, content, read, overwrote, crashes>>
      /\ \A q \in Requests : /\ pc'[q] = IF q = r THEN "save" ELSE pc[q]
                             /\ gone'[q] = IF q = r THEN taken ELSE gone[q]
  BY DEF DeleteEnds, IInv, TypeOK, database, session
<1>2. SessionTypeOK'
  BY <1>1 DEF DeleteEnds, IInv, TypeOK, SessionTypeOK, Control
<1>3. Ingesting' /\ VisitsAllOrNone'
  BY <1>1 DEF IInv, Ingesting, VisitsAllOrNone
<1>4. HoldsAll'
  <2>1. taken = {} \/ taken = chunks
    BY <1>1 DEF IInv, VisitsAllOrNone
  <2>2. ASSUME taken # {}, NEW q \in Requests, q # r
        PROVE  gone[q] = {}
    <3>1. gone[q] \intersect read[r] = {}
      BY <1>1, <2>2 DEF HeldByOther
    <3>2. gone[q] = {} \/ gone[q] = chunks
      BY DEF IInv, HoldsAll
    <3>. QED  BY <2>2, <3>1, <3>2
  <2>. QED  BY <1>1, <2>1, <2>2 DEF IInv, HoldsAll
<1>5. /\ \A c \in chunks : c.by \in Requests
      /\ \A q \in Requests : \A c \in read[q] : c.by \in Requests
  BY DEF IInv, TypeOK, Chunk
<1>6. FromThePast'
  BY <1>1, <1>5 DEF IInv, FromThePast
<1>. QED  BY <1>1, <1>2, <1>3, <1>4, <1>6, DatabaseKept DEF IInv, database

LEMMA SaveRowPreserves ==
  ASSUME IInv, NEW r \in Requests, SaveRow(r)
  PROVE  IInv'
<1>1. /\ pc[r] = "save"
      /\ UNCHANGED <<doc, chunks, evidence, mem, content, read, gone, overwrote, crashes>>
      /\ \A q \in Requests : pc'[q] = IF q = r THEN "insert" ELSE pc[q]
  BY DEF SaveRow, IInv, TypeOK, database, session
<1>2. SessionTypeOK'
  BY <1>1 DEF SaveRow, IInv, TypeOK, SessionTypeOK, Control
<1>3. Ingesting' /\ VisitsAllOrNone' /\ HoldsAll'
  BY <1>1 DEF IInv, Ingesting, VisitsAllOrNone, HoldsAll
<1>4. /\ \A c \in chunks : c.by \in Requests
      /\ \A q \in Requests : \A c \in read[q] : c.by \in Requests
  BY DEF IInv, TypeOK, Chunk
<1>5. FromThePast'
  BY <1>1, <1>4 DEF IInv, FromThePast
<1>. QED  BY <1>1, <1>2, <1>3, <1>5, DatabaseKept DEF IInv, database

LEMMA LoadForEvidencePreserves ==
  ASSUME IInv, NEW r \in Requests, LoadForEvidence(r)
  PROVE  IInv'
<1>1. PICK c \in chunks : read' = [read EXCEPT ![r] = {c}]
  BY DEF LoadForEvidence
<1>2. /\ pc[r] = "idle"
      /\ UNCHANGED <<doc, chunks, evidence, docLock, mem, content, gone, overwrote, crashes>>
      /\ \A q \in Requests : /\ pc'[q] = IF q = r THEN "cite" ELSE pc[q]
                             /\ read'[q] = IF q = r THEN {c} ELSE read[q]
  BY <1>1 DEF LoadForEvidence, NextArrival, IInv, TypeOK, database
<1>3. SessionTypeOK'
  BY <1>1, <1>2 DEF LoadForEvidence, IInv, TypeOK, SessionTypeOK, Control
<1>4. Ingesting' /\ VisitsAllOrNone' /\ HoldsAll'
  BY <1>2 DEF IInv, Ingesting, VisitsAllOrNone, HoldsAll
<1>5. /\ \A b \in chunks : b.by \in Requests
      /\ \A q \in Requests : \A b \in read[q] : b.by \in Requests
  BY DEF IInv, TypeOK, Chunk
<1>6. FromThePast'
  BY <1>2, <1>5 DEF IInv, FromThePast
<1>. QED  BY <1>2, <1>3, <1>4, <1>6, DatabaseKept DEF IInv, database

\* Attaching evidence to a chunk that is there, and taking evidence away.
LEMMA EvidencePreserves ==
  ASSUME IInv, NEW r \in Requests, AddEvidence(r) \/ RemoveEvidence(r)
  PROVE  IInv'
<1>1. Leave(r) /\ UNCHANGED <<doc, chunks, overwrote, crashes>>
  BY DEF AddEvidence, RemoveEvidence
<1>2. evidence' \subseteq chunks'
  BY <1>1 DEF AddEvidence, RemoveEvidence, IInv, EvidenceBacked
<1>3. TypeOK'
  BY <1>1, <1>2, LeavePreserves DEF IInv, TypeOK, SessionTypeOK
<1>4. ReadyServesItsContent'
  BY <1>1, ServingKept DEF Leave
<1>. QED  BY <1>1, <1>2, <1>3, <1>4, LeavePreserves DEF IInv, EvidenceBacked

\* The commit of a finalization: the only step that changes the chunks.
LEMMA CommitPreserves ==
  ASSUME IInv, NEW r \in Requests, InsertAndCommit(r)
  PROVE  IInv'
<1>1. /\ pc[r] = "insert" /\ content[r] \in Valid /\ Length[content[r]] \in Nat
      /\ Leave(r) /\ CommitRow(r, Finalized(r))
      /\ evidence' = evidence \ gone[r] /\ crashes' = crashes /\ content' = content
  BY DocumentAssumption DEF InsertAndCommit, IInv, Ingesting, Leave
<1>2. /\ Finalized(r) \in Row /\ mem[r] \in Row
      /\ Finalized(r).sha = content[r]
      /\ Finalized(r).status = IF Length[content[r]] > 0 THEN "ready" ELSE "failed"
  BY <1>1, FinalizedRow DEF IInv, TypeOK
<1>3. doc' \in Row /\ overwrote' \in BOOLEAN
  BY <1>1, <1>2, UpdatedRow DEF CommitRow, IInv, TypeOK
<1>4. doc = mem[r] => doc' = Finalized(r)
  BY <1>1, <1>2, UpdatedLoadedRow DEF CommitRow, Writes
<1>5. doc # mem[r] => overwrote'
  BY <1>1 DEF CommitRow
<1>6. CASE chunks' = chunks /\ gone[r] = {} /\ Chunking(r) = {}
  <2>1. evidence' = evidence
    BY <1>1, <1>6
  <2>2. TypeOK'
    BY <1>1, <1>3, <1>6, <2>1, LeavePreserves DEF IInv, TypeOK, SessionTypeOK
  <2>3. Finalized(r).status = "failed"
    BY <1>1, <1>2, <1>6, ChunkingFacts
  <2>4. ReadyServesItsContent'
    BY <1>4, <1>5, <2>3 DEF ReadyServesItsContent
  <2>. QED  BY <1>1, <1>6, <2>1, <2>2, <2>4, LeavePreserves DEF IInv, EvidenceBacked
<1>7. CASE chunks' = Chunking(r) /\ gone[r] = chunks
  <2>1. /\ \A q \in Requests : pc'[q] = IF q = r THEN "done" ELSE pc[q]
        /\ \A q \in Requests : /\ gone'[q] = IF q = r THEN {} ELSE gone[q]
                               /\ read'[q] = IF q = r THEN {} ELSE read[q]
    BY <1>1 DEF Leave, IInv, TypeOK
  <2>2. /\ chunks' \subseteq Chunk
        /\ \A c \in chunks' : c.by = r
        /\ Length[content[r]] > 0 => chunks' # {}
    BY <1>1, <1>7, ChunkingFacts
  <2>3. evidence' = {}
    BY <1>1, <1>7 DEF IInv, EvidenceBacked
  <2>4. TypeOK'
    BY <1>1, <1>3, <2>2, <2>3 DEF IInv, TypeOK, Leave, Control, AbsentRow, Row
  <2>5. Ingesting'
    BY <1>1, <2>1 DEF IInv, Ingesting
  <2>6. \A q \in Requests : \A c \in read[q] : c.by \in Requests
    BY DEF IInv, TypeOK, Chunk
  <2>7. FromThePast'
    BY <2>1, <2>2, <2>6 DEF IInv, FromThePast
  <2>8. VisitsAllOrNone'
    <3>1. ASSUME NEW q \in Requests
          PROVE  read'[q] \intersect chunks' = {}
      <4>1. pc[r] # "done"
        BY <1>1
      <4>2. \A c \in read[q] : c.by # r
        BY <4>1 DEF IInv, FromThePast
      <4>. QED  BY <2>1, <2>2, <4>2
    <3>. QED  BY <3>1 DEF VisitsAllOrNone
  <2>9. HoldsAll'
    <3>1. \A q \in Requests : gone'[q] = {}
      BY <1>7, <2>1 DEF IInv, HoldsAll
    <3>. QED  BY <3>1 DEF HoldsAll
  <2>10. WholeDocument'
    <3>1. Chunking(r)' = Chunking(r)
      BY <1>1 DEF Chunking
    <3>. QED  BY <1>1, <1>7, <3>1 DEF WholeDocument
  <2>11. EvidenceBacked'
    BY <2>3 DEF EvidenceBacked
  <2>12. ReadyServesItsContent'
    <3>1. doc = mem[r] /\ doc'.status = "ready" =>
            Length[content[r]] > 0 /\ doc'.sha = content[r]
      BY <1>2, <1>4
    <3>. QED  BY <1>1, <1>5, <2>2, <3>1 DEF ReadyServesItsContent
  <2>. QED  BY <2>4, <2>5, <2>7, <2>8, <2>9, <2>10, <2>11, <2>12 DEF IInv
<1>. QED  BY <1>6, <1>7, CommitReplaces

-----------------------------------------------------------------------------
(***************************************************************************)
(* The invariant, and what follows from it.                                *)
(***************************************************************************)

\* No step of any request leads out of the invariant.
THEOREM StepPreserves == IInv /\ [Next]_vars => IInv'
<1> SUFFICES ASSUME IInv, [Next]_vars PROVE IInv'
  OBVIOUS
<1>1. CASE CreateUpload
  BY <1>1, CreateUploadPreserves
<1>2. ASSUME NEW r \in Requests, Arrive(r)
      PROVE  IInv'
  <2>1. CASE Finalize(r)
    BY <2>1, FinalizePreserves
  <2>2. CASE Refuse(r)
    <3>1. Leave(r) /\ UNCHANGED <<database, overwrote>> /\ crashes' \in Nat
      BY <2>2 DEF Refuse, Rollback, database, IInv, TypeOK
    <3>. QED  BY <3>1, RollbackPreserves
  <2>3. CASE LoadForEvidence(r)
    BY <2>3, LoadForEvidencePreserves
  <2>4. CASE RemoveEvidence(r)
    BY <2>4, EvidencePreserves
  <2>. QED  BY <1>2, <2>1, <2>2, <2>3, <2>4 DEF Arrive
<1>3. ASSUME NEW r \in Requests, Step(r)
      PROVE  IInv'
  <2>1. CASE Reject(r)
    BY <2>1, RejectPreserves
  <2>2. CASE DeleteStarts(r)
    BY <2>2, DeleteStartsPreserves
  <2>3. CASE DeleteEnds(r)
    BY <2>3, DeleteEndsPreserves
  <2>4. CASE SaveRow(r)
    BY <2>4, SaveRowPreserves
  <2>5. CASE InsertAndCommit(r)
    BY <2>5, CommitPreserves
  <2>6. CASE InsertConflicts(r) \/ DeadlockBroken(r)
    <3>1. Leave(r) /\ UNCHANGED <<database, overwrote>> /\ crashes' \in Nat
      BY <2>6 DEF InsertConflicts, DeadlockBroken, Rollback, database, IInv, TypeOK
    <3>. QED  BY <3>1, RollbackPreserves
  <2>7. CASE AddEvidence(r)
    BY <2>7, EvidencePreserves
  <2>. QED  BY <1>3, <2>1, <2>2, <2>3, <2>4, <2>5, <2>6, <2>7 DEF Step
<1>4. ASSUME NEW r \in Requests, Crash(r)
      PROVE  IInv'
  <2>1. Leave(r) /\ UNCHANGED <<database, overwrote>> /\ crashes' \in Nat
    BY <1>4 DEF Crash, database, IInv, TypeOK
  <2>. QED  BY <2>1, RollbackPreserves
<1>5. CASE UNCHANGED vars
  <2> USE <1>5 DEF vars, database, session, IInv
  <2>1. TypeOK' /\ Ingesting' /\ FromThePast'
    BY DEF TypeOK, Ingesting, FromThePast
  <2>2. VisitsAllOrNone' /\ HoldsAll'
    BY DEF VisitsAllOrNone, HoldsAll
  <2>3. WholeDocument' /\ EvidenceBacked' /\ ReadyServesItsContent'
    BY DEF WholeDocument, EvidenceBacked, ReadyServesItsContent, Chunking
  <2>. QED  BY <2>1, <2>2, <2>3
<1>. QED  BY <1>1, <1>2, <1>3, <1>4, <1>5 DEF Next

\* The invariant holds in every reachable state.
THEOREM Invariance == Spec => []IInv
<1>. QED  BY InitIInv, StepPreserves, PTL DEF Spec

\* Rows, chunks and sessions keep their types.
THEOREM DocumentTypeCorrect == Spec => []TypeOK
<1>1. IInv => TypeOK
  BY DEF IInv
<1>. QED  BY <1>1, Invariance, PTL

\* The chunks of two finalizations are never mixed and never incomplete.
THEOREM ChunksWhole == Spec => []WholeDocument
<1>1. IInv => WholeDocument
  BY DEF IInv
<1>. QED  BY <1>1, Invariance, PTL

\* Evidence always cites a chunk that exists.
THEOREM EvidenceNeverDangles == Spec => []EvidenceBacked
<1>1. IInv => EvidenceBacked
  BY DEF IInv
<1>. QED  BY <1>1, Invariance, PTL

\* While no request has committed over a row it had not loaded, a READY
\* document serves the chunks of the content whose hash it shows.
THEOREM ReadyIsServed == Spec => []ReadyServesItsContent
<1>1. IInv => ReadyServesItsContent
  BY DEF IInv
<1>. QED  BY <1>1, Invariance, PTL

-----------------------------------------------------------------------------
(***************************************************************************)
(* DocumentIngest implements SearchIndex.                                  *)
(***************************************************************************)
Finished == {r \in Requests : pc[r] = "done"}

\* A step that leaves the chunks and does not make the row READY: search keeps
\* what it served, or loses it.
LEMMA NotPublished ==
  ASSUME chunks' = chunks, doc'.status = "ready" => doc.status = "ready"
  PROVE  Index!WithdrawOrKeep
BY DEF Searched, Index!WithdrawOrKeep

\* Nothing is served before anything is uploaded, and nobody has finished.
LEMMA IndexInit == Init => Index!Init
BY DEF Init, Index!Init, Searched, AbsentRow

\* A request that is over stays over.
LEMMA FinishedGrows ==
  ASSUME IInv, [Next]_vars
  PROVE  Finished \subseteq Finished'
<1> SUFFICES ASSUME NEW q \in Requests, pc[q] = "done" PROVE pc'[q] = "done"
  BY DEF Finished
<1>1. pc \in [Requests -> Control]
  BY DEF IInv, TypeOK
<1>2. CASE CreateUpload \/ UNCHANGED vars
  BY <1>2 DEF CreateUpload, vars
<1>3. ASSUME NEW r \in Requests, Arrive(r) \/ Step(r) \/ Crash(r)
      PROVE  pc'[q] = "done"
  <2>1. CASE Leave(r)
    BY <1>1, <2>1 DEF Leave
  <2>2. CASE ~Leave(r)
    <3>1. pc[r] # "done" /\ \E p \in Control : pc' = [pc EXCEPT ![r] = p]
      BY <1>3, <2>2 DEF Arrive, Step, Crash, Finalize, Refuse, LoadForEvidence,
         RemoveEvidence, Reject, DeleteStarts, DeleteEnds, SaveRow, InsertAndCommit,
         InsertConflicts, DeadlockBroken, AddEvidence, Rollback, NextArrival, Control
    <3>. QED  BY <1>1, <3>1
  <2>. QED  BY <2>1, <2>2
<1>. QED  BY <1>2, <1>3 DEF Next

\* The commit of a finalization publishes its chunks, or none.
LEMMA CommitPublishes ==
  ASSUME IInv, NEW r \in Requests, InsertAndCommit(r)
  PROVE  Index!WithdrawOrKeep \/ \E f \in Requests : Index!Publish(f)
<1>1. /\ content[r] \in Valid /\ Length[content[r]] \in Nat
      /\ pc[r] = "insert" /\ pc' = [pc EXCEPT ![r] = "done"]
  BY DocumentAssumption DEF InsertAndCommit, IInv, Ingesting, Leave
<1>2. CASE chunks' = chunks /\ Chunking(r) = {}
  <2>1. Finalized(r).status = "failed" /\ Finalized(r) \in Row
    BY <1>1, <1>2, ChunkingFacts, FinalizedRow DEF IInv
  <2>2. doc'.status \in {doc.status, "failed"}
    BY <2>1, UpdatedRow DEF InsertAndCommit, CommitRow, IInv, TypeOK
  <2>. QED  BY <1>2, <2>2, NotPublished
<1>3. CASE chunks' = Chunking(r)
  <2>1. Searched' = {} \/ Searched' = {r}
    BY <1>1, <1>3, ChunkingFacts DEF Searched
  <2>2. r \notin Finished /\ r \in Finished'
    BY <1>1 DEF Finished, IInv, TypeOK
  <2>. QED  BY <2>1, <2>2 DEF Index!WithdrawOrKeep, Index!Publish, Finished
<1>. QED  BY <1>2, <1>3, CommitReplaces

\* Every step is a step of the index or leaves it as it was.
LEMMA IndexStep ==
  ASSUME IInv, [Next]_vars
  PROVE  Index!WithdrawOrKeep \/ \E f \in Requests : Index!Publish(f)
<1>1. CASE UNCHANGED <<doc, chunks>>
  BY <1>1, NotPublished
<1>2. CASE CreateUpload
  BY <1>2, NotPublished DEF CreateUpload, AbsentRow
<1>3. ASSUME NEW r \in Requests, Reject(r)
      PROVE  Index!WithdrawOrKeep
  <2>1. doc'.status \in {doc.status, "failed"}
    <3>1. [mem[r] EXCEPT !.status = "failed"].status = "failed"
      BY DEF IInv, TypeOK, Row
    <3>. QED  BY <1>3, <3>1, FailedRow, UpdatedRow DEF Reject, CommitRow, IInv, TypeOK
  <2>. QED  BY <1>3, <2>1, NotPublished DEF Reject
<1>4. ASSUME NEW r \in Requests, InsertAndCommit(r)
      PROVE  Index!WithdrawOrKeep \/ \E f \in Requests : Index!Publish(f)
  BY <1>4, CommitPublishes
<1>5. \/ UNCHANGED <<doc, chunks>> \/ CreateUpload
      \/ \E r \in Requests : Reject(r) \/ InsertAndCommit(r)
  BY DEF Next, vars, database, Arrive, Step, Crash, Finalize, Refuse, LoadForEvidence,
     RemoveEvidence, DeleteStarts, DeleteEnds, SaveRow, InsertConflicts,
     DeadlockBroken, AddEvidence, Rollback
<1>. QED  BY <1>1, <1>2, <1>3, <1>4, <1>5

\* What search serves goes from one whole finalization to another or to
\* nothing, and a new one appears at the commit that ends it.
THEOREM SearchIndexImplemented == Spec => ImplementsSearchIndex
<1>1. IInv /\ [Next]_vars => [Index!Next]_<<Searched, Finished>>
  BY FinishedGrows, IndexStep DEF Index!Next, Finished
<1>. QED  BY <1>1, IndexInit, Invariance, PTL
          DEF Spec, ImplementsSearchIndex, Index!Spec, Finished
=============================================================================
