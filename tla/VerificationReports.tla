------------------------- MODULE VerificationReports -------------------------
(***************************************************************************)
(* Verification runs of one organization and their report artifacts        *)
(* (app/api/verification.py, app/services/reports.py): equal requests are  *)
(* one run by their idempotency hash, and the report of a run is an S3     *)
(* object whose key is saved in the row after the object was written.      *)
(* Each handler's steps interleave with the others'; PostgreSQL and S3 are *)
(* two stores, and a handler may be lost between its writes to them.       *)
(***************************************************************************)
EXTENDS Verification, FiniteSets

CONSTANTS
  Projects,     \* the organization's projects
  Portfolios,   \* its portfolio runs, each with its project, if it has one
  Bodies,       \* bound: the request bodies clients send
  WriteOutcomes,\* what put_object and the configuration may do
  MaxRequests,  \* bound: requests
  MaxInFlight,  \* bound: requests handled at the same time
  MaxCrashes    \* bound: handlers lost before they finish

\* Infinite measurements pass the schema and fail the calculation.
Body == [project : Projects \union {"none", "foreign"},
         portfolio : DOMAIN Portfolios \union {"none", "foreign"},
         data : Data, finite : BOOLEAN]

\* disabled: no bucket is set; caught: an exception the handler of POST
\* /verifications swallows; escaped: a botocore error, which it does not;
\* unanswered: the object was stored and the answer to put_object was lost.
Outcomes == {"stored", "disabled", "caught", "escaped", "unanswered"}

ASSUME ReportsAssumption ==
  /\ Portfolios \in [DOMAIN Portfolios -> Projects \union {"none"}]
  /\ {"none", "foreign"} \intersect (Projects \union DOMAIN Portfolios) = {}
  /\ Bodies \subseteq Body /\ WriteOutcomes \subseteq Outcomes
  /\ MaxRequests \in Nat /\ MaxInFlight \in Nat /\ MaxCrashes \in Nat

Requests == 1..MaxRequests
None     == 0

\* A run is named by the request that inserted it.
Results == {CalculateVerification(b.data) : b \in Bodies}
Run     == [body : Bodies, result : Results, reportKey : BOOLEAN]
NoRun   == [reportKey |-> FALSE]
Answer  == [run : Requests, reportKey : BOOLEAN]
Error   == [run |-> None, reportKey |-> FALSE]

VARIABLES
  runs,     \* the committed verification_runs rows
  objects,  \* the result in the S3 object of each run
  pc,       \* what each request does next
  body,     \* the body of each POST /verifications being handled
  target,   \* the run a request writes a report for
  answer,   \* what each client was told
  crashes   \* handlers lost so far

stores == <<runs, objects>>
vars   == <<stores, pc, body, target, answer, crashes>>

Control == {"idle", "insert", "write", "save", "done"}
NoBody  == [finite |-> FALSE]
NoResult == [metExpectation |-> FALSE]

TypeOK ==
  /\ runs \in [Requests -> Run \union {NoRun}]
  /\ objects \in [Requests -> Results \union {NoResult}]
  /\ pc \in [Requests -> Control]
  /\ body \in [Requests -> Bodies \union {NoBody}]
  /\ target \in [Requests -> Requests \union {None}]
  /\ answer \in [Requests -> Answer \union {Error}]
  /\ crashes \in Nat

Init ==
  /\ runs = [r \in Requests |-> NoRun]
  /\ objects = [r \in Requests |-> NoResult]
  /\ pc = [r \in Requests |-> "idle"]
  /\ body = [r \in Requests |-> NoBody]
  /\ target = [r \in Requests |-> None]
  /\ answer = [r \in Requests |-> Error]
  /\ crashes = 0

-----------------------------------------------------------------------------
InFlight == {r \in Requests : pc[r] \notin {"idle", "done"}}

NextArrival(r) == /\ pc[r] = "idle"
                  /\ \A q \in 1..(r - 1) : pc[q] # "idle"
                  /\ Cardinality(InFlight) < MaxInFlight

\* The handler returns or raises; what it told its client is final.
Reply(r, a) == /\ pc' = [pc EXCEPT ![r] = "done"]
               /\ answer' = [answer EXCEPT ![r] = a]
               /\ body' = [body EXCEPT ![r] = NoBody]
               /\ target' = [target EXCEPT ![r] = None]

\* Mutant: the answer does not say which run it is of.
ResponseWithoutRun(i, key) == [run |-> None, reportKey |-> key]

\* _response of a run as this session holds it.
Response(i, key) == [run |-> i, reportKey |-> key]

\* The project and the portfolio run belong to the organization, and the
\* portfolio, if it has a project, to the one that is given.
ReferencesAccepted(b) ==
  /\ b.project \in Projects \union {"none"}
  /\ b.portfolio \in DOMAIN Portfolios \union {"none"}
  /\ b.project # "none" /\ b.portfolio # "none"
       => Portfolios[b.portfolio] \in {b.project, "none"}

\* The committed runs with the organization's idempotency key of b, which is
\* the hash of all of it.
Matching(b) == {i \in Requests : runs[i] # NoRun /\ runs[i].body = b}

\* POST /verifications up to the calculation: rejected, answered with the run
\* that is already there, or new.
CreateVerification(r) ==
  /\ NextArrival(r)
  /\ \E b \in Bodies :
       \/ ~ReferencesAccepted(b) /\ Reply(r, Error)
       \/ /\ ReferencesAccepted(b)
          /\ \E i \in Matching(b) : Reply(r, Response(i, runs[i].reportKey))
       \/ /\ ReferencesAccepted(b) /\ Matching(b) = {} /\ ~b.finite
          /\ Reply(r, Error)
       \/ /\ ReferencesAccepted(b) /\ Matching(b) = {} /\ b.finite
          /\ pc' = [pc EXCEPT ![r] = "insert"]
          /\ body' = [body EXCEPT ![r] = b]
          /\ target' = [target EXCEPT ![r] = r]
          /\ UNCHANGED answer
  /\ UNCHANGED <<stores, crashes>>

\* Mutant: the table has no unique (organization_id, idempotency_key).
InsertRunUnchecked(r) ==
  /\ pc[r] = "insert"
  /\ runs' = [runs EXCEPT ![r] = [body |-> body[r], reportKey |-> FALSE,
                                  result |-> CalculateVerification(body[r].data)]]
  /\ pc' = [pc EXCEPT ![r] = "write"]
  /\ UNCHANGED <<objects, body, target, answer, crashes>>

\* INSERT and COMMIT.  An equal request that committed first makes it violate
\* the unique key: the transaction is rolled back and the client gets a 500.
InsertRun(r) ==
  /\ pc[r] = "insert"
  /\ IF Matching(body[r]) = {}
     THEN /\ runs' = [runs EXCEPT ![r] =
                        [body |-> body[r], reportKey |-> FALSE,
                         result |-> CalculateVerification(body[r].data)]]
          /\ pc' = [pc EXCEPT ![r] = "write"]
          /\ UNCHANGED <<body, target, answer>>
     ELSE Reply(r, Error) /\ UNCHANGED runs
  /\ UNCHANGED <<objects, crashes>>

\* POST /{id}/report and POST /reports: the run is loaded, or not found (an
\* unknown id or another organization's).
LoadForReport(r) ==
  /\ NextArrival(r)
  /\ \/ /\ \E i \in Requests :
             runs[i] # NoRun /\ target' = [target EXCEPT ![r] = i]
        /\ pc' = [pc EXCEPT ![r] = "write"]
        /\ UNCHANGED <<body, answer>>
     \/ Reply(r, Error)
  /\ UNCHANGED <<stores, crashes>>

\* GET /{id} and GET /reports/{id}, or not found.
GetVerification(r) ==
  /\ NextArrival(r)
  /\ \/ \E i \in Requests :
          runs[i] # NoRun /\ Reply(r, Response(i, runs[i].reportKey))
     \/ Reply(r, Error)
  /\ UNCHANGED <<stores, crashes>>

-----------------------------------------------------------------------------
\* The creating handler goes on when write_report fails; the report handlers
\* turn every failure, and a missing bucket, into a 503.
Creating(r) == target[r] = r

\* Mutant: a failed write is not told apart from a successful one.
WriteOutcomeIgnored(r) ==
  /\ pc[r] = "write"
  /\ \E outcome \in WriteOutcomes :
       objects' = IF outcome \in {"stored", "unanswered"}
                  THEN [objects EXCEPT ![target[r]] = runs[target[r]].result]
                  ELSE objects
  /\ pc' = [pc EXCEPT ![r] = "save"]
  /\ UNCHANGED <<runs, body, target, answer, crashes>>

\* Mutant: a failed write clears the key.
WriteReportClearing(r) ==
  /\ pc[r] = "write"
  /\ \/ /\ objects' = [objects EXCEPT ![target[r]] = runs[target[r]].result]
        /\ pc' = [pc EXCEPT ![r] = "save"]
        /\ UNCHANGED <<runs, body, target, answer>>
     \/ /\ runs' = [runs EXCEPT ![target[r]].reportKey = FALSE]
        /\ Reply(r, Error) /\ UNCHANGED objects
  /\ UNCHANGED crashes

\* write_report.
WriteReport(r) ==
  /\ pc[r] = "write"
  /\ \E outcome \in WriteOutcomes :
       /\ objects' = IF outcome \in {"stored", "unanswered"}
                     THEN [objects EXCEPT ![target[r]] = runs[target[r]].result]
                     ELSE objects
       /\ \/ /\ outcome = "stored"
             /\ pc' = [pc EXCEPT ![r] = "save"]
             /\ UNCHANGED <<body, target, answer>>
          \/ /\ outcome \in {"disabled", "caught"} /\ Creating(r)
             /\ Reply(r, Response(r, FALSE))
          \/ /\ outcome \in {"escaped", "unanswered"} \/ ~Creating(r)
             /\ outcome # "stored"
             /\ Reply(r, Error)
  /\ UNCHANGED <<runs, crashes>>

\* Mutant: the answer is given before the key is committed.
SaveReportKeyUncommitted(r) ==
  /\ pc[r] = "save"
  /\ Reply(r, Response(target[r], TRUE))
  /\ UNCHANGED <<stores, crashes>>

\* The UPDATE of report_s3_key and its COMMIT.
SaveReportKey(r) ==
  /\ pc[r] = "save"
  /\ runs' = [runs EXCEPT ![target[r]].reportKey = TRUE]
  /\ Reply(r, Response(target[r], TRUE))
  /\ UNCHANGED <<objects, crashes>>

\* The process or the database connection is lost.
Crash(r) ==
  /\ r \in InFlight /\ crashes < MaxCrashes
  /\ crashes' = crashes + 1
  /\ Reply(r, Error)
  /\ UNCHANGED stores

Next == \E r \in Requests :
          \/ CreateVerification(r) \/ LoadForReport(r) \/ GetVerification(r)
          \/ InsertRun(r) \/ WriteReport(r) \/ SaveReportKey(r) \/ Crash(r)

Spec == Init /\ [][Next]_vars

-----------------------------------------------------------------------------
(***************************************************************************)
(* Properties.                                                             *)
(***************************************************************************)

\* "a retried request cannot create a second run" (docs/operations.md:41):
\* equal bodies have one committed run, however their handlers overlap.
OneRunPerBody == \A b \in Bodies : \A i, j \in Matching(b) : i = j

\* A report key in a row names an object that holds the result of that very
\* run: the key is never committed ahead of the object or without it, although
\* two stores are written by handlers that fail and race.
ReportBacked ==
  \A i \in Requests : runs[i].reportKey => objects[i] = runs[i].result

\* What a client was told stays true: the run it was given is committed and
\* shows a report key if the answer showed one.
AnswersDurable ==
  \A r \in Requests : answer[r] # Error =>
    /\ runs[answer[r].run] # NoRun
    /\ answer[r].reportKey => runs[answer[r].run].reportKey

\* The verdict of a committed result agrees with its figures: the expectation
\* is met exactly when no cooling is missing, a cost per degree exists exactly
\* when there was cooling, and exchanging the two zones negates the effect.
ResultsConsistent ==
  \A i \in Requests : runs[i] # NoRun =>
    LET result  == runs[i].result
        data    == runs[i].body.data
        swapped == [data EXCEPT !.treated = data.control, !.control = data.treated]
        cooled(group) == group.baseline + group.weather - group.observed
    IN  /\ result.metExpectation <=> result.expectedMinusActual <= 0
        /\ result.costPerDegree # <<>> <=> cooled(data.treated) > cooled(data.control)
        /\ CalculateVerification(swapped).coolingEffect = -result.coolingEffect

\* The runs implement the ledger: one run serves a body for good, and a report
\* that is ready stays ready.
OneOf(S) == IF S = {} THEN None ELSE CHOOSE i \in S : TRUE
Serves   == [b \in Bodies |-> OneOf(Matching(b))]
Ledger == INSTANCE ReportLedger WITH
            Questions <- Bodies, Runs <- Requests, NoRun <- None,
            serves <- Serves,
            reported <- {b \in Bodies : \E i \in Matching(b) : runs[i].reportKey}
ImplementsLedger == Ledger!Spec
=============================================================================
