---------------------- MODULE VerificationReportsProofs ----------------------
(***************************************************************************)
(* Proofs about VerificationReports for any bodies, outcomes of            *)
(* put_object, requests, overlap and crashes.  The argument: a handler     *)
(* works on a run that is committed, the object is written before the      *)
(* handler may reach the UPDATE of the key, and neither a run nor a key is *)
(* ever taken back.                                                        *)
(***************************************************************************)
EXTENDS VerificationReports, TLAPS

\* A handler that is to insert has an accepted body and no run yet, and one
\* that writes or saves a report has a committed run.
HandlersBacked == \A r \in Requests :
  /\ pc[r] = "insert" => body[r] \in Bodies /\ target[r] = r
  /\ pc[r] \in {"idle", "insert"} => runs[r] = NoRun
  /\ pc[r] \in {"write", "save"} => target[r] \in Requests /\ runs[target[r]] # NoRun

\* Nobody is about to save a key of an object that is not there.
WrittenBeforeSaved == \A r \in Requests :
  pc[r] = "save" => objects[target[r]] = runs[target[r]].result

\* A committed run has the result of its body.
RunsCalculated == \A i \in Requests : runs[i] # NoRun =>
  runs[i].result = CalculateVerification(runs[i].body.data)

IInv == /\ TypeOK
        /\ HandlersBacked
        /\ WrittenBeforeSaved
        /\ RunsCalculated
        /\ OneRunPerBody
        /\ ReportBacked
        /\ AnswersDurable

-----------------------------------------------------------------------------
\* A run is not the absence of a run.
LEMMA RunIsSome == \A x \in Run : x # NoRun
<1>. SUFFICES ASSUME NEW x \in Run, x = NoRun PROVE FALSE
  OBVIOUS
<1>1. "body" \in DOMAIN x
  BY DEF Run
<1>2. DOMAIN NoRun = {"reportKey"}
  BY DEF NoRun
<1>. QED  BY <1>1, <1>2

\* Setting the key of a run changes nothing else of it.
LEMMA KeyedRun ==
  ASSUME NEW x \in Run
  PROVE  /\ [x EXCEPT !.reportKey = TRUE] \in Run
         /\ [x EXCEPT !.reportKey = TRUE] # NoRun
         /\ [x EXCEPT !.reportKey = TRUE].body = x.body
         /\ [x EXCEPT !.reportKey = TRUE].result = x.result
         /\ [x EXCEPT !.reportKey = TRUE].reportKey
         /\ x.body \in Bodies
<1>1. [x EXCEPT !.reportKey = TRUE] \in Run
  BY DEF Run
<1>. QED  BY <1>1, RunIsSome DEF Run

\* What a client is told of a committed run.
LEMMA ResponseIsAnswer ==
  ASSUME NEW i \in Requests, NEW key \in BOOLEAN
  PROVE  Response(i, key) \in Answer /\ Response(i, key).run = i
         /\ Response(i, key).reportKey = key
BY DEF Response, Answer

\* The answer a handler may give: an error, or what is committed.
Truthful(a) == \/ a = Error
               \/ /\ a \in Answer
                  /\ runs[a.run] # NoRun
                  /\ a.reportKey => runs[a.run].reportKey

LEMMA InitInv == Init => IInv
<1>. SUFFICES ASSUME Init PROVE IInv
  OBVIOUS
<1>1. TypeOK
  BY DEF Init, TypeOK, Control
<1>2. \A i \in Requests : runs[i] = NoRun /\ answer[i] = Error /\ pc[i] = "idle"
  BY DEF Init
<1>3. \A i \in Requests : ~runs[i].reportKey
  BY <1>2 DEF NoRun
<1>. QED  BY <1>1, <1>2, <1>3 DEF IInv, HandlersBacked, WrittenBeforeSaved,
            RunsCalculated, OneRunPerBody, Matching, ReportBacked, AnswersDurable

\* A handler that leaves with a truthful answer and changes no row keeps the
\* invariant, even if it has just stored the object of a committed run.
LEMMA ReplyKeepsInv ==
  ASSUME IInv, NEW r \in Requests, NEW a, Truthful(a), Reply(r, a),
         runs' = runs, crashes' \in Nat,
         \/ objects' = objects
         \/ \E i \in Requests : /\ runs[i] # NoRun
                                /\ objects' = [objects EXCEPT ![i] = runs[i].result]
  PROVE  IInv'
<1>1. /\ pc' = [pc EXCEPT ![r] = "done"]
      /\ answer' = [answer EXCEPT ![r] = a]
      /\ body' = [body EXCEPT ![r] = NoBody]
      /\ target' = [target EXCEPT ![r] = None]
  BY DEF Reply
<1>2. objects' \in [Requests -> Results \union {NoResult}]
  BY DEF IInv, TypeOK, Run
<1>3. \A i \in Requests : objects[i] = runs[i].result => objects'[i] = runs[i].result
  BY DEF IInv, TypeOK
<1>4. TypeOK'
  BY <1>1, <1>2 DEF IInv, TypeOK, Truthful, Control
<1>5. HandlersBacked'
  BY <1>1 DEF IInv, TypeOK, HandlersBacked
<1>6. WrittenBeforeSaved'
  BY <1>1, <1>3 DEF IInv, TypeOK, HandlersBacked, WrittenBeforeSaved
<1>7. RunsCalculated' /\ OneRunPerBody'
  BY DEF IInv, RunsCalculated, OneRunPerBody, Matching
<1>8. ReportBacked'
  BY <1>3 DEF IInv, ReportBacked
<1>9. AnswersDurable'
  BY <1>1 DEF IInv, TypeOK, AnswersDurable, Truthful
<1>. QED  BY <1>4, <1>5, <1>6, <1>7, <1>8, <1>9 DEF IInv

-----------------------------------------------------------------------------
(***************************************************************************)
(* One lemma for each action.                                              *)
(***************************************************************************)
LEMMA CreateKeepsInv ==
  ASSUME IInv, NEW r \in Requests, CreateVerification(r)
  PROVE  IInv'
<1>1. PICK b \in Bodies :
       \/ Reply(r, Error)
       \/ \E i \in Matching(b) : Reply(r, Response(i, runs[i].reportKey))
       \/ /\ pc' = [pc EXCEPT ![r] = "insert"]
          /\ body' = [body EXCEPT ![r] = b]
          /\ target' = [target EXCEPT ![r] = r]
          /\ UNCHANGED answer
  BY DEF CreateVerification
<1>2. runs' = runs /\ objects' = objects /\ crashes' = crashes /\ crashes \in Nat
  BY DEF CreateVerification, stores, IInv, TypeOK
<1>3. CASE Reply(r, Error)
  BY <1>2, <1>3, ReplyKeepsInv DEF Truthful
<1>4. ASSUME NEW i \in Matching(b), Reply(r, Response(i, runs[i].reportKey))
      PROVE  IInv'
  <2>1. i \in Requests /\ runs[i] # NoRun /\ runs[i].reportKey \in BOOLEAN
    BY DEF Matching, IInv, TypeOK, Run
  <2>2. Truthful(Response(i, runs[i].reportKey))
    BY <2>1, ResponseIsAnswer DEF Truthful
  <2>. QED  BY <1>2, <1>4, <2>2, ReplyKeepsInv
<1>5. CASE /\ pc' = [pc EXCEPT ![r] = "insert"]
           /\ body' = [body EXCEPT ![r] = b]
           /\ target' = [target EXCEPT ![r] = r]
           /\ UNCHANGED answer
  <2>1. TypeOK'
    BY <1>2, <1>5 DEF IInv, TypeOK, Control
  <2>2. pc[r] = "idle"
    BY DEF CreateVerification, NextArrival
  <2>3. HandlersBacked'
    BY <1>2, <1>5, <2>2 DEF IInv, TypeOK, HandlersBacked
  <2>4. WrittenBeforeSaved'
    BY <1>2, <1>5 DEF IInv, TypeOK, WrittenBeforeSaved
  <2>5. RunsCalculated' /\ OneRunPerBody' /\ ReportBacked' /\ AnswersDurable'
    BY <1>2, <1>5 DEF IInv, RunsCalculated, OneRunPerBody, Matching, ReportBacked,
                      AnswersDurable
  <2>. QED  BY <2>1, <2>3, <2>4, <2>5 DEF IInv
<1>. QED  BY <1>1, <1>3, <1>4, <1>5

LEMMA LoadKeepsInv ==
  ASSUME IInv, NEW r \in Requests, LoadForReport(r)
  PROVE  IInv'
<1>1. runs' = runs /\ objects' = objects /\ crashes' = crashes /\ crashes \in Nat
  BY DEF LoadForReport, stores, IInv, TypeOK
<1>2. CASE Reply(r, Error)
  BY <1>1, <1>2, ReplyKeepsInv DEF Truthful
<1>3. ASSUME NEW i \in Requests, runs[i] # NoRun,
             target' = [target EXCEPT ![r] = i], pc' = [pc EXCEPT ![r] = "write"],
             UNCHANGED <<body, answer>>
      PROVE  IInv'
  <2>1. TypeOK'
    BY <1>1, <1>3 DEF IInv, TypeOK, Control
  <2>2. HandlersBacked'
    BY <1>1, <1>3 DEF IInv, TypeOK, HandlersBacked
  <2>3. WrittenBeforeSaved'
    BY <1>1, <1>3 DEF IInv, TypeOK, WrittenBeforeSaved
  <2>4. RunsCalculated' /\ OneRunPerBody' /\ ReportBacked' /\ AnswersDurable'
    BY <1>1, <1>3 DEF IInv, RunsCalculated, OneRunPerBody, Matching, ReportBacked,
                      AnswersDurable
  <2>. QED  BY <2>1, <2>2, <2>3, <2>4 DEF IInv
<1>. QED  BY <1>2, <1>3 DEF LoadForReport

LEMMA GetKeepsInv ==
  ASSUME IInv, NEW r \in Requests, GetVerification(r)
  PROVE  IInv'
<1>1. runs' = runs /\ objects' = objects /\ crashes' \in Nat
  BY DEF GetVerification, stores, IInv, TypeOK
<1>2. CASE Reply(r, Error)
  BY <1>1, <1>2, ReplyKeepsInv DEF Truthful
<1>3. ASSUME NEW i \in Requests, runs[i] # NoRun,
             Reply(r, Response(i, runs[i].reportKey))
      PROVE  IInv'
  <2>1. runs[i].reportKey \in BOOLEAN
    BY <1>3 DEF IInv, TypeOK, Run
  <2>2. Truthful(Response(i, runs[i].reportKey))
    BY <1>3, <2>1, ResponseIsAnswer DEF Truthful
  <2>. QED  BY <1>1, <1>3, <2>2, ReplyKeepsInv
<1>. QED  BY <1>2, <1>3 DEF GetVerification

\* The row that InsertRun makes.
Inserted(r) == [body |-> body[r], reportKey |-> FALSE,
                result |-> CalculateVerification(body[r].data)]

LEMMA InsertedIsRun ==
  ASSUME NEW r \in Requests, body[r] \in Bodies
  PROVE  Inserted(r) \in Run /\ Inserted(r) # NoRun
<1>1. Inserted(r) \in Run
  BY DEF Inserted, Run, Results
<1>. QED  BY <1>1, RunIsSome

LEMMA InsertKeepsInv ==
  ASSUME IInv, NEW r \in Requests, InsertRun(r)
  PROVE  IInv'
<1>1. /\ pc[r] = "insert" /\ body[r] \in Bodies /\ target[r] = r /\ runs[r] = NoRun
      /\ objects' = objects /\ crashes' = crashes /\ crashes \in Nat
  BY DEF InsertRun, IInv, TypeOK, HandlersBacked
<1>2. CASE Matching(body[r]) # {}
  BY <1>1, <1>2, ReplyKeepsInv DEF InsertRun, Truthful
<1>3. CASE Matching(body[r]) = {}
  <2>1. /\ runs' = [runs EXCEPT ![r] = Inserted(r)]
        /\ pc' = [pc EXCEPT ![r] = "write"]
        /\ body' = body /\ target' = target /\ answer' = answer
    BY <1>3 DEF InsertRun, Inserted
  <2>2. Inserted(r) \in Run /\ Inserted(r) # NoRun
    BY <1>1, InsertedIsRun
  <2>3. /\ runs'[r] = Inserted(r)
        /\ \A i \in Requests \ {r} : runs'[i] = runs[i]
    BY <2>1 DEF IInv, TypeOK
  <2>4. TypeOK'
    BY <1>1, <2>1, <2>2 DEF IInv, TypeOK, Control
  <2>5. HandlersBacked'
    BY <1>1, <2>1, <2>2, <2>3 DEF IInv, TypeOK, HandlersBacked
  <2>6. WrittenBeforeSaved'
    BY <1>1, <2>1, <2>3 DEF IInv, TypeOK, HandlersBacked, WrittenBeforeSaved
  <2>7. RunsCalculated'
    BY <2>3 DEF IInv, RunsCalculated, Inserted
  <2>8. OneRunPerBody'
    <3>1. ASSUME NEW b \in Bodies, NEW i \in Matching(b)', NEW j \in Matching(b)'
          PROVE  i = j
      <4>1. CASE b = body[r]
        BY <4>1, <1>3, <2>3 DEF Matching
      <4>2. CASE b # body[r]
        <5>1. i \in Matching(b) /\ j \in Matching(b)
          BY <4>2, <2>3 DEF Matching, Inserted
        <5>. QED  BY <5>1 DEF IInv, OneRunPerBody
      <4>. QED  BY <4>1, <4>2
    <3>. QED  BY <3>1 DEF OneRunPerBody
  <2>9. ReportBacked'
    BY <1>1, <2>3 DEF IInv, ReportBacked, Inserted
  <2>10. AnswersDurable'
    BY <1>1, <2>1, <2>2, <2>3 DEF IInv, TypeOK, AnswersDurable, Answer
  <2>. QED  BY <2>4, <2>5, <2>6, <2>7, <2>8, <2>9, <2>10 DEF IInv
<1>. QED  BY <1>2, <1>3

LEMMA WriteKeepsInv ==
  ASSUME IInv, NEW r \in Requests, WriteReport(r)
  PROVE  IInv'
<1>1. /\ pc[r] = "write" /\ target[r] \in Requests /\ runs[target[r]] # NoRun
      /\ runs' = runs /\ crashes' = crashes /\ crashes \in Nat
  BY DEF WriteReport, IInv, TypeOK, HandlersBacked
<1> DEFINE Written == objects' = [objects EXCEPT ![target[r]] = runs[target[r]].result]
<1>2. PICK outcome \in WriteOutcomes :
       /\ objects' = IF outcome \in {"stored", "unanswered"}
                     THEN [objects EXCEPT ![target[r]] = runs[target[r]].result]
                     ELSE objects
       /\ \/ /\ outcome = "stored"
             /\ pc' = [pc EXCEPT ![r] = "save"]
             /\ UNCHANGED <<body, target, answer>>
          \/ Creating(r) /\ Reply(r, Response(r, FALSE))
          \/ Reply(r, Error)
  BY DEF WriteReport
<1>3. objects' = objects \/ Written
  BY <1>2
<1>4. CASE Reply(r, Error)
  BY <1>1, <1>3, <1>4, ReplyKeepsInv DEF Truthful
<1>5. CASE Creating(r) /\ Reply(r, Response(r, FALSE))
  <2>1. runs[r] # NoRun
    BY <1>1, <1>5 DEF Creating
  <2>2. Truthful(Response(r, FALSE))
    BY <2>1, ResponseIsAnswer DEF Truthful
  <2>. QED  BY <1>1, <1>3, <1>5, <2>2, ReplyKeepsInv
<1>6. CASE Written /\ pc' = [pc EXCEPT ![r] = "save"] /\ UNCHANGED <<body, target, answer>>
  <2>1. runs[target[r]].result \in Results
    BY <1>1 DEF IInv, TypeOK, Run
  <2>2. TypeOK'
    BY <1>1, <1>6, <2>1 DEF IInv, TypeOK, Control
  <2>3. HandlersBacked'
    BY <1>1, <1>6 DEF IInv, TypeOK, HandlersBacked
  <2>4. WrittenBeforeSaved'
    BY <1>1, <1>6 DEF IInv, TypeOK, HandlersBacked, WrittenBeforeSaved
  <2>5. RunsCalculated' /\ OneRunPerBody' /\ AnswersDurable'
    BY <1>1, <1>6 DEF IInv, RunsCalculated, OneRunPerBody, Matching, AnswersDurable
  <2>6. ReportBacked'
    BY <1>1, <1>6 DEF IInv, TypeOK, ReportBacked
  <2>. QED  BY <2>2, <2>3, <2>4, <2>5, <2>6 DEF IInv
<1>. QED  BY <1>2, <1>4, <1>5, <1>6

LEMMA SaveKeepsInv ==
  ASSUME IInv, NEW r \in Requests, SaveReportKey(r)
  PROVE  IInv'
<1> DEFINE t == target[r]
<1>1. /\ t \in Requests /\ runs[t] # NoRun /\ runs[t] \in Run
      /\ objects[t] = runs[t].result
      /\ runs' = [runs EXCEPT ![t].reportKey = TRUE]
      /\ Reply(r, Response(t, TRUE)) /\ pc[r] = "save"
      /\ objects' = objects /\ crashes' = crashes
  BY DEF SaveReportKey, IInv, TypeOK, HandlersBacked, WrittenBeforeSaved
<1>. HIDE DEF t
<1>2. /\ runs'[t] = [runs[t] EXCEPT !.reportKey = TRUE]
      /\ \A i \in Requests \ {t} : runs'[i] = runs[i]
  BY <1>1 DEF IInv, TypeOK
<1>3. /\ runs'[t] \in Run /\ runs'[t] # NoRun
      /\ runs'[t].body = runs[t].body /\ runs'[t].result = runs[t].result
      /\ runs'[t].reportKey
  BY <1>1, <1>2, KeyedRun
<1>4. /\ pc' = [pc EXCEPT ![r] = "done"]
      /\ answer' = [answer EXCEPT ![r] = Response(t, TRUE)]
      /\ body' = [body EXCEPT ![r] = NoBody]
      /\ target' = [target EXCEPT ![r] = None]
      /\ Response(t, TRUE) \in Answer /\ Response(t, TRUE).run = t
  BY <1>1, ResponseIsAnswer DEF Reply
<1>5. TypeOK'
  BY <1>1, <1>3, <1>4 DEF IInv, TypeOK, Control, Run
<1>6. HandlersBacked'
  BY <1>1, <1>2, <1>3, <1>4 DEF IInv, TypeOK, HandlersBacked
<1>7. WrittenBeforeSaved'
  BY <1>1, <1>2, <1>3, <1>4 DEF IInv, TypeOK, HandlersBacked, WrittenBeforeSaved
<1>8. RunsCalculated'
  BY <1>1, <1>2, <1>3 DEF IInv, RunsCalculated
<1>9. OneRunPerBody'
  <2>1. \A b \in Bodies : Matching(b)' = Matching(b)
    BY <1>1, <1>2, <1>3 DEF Matching
  <2>. QED  BY <2>1 DEF IInv, OneRunPerBody
<1>10. ReportBacked'
  BY <1>1, <1>2, <1>3 DEF IInv, ReportBacked
<1>11. AnswersDurable'
  BY <1>1, <1>2, <1>3, <1>4 DEF IInv, TypeOK, AnswersDurable, Answer
<1>. QED  BY <1>5, <1>6, <1>7, <1>8, <1>9, <1>10, <1>11 DEF IInv

LEMMA CrashKeepsInv ==
  ASSUME IInv, NEW r \in Requests, Crash(r)
  PROVE  IInv'
<1>1. runs' = runs /\ objects' = objects /\ crashes' \in Nat /\ Reply(r, Error)
  BY DEF Crash, stores, IInv, TypeOK
<1>. QED  BY <1>1, ReplyKeepsInv DEF Truthful

LEMMA StepKeepsInv == IInv /\ [Next]_vars => IInv'
<1>. SUFFICES ASSUME IInv, [Next]_vars PROVE IInv'
  OBVIOUS
<1>1. CASE UNCHANGED vars
  BY <1>1 DEF vars, stores, IInv, TypeOK, HandlersBacked, WrittenBeforeSaved,
     RunsCalculated, OneRunPerBody, Matching, ReportBacked, AnswersDurable
<1>. QED  BY <1>1, CreateKeepsInv, LoadKeepsInv, GetKeepsInv, InsertKeepsInv,
             WriteKeepsInv, SaveKeepsInv, CrashKeepsInv DEF Next

LEMMA Invariance == Spec => []IInv
BY InitInv, StepKeepsInv, PTL DEF Spec

-----------------------------------------------------------------------------
(***************************************************************************)
(* The theorems.                                                           *)
(***************************************************************************)

\* Every reachable state of the runs and their reports is well typed.
THEOREM ReportsTypeCorrect == Spec => []TypeOK
<1>1. IInv => TypeOK
  BY DEF IInv
<1>. QED  BY <1>1, Invariance, PTL

\* Equal requests are one run, however many handlers overlap or are lost
\* (the unique key of verification_runs).
THEOREM RetriesAreOneRun == Spec => []OneRunPerBody
<1>1. IInv => OneRunPerBody
  BY DEF IInv
<1>. QED  BY <1>1, Invariance, PTL

\* A report key in a row always names an object with the result of that run
\* (write_report before the UPDATE).
THEOREM ReportsBacked == Spec => []ReportBacked
<1>1. IInv => ReportBacked
  BY DEF IInv
<1>. QED  BY <1>1, Invariance, PTL

\* What a client was told of a run and its report stays true.
THEOREM AnswersStayTrue == Spec => []AnswersDurable
<1>1. IInv => AnswersDurable
  BY DEF IInv
<1>. QED  BY <1>1, Invariance, PTL

-----------------------------------------------------------------------------
\* The verdict of the calculation agrees with its figures, for all figures.
LEMMA CalculationConsistent ==
  ASSUME NEW d \in Data
  PROVE  LET result  == CalculateVerification(d)
             swapped == [d EXCEPT !.treated = d.control, !.control = d.treated]
             cooled(group) == group.baseline + group.weather - group.observed
         IN  /\ result.metExpectation <=> result.expectedMinusActual <= 0
             /\ result.costPerDegree # <<>> <=> cooled(d.treated) > cooled(d.control)
             /\ CalculateVerification(swapped).coolingEffect = -result.coolingEffect
<1> DEFINE swapped == [d EXCEPT !.treated = d.control, !.control = d.treated]
<1>1. /\ d.treated \in Group /\ d.control \in Group
      /\ d.expected \in Int /\ d.cost \in Int
  BY DEF Data
<1>2. /\ \A g \in Group : AdjustedDelta(g) \in Int
      /\ \A g \in Group : AdjustedDelta(g) = g.observed - g.baseline - g.weather
      /\ \A g \in Group : g.observed \in Int /\ g.baseline \in Int /\ g.weather \in Int
  BY DEF Group, AdjustedDelta
<1>3. CoolingEffect(d) \in Int
  BY <1>1, <1>2 DEF CoolingEffect
<1>4. /\ CalculateVerification(d).metExpectation = (CoolingEffect(d) >= d.expected)
      /\ CalculateVerification(d).expectedMinusActual = d.expected - CoolingEffect(d)
      /\ CalculateVerification(d).costPerDegree
           = QuotientIfGained(d.cost, CoolingEffect(d))
      /\ CalculateVerification(d).coolingEffect = CoolingEffect(d)
      /\ CalculateVerification(swapped).coolingEffect = CoolingEffect(swapped)
  BY DEF CalculateVerification
<1>5. CoolingEffect(swapped) = -CoolingEffect(d)
  <2>1. swapped.treated = d.control /\ swapped.control = d.treated
    BY DEF Data
  <2>. QED  BY <2>1, <1>1, <1>2 DEF CoolingEffect
<1>6. QuotientIfGained(d.cost, CoolingEffect(d)) # <<>> <=> CoolingEffect(d) > 0
  <2>1. <<d.cost, CoolingEffect(d)>> # <<>>
    OBVIOUS
  <2>. QED  BY <2>1 DEF QuotientIfGained
<1>7. CoolingEffect(d) > 0
        <=> d.treated.baseline + d.treated.weather - d.treated.observed
              > d.control.baseline + d.control.weather - d.control.observed
  BY <1>1, <1>2 DEF CoolingEffect
<1>8. CoolingEffect(d) >= d.expected <=> d.expected - CoolingEffect(d) <= 0
  BY <1>1, <1>3
<1>. QED  BY <1>4, <1>5, <1>6, <1>7, <1>8

\* Every committed result is consistent with the measurements of its body.
THEOREM CommittedResultsConsistent == Spec => []ResultsConsistent
<1>1. IInv => ResultsConsistent
  <2>. SUFFICES ASSUME IInv, NEW i \in Requests, runs[i] # NoRun
       PROVE  LET result  == runs[i].result
                  data    == runs[i].body.data
                  swapped == [data EXCEPT !.treated = data.control,
                                          !.control = data.treated]
                  cooled(group) == group.baseline + group.weather - group.observed
              IN  /\ result.metExpectation <=> result.expectedMinusActual <= 0
                  /\ result.costPerDegree # <<>>
                       <=> cooled(data.treated) > cooled(data.control)
                  /\ CalculateVerification(swapped).coolingEffect
                       = -result.coolingEffect
    BY DEF ResultsConsistent
  <2>1. runs[i].body \in Body
    BY ReportsAssumption DEF IInv, TypeOK, Run
  <2>2. runs[i].body.data \in Data
    BY <2>1 DEF Body
  <2>3. runs[i].result = CalculateVerification(runs[i].body.data)
    BY DEF IInv, RunsCalculated
  <2>. QED  BY <2>2, <2>3, CalculationConsistent
<1>. QED  BY <1>1, Invariance, PTL

-----------------------------------------------------------------------------
(***************************************************************************)
(* The ledger.                                                             *)
(***************************************************************************)
Reported == {b \in Bodies : \E i \in Matching(b) : runs[i].reportKey}

LEMMA LedgerStarts == Init => Ledger!LedgerInit
<1>. SUFFICES ASSUME Init PROVE Ledger!LedgerInit
  OBVIOUS
<1>1. \A b \in Bodies : Matching(b) = {}
  BY DEF Init, Matching
<1>. QED  BY <1>1 DEF Ledger!LedgerInit, Serves, OneOf

\* A step that changes no row is a stutter of the ledger.
LEMMA LedgerStutters ==
  ASSUME runs' = runs
  PROVE  UNCHANGED <<Serves, Reported>>
BY DEF Serves, Reported, Matching

\* The INSERT of a run is the one computation of its body.
LEMMA InsertIsCompute ==
  ASSUME IInv, IInv', NEW r \in Requests, InsertRun(r), Matching(body[r]) = {}
  PROVE  Ledger!Compute(body[r])
<1>1. /\ body[r] \in Bodies
      /\ runs' = [runs EXCEPT ![r] = Inserted(r)] /\ runs[r] = NoRun
  BY DEF InsertRun, IInv, HandlersBacked, Inserted
<1>2. /\ runs'[r] = Inserted(r) /\ Inserted(r) # NoRun
      /\ \A i \in Requests \ {r} : runs'[i] = runs[i]
  BY <1>1, InsertedIsRun DEF IInv, TypeOK
<1>3. Matching(body[r])' = {r}
  <2>1. r \in Matching(body[r])'
    BY <1>2 DEF Matching, Inserted, InsertRun
  <2>2. ASSUME NEW i \in Requests, i # r, runs'[i] # NoRun, runs'[i].body = body[r]
        PROVE  FALSE
    BY <2>2, <1>2 DEF Matching
  <2>3. body' = body
    BY DEF InsertRun
  <2>. QED  BY <2>1, <2>2, <2>3 DEF Matching
<1>4. ASSUME NEW b \in Bodies, b # body[r]
      PROVE  /\ Matching(b)' = Matching(b)
             /\ \A i \in Matching(b) : runs'[i].reportKey = runs[i].reportKey
  <2>1. r \notin Matching(b) /\ r \notin Matching(b)'
    BY <1>1, <1>2, <1>4 DEF Matching, Inserted
  <2>2. \A i \in Requests \ {r} : i \in Matching(b)' <=> i \in Matching(b)
    BY <1>2 DEF Matching
  <2>3. Matching(b) \subseteq Requests /\ Matching(b)' \subseteq Requests
    BY DEF Matching
  <2>. QED  BY <2>1, <2>2, <2>3, <1>2
<1>5. body' = body
  BY DEF InsertRun
<1>6. Serves[body[r]] = None /\ Serves' = [Serves EXCEPT ![body[r]] = r]
  <2>1. Serves' = [b \in Bodies |-> IF b = body[r] THEN r ELSE Serves[b]]
    <3>1. OneOf({r}) = r
      BY DEF OneOf
    <3>. QED  BY <3>1, <1>3, <1>4, <1>5 DEF Serves
  <2>2. Serves = [b \in Bodies |-> Serves[b]] /\ Serves[body[r]] = None
    BY <1>1 DEF Serves, OneOf
  <2>. QED  BY <2>1, <2>2
<1>7. Reported' = Reported
  BY <1>2, <1>3, <1>4, <1>5 DEF Reported, Inserted
<1>. QED  BY <1>6, <1>7 DEF Ledger!Compute, Reported

\* The UPDATE of the key is the report of the body that the run serves.
LEMMA SaveIsReport ==
  ASSUME IInv, NEW r \in Requests, SaveReportKey(r)
  PROVE  \E b \in Bodies : Ledger!Report(b)
<1> DEFINE t == target[r]  served == runs[t].body
<1>1. /\ t \in Requests /\ runs[t] # NoRun /\ runs[t] \in Run
      /\ runs' = [runs EXCEPT ![t].reportKey = TRUE]
  BY DEF SaveReportKey, IInv, TypeOK, HandlersBacked
<1>. HIDE DEF t
<1>2. /\ runs'[t] = [runs[t] EXCEPT !.reportKey = TRUE]
      /\ \A i \in Requests \ {t} : runs'[i] = runs[i]
  BY <1>1 DEF IInv, TypeOK
<1>3. /\ runs'[t] # NoRun /\ runs'[t].body = served /\ runs'[t].reportKey
      /\ served \in Bodies
  BY <1>1, <1>2, KeyedRun
<1>4. \A b \in Bodies : Matching(b)' = Matching(b)
  BY <1>1, <1>2, <1>3 DEF Matching
<1>5. Serves' = Serves
  BY <1>4 DEF Serves
<1>6. t \in Matching(served) /\ Matching(served) \subseteq Requests
  BY <1>1 DEF Matching
<1>7. Serves[served] # None
  <2>1. (CHOOSE i \in Matching(served) : TRUE) \in Matching(served)
    BY <1>6
  <2>. QED  BY <2>1, <1>3, <1>6 DEF Serves, OneOf, Requests, None
<1>8. Reported' = Reported \union {served}
  <2>1. ASSUME NEW b \in Bodies, b # served
        PROVE  b \in Reported' <=> b \in Reported
    <3>1. t \notin Matching(b)
      BY <2>1 DEF Matching
    <3>. QED  BY <3>1, <1>2, <1>4 DEF Reported, Matching
  <2>2. served \in Reported'
    BY <1>3, <1>4, <1>6 DEF Reported
  <2>. QED  BY <2>1, <2>2, <1>3 DEF Reported
<1>9. Ledger!Report(served)
  BY <1>5, <1>7, <1>8 DEF Ledger!Report, Reported
<1>. HIDE DEF served
<1>. QED  BY <1>3, <1>9 DEF Ledger!Report

LEMMA LedgerStep ==
  IInv /\ IInv' /\ [Next]_vars => [Ledger!LedgerNext]_<<Serves, Reported>>
<1>. SUFFICES ASSUME IInv, IInv', [Next]_vars, runs' # runs
              PROVE  Ledger!LedgerNext
  BY LedgerStutters
<1>1. ASSUME NEW r \in Requests, InsertRun(r) PROVE Ledger!LedgerNext
  <2>1. Matching(body[r]) = {} /\ body[r] \in Bodies
    BY <1>1 DEF InsertRun, IInv, HandlersBacked
  <2>. QED  BY <1>1, <2>1, InsertIsCompute DEF Ledger!LedgerNext
<1>2. ASSUME NEW r \in Requests, SaveReportKey(r) PROVE Ledger!LedgerNext
  BY <1>2, SaveIsReport DEF Ledger!LedgerNext
<1>. QED  BY <1>1, <1>2 DEF Next, vars, stores, CreateVerification, LoadForReport,
             GetVerification, WriteReport, Crash

\* Equal requests see a ledger: one run serves a body for good, and a report
\* that is ready stays ready.
THEOREM LedgerImplemented == Spec => ImplementsLedger
BY LedgerStarts, LedgerStep, Invariance, PTL
   DEF Spec, ImplementsLedger, Ledger!Spec, Reported
=============================================================================
