---------------------------- MODULE ReportLedger ----------------------------
(***************************************************************************)
(* What verification promises for the equal requests of one organization:  *)
(* a request is computed once, by the one run that serves it from then on, *)
(* and once its report is ready it stays ready.                            *)
(***************************************************************************)
CONSTANTS Questions, Runs, NoRun
VARIABLES serves,   \* the run that answers each question
          reported  \* the questions whose report can be fetched

LedgerInit == serves = [q \in Questions |-> NoRun] /\ reported = {}

Compute(q) == /\ serves[q] = NoRun
              /\ \E i \in Runs : serves' = [serves EXCEPT ![q] = i]
              /\ UNCHANGED reported

Report(q) == /\ serves[q] # NoRun
             /\ reported' = reported \union {q}
             /\ UNCHANGED serves

LedgerNext == \E q \in Questions : Compute(q) \/ Report(q)

Spec == LedgerInit /\ [][LedgerNext]_<<serves, reported>>
=============================================================================
