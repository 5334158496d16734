------------------------- MODULE PortfolioRunsProofs -------------------------
(***************************************************************************)
(* Proofs about PortfolioRuns for any tenants, catalogue, request bodies   *)
(* and number of requests.  The argument: a committed run is a feasible    *)
(* portfolio of the problem its own body poses, its rows are that choice's, *)
(* nothing is changed after the commit, and what the client is told, if    *)
(* anything, is the result in memory, which is the stored one.  What was   *)
(* asked then follows from the constraints, and the accounts from          *)
(* FiniteSums.                                                             *)
(***************************************************************************)
EXTENDS PortfolioRuns, FiniteSums

-----------------------------------------------------------------------------
(***************************************************************************)
(* The problem of a request and its portfolios.                            *)
(***************************************************************************)
LEMMA Rounding ==
  ASSUME NEW x \in Int
  PROVE  /\ RoundCents(x) \in Int
         /\ 10 * RoundCents(x) <= x + 5
         /\ x <= 10 * RoundCents(x) + 4
BY DEF RoundCents

\* The fields of the problem.
LEMMA ProblemFields ==
  ASSUME NEW b \in Bodies
  PROVE  LET q == Problem(b) IN
         /\ IsOptimizeRequest(b)
         /\ q.zones = b.zones /\ DOMAIN q.specs = DOMAIN b.items
         /\ q.budget = b.budget /\ q.penalty = b.penalty
         /\ q.minEquity = b.minEquity /\ q.minSchool = b.minSchool
         /\ q.required = b.required /\ q.incompatible = b.incompatible
         /\ q.specs = CatalogueSpecs(b)
         /\ \A i \in DOMAIN b.items :
              /\ i \in Interventions
              /\ q.specs[i].cost = Catalogue[i].cost /\ q.specs[i].cost \in Nat
              /\ q.specs[i].score \in Nat /\ q.specs[i].uncertainty \in Nat
              /\ q.specs[i].uses = Catalogue[i].uses
<1>1. IsOptimizeRequest(b)
  BY PortfolioAssumption
<1>2. \A i \in DOMAIN b.items : i \in Interventions /\ b.items[i] \in InterventionInput
  BY <1>1 DEF IsOptimizeRequest
<1>3. \A i \in Interventions :
        Catalogue[i] \in [cost : Nat, score : Nat, uses : SUBSET DOMAIN Casefold]
  BY PortfolioAssumption
<1>4. \A i \in DOMAIN b.items :
        /\ CatalogueSpecs(b)[i].cost = Catalogue[i].cost /\ Catalogue[i].cost \in Nat
        /\ CatalogueSpecs(b)[i].score \in Nat /\ CatalogueSpecs(b)[i].uncertainty \in Nat
        /\ CatalogueSpecs(b)[i].uses = Catalogue[i].uses
  <2> SUFFICES ASSUME NEW i \in DOMAIN b.items
               PROVE  /\ CatalogueSpecs(b)[i].cost = Catalogue[i].cost
                      /\ Catalogue[i].cost \in Nat
                      /\ CatalogueSpecs(b)[i].score \in Nat
                      /\ CatalogueSpecs(b)[i].uncertainty \in Nat
                      /\ CatalogueSpecs(b)[i].uses = Catalogue[i].uses
    OBVIOUS
  <2>1. Catalogue[i].cost \in Nat /\ Catalogue[i].score \in Nat
    BY <1>2, <1>3
  <2>2. b.items[i].uncertainty \in Nat
    BY <1>2 DEF InterventionInput
  <2>3. /\ CatalogueSpecs(b)[i].cost = Catalogue[i].cost
        /\ CatalogueSpecs(b)[i].score = Catalogue[i].score
        /\ CatalogueSpecs(b)[i].uses = Catalogue[i].uses
        /\ CatalogueSpecs(b)[i].uncertainty = b.items[i].uncertainty
    BY DEF CatalogueSpecs
  <2>4. QED  BY <2>1, <2>2, <2>3
<1>5. DOMAIN CatalogueSpecs(b) = DOMAIN b.items
  BY DEF CatalogueSpecs
<1>6. QED
  BY <1>1, <1>2, <1>4, <1>5 DEF Problem

\* There are finitely many pairs, and a pair is a zone and an intervention of
\* the request.
LEMMA PairsFinite ==
  ASSUME NEW b \in Bodies
  PROVE  /\ IsFiniteSet(Pairs(Problem(b)))
         /\ \A p \in Pairs(Problem(b)) :
              /\ p = <<p[1], p[2]>>
              /\ p[1] \in DOMAIN b.zones /\ p[2] \in DOMAIN b.items
              /\ IsEligible(Catalogue[p[2]], b.zones[p[1]].use)
         /\ \A z \in DOMAIN b.zones, i \in DOMAIN b.items :
              IsEligible(Catalogue[i], b.zones[z].use) => <<z, i>> \in Pairs(Problem(b))
<1> DEFINE q == Problem(b)
<1>1. /\ IsOptimizeRequest(b) /\ q.zones = b.zones /\ DOMAIN q.specs = DOMAIN b.items
      /\ \A i \in DOMAIN b.items : q.specs[i].uses = Catalogue[i].uses
  BY ProblemFields
<1>2. IsFiniteSet(DOMAIN b.zones) /\ IsFiniteSet(DOMAIN b.items)
  BY <1>1, PortfolioAssumption, FS_Subset DEF IsOptimizeRequest
<1>3. Pairs(q) \subseteq (DOMAIN b.zones) \X (DOMAIN b.items)
  <2> HIDE DEF q
  <2> QED  BY <1>1 DEF Pairs
<1>4. IsFiniteSet((DOMAIN b.zones) \X (DOMAIN b.items))
  BY <1>2, FS_Product
<1>5. IsFiniteSet(Pairs(q))
  <2> HIDE DEF q
  <2> QED  BY <1>3, <1>4, FS_Subset
<1>6. \A z \in DOMAIN b.zones, i \in DOMAIN b.items :
        IsEligible(q.specs[i], q.zones[z].use) <=> IsEligible(Catalogue[i], b.zones[z].use)
  <2> HIDE DEF q
  <2> QED  BY <1>1 DEF IsEligible
<1>7. QED
  <2> HIDE DEF q
  <2>1. \A p \in Pairs(q) : /\ p = <<p[1], p[2]>>
              /\ p[1] \in DOMAIN b.zones /\ p[2] \in DOMAIN b.items
              /\ IsEligible(q.specs[p[2]], q.zones[p[1]].use)
    BY <1>1 DEF Pairs
  <2>2. \A z \in DOMAIN b.zones, i \in DOMAIN b.items :
          IsEligible(q.specs[i], q.zones[z].use) => <<z, i>> \in Pairs(q)
    BY <1>1 DEF Pairs
  <2>3. QED  BY <1>5, <1>6, <2>1, <2>2 DEF q

\* The figures of the pairs are integers, and the sums of a choice are.
LEMMA Figures ==
  ASSUME NEW b \in Bodies, NEW chosen \in SUBSET Pairs(Problem(b))
  PROVE  LET q == Problem(b) IN
         /\ IsFiniteSet(chosen)
         /\ Integral(Costs(q), chosen) /\ Integral(Scores(q), chosen)
         /\ Integral(Uncertainties(q), chosen) /\ Integral(Cents(q), chosen)
         /\ \A p \in chosen : /\ Costs(q)[p] = Catalogue[p[2]].cost
                              /\ Cents(q)[p] = RoundCents(Catalogue[p[2]].cost)
         /\ Cost(q, chosen) \in Int /\ TotalCents(q, chosen) \in Int
<1> DEFINE q == Problem(b)
<1>1. IsFiniteSet(chosen) /\ chosen \subseteq Pairs(q)
  BY PairsFinite, FS_Subset
<1>2. \A p \in chosen :
        /\ p[2] \in DOMAIN b.items
        /\ q.specs[p[2]].cost = Catalogue[p[2]].cost /\ q.specs[p[2]].cost \in Nat
        /\ q.specs[p[2]].score \in Nat /\ q.specs[p[2]].uncertainty \in Nat
  BY PairsFinite, ProblemFields
<1> HIDE DEF q
<1>3. \A p \in chosen : /\ Costs(q)[p] = q.specs[p[2]].cost
                        /\ Scores(q)[p] = q.specs[p[2]].score
                        /\ Uncertainties(q)[p] = q.specs[p[2]].uncertainty
                        /\ Cents(q)[p] = RoundCents(q.specs[p[2]].cost)
  BY <1>1 DEF Costs, Scores, Uncertainties, Cents
<1>4. /\ Integral(Costs(q), chosen) /\ Integral(Scores(q), chosen)
      /\ Integral(Uncertainties(q), chosen) /\ Integral(Cents(q), chosen)
  <2>1. \A p \in chosen : /\ q.specs[p[2]].cost \in Int
                          /\ q.specs[p[2]].score \in Int
                          /\ q.specs[p[2]].uncertainty \in Int
    BY <1>2
  <2>2. \A p \in chosen : RoundCents(q.specs[p[2]].cost) \in Int
    BY <2>1, Rounding
  <2>3. QED  BY <1>3, <2>1, <2>2 DEF Integral
<1>5. Cost(q, chosen) \in Int /\ TotalCents(q, chosen) \in Int
  BY <1>1, <1>4, SumIsInteger DEF Cost, TotalCents
<1>6. QED
  BY <1>1, <1>2, <1>3, <1>4, <1>5 DEF q

-----------------------------------------------------------------------------
(***************************************************************************)
(* The invariant: what is to be committed, and what is committed, solves   *)
(* the problem of its body.                                                *)
(***************************************************************************)
Solved(b, result) ==
  /\ b \in Bodies /\ OrgOf[b.project] = b.tenant
  /\ \A z \in DOMAIN b.zones : ProjectOf[z] = b.project
  /\ \A i \in DOMAIN b.items : OrgOf[i] = b.tenant
  /\ \E chosen \in Portfolios(Problem(b)) :
       result = OptimizePortfolio(Problem(b), chosen)

\* The rows of a run.
RunRow(b, result) == [status |-> "completed", org |-> b.tenant, project |-> b.project,
                      budget |-> b.budget, result |-> result]
RowsFor(r, result) == {[run |-> r, zone |-> a.zone, intervention |-> a.intervention,
                        cost |-> a.cost] : a \in result.allocations}

Shape == /\ runs = [r \in Requests |-> runs[r]] /\ work = [r \in Requests |-> work[r]]
         /\ asked = [r \in Requests |-> asked[r]]
         /\ answer = [r \in Requests |-> answer[r]]

WorkSolved ==
  \A r \in Requests :
    /\ pc[r] = "commit" => Solved(work[r].body, work[r].result) /\ runs[r] = NoRun
    /\ pc[r] = "reply" => runs[r] # NoRun /\ work[r].result = runs[r].result

RunsSolved ==
  \A r \in Requests :
    runs[r] # NoRun =>
      /\ Solved(asked[r], runs[r].result)
      /\ runs[r] = RunRow(asked[r], runs[r].result)
      /\ RowsOf(r) = RowsFor(r, runs[r].result)

NothingElse == \A r \in Requests : runs[r] = NoRun => RowsOf(r) = {}

ToldWhatIsStored ==
  \A r \in Requests :
    answer[r] # Error =>
      /\ runs[r] # NoRun
      /\ answer[r] = [status |-> "completed", result |-> runs[r].result]

IdleHasNoRun == \A r \in Requests : pc[r] = "idle" => runs[r] = NoRun

IInv == /\ TypeOK /\ Shape /\ WorkSolved /\ RunsSolved /\ NothingElse
        /\ ToldWhatIsStored /\ IdleHasNoRun

-----------------------------------------------------------------------------
(***************************************************************************)
(* The rows of a result are its choice, and its allocations.               *)
(***************************************************************************)
\* The allocation of each pair.
AllocationOf(q) == [p \in Pairs(q) |-> [zone |-> p[1], intervention |-> p[2],
                                        cost |-> RoundCents(q.specs[p[2]].cost)]]

LEMMA Allocations ==
  ASSUME NEW b \in Bodies, NEW chosen \in SUBSET Pairs(Problem(b))
  PROVE  LET q == Problem(b)
             m == AllocationOf(q)
         IN  /\ OptimizePortfolio(q, chosen).allocations = ImageOf(m, chosen)
             /\ OneToOne(m, chosen)
             /\ \A p \in chosen :
                  /\ m[p].zone = p[1] /\ m[p].intervention = p[2]
                  /\ m[p].cost = Cents(q)[p] /\ m[p].cost \in Nat
                  /\ m[p] = [zone |-> p[1], intervention |-> p[2], cost |-> m[p].cost]
<1> DEFINE q == Problem(b)
           m == AllocationOf(q)
<1>1. \A p \in chosen : /\ p = <<p[1], p[2]>> /\ p \in Pairs(q)
                        /\ q.specs[p[2]].cost \in Nat
  BY PairsFinite, ProblemFields
<1> HIDE DEF q
<1>2. \A p \in chosen : m[p] = [zone |-> p[1], intervention |-> p[2],
                                cost |-> RoundCents(q.specs[p[2]].cost)]
  BY <1>1 DEF AllocationOf
<1>3. \A p \in chosen : RoundCents(q.specs[p[2]].cost) \in Nat
  BY <1>1 DEF RoundCents
<1>4. \A p \in chosen : Cents(q)[p] = RoundCents(q.specs[p[2]].cost)
  BY <1>1 DEF Cents
<1>5. OptimizePortfolio(q, chosen).allocations = ImageOf(m, chosen)
  <2>1. OptimizePortfolio(q, chosen).allocations
          = {[zone |-> p[1], intervention |-> p[2],
              cost |-> RoundCents(q.specs[p[2]].cost)] : p \in chosen}
    BY DEF OptimizePortfolio
  <2>2. ImageOf(m, chosen) = {m[p] : p \in chosen}
    BY DEF ImageOf
  <2> DEFINE alloc(p) == [zone |-> p[1], intervention |-> p[2],
                          cost |-> RoundCents(q.specs[p[2]].cost)]
  <2>3. \A p \in chosen : m[p] = alloc(p)
    BY <1>2
  <2>4. OptimizePortfolio(q, chosen).allocations = {alloc(p) : p \in chosen}
    BY <2>1
  <2> HIDE DEF m, alloc
  <2>5. QED  BY <2>2, <2>3, <2>4
<1>6. \A p \in chosen : m[p].zone = p[1] /\ m[p].intervention = p[2]
                        /\ m[p].cost = RoundCents(q.specs[p[2]].cost)
  <2> SUFFICES ASSUME NEW p \in chosen
               PROVE  m[p].zone = p[1] /\ m[p].intervention = p[2]
                        /\ m[p].cost = RoundCents(q.specs[p[2]].cost)
    OBVIOUS
  <2>1. p \in Pairs(q)
    BY <1>1
  <2>2. QED  BY <2>1 DEF AllocationOf
<1> HIDE DEF m
<1>7. OneToOne(m, chosen)
  BY <1>1, <1>6 DEF OneToOne
<1>8. QED
  BY <1>2, <1>3, <1>4, <1>5, <1>6, <1>7 DEF m, q

LEMMA RowsOfResult ==
  ASSUME NEW b \in Bodies, NEW chosen \in SUBSET Pairs(Problem(b)),
         NEW r \in Requests
  PROVE  LET result == OptimizePortfolio(Problem(b), chosen)
             written == RowsFor(r, result)
         IN  /\ written \subseteq Allocation /\ \A a \in written : a.run = r
             /\ {<<a.zone, a.intervention>> : a \in written} = chosen
             /\ {[zone |-> a.zone, intervention |-> a.intervention, cost |-> a.cost]
                   : a \in written} = result.allocations
<1> DEFINE q == Problem(b)
           m == AllocationOf(q)
           result == OptimizePortfolio(q, chosen)
           row(p) == [run |-> r, zone |-> m[p].zone, intervention |-> m[p].intervention,
                      cost |-> m[p].cost]
           written == RowsFor(r, result)
<1>1. result.allocations = {m[p] : p \in chosen}
  BY Allocations DEF ImageOf
<1>2. \A p \in chosen :
        /\ m[p].zone = p[1] /\ m[p].intervention = p[2] /\ m[p].cost \in Nat
        /\ m[p] = [zone |-> p[1], intervention |-> p[2], cost |-> m[p].cost]
  BY Allocations
<1>3. \A p \in chosen : p = <<p[1], p[2]>> /\ p[1] \in Zones /\ p[2] \in Interventions
  BY PairsFinite, ProblemFields DEF IsOptimizeRequest
<1> HIDE DEF q, m, result
<1>4. written = {row(p) : p \in chosen}
  BY <1>1 DEF RowsFor
<1>5. \A p \in chosen : row(p) \in Allocation /\ row(p).run = r
  BY <1>2, <1>3 DEF Allocation
<1>6. \A p \in chosen : <<row(p).zone, row(p).intervention>> = p
  BY <1>2, <1>3
<1>7. \A p \in chosen : [zone |-> row(p).zone, intervention |-> row(p).intervention,
                         cost |-> row(p).cost] = m[p]
  BY <1>2
<1> HIDE DEF row
<1> HIDE DEF written
<1>8. written \subseteq Allocation /\ \A a \in written : a.run = r
  BY <1>4, <1>5
<1>9. {<<a.zone, a.intervention>> : a \in written} = chosen
  BY <1>4, <1>6
<1>10. {[zone |-> a.zone, intervention |-> a.intervention, cost |-> a.cost]
          : a \in written} = result.allocations
  <2> DEFINE shown(a) == [zone |-> a.zone, intervention |-> a.intervention,
                          cost |-> a.cost]
  <2>1. \A p \in chosen : shown(row(p)) = m[p]
    BY <1>7
  <2> HIDE DEF shown
  <2>2. {shown(a) : a \in written} = {m[p] : p \in chosen}
    BY <1>4, <2>1
  <2>3. QED  BY <1>1, <2>2 DEF shown
<1>11. QED
  BY <1>8, <1>9, <1>10 DEF written, result, q

-----------------------------------------------------------------------------
(***************************************************************************)
(* The invariant holds at first and is kept by every step.                 *)
(***************************************************************************)
LEMMA InitIInv == Init => IInv
<1> SUFFICES ASSUME Init PROVE IInv
  OBVIOUS
<1> USE DEF Init
<1>1. TypeOK
  BY DEF TypeOK
<1>2. Shape
  BY DEF Shape
<1>3. WorkSolved /\ RunsSolved /\ IdleHasNoRun
  BY DEF WorkSolved, RunsSolved, IdleHasNoRun
<1>4. NothingElse /\ ToldWhatIsStored
  BY DEF NothingElse, RowsOf, ToldWhatIsStored
<1>5. QED  BY <1>1, <1>2, <1>3, <1>4 DEF IInv

\* A row added, or nothing: the runs and what is made of them stay.
LEMMA OtherRows ==
  ASSUME IInv, Unplanned, projects' \subseteq Projects, zones' \subseteq Zones,
         catalogue' \subseteq Interventions
  PROVE  IInv'
<1> USE DEF Unplanned, IInv
<1>1. TypeOK'
  BY DEF TypeOK
<1>2. Shape'
  BY DEF Shape
<1>3. WorkSolved' /\ IdleHasNoRun'
  BY DEF WorkSolved, IdleHasNoRun
<1>4. RunsSolved' /\ NothingElse' /\ ToldWhatIsStored'
  BY DEF RunsSolved, NothingElse, RowsOf, ToldWhatIsStored
<1>5. QED  BY <1>1, <1>2, <1>3, <1>4

\* A work item is not Idle.
LEMMA WorkIsNotIdle == \A b, result : [body |-> b, result |-> result] # Idle
<1> SUFFICES ASSUME NEW b, NEW result PROVE [body |-> b, result |-> result] # Idle
  OBVIOUS
<1>1. "result" \in DOMAIN [body |-> b, result |-> result] /\ "result" \notin DOMAIN Idle
  BY DEF Idle
<1>2. QED  BY <1>1

LEMMA OptimizeStep ==
  ASSUME IInv, NEW r \in Requests, Optimize(r)
  PROVE  IInv'
<1>1. /\ pc[r] = "idle" /\ runs[r] = NoRun
      /\ pc \in [Requests -> {"idle", "commit", "reply", "done"}]
  BY DEF Optimize, NextArrival, IInv, IdleHasNoRun, TypeOK
<1>2. UNCHANGED <<rows, runs, allocations, asked, answer>>
  BY DEF Optimize
<1>3. RunsSolved'
  <2> SUFFICES ASSUME NEW x \in Requests, runs[x] # NoRun
               PROVE  /\ Solved(asked[x], runs[x].result)
                      /\ runs[x] = RunRow(asked[x], runs[x].result)
                      /\ RowsOf(x) = RowsFor(x, runs[x].result)
    BY <1>2 DEF RunsSolved, RowsOf
  <2>1. QED  BY DEF IInv, RunsSolved
<1>4. NothingElse' /\ ToldWhatIsStored'
  BY <1>2 DEF IInv, NothingElse, RowsOf, ToldWhatIsStored
<1>5. PICK b \in Bodies :
       \/ pc' = [pc EXCEPT ![r] = "done"] /\ UNCHANGED work
       \/ /\ Accepted(b)
          /\ \E chosen \in Portfolios(Problem(b)) :
               work' = [work EXCEPT ![r] =
                          [body |-> b, result |-> OptimizePortfolio(Problem(b), chosen)]]
          /\ pc' = [pc EXCEPT ![r] = "commit"]
  BY DEF Optimize
<1>6. CASE pc' = [pc EXCEPT ![r] = "done"] /\ UNCHANGED work
  <2>1. TypeOK'
    BY <1>1, <1>2, <1>6 DEF IInv, TypeOK, rows
  <2>2. Shape' /\ WorkSolved' /\ IdleHasNoRun'
    BY <1>1, <1>2, <1>6 DEF IInv, Shape, WorkSolved, IdleHasNoRun
  <2>3. QED  BY <1>3, <1>4, <2>1, <2>2 DEF IInv
<1>7. CASE /\ Accepted(b)
           /\ \E chosen \in Portfolios(Problem(b)) :
                work' = [work EXCEPT ![r] =
                           [body |-> b, result |-> OptimizePortfolio(Problem(b), chosen)]]
           /\ pc' = [pc EXCEPT ![r] = "commit"]
  <2>1. PICK chosen \in Portfolios(Problem(b)) :
          work' = [work EXCEPT ![r] =
                     [body |-> b, result |-> OptimizePortfolio(Problem(b), chosen)]]
    BY <1>7
  <2> DEFINE result == OptimizePortfolio(Problem(b), chosen)
  <2>2. Solved(b, result)
    BY <1>7 DEF Solved, Accepted
  <2> HIDE DEF result
  <2>3. work = [x \in Requests |-> work[x]]
    BY DEF IInv, Shape
  <2>4. work' = [x \in Requests |-> IF x = r THEN [body |-> b, result |-> result]
                                             ELSE work[x]]
    BY <2>1, <2>3 DEF result
  <2>5. \A x \in Requests : work'[x] = IF x = r THEN [body |-> b, result |-> result]
                                               ELSE work[x]
    BY <2>4
  <2>6. \A x \in Requests : pc'[x] = IF x = r THEN "commit" ELSE pc[x]
    BY <1>1, <1>7
  <2>7. \A x \in Requests : pc'[x] \in {"commit", "reply"} <=> work'[x] # Idle
    <3>1. \A x \in Requests : pc[x] \in {"commit", "reply"} <=> work[x] # Idle
      BY DEF IInv, TypeOK
    <3>2. QED  BY <2>5, <2>6, <3>1, WorkIsNotIdle
  <2>8. TypeOK'
    BY <1>1, <1>2, <1>7, <2>7 DEF IInv, TypeOK, rows
  <2>9. Shape'
    BY <1>2, <2>4 DEF IInv, Shape
  <2>10. WorkSolved'
    <3> SUFFICES ASSUME NEW x \in Requests
                 PROVE  /\ pc'[x] = "commit" =>
                             Solved(work'[x].body, work'[x].result) /\ runs[x] = NoRun
                        /\ pc'[x] = "reply" =>
                             runs[x] # NoRun /\ work'[x].result = runs[x].result
      BY <1>2 DEF WorkSolved
    <3>1. CASE x = r
      BY <1>1, <2>2, <2>5, <2>6, <3>1
    <3>2. CASE x # r
      BY <2>5, <2>6, <3>2 DEF IInv, WorkSolved
    <3>3. QED  BY <3>1, <3>2
  <2>11. IdleHasNoRun'
    BY <1>2, <2>6 DEF IInv, IdleHasNoRun
  <2>12. QED  BY <1>3, <1>4, <2>8, <2>9, <2>10, <2>11 DEF IInv
<1>8. QED  BY <1>5, <1>6, <1>7

LEMMA CrashStep ==
  ASSUME IInv, NEW r \in Requests, Crash(r)
  PROVE  IInv'
<1>1. /\ pc \in [Requests -> {"idle", "commit", "reply", "done"}]
      /\ pc' = [pc EXCEPT ![r] = "done"] /\ work' = [work EXCEPT ![r] = Idle]
      /\ work = [x \in Requests |-> work[x]]
      /\ UNCHANGED <<rows, runs, allocations, asked, answer>>
  BY DEF Crash, IInv, TypeOK, Shape
<1>2. /\ \A x \in Requests : pc'[x] = IF x = r THEN "done" ELSE pc[x]
      /\ \A x \in Requests : work'[x] = IF x = r THEN Idle ELSE work[x]
      /\ work' = [x \in Requests |-> work'[x]]
  BY <1>1
<1>3. TypeOK'
  BY <1>1, <1>2 DEF IInv, TypeOK, rows
<1>4. Shape'
  BY <1>1, <1>2 DEF IInv, Shape
<1>5. WorkSolved' /\ IdleHasNoRun'
  BY <1>1, <1>2 DEF IInv, WorkSolved, IdleHasNoRun
<1>6. RunsSolved' /\ NothingElse' /\ ToldWhatIsStored'
  BY <1>1 DEF IInv, RunsSolved, NothingElse, RowsOf, ToldWhatIsStored
<1>7. QED  BY <1>3, <1>4, <1>5, <1>6 DEF IInv

LEMMA CommitStep ==
  ASSUME IInv, NEW r \in Requests, CommitRun(r)
  PROVE  IInv'
<1> DEFINE b == work[r].body
           result == work[r].result
<1>0. work[r].result = result
  OBVIOUS
<1>1. PICK chosen \in SUBSET Pairs(Problem(b)) :
        result = OptimizePortfolio(Problem(b), chosen)
  BY DEF CommitRun, IInv, WorkSolved, Solved, Portfolios
<1>2. Solved(b, result) /\ b \in Bodies /\ runs[r] = NoRun /\ pc[r] = "commit"
  BY DEF CommitRun, IInv, WorkSolved, Solved
<1>3. /\ runs' = [runs EXCEPT ![r] = RunRow(b, result)]
      /\ allocations' = allocations \union RowsFor(r, result)
      /\ asked' = [asked EXCEPT ![r] = b]
      /\ pc' = [pc EXCEPT ![r] = "reply"]
      /\ UNCHANGED <<rows, work, answer>>
  BY DEF CommitRun, RunRow, RowsFor
<1> HIDE DEF b, result
<1>4. RowsFor(r, result) \subseteq Allocation /\ \A a \in RowsFor(r, result) : a.run = r
  BY <1>1, <1>2, RowsOfResult
<1>5. /\ runs = [x \in Requests |-> runs[x]] /\ work = [x \in Requests |-> work[x]]
      /\ asked = [x \in Requests |-> asked[x]]
      /\ answer = [x \in Requests |-> answer[x]]
      /\ pc \in [Requests -> {"idle", "commit", "reply", "done"}]
  BY DEF IInv, Shape, TypeOK
<1>6. /\ \A x \in Requests : runs'[x] = IF x = r THEN RunRow(b, result) ELSE runs[x]
      /\ \A x \in Requests : asked'[x] = IF x = r THEN b ELSE asked[x]
      /\ \A x \in Requests : pc'[x] = IF x = r THEN "reply" ELSE pc[x]
  BY <1>3, <1>5
<1>7. \A x \in Requests : RowsOf(x)' = IF x = r THEN RowsFor(r, result) ELSE RowsOf(x)
  <2>1. RowsOf(r) = {}
    BY <1>2 DEF IInv, NothingElse
  <2>2. QED  BY <1>3, <1>4, <2>1 DEF RowsOf
<1>8. RunRow(b, result).result = result /\ RunRow(b, result).org = b.tenant
      /\ RunRow(b, result) # NoRun
  <2>1. RunRow(b, result).status = "completed" /\ NoRun.status = "none"
    BY DEF RunRow, NoRun
  <2>2. QED  BY <2>1 DEF RunRow
<1>9. TypeOK'
  <2>1. b.tenant \in Orgs
    BY <1>2, ProblemFields DEF IsOptimizeRequest
  <2>2. \A x \in Requests : runs'[x] = NoRun \/ runs'[x].org \in Orgs
    BY <1>6, <1>8, <2>1 DEF IInv, TypeOK
  <2>3. allocations' \subseteq Allocation
    BY <1>3, <1>4 DEF IInv, TypeOK
  <2>4. pc' \in [Requests -> {"idle", "commit", "reply", "done"}]
    BY <1>3, <1>5
  <2>5. \A x \in Requests : pc'[x] \in {"commit", "reply"} <=> work'[x] # Idle
    BY <1>2, <1>3, <1>6 DEF IInv, TypeOK
  <2>6. QED  BY <1>3, <2>2, <2>3, <2>4, <2>5 DEF IInv, TypeOK, rows
<1>10. Shape'
  BY <1>3, <1>5 DEF Shape
<1>11. WorkSolved' /\ IdleHasNoRun'
  BY <1>0, <1>3, <1>6, <1>8 DEF IInv, WorkSolved, IdleHasNoRun
<1>12. RunsSolved'
  <2> SUFFICES ASSUME NEW x \in Requests, runs'[x] # NoRun
               PROVE  /\ Solved(asked'[x], runs'[x].result)
                      /\ runs'[x] = RunRow(asked'[x], runs'[x].result)
                      /\ RowsOf(x)' = RowsFor(x, runs'[x].result)
    BY DEF RunsSolved
  <2>1. CASE x = r
    BY <1>2, <1>6, <1>7, <1>8, <2>1
  <2>2. CASE x # r
    BY <1>6, <1>7, <2>2 DEF IInv, RunsSolved
  <2>3. QED  BY <2>1, <2>2
<1>13. NothingElse'
  BY <1>6, <1>7, <1>8 DEF IInv, NothingElse
<1>14. ToldWhatIsStored'
  <2>1. answer[r] = Error /\ answer' = answer
    BY <1>2, <1>3 DEF IInv, ToldWhatIsStored
  <2>2. QED  BY <1>6, <2>1 DEF IInv, ToldWhatIsStored
<1>15. QED  BY <1>9, <1>10, <1>11, <1>12, <1>13, <1>14 DEF IInv

LEMMA ReplyStep ==
  ASSUME IInv, NEW r \in Requests, Reply(r)
  PROVE  IInv'
<1> DEFINE told == [status |-> "completed", result |-> runs[r].result]
<1>1. /\ runs[r] # NoRun
      /\ answer' = [answer EXCEPT ![r] = told]
      /\ pc' = [pc EXCEPT ![r] = "done"] /\ work' = [work EXCEPT ![r] = Idle]
      /\ UNCHANGED <<rows, runs, allocations, asked>>
  BY DEF Reply, IInv, WorkSolved
<1> HIDE DEF told
<1>2. /\ pc \in [Requests -> {"idle", "commit", "reply", "done"}]
      /\ work = [x \in Requests |-> work[x]] /\ answer = [x \in Requests |-> answer[x]]
  BY DEF IInv, TypeOK, Shape
<1>3. /\ \A x \in Requests : pc'[x] = IF x = r THEN "done" ELSE pc[x]
      /\ \A x \in Requests : work'[x] = IF x = r THEN Idle ELSE work[x]
      /\ \A x \in Requests : answer'[x] = IF x = r THEN told ELSE answer[x]
      /\ work' = [x \in Requests |-> work'[x]]
      /\ answer' = [x \in Requests |-> answer'[x]]
  BY <1>1, <1>2
<1>4. TypeOK'
  BY <1>1, <1>2, <1>3 DEF IInv, TypeOK, rows
<1>5. Shape'
  BY <1>1, <1>3 DEF IInv, Shape
<1>6. WorkSolved' /\ IdleHasNoRun'
  BY <1>1, <1>3 DEF IInv, WorkSolved, IdleHasNoRun
<1>7. RunsSolved' /\ NothingElse'
  BY <1>1 DEF IInv, RunsSolved, NothingElse, RowsOf
<1>8. ToldWhatIsStored'
  BY <1>1, <1>3 DEF IInv, ToldWhatIsStored, told
<1>9. QED  BY <1>4, <1>5, <1>6, <1>7, <1>8 DEF IInv

LEMMA NextIInv == IInv /\ [Next]_vars => IInv'
<1> SUFFICES ASSUME IInv, [Next]_vars PROVE IInv'
  OBVIOUS
<1>1. projects \subseteq Projects /\ zones \subseteq Zones /\ catalogue \subseteq Interventions
  BY DEF IInv, TypeOK
<1>2. CASE CreateProject \/ CreateZone \/ CreateIntervention
  BY <1>1, <1>2, OtherRows DEF CreateProject, CreateZone, CreateIntervention
<1>3. ASSUME NEW r \in Requests, Optimize(r) PROVE IInv'
  BY <1>3, OptimizeStep
<1>4. ASSUME NEW r \in Requests, CommitRun(r) PROVE IInv'
  BY <1>4, CommitStep
<1>5. ASSUME NEW r \in Requests, Crash(r) PROVE IInv'
  BY <1>5, CrashStep
<1>6. ASSUME NEW r \in Requests, Reply(r) PROVE IInv'
  BY <1>6, ReplyStep
<1>7. CASE UNCHANGED vars
  BY <1>1, <1>7, OtherRows DEF vars, rows, Unplanned
<1>8. QED  BY <1>2, <1>3, <1>4, <1>5, <1>6, <1>7 DEF Next

\* The rows keep their types: every allocation is of a run, a zone and an
\* intervention there are, and a request holds work exactly until it is answered or lost.
THEOREM TypeCorrect == Spec => []TypeOK
<1>1. IInv => TypeOK
  BY DEF IInv
<1>2. QED  BY InitIInv, NextIInv, <1>1, PTL DEF Spec

-----------------------------------------------------------------------------
(***************************************************************************)
(* What was asked is what was committed.                                   *)
(***************************************************************************)
\* Fields of a result.
LEMMA ResultFields ==
  ASSUME NEW q, NEW chosen
  PROVE  LET result == OptimizePortfolio(q, chosen) IN
         /\ result.totalCost = TotalCents(q, chosen)
         /\ result.remaining = RoundCents(q.budget - 10 * TotalCents(q, chosen))
         /\ result.rejected = [z \in DOMAIN q.zones |->
                                 Cardinality({p \in Pairs(q) \ chosen : p[1] = z})]
BY DEF OptimizePortfolio

\* A committed run and its rows are a feasible choice for its body.
LEMMA CommittedRun ==
  ASSUME IInv, NEW r \in Requests, runs[r] # NoRun
  PROVE  LET b == asked[r] IN
         /\ b \in Bodies /\ OrgOf[b.project] = b.tenant
         /\ \A z \in DOMAIN b.zones : ProjectOf[z] = b.project
         /\ \A i \in DOMAIN b.items : OrgOf[i] = b.tenant
         /\ runs[r].org = b.tenant /\ runs[r].project = b.project
         /\ \E chosen \in SUBSET Pairs(Problem(b)) :
              /\ Feasible(Problem(b), chosen)
              /\ runs[r].result = OptimizePortfolio(Problem(b), chosen)
              /\ {<<a.zone, a.intervention>> : a \in RowsOf(r)} = chosen
              /\ {[zone |-> a.zone, intervention |-> a.intervention, cost |-> a.cost]
                    : a \in RowsOf(r)} = runs[r].result.allocations
<1> DEFINE b == asked[r]
           result == runs[r].result
<1>1. /\ Solved(b, result) /\ runs[r] = RunRow(b, result)
      /\ RowsOf(r) = RowsFor(r, result)
  BY DEF IInv, RunsSolved
<1>2. runs[r].org = b.tenant /\ runs[r].project = b.project
  BY <1>1 DEF RunRow
<1>3. PICK chosen \in Portfolios(Problem(b)) :
        result = OptimizePortfolio(Problem(b), chosen)
  BY <1>1 DEF Solved
<1>4. chosen \in SUBSET Pairs(Problem(b)) /\ Feasible(Problem(b), chosen)
  BY DEF Portfolios
<1>5. b \in Bodies
  BY <1>1 DEF Solved
<1>6. /\ {<<a.zone, a.intervention>> : a \in RowsOf(r)} = chosen
      /\ {[zone |-> a.zone, intervention |-> a.intervention, cost |-> a.cost]
            : a \in RowsOf(r)} = result.allocations
  BY <1>1, <1>3, <1>4, <1>5, RowsOfResult
<1>7. QED  BY <1>1, <1>2, <1>3, <1>4, <1>6 DEF Solved

LEMMA KeptByInvariant == IInv => PromisesKept
<1> SUFFICES ASSUME IInv, NEW r \in Committed
             PROVE  LET b == asked[r]
                        chosen == {<<a.zone, a.intervention>> : a \in RowsOf(r)}
                        inZones(S) == Cardinality({p \in chosen : p[1] \in S})
                    IN  /\ \A p \in chosen :
                             /\ OrgOf[ProjectOf[p[1]]] = b.tenant /\ OrgOf[p[2]] = b.tenant
                             /\ ProjectOf[p[1]] = runs[r].project
                             /\ inZones({p[1]}) <= b.zones[p[1]].capacity
                        /\ SumFunctionOnSet([p \in chosen |-> Catalogue[p[2]].cost], chosen)
                             <= b.budget
                        /\ inZones({z \in DOMAIN b.zones : b.zones[z].equity}) >= b.minEquity
                        /\ inZones({z \in DOMAIN b.zones : b.zones[z].school}) >= b.minSchool
                        /\ \A p \in b.required
                                      \intersect ((DOMAIN b.zones) \X (DOMAIN b.items)) :
                             p \in chosen \/ ~IsEligible(Catalogue[p[2]], b.zones[p[1]].use)
                        /\ b.incompatible \intersect chosen = {}
  BY DEF PromisesKept
<1> DEFINE b == asked[r]
           q == Problem(b)
           chosen == {<<a.zone, a.intervention>> : a \in RowsOf(r)}
           inZones(S) == Cardinality({p \in chosen : p[1] \in S})
<1>1. r \in Requests /\ runs[r] # NoRun
  BY DEF Committed
<1>2. /\ b \in Bodies /\ OrgOf[b.project] = b.tenant
      /\ \A z \in DOMAIN b.zones : ProjectOf[z] = b.project
      /\ \A i \in DOMAIN b.items : OrgOf[i] = b.tenant
      /\ runs[r].project = b.project
      /\ chosen \in SUBSET Pairs(q) /\ Feasible(q, chosen)
  BY <1>1, CommittedRun
<1>3. /\ q.zones = b.zones /\ q.budget = b.budget
      /\ q.minEquity = b.minEquity /\ q.minSchool = b.minSchool
      /\ q.required = b.required /\ q.incompatible = b.incompatible
  BY <1>2, ProblemFields
<1>4. \A p \in chosen : p[1] \in DOMAIN b.zones /\ p[2] \in DOMAIN b.items
  BY <1>2, PairsFinite
<1>5. \A z \in DOMAIN b.zones, i \in DOMAIN b.items :
        IsEligible(Catalogue[i], b.zones[z].use) => <<z, i>> \in Pairs(q)
  BY <1>2, PairsFinite
<1>6. SumFunctionOnSet([p \in chosen |-> Catalogue[p[2]].cost], chosen) = Cost(q, chosen)
  <2>1. /\ IsFiniteSet(chosen) /\ Integral(Costs(q), chosen)
        /\ \A p \in chosen : Costs(q)[p] = Catalogue[p[2]].cost
    BY <1>2, Figures
  <2> HIDE DEF chosen, q
  <2> DEFINE f == [p \in chosen |-> Catalogue[p[2]].cost]
  <2>2. \A p \in chosen : f[p] = Costs(q)[p]
    BY <2>1
  <2> HIDE DEF f
  <2>3. SumFunctionOnSet(f, chosen) = SumFunctionOnSet(Costs(q), chosen)
    BY <2>1, <2>2, SumSame
  <2>4. QED  BY <2>3 DEF f, Cost
<1> HIDE DEF chosen, q, b
<1>7. /\ Cost(q, chosen) <= b.budget
      /\ inZones({z \in DOMAIN b.zones : b.zones[z].equity}) >= b.minEquity
      /\ inZones({z \in DOMAIN b.zones : b.zones[z].school}) >= b.minSchool
      /\ \A z \in DOMAIN b.zones : inZones({z}) <= b.zones[z].capacity
      /\ b.required \intersect Pairs(q) \subseteq chosen
      /\ b.incompatible \intersect chosen = {}
  BY <1>2, <1>3 DEF Feasible, UnitsIn
<1>8. ASSUME NEW p \in b.required \intersect ((DOMAIN b.zones) \X (DOMAIN b.items))
      PROVE  p \in chosen \/ ~IsEligible(Catalogue[p[2]], b.zones[p[1]].use)
  <2>1. p = <<p[1], p[2]>> /\ p[1] \in DOMAIN b.zones /\ p[2] \in DOMAIN b.items
    OBVIOUS
  <2>2. QED  BY <1>5, <1>7, <2>1
<1>9. ASSUME NEW p \in chosen
      PROVE  /\ OrgOf[ProjectOf[p[1]]] = b.tenant /\ OrgOf[p[2]] = b.tenant
             /\ ProjectOf[p[1]] = runs[r].project
             /\ inZones({p[1]}) <= b.zones[p[1]].capacity
  BY <1>2, <1>4, <1>7
<1> HIDE DEF inZones
<1>10. QED
  BY <1>6, <1>7, <1>8, <1>9 DEF b, chosen, inZones

\* A committed portfolio keeps the budget, the capacities, the minima and the
\* named pairs of its request, whatever the catalogue and the solver's choice,
\* and draws on rows of its tenant only.
THEOREM CommittedKeepsPromises == Spec => []PromisesKept
BY InitIInv, NextIInv, KeptByInvariant, PTL DEF Spec

-----------------------------------------------------------------------------
(***************************************************************************)
(* The accounts of a result.                                               *)
(***************************************************************************)
\* The eligible interventions of a zone.
EligibleIn(b, z) == {i \in DOMAIN b.items : IsEligible(Catalogue[i], b.zones[z].use)}

\* The pairs of a zone are its interventions.
LEMMA PairsOfZone ==
  ASSUME NEW b \in Bodies, NEW z \in DOMAIN b.zones, NEW chosen \in SUBSET Pairs(Problem(b))
  PROVE  /\ Cardinality({p \in Pairs(Problem(b)) : p[1] = z}) = Cardinality(EligibleIn(b, z))
         /\ Cardinality({p \in Pairs(Problem(b)) \ chosen : p[1] = z})
              = Cardinality(EligibleIn(b, z)) - Cardinality({p \in chosen : p[1] = z})
<1> DEFINE q == Problem(b)
           here == {p \in Pairs(q) : p[1] = z}
           taken == {p \in chosen : p[1] = z}
           m == [p \in here |-> p[2]]
<1>1. /\ IsFiniteSet(Pairs(q))
      /\ \A p \in Pairs(q) : /\ p = <<p[1], p[2]>>
                             /\ p[1] \in DOMAIN b.zones /\ p[2] \in DOMAIN b.items
                             /\ IsEligible(Catalogue[p[2]], b.zones[p[1]].use)
      /\ \A i \in DOMAIN b.items :
           IsEligible(Catalogue[i], b.zones[z].use) => <<z, i>> \in Pairs(q)
  BY PairsFinite
<1> HIDE DEF q
<1>2. IsFiniteSet(here)
  BY <1>1, FS_Subset
<1>3. OneToOne(m, here)
  BY <1>1 DEF OneToOne
<1>4. ImageOf(m, here) = EligibleIn(b, z)
  <2>1. \A p \in here : m[p] \in EligibleIn(b, z)
    BY <1>1 DEF EligibleIn
  <2>2. \A i \in EligibleIn(b, z) : <<z, i>> \in here /\ m[<<z, i>>] = i
    BY <1>1 DEF EligibleIn
  <2> HIDE DEF m
  <2>3. QED  BY <2>1, <2>2 DEF ImageOf
<1> HIDE DEF m
<1>5. Cardinality(here) = Cardinality(EligibleIn(b, z))
  BY <1>2, <1>3, <1>4, ImageIsFinite
<1>6. {p \in Pairs(q) \ chosen : p[1] = z} = here \ taken /\ taken \subseteq here
  BY DEF q
<1>7. here \intersect taken = taken
  BY <1>6
<1>8. Cardinality(here \ taken) = Cardinality(here) - Cardinality(taken)
  BY <1>2, <1>7, FS_Difference
<1>9. QED  BY <1>5, <1>6, <1>8 DEF q

LEMMA Accounts ==
  ASSUME NEW b \in Bodies, NEW chosen \in SUBSET Pairs(Problem(b)),
         Feasible(Problem(b), chosen)
  PROVE  LET result == OptimizePortfolio(Problem(b), chosen)
             allocs == result.allocations
         IN  /\ result.totalCost = SumFunctionOnSet([a \in allocs |-> a.cost], allocs)
             /\ 10 * (result.totalCost + result.remaining) - b.budget \in -5..5
             /\ 10 * result.totalCost <= b.budget + 5 * Cardinality(allocs)
             /\ \A z \in DOMAIN b.zones :
                  result.rejected[z] = Cardinality(EligibleIn(b, z))
                                         - Cardinality({a \in allocs : a.zone = z})
<1> DEFINE q == Problem(b)
           m == AllocationOf(q)
           result == OptimizePortfolio(q, chosen)
           allocs == result.allocations
           cost == [a \in allocs |-> a.cost]
           total == TotalCents(q, chosen)
<1>1. /\ IsFiniteSet(chosen) /\ Integral(Costs(q), chosen) /\ Integral(Cents(q), chosen)
      /\ Cost(q, chosen) \in Int /\ total \in Int
  BY Figures
<1>2. /\ allocs = ImageOf(m, chosen) /\ OneToOne(m, chosen)
      /\ \A p \in chosen : m[p].zone = p[1] /\ m[p].cost = Cents(q)[p]
  BY Allocations
<1>3. /\ result.totalCost = total
      /\ result.remaining = RoundCents(q.budget - 10 * total)
      /\ result.rejected = [z \in DOMAIN q.zones |->
                              Cardinality({p \in Pairs(q) \ chosen : p[1] = z})]
  BY ResultFields
<1>4. q.budget = b.budget /\ b.budget \in Int /\ q.zones = b.zones
  BY ProblemFields DEF IsOptimizeRequest
<1>5. \A z \in DOMAIN b.zones :
        Cardinality({p \in Pairs(q) \ chosen : p[1] = z})
          = Cardinality(EligibleIn(b, z)) - Cardinality({p \in chosen : p[1] = z})
  BY PairsOfZone
<1>6. \A p \in chosen : 10 * Cents(q)[p] <= Costs(q)[p] + 5
  <2>1. \A p \in chosen : /\ Costs(q)[p] = Catalogue[p[2]].cost
                          /\ Cents(q)[p] = RoundCents(Catalogue[p[2]].cost)
    BY Figures
  <2>2. \A p \in chosen : Catalogue[p[2]].cost \in Int
    BY <1>1, <2>1 DEF Integral
  <2> HIDE DEF q
  <2>3. QED  BY <2>1, <2>2, Rounding
<1>7. Feasible(q, chosen)
  OBVIOUS
<1> HIDE DEF q, m, result
<1>8. total = SumFunctionOnSet(cost, allocs)
  <2>1. \A p \in chosen : Cents(q)[p] = cost[m[p]]
    BY <1>2 DEF ImageOf
  <2> HIDE DEF cost, allocs
  <2>2. QED  BY <1>1, <1>2, <2>1, SumRenamed DEF TotalCents
<1>9. 10 * (total + result.remaining) - b.budget \in -5..5
  <2>1. q.budget - 10 * total \in Int
    BY <1>1, <1>4
  <2> HIDE DEF total
  <2>2. /\ result.remaining \in Int
        /\ 10 * result.remaining <= q.budget - 10 * total + 5
        /\ q.budget - 10 * total <= 10 * result.remaining + 4
    BY <1>3, <2>1, Rounding
  <2>3. QED  BY <1>1, <1>4, <2>2
<1>10. 10 * total <= b.budget + 5 * Cardinality(allocs)
  <2>1. 10 * total <= Cost(q, chosen) + 5 * Cardinality(chosen)
    BY <1>1, <1>6, SumRounded DEF TotalCents, Cost
  <2>2. Cardinality(allocs) = Cardinality(chosen) /\ Cardinality(chosen) \in Nat
    BY <1>1, <1>2, ImageIsFinite, FS_CardinalityType
  <2>3. Cost(q, chosen) <= b.budget
    BY <1>4, <1>7 DEF Feasible
  <2> HIDE DEF total, allocs
  <2>4. QED  BY <1>1, <1>4, <2>1, <2>2, <2>3
<1>11. ASSUME NEW z \in DOMAIN b.zones
       PROVE  result.rejected[z] = Cardinality(EligibleIn(b, z))
                                     - Cardinality({a \in allocs : a.zone = z})
  <2> DEFINE here == {p \in chosen : p[1] = z}
  <2>1. {a \in allocs : a.zone = z} = ImageOf(m, here)
    BY <1>2 DEF ImageOf
  <2>2. IsFiniteSet(here) /\ OneToOne(m, here)
    BY <1>1, <1>2, FS_Subset DEF OneToOne
  <2>3. Cardinality(ImageOf(m, here)) = Cardinality(here)
    BY <2>2, ImageIsFinite
  <2>4. QED  BY <1>3, <1>4, <1>5, <2>1, <2>3
<1>12. QED
  BY <1>3, <1>8, <1>9, <1>10, <1>11 DEF result, q

LEMMA StoredByInvariant == IInv => StoredAsAnswered
<1> SUFFICES ASSUME IInv PROVE StoredAsAnswered
  OBVIOUS
<1>1. \A a \in allocations : a.run \in Committed
  <2> SUFFICES ASSUME NEW a \in allocations PROVE a.run \in Committed
    OBVIOUS
  <2>1. a.run \in Requests
    BY DEF IInv, TypeOK, Allocation
  <2>2. a \in RowsOf(a.run)
    BY DEF RowsOf
  <2>3. QED  BY <2>1, <2>2 DEF IInv, NothingElse, Committed
<1>2. \A r \in Requests : answer[r] # Error =>
        r \in Committed /\ answer[r].result = runs[r].result
  <2> SUFFICES ASSUME NEW r \in Requests, answer[r] # Error
               PROVE  r \in Committed /\ answer[r].result = runs[r].result
    OBVIOUS
  <2>1. /\ runs[r] # NoRun
        /\ answer[r] = [status |-> "completed", result |-> runs[r].result]
    BY DEF IInv, ToldWhatIsStored
  <2>2. answer[r].result = runs[r].result
    BY <2>1
  <2>3. QED  BY <2>1, <2>2 DEF Committed
<1>3. ASSUME NEW r \in Committed, NEW org \in Orgs
      PROVE  LET read == GetPortfolioRun(org, r)
                 b    == asked[r]
                 rejectable(z) == {i \in DOMAIN b.items :
                                     IsEligible(Catalogue[i], b.zones[z].use)}
             IN  IF org # b.tenant THEN read = NotFound
                 ELSE /\ read.allocations = read.result.allocations
                      /\ read.result.totalCost
                           = SumFunctionOnSet([a \in read.allocations |-> a.cost],
                                              read.allocations)
                      /\ 10 * (read.result.totalCost + read.result.remaining) - b.budget
                           \in -5..5
                      /\ 10 * read.result.totalCost
                           <= b.budget + 5 * Cardinality(read.allocations)
                      /\ \A z \in DOMAIN b.zones :
                           read.result.rejected[z] = Cardinality(rejectable(z))
                             - Cardinality({a \in read.allocations : a.zone = z})
  <2> DEFINE b      == asked[r]
             read   == GetPortfolioRun(org, r)
             result == runs[r].result
             allocs == result.allocations
  <2>1. r \in Requests /\ runs[r] # NoRun
    BY DEF Committed
  <2>2. b \in Bodies /\ runs[r].org = b.tenant
    BY <2>1, CommittedRun
  <2>3. PICK chosen \in SUBSET Pairs(Problem(b)) :
          /\ Feasible(Problem(b), chosen)
          /\ result = OptimizePortfolio(Problem(b), chosen)
          /\ {[zone |-> a.zone, intervention |-> a.intervention, cost |-> a.cost]
                : a \in RowsOf(r)} = allocs
    BY <2>1, CommittedRun
  <2>4. /\ result.totalCost = SumFunctionOnSet([a \in allocs |-> a.cost], allocs)
        /\ 10 * (result.totalCost + result.remaining) - b.budget \in -5..5
        /\ 10 * result.totalCost <= b.budget + 5 * Cardinality(allocs)
        /\ \A z \in DOMAIN b.zones :
             result.rejected[z] = Cardinality(EligibleIn(b, z))
                                    - Cardinality({a \in allocs : a.zone = z})
    BY <2>2, <2>3, Accounts
  <2>5. CASE org # b.tenant
    BY <2>2, <2>5 DEF GetPortfolioRun
  <2>6. CASE org = b.tenant
    <3>1. read = [status |-> runs[r].status, result |-> result,
                  allocations |-> {[zone |-> a.zone, intervention |-> a.intervention,
                                    cost |-> a.cost] : a \in RowsOf(r)}]
      BY <2>1, <2>2, <2>6 DEF GetPortfolioRun, RowsOf
    <3>2. read.result = result /\ read.allocations = allocs
      BY <2>3, <3>1
    <3> HIDE DEF read, result, b
    <3>3. QED  BY <2>2, <2>4, <2>6, <3>2 DEF EligibleIn, read, b
  <2>7. QED  BY <2>5, <2>6
<1>4. QED  BY <1>1, <1>2, <1>3 DEF StoredAsAnswered

\* A client that was told anything was told what is stored, the stored accounts
\* balance to the half cent, and no other tenant reads them.
THEOREM AccountsBalance == Spec => []StoredAsAnswered
BY InitIInv, NextIInv, StoredByInvariant, PTL DEF Spec
=============================================================================
