------------------------------ MODULE Portfolio ------------------------------
(***************************************************************************)
(* optimize_portfolio of app/optimization/portfolio.py: choose at most one *)
(* unit of each eligible intervention in each zone.  Solve may return      *)
(* FEASIBLE, and an OPTIMAL within the solver's gap, both of which are     *)
(* used: the SCIP solver is the set of feasible choices, any of which it   *)
(* may return, and the objective is left to it.                            *)
(*                                                                         *)
(* A problem q has the zones and the specs (both functions from ids) and   *)
(* the numbers of the request.  Costs and budgets are integers, ten to a   *)
(* cent, so that the rounding to cents shows; results are in cents.        *)
(***************************************************************************)
EXTENDS Integers, FiniteSetsExt

CONSTANT Casefold   \* the case-folded form of each land use

\* is_eligible.
IsEligible(spec, use) == \E u \in spec.uses : Casefold[u] = Casefold[use]

\* round(x / 10): no half cents occur (MC instances keep clear of them).
RoundCents(x) == (x + 5) \div 10

\* The solver's variables.
Pairs(q) == {p \in (DOMAIN q.zones) \X (DOMAIN q.specs) :
               IsEligible(q.specs[p[2]], q.zones[p[1]].use)}

\* Figures of a pair: its intervention's.
Costs(q)         == [p \in Pairs(q) |-> q.specs[p[2]].cost]
Scores(q)        == [p \in Pairs(q) |-> q.specs[p[2]].score]
Uncertainties(q) == [p \in Pairs(q) |-> q.specs[p[2]].uncertainty]
Cents(q)         == [p \in Pairs(q) |-> RoundCents(q.specs[p[2]].cost)]

Cost(q, chosen) == SumFunctionOnSet(Costs(q), chosen)

\* How many of the chosen pairs are in zones of S.
UnitsIn(chosen, S) == Cardinality({p \in chosen : p[1] \in S})

\* The constraints.  A required pair that is not eligible has no variable and
\* constrains nothing.
Feasible(q, chosen) ==
  /\ Cost(q, chosen) <= q.budget
  /\ UnitsIn(chosen, {z \in DOMAIN q.zones : q.zones[z].equity}) >= q.minEquity
  /\ UnitsIn(chosen, {z \in DOMAIN q.zones : q.zones[z].school}) >= q.minSchool
  /\ \A z \in DOMAIN q.zones : UnitsIn(chosen, {z}) <= q.zones[z].capacity
  /\ q.required \intersect Pairs(q) \subseteq chosen
  /\ q.incompatible \intersect chosen = {}

\* What Solve may return; none when the constraints are infeasible.
Portfolios(q) == {chosen \in SUBSET Pairs(q) : Feasible(q, chosen)}

\* Mutant: the total is rounded once, the allocations each.
TotalCentsRoundedOnce(q, chosen) == RoundCents(Cost(q, chosen))

\* The sum of validated_cost over the allocations: each is rounded to cents.
TotalCents(q, chosen) == SumFunctionOnSet(Cents(q), chosen)

BindingConstraints(q, chosen) ==
  LET left == q.budget - 10 * TotalCents(q, chosen) IN
  (IF left \in -9..9 THEN {"budget"} ELSE {})
    \union (IF q.minEquity > 0 THEN {"equity_minimum"} ELSE {})
    \union (IF q.minSchool > 0 THEN {"school_minimum"} ELSE {})

\* The PortfolioResult.  rejected counts the entries of each zone.
OptimizePortfolio(q, chosen) ==
  [allocations |-> {[zone |-> p[1], intervention |-> p[2],
                     cost |-> RoundCents(q.specs[p[2]].cost)] : p \in chosen},
   totalCost   |-> TotalCents(q, chosen),
   benefit     |-> SumFunctionOnSet(Scores(q), chosen),
   uncertainty |-> SumFunctionOnSet(Uncertainties(q), chosen),
   remaining   |-> RoundCents(q.budget - 10 * TotalCents(q, chosen)),
   rejected    |-> [z \in DOMAIN q.zones |->
                      Cardinality({p \in Pairs(q) \ chosen : p[1] = z})],
   binding     |-> BindingConstraints(q, chosen)]
=============================================================================
