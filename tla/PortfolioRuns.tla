----------------------------- MODULE PortfolioRuns -----------------------------
(***************************************************************************)
(* Portfolio runs of several organizations (app/api/optimization.py), with *)
(* the rows they draw on: projects and zones (app/api/projects.py) and the *)
(* intervention catalogue (app/api/interventions.py).  A request reads and *)
(* validates these rows, solves, writes a run and its allocations in one   *)
(* transaction, and answers; in between rows are added, and the process or *)
(* a connection may be lost.                                               *)
(***************************************************************************)
EXTENDS Portfolio

CONSTANTS
  Orgs,          \* the organizations
  OrgOf,         \* the organization of each project and intervention
  ProjectOf,     \* the project of each zone; a zone is its (project, name)
  Catalogue,     \* what each intervention costs and does
  Bodies,        \* bound: the OptimizeRequests, each with its tenant
  MaxRequests,   \* bound: requests
  MaxInFlight    \* bound: requests handled at the same time

Zones         == DOMAIN ProjectOf
Interventions == DOMAIN Catalogue
Projects      == DOMAIN OrgOf \ Interventions
Other         == "other"   \* an id spelled otherwise than str(UUID) does

\* The schemas: what a request says of a zone and of an intervention, and the
\* rest of it.  Only the cost and the uncertainty of an intervention are kept.
ZoneInput == [use : DOMAIN Casefold, equity : BOOLEAN, school : BOOLEAN,
              capacity : Nat]
InterventionInput == [cost : Nat, uncertainty : Nat]
Named == SUBSET ((Zones \union {Other}) \X Interventions)
IsOptimizeRequest(b) ==
  /\ DOMAIN b = {"tenant", "project", "repeated", "budget", "zones", "items", "minEquity",
                 "minSchool", "penalty", "required", "incompatible"}
  /\ b.tenant \in Orgs /\ b.project \in Projects /\ b.repeated \in BOOLEAN
  /\ {b.budget, b.minEquity, b.minSchool, b.penalty} \subseteq Nat
  /\ DOMAIN b.zones \subseteq Zones /\ b.zones \in [DOMAIN b.zones -> ZoneInput]
  /\ DOMAIN b.items \subseteq Interventions
  /\ b.items \in [DOMAIN b.items -> InterventionInput]
  /\ b.required \in Named /\ b.incompatible \in Named

\* Nothing costs half a cent.
ASSUME PortfolioAssumption ==
  /\ IsFiniteSet(Zones) /\ IsFiniteSet(Interventions)
  /\ OrgOf \in [Projects \union Interventions -> Orgs]
  /\ ProjectOf \in [Zones -> Projects]
  /\ Catalogue \in [Interventions -> [cost : Nat, score : Nat, uses : SUBSET DOMAIN Casefold]]
  /\ \A i \in Interventions : Catalogue[i].cost > 0 /\ Catalogue[i].cost % 10 # 5
  /\ \A b \in Bodies : IsOptimizeRequest(b) /\ b.budget % 10 # 5
  /\ MaxRequests \in Nat /\ MaxInFlight \in Nat

Requests == 1..MaxRequests

VARIABLES
  projects,    \* the committed projects
  zones,       \* the committed zones
  catalogue,   \* the committed interventions; none is ever deactivated
  runs,        \* the committed portfolio_runs rows
  allocations, \* the committed portfolio_allocations rows
  pc,          \* what each request does next
  work,        \* body and result of each request that is not answered yet
  asked,       \* history: the body of each committed run
  answer       \* what each client was told

rows == <<projects, zones, catalogue>>
vars == <<rows, runs, allocations, pc, work, asked, answer>>

NoRun    == [status |-> "none"]
Error    == [status |-> "error"]
NotFound == [status |-> "not_found"]
Idle     == [body |-> "none"]

Allocation == [run : Requests, zone : Zones, intervention : Interventions, cost : Nat]

TypeOK ==
  /\ projects \subseteq Projects /\ zones \subseteq Zones
  /\ catalogue \subseteq Interventions
  /\ \A r \in Requests : runs[r] = NoRun \/ runs[r].org \in Orgs
  /\ allocations \subseteq Allocation
  /\ pc \in [Requests -> {"idle", "commit", "reply", "done"}]
  /\ \A r \in Requests : pc[r] \in {"commit", "reply"} <=> work[r] # Idle

Init ==
  /\ projects = {} /\ zones = {} /\ catalogue = {}
  /\ runs = [r \in Requests |-> NoRun] /\ allocations = {}
  /\ pc = [r \in Requests |-> "idle"]
  /\ work = [r \in Requests |-> Idle]
  /\ asked = [r \in Requests |-> Idle]
  /\ answer = [r \in Requests |-> Error]

-----------------------------------------------------------------------------
(***************************************************************************)
(* Projects, zones and catalogue: one INSERT each.                         *)
(***************************************************************************)
Unplanned == UNCHANGED <<runs, allocations, pc, work, asked, answer>>

CreateProject == /\ \E p \in Projects \ projects : projects' = projects \union {p}
                 /\ UNCHANGED <<zones, catalogue>> /\ Unplanned

\* The project is the caller's; the name is new in it.
CreateZone == /\ \E z \in Zones \ zones : /\ ProjectOf[z] \in projects
                                          /\ zones' = zones \union {z}
              /\ UNCHANGED <<projects, catalogue>> /\ Unplanned

CreateIntervention ==
  /\ \E i \in Interventions \ catalogue : catalogue' = catalogue \union {i}
  /\ UNCHANGED <<projects, zones>> /\ Unplanned

-----------------------------------------------------------------------------
(***************************************************************************)
(* POST /portfolio-runs.                                                   *)
(***************************************************************************)
InFlight == {r \in Requests : pc[r] \in {"commit", "reply"}}

NextArrival(r) == /\ pc[r] = "idle"
                  /\ \A q \in 1..(r - 1) : pc[q] # "idle"
                  /\ Cardinality(InFlight) < MaxInFlight

\* The project is the tenant's; no zone or intervention is listed twice; every
\* zone is of the project and every intervention of the tenant's catalogue.
Accepted(b) ==
  /\ b.project \in projects /\ OrgOf[b.project] = b.tenant
  /\ ~b.repeated
  /\ \A z \in DOMAIN b.zones : z \in zones /\ ProjectOf[z] = b.project
  /\ \A i \in DOMAIN b.items : i \in catalogue /\ OrgOf[i] = b.tenant

\* Mutant: the economics are the request's.
RequestedSpecs(b) ==
  [i \in DOMAIN b.items |-> [cost |-> b.items[i].cost, score |-> Catalogue[i].score,
                             uses |-> Catalogue[i].uses,
                             uncertainty |-> b.items[i].uncertainty]]

\* Cost, score and land uses from the catalogue, uncertainty from the request.
CatalogueSpecs(b) ==
  [i \in DOMAIN b.items |-> [cost |-> Catalogue[i].cost, score |-> Catalogue[i].score,
                             uses |-> Catalogue[i].uses,
                             uncertainty |-> b.items[i].uncertainty]]

Problem(b) == [zones |-> b.zones, specs |-> CatalogueSpecs(b), budget |-> b.budget,
               minEquity |-> b.minEquity, minSchool |-> b.minSchool,
               penalty |-> b.penalty, required |-> b.required,
               incompatible |-> b.incompatible]

\* Validation and optimization.  Infeasible constraints are a ValueError, which
\* the client sees as a 500.
Optimize(r) ==
  /\ NextArrival(r)
  /\ \E b \in Bodies :
       \/ /\ ~Accepted(b) \/ Portfolios(Problem(b)) = {}
          /\ pc' = [pc EXCEPT ![r] = "done"]
          /\ UNCHANGED work
       \/ /\ Accepted(b)
          /\ \E chosen \in Portfolios(Problem(b)) :
               work' = [work EXCEPT ![r] =
                          [body |-> b, result |-> OptimizePortfolio(Problem(b), chosen)]]
          /\ pc' = [pc EXCEPT ![r] = "commit"]
  /\ UNCHANGED <<rows, runs, allocations, asked, answer>>

\* Mutant: the allocations are made before the flush that names the run.
CommitRunUnflushed(r) ==
  /\ pc[r] = "commit"
  /\ LET b == work[r].body  result == work[r].result IN
     /\ runs' = [runs EXCEPT ![r] = [status |-> "completed", org |-> b.tenant,
                                     project |-> b.project, budget |-> b.budget,
                                     result |-> result]]
     /\ allocations' = allocations \union
          {[run |-> 0, zone |-> a.zone, intervention |-> a.intervention,
            cost |-> a.cost] : a \in result.allocations}
     /\ asked' = [asked EXCEPT ![r] = b]
  /\ pc' = [pc EXCEPT ![r] = "reply"]
  /\ UNCHANGED <<rows, work, answer>>

\* The run, flushed for its id, and its allocations in one transaction.
CommitRun(r) ==
  /\ pc[r] = "commit"
  /\ LET b == work[r].body  result == work[r].result IN
     /\ runs' = [runs EXCEPT ![r] = [status |-> "completed", org |-> b.tenant,
                                     project |-> b.project, budget |-> b.budget,
                                     result |-> result]]
     /\ allocations' = allocations \union
          {[run |-> r, zone |-> a.zone, intervention |-> a.intervention,
            cost |-> a.cost] : a \in result.allocations}
     /\ asked' = [asked EXCEPT ![r] = b]
  /\ pc' = [pc EXCEPT ![r] = "reply"]
  /\ UNCHANGED <<rows, work, answer>>

\* The response in memory goes to the client.
Reply(r) ==
  /\ pc[r] = "reply"
  /\ answer' = [answer EXCEPT ![r] = [status |-> "completed", result |-> work[r].result]]
  /\ pc' = [pc EXCEPT ![r] = "done"] /\ work' = [work EXCEPT ![r] = Idle]
  /\ UNCHANGED <<rows, runs, allocations, asked>>

\* The process or a connection is lost, before the commit or after it: then the
\* run is stored and its client was told nothing.
Crash(r) ==
  /\ r \in InFlight
  /\ pc' = [pc EXCEPT ![r] = "done"] /\ work' = [work EXCEPT ![r] = Idle]
  /\ UNCHANGED <<rows, runs, allocations, asked, answer>>

\* GET /portfolio-runs/{id}.
GetPortfolioRun(org, i) ==
  IF runs[i] # NoRun /\ runs[i].org = org
  THEN [status |-> runs[i].status, result |-> runs[i].result,
        allocations |-> {[zone |-> a.zone, intervention |-> a.intervention,
                          cost |-> a.cost] : a \in {x \in allocations : x.run = i}}]
  ELSE NotFound

Next == \/ CreateProject \/ CreateZone \/ CreateIntervention
        \/ \E r \in Requests : Optimize(r) \/ CommitRun(r) \/ Reply(r) \/ Crash(r)

Spec == Init /\ [][Next]_vars

-----------------------------------------------------------------------------
(***************************************************************************)
(* Properties.                                                             *)
(***************************************************************************)
Committed == {r \in Requests : runs[r] # NoRun}
RowsOf(r) == {a \in allocations : a.run = r}

\* What was asked of a portfolio holds of the committed rows, priced by the
\* catalogue whatever the request said: the tenant's zones and interventions,
\* the budget, the capacity of each zone, the two minima, every required pair
\* that is eligible and no incompatible one.
PromisesKept ==
  \A r \in Committed :
    LET b == asked[r]
        chosen == {<<a.zone, a.intervention>> : a \in RowsOf(r)}
        inZones(S) == Cardinality({p \in chosen : p[1] \in S})
    IN  /\ \A p \in chosen :
             /\ OrgOf[ProjectOf[p[1]]] = b.tenant /\ OrgOf[p[2]] = b.tenant
             /\ ProjectOf[p[1]] = runs[r].project
             /\ inZones({p[1]}) <= b.zones[p[1]].capacity
        /\ SumFunctionOnSet([p \in chosen |-> Catalogue[p[2]].cost], chosen) <= b.budget
        /\ inZones({z \in DOMAIN b.zones : b.zones[z].equity}) >= b.minEquity
        /\ inZones({z \in DOMAIN b.zones : b.zones[z].school}) >= b.minSchool
        /\ \A p \in b.required \intersect ((DOMAIN b.zones) \X (DOMAIN b.items)) :
             p \in chosen \/ ~IsEligible(Catalogue[p[2]], b.zones[p[1]].use)
        /\ b.incompatible \intersect chosen = {}

\* What is stored of a run agrees with itself and with what its client was
\* told, if anything: no allocation is without its run; a tenant reads back what
\* the request answered, and another tenant finds nothing; the allocations are
\* those of the stored result, their costs sum to the total, total and remainder
\* to the budget within half a cent, the total exceeds the budget by half a cent
\* per allocation at most, and each eligible pair is allocated or rejected.
StoredAsAnswered ==
  /\ \A a \in allocations : a.run \in Committed
  /\ \A r \in Requests : answer[r] # Error =>
       r \in Committed /\ answer[r].result = runs[r].result
  /\ \A r \in Committed : \A org \in Orgs :
       LET read == GetPortfolioRun(org, r)
           b    == asked[r]
           rejectable(z) == {i \in DOMAIN b.items :
                               IsEligible(Catalogue[i], b.zones[z].use)}
       IN  IF org # b.tenant THEN read = NotFound
           ELSE /\ read.allocations = read.result.allocations
                /\ read.result.totalCost
                     = SumFunctionOnSet([a \in read.allocations |-> a.cost],
                                        read.allocations)
                /\ 10 * (read.result.totalCost + read.result.remaining) - b.budget
                     \in -5..5
                /\ 10 * read.result.totalCost
                     <= b.budget + 5 * Cardinality(read.allocations)
                /\ \A z \in DOMAIN b.zones :
                     read.result.rejected[z] = Cardinality(rejectable(z))
                       - Cardinality({a \in read.allocations : a.zone = z})
=============================================================================
