-------------------------- MODULE GroundedRunsProofs --------------------------
(***************************************************************************)
(* Proofs about GroundedRuns for any tenants, tables, inputs, provider     *)
(* outputs, changes and revisions.  The invariant says, for each step of   *)
(* an execution, what is settled of the state in memory: the heat          *)
(* analysis, then the portfolio run, then the interventions, then their    *)
(* evidence, then what each node added; from the first checkpoint on it is *)
(* the durable state.                                                      *)
(***************************************************************************)
EXTENDS GroundedRuns, WellFoundedInduction, TLAPS

SavingSteps == {"persist2", "persist3", "persist4", "gate"}
NodeSteps == {"node1", "node2", "node3", "node4", "persist1"} \union SavingSteps
AfterInterventions == {"evidence"} \union NodeSteps
AfterPortfolio     == {"interventions"} \union AfterInterventions
AfterHeat          == {"portfolio"} \union AfterPortfolio
AfterNode1 == NodeSteps \ {"node1"}
AfterNode2 == AfterNode1 \ {"node2"}
AfterNode3 == AfterNode2 \ {"node3"}
AfterNode4 == AfterNode3 \ {"node4"}

Typed == /\ heat \in Seq(Heat) /\ portfolios \in Seq(Portfolio)
         /\ evidence \subseteq Evidence /\ lasting \subseteq evidence
         /\ state \in State /\ work \in State
         /\ step \in Steps /\ todo \subseteq DOMAIN Catalogue
         /\ revisions \in Nat

\* The run is a record, and it is running while it is executed (and for good
\* after a loss).
Complete == run.status \in {"waiting_approval", "closed"}
Flow == /\ run = [status |-> run.status, project |-> run.project, input |-> run.input]
        /\ run.status \in {"absent", "running", "waiting_approval", "closed", "failed"}
        /\ step # "none" => run.status = "running"

\* The state in memory, too, holds rows of the organization only.
OursKept == /\ \A x \in sent \union Context(state) \union Context(work) : Owner(x) = Us
            /\ \A i \in todo : Catalogue[i] = Us

\* The citations in memory are issued; after a node they include those of the
\* grounding.
CitationsKept == /\ CitationsIssued
                 /\ work.citations \union work.grounding.citations \subseteq issued
                 /\ step \in AfterNode1 => work.grounding.citations \subseteq work.citations

\* Each part of the grounding is as asked for as soon as it is resolved.
HeatAsAsked(g) ==
  /\ run.input.heat # <<>> => g.heat = run.input.heat[1]
  /\ run.project # "none" /\ g.heat # "none" => HeatRows[g.heat].project = run.project
PortfolioAsAsked(g) ==
  /\ run.input.portfolio # <<>> => g.portfolio = run.input.portfolio[1]
  /\ run.project # "none" /\ g.portfolio # "none"
       => PortfolioRows[g.portfolio].project \in {run.project, "none"}
InterventionsAsAsked(g) ==
  g.interventions = IF Requested = {} THEN {i \in DOMAIN Catalogue : Catalogue[i] = Us}
                    ELSE Requested
AskedFor ==
  /\ step \in AfterHeat => HeatAsAsked(work.grounding)
  /\ step \in AfterPortfolio => PortfolioAsAsked(work.grounding)
  /\ step \in AfterInterventions => InterventionsAsAsked(work.grounding)
  /\ Saved => /\ HeatAsAsked(state.grounding)
              /\ PortfolioAsAsked(state.grounding)
              /\ InterventionsAsAsked(state.grounding)

\* Evidence that lasts is cited or still to be selected.
EvidenceKept ==
  \A e \in lasting : EvidenceOf[e] \in work.grounding.interventions =>
    /\ step = "evidence" => e \in work.grounding.citations \/ EvidenceOf[e] \in todo
    /\ step \in NodeSteps => e \in work.grounding.citations

\* Each node that has run has written from the current grounding; what is saved
\* is what is in memory.
Written(name) == work.summaries[name] = SummaryForAgent(work.grounding)
StateKept ==
  /\ StateOfLastExecution
  /\ \A a \in Agents : work.facts[a] \subseteq {"measure", "label"}
  /\ run.status = "absent" => ~Saved
  /\ step \in SavingSteps => work = state
  /\ step \notin {"none", "fail"} \union SavingSteps =>
       work.entries = IF step \in AfterNode2 THEN state.entries + 1 ELSE state.entries
  /\ step \in AfterNode1 => Written("heat_intelligence")
  /\ step \in AfterNode2 => Written("intervention_analyst")
  /\ step \in AfterNode3 => Written("portfolio")
  /\ step \in AfterNode4 => Written("verification")

IInv == /\ Typed
        /\ Flow
        /\ OursKept
        /\ CitationsKept
        /\ AskedFor
        /\ EvidenceKept
        /\ StateKept

-----------------------------------------------------------------------------
(***************************************************************************)
(* What the operators return.                                              *)
(***************************************************************************)
\* Ids are unique across the tables, so an id has the owner of its row.
LEMMA Owners ==
  /\ \A h \in Heat : Owner(h) = HeatRows[h].org
  /\ \A p \in Portfolio : Owner(p) = PortfolioRows[p].org
  /\ \A e \in Evidence : Owner(e) = Catalogue[EvidenceOf[e]]
  /\ \A i \in DOMAIN Catalogue : Owner(i) = Catalogue[i]
<1>1. /\ Heat \intersect Portfolio = {} /\ Heat \intersect Evidence = {}
      /\ Portfolio \intersect Evidence = {} /\ Citations \intersect DOMAIN Catalogue = {}
  BY GroundingAssumption
<1>2. QED  BY <1>1 DEF Owner, Citations

\* Latest picks a row at one of the positions, if there is any.
LEMMA LatestPicks ==
  ASSUME NEW rows, NEW positions
  PROVE  \/ Latest(rows, positions) = "none"
         \/ \E i \in positions : Latest(rows, positions) = rows[i]
BY DEF Latest

\* A query returns nothing, or a row of the organization that was asked for.
LEMMA Selected ==
  ASSUME NEW T, NEW rows \in Seq(T), NEW table, NEW refs
  PROVE  LET found == SelectRow(rows, table, refs) IN
         \/ found = "none"
         \/ found \in T /\ table[found].org = Us /\ Asked(found, table, refs)
<1> DEFINE positions == {i \in DOMAIN rows : /\ table[rows[i]].org = Us
                                             /\ Asked(rows[i], table, refs)}
<1>1. SelectRow(rows, table, refs) = Latest(rows, positions)
  BY DEF SelectRow
<1>2. \A i \in positions : /\ rows[i] \in T /\ table[rows[i]].org = Us
                           /\ Asked(rows[i], table, refs)
  OBVIOUS
<1>3. QED
  <2> HIDE DEF positions
  <2> QED  BY <1>1, <1>2, LatestPicks

\* safe_input_references builds its list value by value.  The list after each
\* value exists and holds ids only: a first value for which this failed would
\* follow one for which it holds.
Lists(h, s, m) ==
  h = [n \in 0..m |-> IF n = 0 THEN <<>>
                      ELSE IF s[n] = Junk THEN h[n - 1] ELSE Append(h[n - 1], s[n])]

LEMMA FirstOf ==
  ASSUME NEW B \in SUBSET Nat, B # {}
  PROVE  \E m \in B : \A k \in B : m <= k
<1>1. PICK m \in B : \A k \in B : <<k, m>> \notin OpToRel(<, Nat)
  BY NatLessThanWellFounded, WFMin
<1>2. \A k \in B : ~(k < m)
  BY <1>1 DEF OpToRel
<1>. QED  BY <1>2

LEMMA ListsExist ==
  ASSUME NEW s, NEW len \in Nat
  PROVE  \E h : Lists(h, s, len)
<1> DEFINE B == {m \in Nat : ~\E h : Lists(h, s, m)}
<1>1. SUFFICES ASSUME B # {} PROVE FALSE
  OBVIOUS
<1>2. PICK m \in B : \A k \in B : m <= k
  BY <1>1, FirstOf
<1>3. CASE m = 0
  <2>1. Lists([n \in 0..0 |-> <<>>], s, 0)
    BY DEF Lists
  <2>. QED  BY <1>3, <2>1
<1>4. CASE m # 0
  <2>1. m - 1 \in Nat /\ m - 1 \notin B
    BY <1>2, <1>4
  <2>2. PICK h : Lists(h, s, m - 1)
    BY <2>1
  <2> DEFINE last == IF s[m] = Junk THEN h[m - 1] ELSE Append(h[m - 1], s[m])
             g == [n \in 0..m |-> IF n = m THEN last ELSE h[n]]
  <2>3. \A n \in 0..(m - 1) :
          h[n] = IF n = 0 THEN <<>>
                 ELSE IF s[n] = Junk THEN h[n - 1] ELSE Append(h[n - 1], s[n])
    BY <2>2 DEF Lists
  <2>4. ASSUME NEW n \in 0..m
        PROVE  g[n] = IF n = 0 THEN <<>>
                      ELSE IF s[n] = Junk THEN g[n - 1] ELSE Append(g[n - 1], s[n])
    <3>1. CASE n = m
      <4>1. g[n - 1] = h[m - 1] /\ g[n] = last /\ n # 0
        BY <1>4, <2>1, <3>1
      <4>. QED  BY <3>1, <4>1
    <3>2. CASE n # m
      <4>1. n \in 0..(m - 1) /\ g[n] = h[n] /\ (n # 0 => g[n - 1] = h[n - 1])
        BY <2>1, <3>2
      <4> HIDE DEF g
      <4>. QED  BY <2>3, <4>1
    <3>. QED  BY <3>1, <3>2
  <2>5. g = [n \in 0..m |-> g[n]]
    OBVIOUS
  <2> HIDE DEF g
  <2>6. Lists(g, s, m)
    BY <2>4, <2>5 DEF Lists
  <2>. QED  BY <1>2, <2>6
<1>. QED  BY <1>3, <1>4

\* What is kept of a list of references is a list of ids (safe_input_references).
LEMMA ValidKeepsIds ==
  ASSUME NEW T, NEW s \in Seq(T \union {Junk})
  PROVE  Valid(s) \in Seq(T)
<1> DEFINE h == CHOOSE h : Lists(h, s, Len(s))
<1>1. Valid(s) = h[Len(s)]
  BY DEF Valid, Lists
<1>2. Lists(h, s, Len(s))
  BY ListsExist
<1> HIDE DEF h
<1>3. \A n \in 0..Len(s) :
        h[n] = IF n = 0 THEN <<>>
               ELSE IF s[n] = Junk THEN h[n - 1] ELSE Append(h[n - 1], s[n])
  BY <1>2 DEF Lists
<1> DEFINE B == {n \in 0..Len(s) : h[n] \notin Seq(T)}
<1>4. B = {}
  <2> SUFFICES ASSUME B # {} PROVE FALSE
    OBVIOUS
  <2>1. PICK n \in B : \A k \in B : n <= k
    <3>1. B \in SUBSET Nat
      OBVIOUS
    <3> HIDE DEF B
    <3>. QED  BY <3>1, FirstOf
  <2>2. n # 0
    <3>1. 0 \in 0..Len(s)
      OBVIOUS
    <3>2. h[0] = <<>>
      BY <1>3, <3>1
    <3>3. <<>> \in Seq(T)
      OBVIOUS
    <3>. QED  BY <3>2, <3>3
  <2>3. n - 1 \in 0..Len(s) /\ n - 1 \notin B /\ n \in 1..Len(s)
    BY <2>1, <2>2
  <2>4. h[n - 1] \in Seq(T)
    BY <2>3
  <2>5. h[n] = IF s[n] = Junk THEN h[n - 1] ELSE Append(h[n - 1], s[n])
    BY <1>3, <2>2
  <2>6. s[n] = Junk \/ s[n] \in T
    BY <2>3
  <2>7. h[n] \in Seq(T)
    BY <2>4, <2>5, <2>6
  <2>. QED  BY <2>1, <2>7
<1>. QED  BY <1>1, <1>4

\* What is kept is what can be read, the first of it first.
Known(list, s, n) ==
  LET good == {i \in 1..n : s[i] # Junk} IN
  /\ {list[i] : i \in DOMAIN list} = {s[i] : i \in good}
  /\ list # <<>> => \E i \in good : list[1] = s[i] /\ \A j \in good : i <= j

LEMMA ValidIsReadable ==
  ASSUME NEW T, NEW s \in Seq(T \union {Junk})
  PROVE  Known(Valid(s), s, Len(s))
<1> DEFINE h == CHOOSE h : Lists(h, s, Len(s))
<1>1. Valid(s) = h[Len(s)]
  BY DEF Valid, Lists
<1>2. Lists(h, s, Len(s))
  BY ListsExist
<1> HIDE DEF h
<1>3. \A n \in 0..Len(s) :
        h[n] = IF n = 0 THEN <<>>
               ELSE IF s[n] = Junk THEN h[n - 1] ELSE Append(h[n - 1], s[n])
  BY <1>2 DEF Lists
<1> DEFINE B == {n \in 0..Len(s) : ~(h[n] \in Seq(T \union {Junk}) /\ Known(h[n], s, n))}
<1>4. B = {}
  <2> SUFFICES ASSUME B # {} PROVE FALSE
    OBVIOUS
  <2>1. PICK n \in B : \A k \in B : n <= k
    <3>1. B \in SUBSET Nat
      OBVIOUS
    <3> HIDE DEF B
    <3>. QED  BY <3>1, FirstOf
  <2>2. CASE n = 0
    <3>1. h[0] = <<>> /\ 0 \in 0..Len(s)
      BY <1>3
    <3>2. Known(<<>>, s, 0) /\ <<>> \in Seq(T \union {Junk})
      BY DEF Known
    <3>. QED  BY <2>1, <2>2, <3>1, <3>2
  <2>3. CASE n # 0
    <3> DEFINE list == h[n - 1]
               good(m) == {i \in 1..m : s[i] # Junk}
    <3>1. n - 1 \in 0..Len(s) /\ n - 1 \notin B /\ n \in 1..Len(s)
      BY <2>1, <2>3
    <3>2. list \in Seq(T \union {Junk}) /\ Known(list, s, n - 1)
      BY <3>1
    <3>3. h[n] = IF s[n] = Junk THEN list ELSE Append(list, s[n])
      BY <1>3, <2>3
    <3> HIDE DEF list
    <3>4. CASE s[n] = Junk
      <4>1. good(n) = good(n - 1)
        BY <3>1, <3>4
      <4>2. Known(list, s, n)
        BY <3>2, <4>1 DEF Known
      <4>. QED  BY <2>1, <3>2, <3>3, <3>4, <4>2
    <3>5. CASE s[n] # Junk
      <4> DEFINE longer == Append(list, s[n])
      <4>1. good(n) = good(n - 1) \union {n} /\ \A j \in good(n - 1) : j <= n
        BY <3>1, <3>5
      <4>2. s[n] \in T \union {Junk}
        BY <3>1
      <4>3. /\ longer \in Seq(T \union {Junk}) /\ longer # <<>>
            /\ Len(longer) = Len(list) + 1 /\ DOMAIN longer = 1..(Len(list) + 1)
            /\ \A i \in 1..Len(list) : longer[i] = list[i]
            /\ longer[Len(list) + 1] = s[n] /\ DOMAIN list = 1..Len(list)
            /\ Len(list) \in Nat /\ (Len(list) = 0 => list = <<>>)
        BY <3>2, <4>2
      <4> HIDE DEF longer, good
      <4>4. {longer[i] : i \in DOMAIN longer} = {list[i] : i \in DOMAIN list} \union {s[n]}
        <5>1. DOMAIN longer = DOMAIN list \union {Len(list) + 1}
          BY <4>3
        <5>2. \A i \in DOMAIN list : longer[i] = list[i]
          BY <4>3
        <5>. QED  BY <4>3, <5>1, <5>2
      <4>5. {list[i] : i \in DOMAIN list} = {s[i] : i \in good(n - 1)}
        BY <3>2 DEF Known, good
      <4>6. {longer[i] : i \in DOMAIN longer} = {s[i] : i \in good(n)}
        BY <4>1, <4>4, <4>5
      <4>7. \E i \in good(n) : longer[1] = s[i] /\ \A j \in good(n) : i <= j
        <5>1. CASE list = <<>>
          <6>1. good(n - 1) = {}
            <7>1. {list[i] : i \in DOMAIN list} = {}
              BY <5>1
            <7>. QED  BY <4>5, <7>1
          <6>2. longer[1] = s[n] /\ good(n) = {n}
            BY <4>1, <4>3, <5>1, <6>1
          <6>. QED  BY <3>1, <6>2
        <5>2. CASE list # <<>>
          <6>1. PICK i \in good(n - 1) :
                  list[1] = s[i] /\ \A j \in good(n - 1) : i <= j
            BY <3>2, <5>2 DEF Known, good
          <6>2. longer[1] = list[1]
            BY <4>3, <5>2
          <6>. QED  BY <4>1, <6>1, <6>2
        <5>. QED  BY <5>1, <5>2
      <4>8. Known(longer, s, n)
        BY <4>6, <4>7 DEF Known, good
      <4>. QED  BY <2>1, <3>3, <3>5, <4>3, <4>8 DEF longer
    <3>. QED  BY <3>4, <3>5
  <2>. QED  BY <2>2, <2>3
<1>. QED  BY <1>1, <1>4

\* The steps of the checkpoints.
LEMMA SavingIsCheckpointed ==
  /\ Checkpointed = SavingSteps
  /\ Checkpointing = {"persist1"} \union SavingSteps
<1>1. Checkpointing = {"persist1", "persist2", "persist3", "persist4", "gate"}
  BY DEF Checkpointing, CheckpointStep
<1>2. CheckpointStep[1] = "persist1"
  BY DEF CheckpointStep
<1>. QED  BY <1>1, <1>2 DEF Checkpointed, SavingSteps

\* The initial state.
LEMMA InitInv == Init => IInv
<1> SUFFICES ASSUME Init PROVE IInv
  OBVIOUS
<1> USE DEF Init
<1>1. Empty \in Grounding
  BY DEF Empty, Grounding
<1>2. Blank \in State
  BY <1>1 DEF Blank, State, Silent
<1>3. Typed
  BY <1>2, GroundingAssumption DEF Typed, Steps
<1>4. Flow
  BY DEF Flow
<1>5. Context(Blank) = {}
  BY DEF Context, Blank, Empty
<1>6. OursKept
  BY <1>5 DEF OursKept
<1>7. CitationsKept
  BY DEF CitationsKept, CitationsIssued, Blank, Empty, AfterNode1, NodeSteps, SavingSteps
<1>8. AskedFor
  BY DEF AskedFor, Saved, Blank, AfterHeat, AfterPortfolio, AfterInterventions, NodeSteps,
         SavingSteps
<1>9. EvidenceKept
  BY DEF EvidenceKept
<1>10. StateKept
  <2>1. ~Saved /\ state = Blank /\ state.entries = 0 /\ \A a \in Agents : Blank.facts[a] = {}
    BY DEF Saved, Blank
  <2>2. step \notin Checkpointed
    BY SavingIsCheckpointed DEF SavingSteps
  <2>3. StateOfLastExecution
    BY <2>1, <2>2 DEF StateOfLastExecution
  <2>4. QED
    BY <2>1, <2>3 DEF StateKept, AfterNode1, AfterNode2, AfterNode3, AfterNode4,
       NodeSteps,
                      SavingSteps
<1>11. QED
  BY <1>3, <1>4, <1>6, <1>7, <1>8, <1>9, <1>10 DEF IInv

-----------------------------------------------------------------------------
(***************************************************************************)
(* Every step preserves the invariant.                                     *)
(***************************************************************************)
\* What a step has to leave alone for the durable state to stay whole.
LEMMA StateStays ==
  ASSUME IInv, UNCHANGED <<run, state, revisions>>,
         step = "none" <=> step' = "none", step \in SavingSteps <=> step' \in SavingSteps
  PROVE  StateOfLastExecution' /\ (run'.status = "absent" => ~Saved')
BY SavingIsCheckpointed DEF IInv, StateKept, StateOfLastExecution, Saved

\* Stuttering, and the steps that only move on to a step of less knowledge.
LEMMA StutterInv == IInv /\ UNCHANGED vars => IInv'
<1> SUFFICES ASSUME IInv, UNCHANGED vars PROVE IInv'
  OBVIOUS
<1> USE DEF vars, tenant, history
<1>1. Typed'
  BY DEF IInv, Typed
<1>2. Flow'
  BY DEF IInv, Flow
<1>3. OursKept'
  BY DEF IInv, OursKept
<1>4. CitationsKept'
  BY DEF IInv, CitationsKept, CitationsIssued
<1>5. AskedFor'
  <2>1. (step \in AfterHeat => HeatAsAsked(work.grounding))'
    BY DEF IInv, AskedFor, HeatAsAsked
  <2>2. (step \in AfterPortfolio => PortfolioAsAsked(work.grounding))'
    BY DEF IInv, AskedFor, PortfolioAsAsked
  <2>3. (step \in AfterInterventions => InterventionsAsAsked(work.grounding))'
    BY DEF IInv, AskedFor, InterventionsAsAsked, Requested
  <2>4. (Saved => HeatAsAsked(state.grounding))'
    BY DEF IInv, AskedFor, Saved, HeatAsAsked
  <2>5. (Saved => PortfolioAsAsked(state.grounding))'
    BY DEF IInv, AskedFor, Saved, PortfolioAsAsked
  <2>6. (Saved => InterventionsAsAsked(state.grounding))'
    BY DEF IInv, AskedFor, Saved, InterventionsAsAsked, Requested
  <2> QED  BY <2>1, <2>2, <2>3, <2>4, <2>5, <2>6 DEF AskedFor
<1>6. EvidenceKept'
  BY DEF IInv, EvidenceKept
<1>7. StateKept'
  BY StateStays DEF IInv, StateKept, Written
<1>8. QED
  BY <1>1, <1>2, <1>3, <1>4, <1>5, <1>6, <1>7 DEF IInv

LEMMA TenantChangesInv == IInv /\ TenantChanges => IInv'
<1> SUFFICES ASSUME IInv, TenantChanges PROVE IInv'
  OBVIOUS
<1>1. /\ UNCHANGED <<run, state, step, work, todo, revisions, sent, issued>>
      /\ lasting' \subseteq lasting
  BY DEF TenantChanges
<1>2. Typed'
  <2>1. heat' \in Seq(Heat) /\ portfolios' \in Seq(Portfolio)
    <3>1. heat \in Seq(Heat) /\ portfolios \in Seq(Portfolio)
      BY DEF IInv, Typed
    <3>2. /\ heat' = heat \/ \E h \in Heat : heat' = Append(heat, h)
          /\ portfolios' = portfolios
               \/ \E p \in Portfolio : portfolios' = Append(portfolios, p)
      BY DEF TenantChanges
    <3>3. heat' \in Seq(Heat)
      BY <3>1, <3>2
    <3>4. portfolios' \in Seq(Portfolio)
      BY <3>1, <3>2
    <3>5. QED  BY <3>3, <3>4
  <2>2. evidence' \subseteq Evidence /\ lasting' \subseteq evidence'
    BY DEF TenantChanges, IInv, Typed
  <2>3. QED
    BY <1>1, <2>1, <2>2 DEF IInv, Typed
<1>3. Flow'
  BY <1>1 DEF IInv, Flow
<1>4. OursKept'
  BY <1>1 DEF IInv, OursKept
<1>5. CitationsKept'
  BY <1>1 DEF IInv, CitationsKept, CitationsIssued
<1>6. AskedFor'
  BY <1>1 DEF IInv, AskedFor, Saved, HeatAsAsked, PortfolioAsAsked,
     InterventionsAsAsked, Requested
<1>7. EvidenceKept'
  BY <1>1 DEF IInv, EvidenceKept
<1>8. StateKept'
  BY <1>1, StateStays DEF IInv, StateKept, Written
<1>9. QED
  BY <1>2, <1>3, <1>4, <1>5, <1>6, <1>7, <1>8 DEF IInv

\* A request and a revise decision start an execution from the durable state.
LEMMA BeginInv ==
  ASSUME IInv, Begin, Flow', run'.status = "running", step = "none",
         \/ revisions' = revisions /\ run.status = "absent"
         \/ /\ revisions' = revisions + 1 /\ Complete
            /\ run'.project = run.project /\ run'.input = run.input
  PROVE  IInv'
<1> USE DEF Begin, tenant
<1>1. Typed'
  BY DEF IInv, Typed, Steps
<1>2. OursKept'
  BY DEF IInv, OursKept
<1>3. CitationsKept'
  BY DEF IInv, CitationsKept, CitationsIssued, AfterNode1, NodeSteps, SavingSteps
<1>4. AskedFor'
  <2>1. CASE run.status = "absent"
    BY <2>1 DEF IInv, StateKept, AskedFor, Saved, AfterHeat, AfterPortfolio,
                AfterInterventions, NodeSteps, SavingSteps
  <2>2. CASE run'.project = run.project /\ run'.input = run.input
    BY <2>2 DEF IInv, AskedFor, Saved, HeatAsAsked, PortfolioAsAsked,
       InterventionsAsAsked,
                Requested, AfterHeat, AfterPortfolio, AfterInterventions, NodeSteps,
                   SavingSteps
  <2>3. QED  BY <2>1, <2>2
<1>5. EvidenceKept'
  BY DEF EvidenceKept, NodeSteps, SavingSteps
<1>6. StateKept'
  <2>1. StateOfLastExecution'
    <3>1. step' \notin Checkpointed
      BY SavingIsCheckpointed DEF SavingSteps
    <3>2. revisions' \in Nat /\ state.entries = revisions'
      BY SavingIsCheckpointed DEF IInv, Typed, StateKept, StateOfLastExecution, Complete,
         SavingSteps
    <3>3. QED  BY <3>1, <3>2 DEF IInv, StateKept, StateOfLastExecution, Saved
  <2>2. QED
    BY <2>1 DEF IInv, StateKept, StateOfLastExecution, AfterNode1, AfterNode2,
                AfterNode3, AfterNode4, NodeSteps, SavingSteps
<1>7. QED
  BY <1>1, <1>2, <1>3, <1>4, <1>5, <1>6 DEF IInv

LEMMA StartAgentRunInv == IInv /\ StartAgentRun => IInv'
<1> SUFFICES ASSUME IInv, StartAgentRun PROVE IInv'
  OBVIOUS
<1>1. step = "none" /\ run.status = "absent"
  BY DEF StartAgentRun, IInv, Flow
<1>2. PICK project, input : run' = [status |-> "running", project |-> project,
                                    input |-> SafeInputReferences(input)]
  BY DEF StartAgentRun
<1>3. Flow' /\ run'.status = "running"
  BY <1>2 DEF StartAgentRun, Begin, Flow
<1>4. QED
  BY <1>1, <1>3, BeginInv DEF StartAgentRun

LEMMA ReviseInv == IInv /\ Revise => IInv'
<1> SUFFICES ASSUME IInv, Revise PROVE IInv'
  OBVIOUS
<1>1. step = "none" /\ Complete
  BY DEF Revise, IInv, Flow, Complete
<1>2. run' = [status |-> "running", project |-> run.project, input |-> run.input]
  BY DEF Revise, IInv, Flow
<1>3. Flow' /\ run'.status = "running"
  BY <1>2 DEF Revise, Begin, Flow
<1>4. revisions' = revisions + 1 /\ run'.project = run.project /\ run'.input = run.input
  BY <1>2 DEF Revise
<1>5. QED
  BY <1>1, <1>3, <1>4, BeginInv DEF Revise

LEMMA CloseInv == IInv /\ Close => IInv'
<1> SUFFICES ASSUME IInv, Close PROVE IInv'
  OBVIOUS
<1> USE DEF tenant, history
<1>1. /\ UNCHANGED <<tenant, state, step, work, todo, revisions, history>>
      /\ run' = [status |-> "closed", project |-> run.project, input |-> run.input]
      /\ run.status = "waiting_approval" /\ step = "none"
  BY DEF Close, IInv, Flow
<1>2. Typed'
  BY <1>1 DEF IInv, Typed
<1>3. Flow'
  BY <1>1 DEF Flow
<1>4. OursKept'
  BY <1>1 DEF IInv, OursKept
<1>5. CitationsKept'
  BY <1>1 DEF IInv, CitationsKept, CitationsIssued
<1>6. AskedFor'
  <2>1. Requested' = Requested
    BY <1>1 DEF Requested
  <2>2. QED
    BY <1>1, <2>1 DEF IInv, AskedFor, Saved, HeatAsAsked, PortfolioAsAsked,
                      InterventionsAsAsked, AfterHeat, AfterPortfolio, AfterInterventions,
                      NodeSteps, SavingSteps
<1>7. EvidenceKept'
  BY <1>1 DEF IInv, EvidenceKept
<1>8. StateKept'
  <2>1. StateOfLastExecution'
    BY <1>1 DEF IInv, StateKept, StateOfLastExecution, Saved
  <2>2. QED
    BY <1>1, <2>1 DEF IInv, StateKept, Written, AfterNode1, AfterNode2, AfterNode3,
       AfterNode4, NodeSteps,
                      SavingSteps
<1>9. QED
  BY <1>2, <1>3, <1>4, <1>5, <1>6, <1>7, <1>8 DEF IInv

\* An error leaves the state in memory behind; nothing more is known of it.
LEMMA GroundingErrorInv ==
  ASSUME IInv, GroundingError, step \notin {"none"} \union SavingSteps
  PROVE  IInv'
<1> USE DEF GroundingError, tenant, history
<1>1. Typed'
  BY DEF IInv, Typed, Steps
<1>2. Flow'
  BY DEF IInv, Flow
<1>3. OursKept'
  BY DEF IInv, OursKept
<1>4. CitationsKept'
  BY DEF IInv, CitationsKept, CitationsIssued, AfterNode1, NodeSteps, SavingSteps
<1>5. AskedFor'
  BY DEF IInv, AskedFor, Saved, HeatAsAsked, PortfolioAsAsked, InterventionsAsAsked,
     Requested,
         AfterHeat, AfterPortfolio, AfterInterventions, NodeSteps, SavingSteps
<1>6. EvidenceKept'
  BY DEF EvidenceKept, NodeSteps, SavingSteps
<1>7. StateKept'
  <2>1. step' # "none" /\ step' \notin SavingSteps
    BY DEF SavingSteps
  <2>2. QED
    BY <2>1, StateStays DEF IInv, StateKept, AfterNode1, AfterNode2, AfterNode3,
       AfterNode4,
       NodeSteps, SavingSteps
<1>8. QED
  BY <1>1, <1>2, <1>3, <1>4, <1>5, <1>6, <1>7 DEF IInv

\* A query that succeeds changes the grounding in memory and nothing else of
\* the run: what is left to show concerns the new grounding.
LEMMA ResolveInv ==
  ASSUME IInv, NEW g \in Grounding, NEW next, Resolve(g, next),
         step \in {"heat", "portfolio", "interventions", "evidence"},
         next \in {"portfolio", "interventions", "evidence"},
         issued \subseteq issued', g.citations \subseteq issued',
         todo' \subseteq DOMAIN Catalogue, \A i \in todo' : Catalogue[i] = Us,
         \A x \in (({g.heat, g.portfolio} \ {"none"}) \union g.interventions)
                    \union g.citations : Owner(x) = Us,
         HeatAsAsked(g),
         next \in AfterPortfolio => PortfolioAsAsked(g),
         next \in AfterInterventions => InterventionsAsAsked(g),
         next = "evidence" => \A e \in lasting : EvidenceOf[e] \in g.interventions
                                => e \in g.citations \/ EvidenceOf[e] \in todo'
  PROVE  IInv'
<1>1. /\ UNCHANGED <<heat, portfolios, evidence, changes, run, state, revisions, asked, sent,
                  lasting>>
      /\ step' = next /\ work' = [work EXCEPT !.grounding = g]
  BY DEF Resolve, tenant
<1>2. work \in State
  BY DEF IInv, Typed
<1>3. /\ work'.grounding = g /\ work'.citations = work.citations
      /\ work'.summaries = work.summaries /\ work'.facts = work.facts
      /\ work'.entries = work.entries /\ work' \in State
  BY <1>1, <1>2 DEF State
<1>4. next \in Steps /\ next # "none" /\ next # "fail" /\ next \notin NodeSteps
  BY DEF Steps, NodeSteps, SavingSteps
<1>5. Typed'
  BY <1>1, <1>3, <1>4 DEF IInv, Typed
<1>6. Flow'
  BY <1>1, <1>4 DEF IInv, Flow
<1>7. OursKept'
  <2>1. Context(work') = (({g.heat, g.portfolio} \ {"none"}) \union g.interventions)
                           \union g.citations
    BY <1>3 DEF Context
  <2>2. QED
    BY <1>1, <2>1 DEF IInv, OursKept
<1>8. CitationsKept'
  <2>1. next \notin AfterNode1
    BY <1>4 DEF AfterNode1
  <2>2. QED
    BY <1>1, <1>3, <2>1 DEF IInv, CitationsKept, CitationsIssued
<1>9. AskedFor'
  <2>1. HeatAsAsked(work.grounding)'
    BY <1>1, <1>3 DEF HeatAsAsked
  <2>2. next \in AfterPortfolio => PortfolioAsAsked(work.grounding)'
    BY <1>1, <1>3 DEF PortfolioAsAsked
  <2>0. Requested' = Requested
    BY <1>1 DEF Requested
  <2>3. next \in AfterInterventions => InterventionsAsAsked(work.grounding)'
    BY <1>1, <1>3, <2>0 DEF InterventionsAsAsked
  <2>4. (Saved => /\ HeatAsAsked(state.grounding)
                  /\ PortfolioAsAsked(state.grounding)
                  /\ InterventionsAsAsked(state.grounding))'
    BY <1>1, <2>0 DEF IInv, AskedFor, Saved, HeatAsAsked, PortfolioAsAsked,
                      InterventionsAsAsked
  <2>5. QED
    BY <1>1, <2>1, <2>2, <2>3, <2>4 DEF AskedFor
<1>10. EvidenceKept'
  BY <1>1, <1>3, <1>4 DEF EvidenceKept
<1>11. StateKept'
  <2>1. /\ step \notin {"none", "fail"} \union SavingSteps /\ step \notin AfterNode2
    BY DEF AfterNode1, AfterNode2, NodeSteps, SavingSteps
  <2>2. /\ next \notin AfterNode1 /\ next \notin AfterNode2 /\ next \notin AfterNode3
        /\ next \notin AfterNode4 /\ next \notin SavingSteps
    BY DEF AfterNode1, AfterNode2, AfterNode3, AfterNode4, NodeSteps, SavingSteps
  <2>3. QED
    BY <1>1, <1>3, <1>4, <2>1, <2>2, StateStays DEF IInv, StateKept
<1>12. QED
  BY <1>5, <1>6, <1>7, <1>8, <1>9, <1>10, <1>11 DEF IInv

LEMMA ResolveHeatInv == IInv /\ ResolveHeat => IInv'
<1> SUFFICES ASSUME IInv, ResolveHeat PROVE IInv'
  OBVIOUS
<1> DEFINE refs  == run.input.heat
           found == SelectRow(heat, HeatRows, refs)
           g     == [heat |-> found, portfolio |-> "none", interventions |-> {},
                     citations |-> {found} \ {"none"}]
<1>1. \/ found = "none"
      \/ found \in Heat /\ HeatRows[found].org = Us /\ Asked(found, HeatRows, refs)
  BY Selected DEF IInv, Typed
<1>2. step = "heat"
  BY DEF ResolveHeat
<1>3. CASE ~Accepts(found, HeatRows, refs, {})
  BY <1>2, <1>3, GroundingErrorInv DEF SavingSteps, ResolveHeat
<1>4. CASE Accepts(found, HeatRows, refs, {})
  <2>1. /\ Resolve(g, "portfolio") /\ issued' = issued \union ({found} \ {"none"})
        /\ UNCHANGED todo
    BY <1>4 DEF ResolveHeat
  <2>2. /\ g.heat = found /\ g.portfolio = "none" /\ g.interventions = {}
        /\ g.citations = {found} \ {"none"}
    OBVIOUS
  <2>3. g \in Grounding
    BY <1>1, <2>2 DEF Grounding, Citations
  <2>4. HeatAsAsked(g)
    BY <1>1, <1>4, <2>2 DEF HeatAsAsked, Accepts, Asked
  <2>5. \A x \in (({g.heat, g.portfolio} \ {"none"}) \union g.interventions)
                    \union g.citations : Owner(x) = Us
    BY <1>1, <2>2, Owners
  <2>6. "portfolio" \notin AfterPortfolio /\ "portfolio" \notin AfterInterventions
    BY DEF AfterPortfolio, AfterInterventions, NodeSteps, SavingSteps
  <2>7. QED
    <3> HIDE DEF g
    <3> QED
      BY <1>2, <2>1, <2>2, <2>3, <2>4, <2>5, <2>6, ResolveInv DEF IInv, Typed, OursKept
<1>5. QED
  BY <1>3, <1>4

LEMMA ResolvePortfolioInv == IInv /\ ResolvePortfolio => IInv'
<1> SUFFICES ASSUME IInv, ResolvePortfolio PROVE IInv'
  OBVIOUS
<1> DEFINE refs  == run.input.portfolio
           found == SelectRow(portfolios, PortfolioRows, refs)
           g     == [work.grounding EXCEPT !.portfolio = found,
                                           !.citations = @ \union ({found} \ {"none"})]
<1>1. \/ found = "none"
      \/ /\ found \in Portfolio /\ PortfolioRows[found].org = Us
         /\ Asked(found, PortfolioRows, refs)
  BY Selected DEF IInv, Typed
<1>2. step = "portfolio"
  BY DEF ResolvePortfolio
<1>3. CASE ~Accepts(found, PortfolioRows, refs, {"none"})
  BY <1>2, <1>3, GroundingErrorInv DEF SavingSteps, ResolvePortfolio
<1>4. CASE Accepts(found, PortfolioRows, refs, {"none"})
  <2>1. /\ Resolve(g, "interventions") /\ issued' = issued \union ({found} \ {"none"})
        /\ UNCHANGED todo
    BY <1>4 DEF ResolvePortfolio
  <2> DEFINE old == work.grounding
  <2>2. old \in Grounding
    BY DEF IInv, Typed, State
  <2>3. /\ g.heat = old.heat /\ g.portfolio = found
        /\ g.interventions = old.interventions
        /\ g.citations = old.citations \union ({found} \ {"none"})
        /\ g \in Grounding
    BY <1>1, <2>2 DEF Grounding, Citations
  <2>4. HeatAsAsked(old)
    BY <1>2 DEF IInv, AskedFor, AfterHeat
  <2>5. HeatAsAsked(g) /\ PortfolioAsAsked(g)
    BY <1>1, <1>4, <2>3, <2>4 DEF HeatAsAsked, PortfolioAsAsked, Accepts, Asked
  <2>6. \A x \in (({g.heat, g.portfolio} \ {"none"}) \union g.interventions)
                    \union g.citations : Owner(x) = Us
    BY <1>1, <2>3, Owners DEF IInv, OursKept, Context
  <2>7. "interventions" \notin AfterInterventions
    BY DEF AfterInterventions, NodeSteps, SavingSteps
  <2>8. g.citations \subseteq issued'
    BY <2>1, <2>3 DEF IInv, CitationsKept
  <2>9. QED
    <3> HIDE DEF g
    <3> QED
      BY <1>2, <2>1, <2>3, <2>5, <2>6, <2>7, <2>8, ResolveInv DEF IInv, Typed, OursKept
<1>5. QED
  BY <1>3, <1>4

LEMMA ResolveInterventionsInv == IInv /\ ResolveInterventions => IInv'
<1> SUFFICES ASSUME IInv, ResolveInterventions PROVE IInv'
  OBVIOUS
<1> DEFINE ours  == {i \in DOMAIN Catalogue : Catalogue[i] = Us}
           found == IF Requested = {} THEN ours ELSE Requested
           old   == work.grounding
           g     == [old EXCEPT !.interventions = found]
<1>1. step = "interventions"
  BY DEF ResolveInterventions
<1>2. CASE ~(Requested \subseteq ours)
  BY <1>1, <1>2, GroundingErrorInv DEF SavingSteps, ResolveInterventions
<1>3. CASE Requested \subseteq ours
  <2>1. Resolve(g, "evidence") /\ todo' = found /\ UNCHANGED issued
    BY <1>3 DEF ResolveInterventions
  <2>2. found \subseteq ours
    BY <1>3
  <2>3. old \in Grounding
    BY DEF IInv, Typed, State
  <2>4. /\ g.heat = old.heat /\ g.portfolio = old.portfolio /\ g.interventions = found
        /\ g.citations = old.citations /\ g \in Grounding
    BY <2>2, <2>3 DEF Grounding
  <2>5. HeatAsAsked(old) /\ PortfolioAsAsked(old)
    BY <1>1 DEF IInv, AskedFor, AfterHeat, AfterPortfolio
  <2>6. HeatAsAsked(g) /\ PortfolioAsAsked(g)
    BY <2>4, <2>5 DEF HeatAsAsked, PortfolioAsAsked
  <2>7. InterventionsAsAsked(g)
    BY <2>4 DEF InterventionsAsAsked
  <2>8. \A x \in (({g.heat, g.portfolio} \ {"none"}) \union g.interventions)
                    \union g.citations : Owner(x) = Us
    <3>1. \A x \in ({old.heat, old.portfolio} \ {"none"}) \union old.citations : Owner(x) = Us
      BY DEF IInv, OursKept, Context
    <3>2. \A x \in found : Owner(x) = Us
      BY <2>2, Owners
    <3>3. QED
      <4> HIDE DEF g, found, old
      <4> QED  BY <2>4, <3>1, <3>2
  <2>9. g.citations \subseteq issued'
    BY <2>1, <2>4 DEF IInv, CitationsKept
  <2>10. QED
    <3> HIDE DEF g, found
    <3> QED
      BY <1>1, <2>1, <2>2, <2>4, <2>6, <2>7, <2>8, <2>9, ResolveInv
<1>4. QED
  BY <1>2, <1>3

LEMMA ResolveEvidenceInv == IInv /\ ResolveEvidence => IInv'
<1> SUFFICES ASSUME IInv, ResolveEvidence PROVE IInv'
  OBVIOUS
<1>1. PICK i \in todo :
        LET rows == {e \in evidence : EvidenceOf[e] = i} IN
        /\ Resolve([work.grounding EXCEPT !.citations = @ \union rows], "evidence")
        /\ issued' = issued \union rows
        /\ todo' = todo \ {i}
  BY DEF ResolveEvidence
<1> DEFINE rows == {e \in evidence : EvidenceOf[e] = i}
           old  == work.grounding
           g    == [old EXCEPT !.citations = @ \union rows]
<1>2. /\ Resolve(g, "evidence") /\ issued' = issued \union rows /\ todo' = todo \ {i}
      /\ step = "evidence"
  BY <1>1 DEF ResolveEvidence
<1>3. old \in Grounding /\ evidence \subseteq Evidence /\ lasting \subseteq evidence
  BY DEF IInv, Typed, State
<1>4. /\ g.heat = old.heat /\ g.portfolio = old.portfolio
      /\ g.interventions = old.interventions /\ g.citations = old.citations \union rows
      /\ g \in Grounding
  BY <1>3 DEF Grounding, Citations
<1>5. HeatAsAsked(old) /\ PortfolioAsAsked(old) /\ InterventionsAsAsked(old)
  BY <1>2 DEF IInv, AskedFor, AfterHeat, AfterPortfolio, AfterInterventions
<1>6. HeatAsAsked(g) /\ PortfolioAsAsked(g) /\ InterventionsAsAsked(g)
  BY <1>4, <1>5 DEF HeatAsAsked, PortfolioAsAsked, InterventionsAsAsked, Requested
<1>7. Catalogue[i] = Us
  BY DEF IInv, OursKept
<1>8. \A x \in (({g.heat, g.portfolio} \ {"none"}) \union g.interventions)
                  \union g.citations : Owner(x) = Us
  BY <1>3, <1>4, <1>7, Owners DEF IInv, OursKept, Context
<1>9. \A e \in lasting : EvidenceOf[e] \in g.interventions
                           => e \in g.citations \/ EvidenceOf[e] \in todo'
  BY <1>2, <1>3, <1>4 DEF IInv, EvidenceKept
<1>10. g.citations \subseteq issued'
  BY <1>2, <1>4 DEF IInv, CitationsKept
<1>11. QED
  <2> HIDE DEF g, rows
  <2> QED
    BY <1>2, <1>4, <1>6, <1>8, <1>9, <1>10, ResolveInv DEF IInv, Typed, OursKept

\* The last query is done: all evidence that lasts is in.
LEMMA CompileGraphInv == IInv /\ CompileGraph => IInv'
<1> SUFFICES ASSUME IInv, CompileGraph PROVE IInv'
  OBVIOUS
<1>1. /\ step = "evidence" /\ todo = {} /\ step' = "node1"
      /\ UNCHANGED <<tenant, run, state, work, todo, revisions, history>>
  BY DEF CompileGraph, NodeStep
<1> USE DEF tenant, history
<1>2. Typed'
  BY <1>1 DEF IInv, Typed, Steps
<1>3. Flow'
  BY <1>1 DEF IInv, Flow
<1>4. OursKept'
  BY <1>1 DEF IInv, OursKept
<1>5. CitationsKept'
  BY <1>1 DEF IInv, CitationsKept, CitationsIssued, AfterNode1, NodeSteps, SavingSteps
<1>6. AskedFor'
  <2>1. Requested' = Requested
    BY <1>1 DEF Requested
  <2>2. QED
    BY <1>1, <2>1 DEF IInv, AskedFor, Saved, HeatAsAsked, PortfolioAsAsked,
                      InterventionsAsAsked, AfterHeat, AfterPortfolio, AfterInterventions,
                      NodeSteps, SavingSteps
<1>7. EvidenceKept'
  BY <1>1 DEF IInv, EvidenceKept
<1>8. StateKept'
  <2>1. step \notin SavingSteps /\ step' \notin SavingSteps
    BY <1>1 DEF SavingSteps
  <2>2. QED
    BY <1>1, <2>1, StateStays DEF IInv, StateKept, AfterNode1, AfterNode2, AfterNode3,
       AfterNode4, NodeSteps, SavingSteps
<1>9. QED
  BY <1>2, <1>3, <1>4, <1>5, <1>6, <1>7, <1>8 DEF IInv

\* What a node changes of the state in memory.
LEMMA OutputTaken ==
  ASSUME IInv, NEW name \in Agents, NEW output \in Outputs
  PROVE  LET w == TakeOutput(work, name, output) IN
         /\ w \in State
         /\ w.grounding = work.grounding
         /\ w.citations = work.citations \union work.grounding.citations
         /\ w.entries = IF name = "intervention_analyst" THEN work.entries + 1
                                                         ELSE work.entries
         /\ \A a \in Agents : w.summaries[a] = IF a = name
                                THEN SummaryForAgent(work.grounding) ELSE work.summaries[a]
         /\ \A a \in Agents : w.facts[a] \subseteq {"measure", "label"}
<1> DEFINE w == TakeOutput(work, name, output)
           kept == SafeProviderFacts(output.facts)
<1>1. /\ work \in State /\ work.grounding \in Grounding /\ work.entries \in Nat
      /\ work.citations \subseteq Citations \union {Invented}
      /\ work.summaries \in [Agents -> [of : {"provider", "grounding"}, about : Grounding]]
      /\ work.facts \in [Agents -> SUBSET FactKinds]
  BY DEF IInv, Typed, State
<1>2. kept \subseteq FactKinds /\ kept \subseteq {"measure", "label"}
  BY GroundingAssumption DEF Output, SafeProviderFacts, FactKinds
<1>3. w = [work EXCEPT !.summaries = [work.summaries EXCEPT ![name] =
                                        SummaryForAgent(work.grounding)],
                       !.citations = work.citations \union work.grounding.citations,
                       !.facts = [work.facts EXCEPT ![name] = work.facts[name] \union kept],
                       !.entries = IF name = "intervention_analyst" THEN work.entries + 1
                                                                    ELSE work.entries]
  BY DEF TakeOutput, TrustedCitations
<1>4. /\ w.grounding = work.grounding
      /\ w.citations = work.citations \union work.grounding.citations
      /\ w.entries = IF name = "intervention_analyst" THEN work.entries + 1
                                                      ELSE work.entries
      /\ w.summaries = [work.summaries EXCEPT ![name] = SummaryForAgent(work.grounding)]
      /\ w.facts = [work.facts EXCEPT ![name] = work.facts[name] \union kept]
      /\ w = [grounding |-> w.grounding, citations |-> w.citations,
              summaries |-> w.summaries, facts |-> w.facts, entries |-> w.entries]
  <2> HIDE DEF kept
  <2> QED  BY <1>1, <1>3 DEF State
<1> HIDE DEF w, kept
<1>5. SummaryForAgent(work.grounding) \in [of : {"provider", "grounding"}, about : Grounding]
  BY <1>1 DEF SummaryForAgent
<1>6. w.summaries \in [Agents -> [of : {"provider", "grounding"}, about : Grounding]]
  <2> HIDE DEF SummaryForAgent
  <2> QED  BY <1>1, <1>4, <1>5
<1>7. w.facts \in [Agents -> SUBSET FactKinds]
  BY <1>1, <1>2, <1>4
<1>8. w.citations \subseteq Citations \union {Invented}
  BY <1>1, <1>4 DEF Grounding
<1>9. w \in State
  BY <1>1, <1>4, <1>6, <1>7, <1>8 DEF State
<1>10. \A a \in Agents : w.summaries[a] = IF a = name
                           THEN SummaryForAgent(work.grounding) ELSE work.summaries[a]
  BY <1>1, <1>4
<1>11. \A a \in Agents : w.facts[a] \subseteq {"measure", "label"}
  BY <1>1, <1>2, <1>4 DEF IInv, StateKept
<1>12. QED
  BY <1>4, <1>9, <1>10, <1>11 DEF w

\* What an answered node leaves to show: its place in the sequence.
LEMMA NodeAnswered ==
  ASSUME IInv, NEW name \in Agents, NEW output \in Outputs, NEW next,
         step \in {"node1", "node2", "node3", "node4"}, next \in AfterNode1,
         sent' = sent \union Context(work), work' = TakeOutput(work, name, output), step' = next,
         UNCHANGED <<tenant, run, state, todo, revisions, asked, issued, lasting>>,
         \/ name = "heat_intelligence" /\ step = "node1" /\ next = "node2"
         \/ name = "intervention_analyst" /\ step = "node2" /\ next = "node3"
         \/ name = "portfolio" /\ step = "node3" /\ next = "node4"
         \/ name = "verification" /\ step = "node4" /\ next = "persist1"
  PROVE  IInv'
<1> USE DEF tenant
<1>1. /\ work' \in State
      /\ work'.grounding = work.grounding
      /\ work'.citations = work.citations \union work.grounding.citations
      /\ work'.entries = IF name = "intervention_analyst" THEN work.entries + 1
                                                          ELSE work.entries
      /\ \A a \in Agents : work'.summaries[a] = IF a = name
                             THEN SummaryForAgent(work.grounding) ELSE work.summaries[a]
      /\ \A a \in Agents : work'.facts[a] \subseteq {"measure", "label"}
  BY OutputTaken
<1>2. step \in NodeSteps /\ next \in NodeSteps /\ next # "none" /\ next # "fail"
      /\ step # "none" /\ step # "fail" /\ next # "evidence"
      /\ step \notin SavingSteps /\ next \notin SavingSteps
  BY DEF NodeSteps, SavingSteps, AfterNode1
<1>3. Typed'
  BY <1>1, <1>2 DEF IInv, Typed, Steps, NodeSteps, SavingSteps
<1>4. Flow'
  BY <1>2 DEF IInv, Flow
<1>5. OursKept'
  <2>1. Context(work') = Context(work)
    BY <1>1 DEF Context
  <2>2. QED
    BY <2>1 DEF IInv, OursKept
<1>6. CitationsKept'
  BY <1>1 DEF IInv, CitationsKept, CitationsIssued
<1>7. AskedFor'
  <2>1. step \in AfterHeat /\ step \in AfterPortfolio /\ step \in AfterInterventions
    BY <1>2 DEF AfterHeat, AfterPortfolio, AfterInterventions
  <2>2. HeatAsAsked(work.grounding) /\ PortfolioAsAsked(work.grounding)
        /\ InterventionsAsAsked(work.grounding)
    BY <2>1 DEF IInv, AskedFor
  <2>3. (HeatAsAsked(work.grounding) /\ PortfolioAsAsked(work.grounding)
         /\ InterventionsAsAsked(work.grounding))'
    <3>1. HeatAsAsked(work.grounding)'
      BY <1>1, <2>2 DEF HeatAsAsked
    <3>2. PortfolioAsAsked(work.grounding)'
      BY <1>1, <2>2 DEF PortfolioAsAsked
    <3>3. InterventionsAsAsked(work.grounding)'
      BY <1>1, <2>2 DEF InterventionsAsAsked, Requested
    <3>4. QED  BY <3>1, <3>2, <3>3
  <2>4. (Saved => /\ HeatAsAsked(state.grounding)
                  /\ PortfolioAsAsked(state.grounding)
                  /\ InterventionsAsAsked(state.grounding))'
    BY DEF IInv, AskedFor, Saved, HeatAsAsked, PortfolioAsAsked,
           InterventionsAsAsked, Requested
  <2>5. QED
    BY <2>3, <2>4 DEF AskedFor
<1>8. EvidenceKept'
  BY <1>1, <1>2 DEF IInv, EvidenceKept
<1>9. StateKept'
  <2>1. StateOfLastExecution' /\ (run'.status = "absent" => ~Saved')
    BY <1>2, StateStays
  <2>2. work'.entries = IF next \in AfterNode2 THEN state.entries + 1 ELSE state.entries
    <3>1. work.entries = IF step \in AfterNode2 THEN state.entries + 1 ELSE state.entries
      BY <1>2 DEF IInv, StateKept
    <3>2. QED
      BY <1>1, <3>1 DEF AfterNode1, AfterNode2, NodeSteps, SavingSteps
  <2>3. \A a \in Agents : /\ a = name => work'.summaries[a] = SummaryForAgent(work'.grounding)
                          /\ a # name /\ Written(a) => Written(a)'
    BY <1>1 DEF Written
  <2>4. /\ "heat_intelligence" \in Agents /\ "intervention_analyst" \in Agents
        /\ "portfolio" \in Agents /\ "verification" \in Agents
    <3>1. AgentNames = <<"heat_intelligence", "intervention_analyst", "portfolio",
                         "verification">>
      BY DEF AgentNames
    <3>2. QED  BY <3>1 DEF Agents
  <2>5. /\ next \in AfterNode1 => Written("heat_intelligence")'
        /\ next \in AfterNode2 => Written("intervention_analyst")'
        /\ next \in AfterNode3 => Written("portfolio")'
        /\ next \in AfterNode4 => Written("verification")'
    <3>1. /\ step \in AfterNode1 => Written("heat_intelligence")
          /\ step \in AfterNode2 => Written("intervention_analyst")
          /\ step \in AfterNode3 => Written("portfolio")
      BY DEF IInv, StateKept
    <3>2. Written(name)'
      BY <2>3 DEF Written
    <3>3. QED
      BY <2>3, <2>4, <3>1, <3>2 DEF AfterNode1, AfterNode2, AfterNode3, AfterNode4,
         NodeSteps, SavingSteps
  <2>6. QED
    BY <1>1, <1>2, <2>1, <2>2, <2>5 DEF IInv, StateKept
<1>10. QED
  BY <1>3, <1>4, <1>5, <1>6, <1>7, <1>8, <1>9 DEF IInv

LEMMA RunNodeInv == ASSUME IInv, NEW n \in 1..Len(AgentNames), RunNode(n) PROVE IInv'
<1>1. n \in 1..4 /\ step = NodeStep[n] /\ AgentNames[n] \in Agents
  BY DEF RunNode, AgentNames, Agents
<1>2. \/ AgentNames[n] = "heat_intelligence" /\ step = "node1" /\ NodeStep[n + 1] = "node2"
      \/ AgentNames[n] = "intervention_analyst" /\ step = "node2" /\ NodeStep[n + 1] = "node3"
      \/ AgentNames[n] = "portfolio" /\ step = "node3" /\ NodeStep[n + 1] = "node4"
      \/ AgentNames[n] = "verification" /\ step = "node4" /\ NodeStep[n + 1] = "persist1"
  BY <1>1 DEF NodeStep, AgentNames
<1>3. CASE \E output \in Outputs : work' = TakeOutput(work, AgentNames[n], output)
           /\ step' = NodeStep[n + 1]
  <2>1. step \in {"node1", "node2", "node3", "node4"} /\ NodeStep[n + 1] \in AfterNode1
    BY <1>2 DEF AfterNode1, NodeSteps, SavingSteps
  <2>2. QED
    BY <1>1, <1>2, <1>3, <2>1, NodeAnswered DEF RunNode
<1>4. CASE step' = "fail" /\ UNCHANGED work
  <2>1. sent' = sent \union Context(work)
        /\ UNCHANGED <<tenant, run, state, todo, revisions, asked, issued, lasting>>
    BY DEF RunNode
  <2> USE DEF tenant
  <2>2. step # "none"
    BY <1>2
  <2>3. Typed'
    BY <1>4, <2>1 DEF IInv, Typed, Steps
  <2>4. Flow'
    BY <1>4, <2>1, <2>2 DEF IInv, Flow
  <2>5. OursKept'
    BY <1>4, <2>1 DEF IInv, OursKept
  <2>6. CitationsKept'
    BY <1>4, <2>1 DEF IInv, CitationsKept, CitationsIssued, AfterNode1, NodeSteps,
       SavingSteps
  <2>7. AskedFor'
    BY <1>4, <2>1 DEF IInv, AskedFor, Saved, HeatAsAsked, PortfolioAsAsked,
         InterventionsAsAsked, Requested, AfterHeat, AfterPortfolio, AfterInterventions,
         NodeSteps, SavingSteps
  <2>8. EvidenceKept'
    BY <1>4 DEF EvidenceKept, NodeSteps, SavingSteps
  <2>9. StateKept'
    <3>1. step \notin SavingSteps /\ step' \notin SavingSteps /\ step' # "none"
      BY <1>2, <1>4 DEF SavingSteps
    <3>2. QED
      BY <1>4, <2>1, <2>2, <3>1, StateStays DEF IInv, StateKept, AfterNode1, AfterNode2,
         AfterNode3, AfterNode4, NodeSteps, SavingSteps
  <2>10. QED
    BY <2>3, <2>4, <2>5, <2>6, <2>7, <2>8, <2>9 DEF IInv
<1>5. QED
  BY <1>3, <1>4 DEF RunNode

\* The execution is over, answered, failed or lost: nothing is left in memory.
LEMMA OverInv ==
  ASSUME IInv, step' = "none", work' = Blank, todo' \subseteq todo,
         UNCHANGED <<tenant, state, revisions, history>>, Flow',
         run'.project = run.project, run'.input = run.input,
         run.status # "absent", run'.status # "absent", StateOfLastExecution'
  PROVE  IInv'
<1> USE DEF tenant, history
<1>1. Blank \in State /\ Context(Blank) = {} /\ \A a \in Agents : Blank.facts[a] = {}
  BY DEF Blank, State, Silent, Empty, Grounding, Context
<1>2. Typed'
  BY <1>1 DEF IInv, Typed, Steps
<1>3. OursKept'
  BY <1>1 DEF IInv, OursKept
<1>4. CitationsKept'
  BY DEF IInv, CitationsKept, CitationsIssued, AfterNode1, NodeSteps, SavingSteps,
     Blank, Empty
<1>5. AskedFor'
  BY DEF IInv, AskedFor, Saved, HeatAsAsked, PortfolioAsAsked, InterventionsAsAsked,
         Requested, AfterHeat, AfterPortfolio, AfterInterventions, NodeSteps, SavingSteps
<1>6. EvidenceKept'
  BY DEF EvidenceKept, NodeSteps, SavingSteps
<1>7. StateKept'
  BY <1>1 DEF IInv, StateKept, AfterNode1, AfterNode2, AfterNode3, AfterNode4, NodeSteps,
                      SavingSteps
<1>8. QED
  BY <1>2, <1>3, <1>4, <1>5, <1>6, <1>7 DEF IInv

\* The first checkpoint: what is in memory is whole, and becomes durable.
LEMMA FirstCheckpointInv ==
  ASSUME IInv, step = "persist1", state' = work, step' = "persist2",
         UNCHANGED <<tenant, run, work, todo, revisions, history>>
  PROVE  IInv'
<1> USE DEF tenant, history
<1>1. /\ step \notin {"none", "fail"} \union SavingSteps /\ step \in AfterNode1
      /\ step \in AfterNode2 /\ step \in AfterNode3 /\ step \in AfterNode4
      /\ step \in NodeSteps /\ step \in AfterInterventions /\ step \in AfterPortfolio
      /\ step \in AfterHeat
  BY DEF AfterNode1, AfterNode2, AfterNode3, AfterNode4, NodeSteps, SavingSteps,
         AfterInterventions, AfterPortfolio, AfterHeat
<1>2. step' \in SavingSteps /\ step' \in Steps /\ step' # "none"
      /\ step' \in NodeSteps /\ step' # "evidence"
  BY DEF SavingSteps, Steps, NodeSteps
<1>3. Typed' /\ Flow'
  BY <1>1, <1>2 DEF IInv, Typed, Flow
<1>4. OursKept'
  BY DEF IInv, OursKept
<1>5. CitationsKept'
  BY <1>1 DEF IInv, CitationsKept, CitationsIssued
<1>6. AskedFor'
  <2>1. HeatAsAsked(work.grounding) /\ PortfolioAsAsked(work.grounding)
        /\ InterventionsAsAsked(work.grounding)
    BY <1>1 DEF IInv, AskedFor
  <2>2. QED
    BY <2>1 DEF AskedFor, HeatAsAsked, PortfolioAsAsked, InterventionsAsAsked, Requested
<1>7. EvidenceKept'
  BY <1>1, <1>2 DEF IInv, EvidenceKept
<1>8. StateKept'
  <2>1. /\ work.entries = state.entries + 1
        /\ \A a \in Agents : work.facts[a] \subseteq {"measure", "label"}
        /\ Written("heat_intelligence") /\ Written("intervention_analyst")
        /\ Written("portfolio") /\ Written("verification")
    BY <1>1 DEF IInv, StateKept
  <2>2. \A a \in Agents : a \in {"heat_intelligence", "intervention_analyst", "portfolio",
                                 "verification"}
    BY DEF Agents, AgentNames
  <2>3. state.entries = revisions /\ revisions \in Nat /\ run.status = "running"
    BY <1>1, SavingIsCheckpointed
    DEF IInv, Typed, Flow, StateKept, StateOfLastExecution
  <2>4. \A a \in Agents : work.summaries[a] = [of |-> "grounding", about |-> work.grounding]
    BY <2>1, <2>2 DEF Written, SummaryForAgent
  <2>5. state'.entries = revisions' + 1 /\ Saved'
    BY <2>1, <2>3 DEF Saved
  <2>6. StateOfLastExecution'
    BY <1>2, <2>1, <2>3, <2>4, <2>5, SavingIsCheckpointed DEF StateOfLastExecution
  <2>7. QED
    BY <1>2, <2>1, <2>3, <2>6 DEF StateKept, Written
<1>9. QED
  BY <1>3, <1>4, <1>5, <1>6, <1>7, <1>8 DEF IInv

LEMMA CheckpointInv ==
  ASSUME IInv, NEW n \in 1..Len(AgentNames), Checkpoint(n)
  PROVE  IInv'
<1> USE DEF tenant, history
<1>1. n \in 1..4 /\ step = CheckpointStep[n] /\ state' = work /\ step' = CheckpointStep[n + 1]
      /\ UNCHANGED <<tenant, run, work, todo, revisions, history>>
  BY DEF Checkpoint, AgentNames
<1>2. \/ step = "persist1" /\ step' = "persist2"
      \/ step \in SavingSteps /\ step' \in SavingSteps
  BY <1>1 DEF CheckpointStep, SavingSteps
<1>3. CASE step = "persist1" /\ step' = "persist2"
  BY <1>1, <1>3, FirstCheckpointInv
<1>4. CASE step \in SavingSteps /\ step' \in SavingSteps
  <2>1. work = state /\ state' = state
    BY <1>1, <1>4 DEF IInv, StateKept
  <2>2. /\ step # "none" /\ step' # "none" /\ step' \in Steps /\ step' # "evidence"
        /\ step \in NodeSteps /\ step' \in NodeSteps
        /\ step \in AfterNode1 /\ step \in AfterNode2 /\ step \in AfterNode3
        /\ step \in AfterNode4
        /\ step \in AfterInterventions /\ step \in AfterPortfolio /\ step \in AfterHeat
    BY <1>4 DEF AfterNode1, AfterNode2, AfterNode3, AfterNode4, NodeSteps, SavingSteps,
       Steps,
                AfterInterventions, AfterPortfolio, AfterHeat
  <2>3. Typed' /\ Flow'
    BY <1>1, <2>1, <2>2 DEF IInv, Typed, Flow
  <2>4. OursKept'
    BY <1>1, <2>1 DEF IInv, OursKept
  <2>5. CitationsKept'
    BY <1>1, <2>1, <2>2 DEF IInv, CitationsKept, CitationsIssued
  <2>6. AskedFor'
    BY <1>1, <2>1, <2>2 DEF IInv, AskedFor, Saved, HeatAsAsked, PortfolioAsAsked,
                            InterventionsAsAsked, Requested
  <2>7. EvidenceKept'
    BY <1>1, <2>2 DEF IInv, EvidenceKept
  <2>8. StateKept'
    BY <1>1, <1>4, <2>1, <2>2, StateStays DEF IInv, StateKept, Written
  <2>9. QED
    BY <2>3, <2>4, <2>5, <2>6, <2>7, <2>8 DEF IInv
<1>5. QED
  BY <1>2, <1>3, <1>4

LEMMA OpenGateInv == IInv /\ OpenGate => IInv'
<1> SUFFICES ASSUME IInv, OpenGate PROVE IInv'
  OBVIOUS
<1>1. /\ step = "gate" /\ step' = "none" /\ work' = Blank
      /\ UNCHANGED <<tenant, state, todo, revisions, history>>
      /\ run' = [status |-> "waiting_approval", project |-> run.project, input |-> run.input]
      /\ run.status = "running"
  BY DEF OpenGate, IInv, Flow
<1>2. Flow'
  BY <1>1 DEF Flow
<1>3. step \in Checkpointed
  BY <1>1, SavingIsCheckpointed DEF SavingSteps
<1>4. StateOfLastExecution'
  BY <1>1, <1>3 DEF IInv, StateKept, StateOfLastExecution, Saved
<1>5. QED
  BY <1>1, <1>2, <1>4, OverInv

LEMMA CrashInv == IInv /\ Crash => IInv'
<1> SUFFICES ASSUME IInv, Crash PROVE IInv'
  OBVIOUS
<1>1. /\ step' = "none" /\ work' = Blank /\ todo' = {}
      /\ UNCHANGED <<tenant, run, state, revisions, history>> /\ run.status = "running"
  BY DEF Crash, IInv, Flow
<1>2. Flow'
  BY <1>1 DEF IInv, Flow
<1>3. step' \notin Checkpointed
  BY <1>1, SavingIsCheckpointed DEF SavingSteps
<1>4. StateOfLastExecution'
  BY <1>1, <1>3 DEF IInv, StateKept, StateOfLastExecution, Saved
<1>5. QED
  BY <1>1, <1>2, <1>4, OverInv

LEMMA FailRunInv == IInv /\ FailRun => IInv'
<1> SUFFICES ASSUME IInv, FailRun PROVE IInv'
  OBVIOUS
<1>1. /\ step = "fail" /\ step' = "none" /\ work' = Blank /\ todo' = {}
      /\ UNCHANGED <<tenant, state, revisions, history>>
      /\ run' = [status |-> "failed", project |-> run.project, input |-> run.input]
      /\ run.status = "running"
  BY DEF FailRun, IInv, Flow
<1>2. Flow'
  BY <1>1 DEF Flow
<1>3. step \notin Checkpointed /\ step' \notin Checkpointed
  BY <1>1, SavingIsCheckpointed DEF SavingSteps
<1>4. StateOfLastExecution'
  BY <1>1, <1>3 DEF IInv, StateKept, StateOfLastExecution, Saved
<1>5. QED
  BY <1>1, <1>2, <1>4, OverInv

LEMMA NextInv == IInv /\ [Next]_vars => IInv'
<1> SUFFICES ASSUME IInv, [Next]_vars PROVE IInv'
  OBVIOUS
<1>1. CASE UNCHANGED vars
  BY <1>1, StutterInv
<1>2. CASE TenantChanges
  BY <1>2, TenantChangesInv
<1>3. CASE StartAgentRun
  BY <1>3, StartAgentRunInv
<1>4. CASE Revise
  BY <1>4, ReviseInv
<1>5. CASE Close
  BY <1>5, CloseInv
<1>6. CASE ResolveHeat
  BY <1>6, ResolveHeatInv
<1>7. CASE ResolvePortfolio
  BY <1>7, ResolvePortfolioInv
<1>8. CASE ResolveInterventions
  BY <1>8, ResolveInterventionsInv
<1>9. CASE ResolveEvidence
  BY <1>9, ResolveEvidenceInv
<1>10. CASE CompileGraph
  BY <1>10, CompileGraphInv
<1>11. CASE \E n \in 1..Len(AgentNames) : RunNode(n)
  BY <1>11, RunNodeInv
<1>12. CASE \E n \in 1..Len(AgentNames) : Checkpoint(n)
  BY <1>12, CheckpointInv
<1>13. CASE OpenGate
  BY <1>13, OpenGateInv
<1>14. CASE FailRun
  BY <1>14, FailRunInv
<1>15. CASE Crash
  BY <1>15, CrashInv
<1>16. QED
  BY <1>1, <1>2, <1>3, <1>4, <1>5, <1>6, <1>7, <1>8, <1>9, <1>10, <1>11, <1>12, <1>13,
     <1>14, <1>15
     DEF Next

\* The invariant holds of every behaviour.
THEOREM InvariantHolds == Spec => []IInv
BY InitInv, NextInv, PTL DEF Spec

-----------------------------------------------------------------------------
(***************************************************************************)
(* The theorems.                                                           *)
(***************************************************************************)
\* Whatever ids a client sends, no provider is told of, and no run is grounded
\* in, a row of another organization (resolve_grounding's WHERE clauses).
THEOREM TenantsIsolated == Spec => []TenantIsolation
<1>1. IInv => TenantIsolation
  BY DEF IInv, OursKept, TenantIsolation
<1>2. QED
  BY <1>1, InvariantHolds, PTL

\* Durable citations were issued by the resolver, and include those of the
\* grounding (_run_node and grounded_citations).
THEOREM OnlyIssuedCitations == Spec => []CitationsIssued
<1>1. IInv => CitationsIssued
  BY DEF IInv, CitationsKept
<1>2. QED
  BY <1>1, InvariantHolds, PTL

\* Evidence that is there during the whole execution is cited, although
\* _resolve_evidence selects it in several queries.
THEOREM LastingEvidenceCited == Spec => []EvidenceComplete
<1>1. IInv => EvidenceComplete
  <2> SUFFICES ASSUME IInv, step \in Checkpointing, NEW e \in lasting,
                      EvidenceOf[e] \in work.grounding.interventions
               PROVE  e \in work.citations
    BY DEF EvidenceComplete
  <2>1. e \in work.grounding.citations
    BY SavingIsCheckpointed DEF IInv, EvidenceKept, NodeSteps
  <2>2. work.grounding.citations \subseteq work.citations
    BY SavingIsCheckpointed DEF IInv, CitationsKept, AfterNode1, NodeSteps, SavingSteps
  <2>3. QED
    BY <2>1, <2>2
<1>2. QED
  BY <1>1, InvariantHolds, PTL

\* What is durable is one whole execution: a failed one leaves nothing behind,
\* and one that is lost all of its state or nothing, for execute_run saves
\* state_json with the checkpoints only, the same in all four.
THEOREM DurableStateWhole == Spec => []StateOfLastExecution
<1>1. IInv => StateOfLastExecution
  BY DEF IInv, StateKept
<1>2. QED
  BY <1>1, InvariantHolds, PTL

-----------------------------------------------------------------------------
(***************************************************************************)
(* What the invariant leaves out: the bounds, the histories, and the       *)
(* references a run keeps of those its client sent.                        *)
(***************************************************************************)
Kept == /\ changes \in 0..MaxChanges /\ revisions \in 0..MaxRevisions
        /\ run.project \in OurProjects \union {"none"} /\ run.input \in References
        /\ sent \subseteq Citations \union DOMAIN Catalogue
        /\ issued \subseteq Citations
        /\ asked \in Input
        /\ run.status # "absent" => run.input = SafeInputReferences(asked)

\* Every input is reduced to references, whatever it holds.
LEMMA InputsAreReferences ==
  ASSUME NEW input \in Inputs
  PROVE  SafeInputReferences(input) \in References
<1>1. /\ input.heat \in Seq(Heat \union {Junk})
      /\ input.portfolio \in Seq(Portfolio \union {Junk})
      /\ input.interventions \in Seq(DOMAIN Catalogue \union {Junk})
  BY GroundingAssumption DEF Input
<1>2. /\ Valid(input.heat) \in Seq(Heat)
      /\ Valid(input.portfolio) \in Seq(Portfolio)
      /\ Valid(input.interventions) \in Seq(DOMAIN Catalogue)
  BY <1>1, ValidKeepsIds
<1>. QED  BY <1>2 DEF SafeInputReferences, References

\* The rows named by a state are citations and interventions.
LEMMA ContextTyped ==
  ASSUME NEW s \in State
  PROVE  Context(s) \subseteq Citations \union DOMAIN Catalogue
BY DEF State, Grounding, Context, Citations

\* A row found by a query, and the evidence of an intervention, are citations.
LEMMA FoundIsCitation ==
  ASSUME IInv
  PROVE  /\ SelectRow(heat, HeatRows, run.input.heat) \in Heat \union {"none"}
         /\ SelectRow(portfolios, PortfolioRows, run.input.portfolio)
              \in Portfolio \union {"none"}
<1>1. heat \in Seq(Heat) /\ portfolios \in Seq(Portfolio)
  BY DEF IInv, Typed
<1>. QED  BY <1>1, Selected

LEMMA KeptInductive == IInv /\ Kept /\ [Next]_vars => Kept'
<1> SUFFICES ASSUME IInv, Kept, [Next]_vars PROVE Kept'
  OBVIOUS
<1> USE DEF tenant, history
<1>1. CASE UNCHANGED vars
  BY <1>1 DEF vars, Kept
<1>2. CASE TenantChanges
  <2>1. changes < MaxChanges /\ changes' = changes + 1
    BY <1>2 DEF TenantChanges
  <2>2. changes' \in 0..MaxChanges
    BY <2>1, GroundingAssumption DEF Kept
  <2>. QED  BY <1>2, <2>2 DEF TenantChanges, Kept
<1>3. CASE StartAgentRun
  <2>1. PICK project \in OurProjects \union {"none"}, input \in Inputs :
          /\ run' = [status |-> "running", project |-> project,
                     input |-> SafeInputReferences(input)]
          /\ asked' = input
    BY <1>3 DEF StartAgentRun
  <2>2. /\ run'.project \in OurProjects \union {"none"} /\ run'.input \in References
        /\ run'.input = SafeInputReferences(asked') /\ asked' \in Input
    BY <2>1, InputsAreReferences, GroundingAssumption
  <2>3. UNCHANGED <<changes, revisions, sent, issued>>
    BY <1>3 DEF StartAgentRun, Begin
  <2>. QED  BY <2>2, <2>3 DEF Kept
<1>4. CASE Revise
  <2>1. run'.project = run.project /\ run'.input = run.input /\ run.status # "absent"
    BY <1>4 DEF Revise, IInv, Flow
  <2>2. revisions < MaxRevisions /\ revisions' = revisions + 1
    BY <1>4 DEF Revise
  <2>3. revisions' \in 0..MaxRevisions
    BY <2>2, GroundingAssumption DEF Kept
  <2>. QED  BY <1>4, <2>1, <2>3 DEF Revise, Begin, Kept
<1>5. CASE Close \/ OpenGate \/ FailRun
  <2>1. run'.project = run.project /\ run'.input = run.input /\ run.status # "absent"
    BY <1>5 DEF Close, OpenGate, FailRun, IInv, Flow
  <2>2. UNCHANGED <<changes, revisions, asked, sent, issued>>
    BY <1>5 DEF Close, OpenGate, FailRun
  <2>. QED  BY <2>1, <2>2 DEF Kept
<1>6. CASE ResolveHeat
  <2> DEFINE found == SelectRow(heat, HeatRows, run.input.heat)
  <2>1. UNCHANGED <<changes, run, revisions, asked, sent>>
    BY <1>6 DEF ResolveHeat, Resolve, GroundingError
  <2>2. issued' = issued \/ issued' = issued \union (({found} \ {"none"}))
    BY <1>6 DEF ResolveHeat, GroundingError
  <2>3. {found} \ {"none"} \subseteq Citations
    BY FoundIsCitation DEF Citations
  <2>. QED  BY <2>1, <2>2, <2>3 DEF Kept
<1>7. CASE ResolvePortfolio
  <2> DEFINE found == SelectRow(portfolios, PortfolioRows, run.input.portfolio)
  <2>1. UNCHANGED <<changes, run, revisions, asked, sent>>
    BY <1>7 DEF ResolvePortfolio, Resolve, GroundingError
  <2>2. issued' = issued \/ issued' = issued \union (({found} \ {"none"}))
    BY <1>7 DEF ResolvePortfolio, GroundingError
  <2>3. {found} \ {"none"} \subseteq Citations
    BY FoundIsCitation DEF Citations
  <2>. QED  BY <2>1, <2>2, <2>3 DEF Kept
<1>8. CASE ResolveInterventions
  <2>1. UNCHANGED <<changes, run, revisions, asked, sent, issued>>
    BY <1>8 DEF ResolveInterventions, Resolve, GroundingError
  <2>. QED  BY <2>1 DEF Kept
<1>9. CASE ResolveEvidence
  <2>1. PICK i \in todo : issued' = issued \union {e \in evidence : EvidenceOf[e] = i}
    BY <1>9 DEF ResolveEvidence
  <2>2. evidence \subseteq Citations
    BY DEF IInv, Typed, Citations
  <2>3. UNCHANGED <<changes, run, revisions, asked, sent>>
    BY <1>9 DEF ResolveEvidence, Resolve
  <2>. QED  BY <2>1, <2>2, <2>3 DEF Kept
<1>10. CASE CompileGraph
  BY <1>10 DEF CompileGraph, Kept
<1>11. CASE \E n \in 1..Len(AgentNames) : RunNode(n)
  <2>1. /\ sent' = sent \union Context(work)
        /\ UNCHANGED <<changes, run, revisions, asked, issued>>
    BY <1>11 DEF RunNode
  <2>2. Context(work) \subseteq Citations \union DOMAIN Catalogue
    BY ContextTyped DEF IInv, Typed
  <2>. QED  BY <2>1, <2>2 DEF Kept
<1>12. CASE (\E n \in 1..Len(AgentNames) : Checkpoint(n)) \/ Crash
  BY <1>12 DEF Checkpoint, Crash, Kept
<1>. QED
  BY <1>1, <1>2, <1>3, <1>4, <1>5, <1>6, <1>7, <1>8, <1>9, <1>10, <1>11, <1>12 DEF Next

\* At first nothing was asked.
LEMMA KeptInit == Init => Kept
<1> SUFFICES ASSUME Init PROVE Kept
  OBVIOUS
<1>1. /\ run.input = NoReferences /\ NoReferences \in References
      /\ asked = NoReferences /\ NoReferences \in Input
  BY DEF Init, NoReferences, References, Input
<1>2. QED  BY <1>1, GroundingAssumption DEF Init, Kept

\* Every variable keeps its type; in particular a run holds references and no
\* other input, and its histories name rows of the tables only.
THEOREM GroundingTypeCorrect == Spec => []TypeOK
<1>1. IInv /\ Kept => TypeOK
  BY DEF IInv, Typed, Flow, Kept, TypeOK
<1>. QED  BY <1>1, KeptInit, KeptInductive, InvariantHolds, PTL DEF Spec

-----------------------------------------------------------------------------
(***************************************************************************)
(* What was asked for, as the client sent it.                              *)
(***************************************************************************)
\* What Valid keeps, in the words of the property.
LEMMA ReadableKept ==
  ASSUME NEW T, NEW s \in Seq(T \union {Junk})
  PROVE  /\ Valid(s) = <<>> <=> Readable(s) = {}
         /\ Readable(s) # {} => FirstReadable(Valid(s)[1], s)
         /\ {Valid(s)[i] : i \in DOMAIN Valid(s)} = {s[i] : i \in Readable(s)}
<1> DEFINE list == Valid(s)
<1>1. Readable(s) = {i \in 1..Len(s) : s[i] # Junk}
  BY DEF Readable
<1>2. list \in Seq(T)
  BY ValidKeepsIds
<1> HIDE DEF list
<1>3. /\ {list[i] : i \in DOMAIN list} = {s[i] : i \in Readable(s)}
      /\ list # <<>> => \E i \in Readable(s) : list[1] = s[i] /\ \A j \in Readable(s) : i <= j
  BY <1>1, ValidIsReadable DEF Known, list
<1>4. list = <<>> <=> DOMAIN list = {}
  BY <1>2
<1>5. list = <<>> <=> Readable(s) = {}
  BY <1>3, <1>4
<1>6. QED  BY <1>3, <1>5 DEF FirstReadable, list

\* What is saved of a run is grounded in what its client asked for, as it was
\* sent, and in rows of its project (safe_input_references, _resolve_heat,
\* _resolve_portfolio, _resolve_interventions).
THEOREM GroundedInWhatWasAsked == Spec => []GroundedAsAsked
<1>1. IInv /\ Kept => GroundedAsAsked
  <2> SUFFICES ASSUME IInv, Kept, Saved
               PROVE  AsAsked(state.grounding) /\ OfProject(state.grounding)
    BY DEF GroundedAsAsked
  <2> DEFINE g == state.grounding
  <2>1. HeatAsAsked(g) /\ PortfolioAsAsked(g) /\ InterventionsAsAsked(g)
    BY DEF IInv, AskedFor
  <2>2. run.input = SafeInputReferences(asked) /\ asked \in Input
    BY DEF IInv, StateKept, Kept
  <2>3. /\ asked.heat \in Seq(Heat \union {Junk})
        /\ asked.portfolio \in Seq(Portfolio \union {Junk})
        /\ asked.interventions \in Seq(DOMAIN Catalogue \union {Junk})
    BY <2>2 DEF Input
  <2>4. /\ run.input.heat = Valid(asked.heat)
        /\ run.input.portfolio = Valid(asked.portfolio)
        /\ run.input.interventions = Valid(asked.interventions)
    BY <2>2 DEF SafeInputReferences
  <2> HIDE DEF g
  <2>5. Readable(asked.heat) # {} => FirstReadable(g.heat, asked.heat)
    BY <2>1, <2>3, <2>4, ReadableKept DEF HeatAsAsked
  <2>6. Readable(asked.portfolio) # {} => FirstReadable(g.portfolio, asked.portfolio)
    BY <2>1, <2>3, <2>4, ReadableKept DEF PortfolioAsAsked
  <2>7. Requested = {asked.interventions[i] : i \in Readable(asked.interventions)}
    <3>1. {Valid(asked.interventions)[i] : i \in DOMAIN Valid(asked.interventions)}
            = {asked.interventions[i] : i \in Readable(asked.interventions)}
      BY <2>3, ReadableKept
    <3>2. QED  BY <2>4, <3>1 DEF Requested
  <2>8. Requested = {} <=> Readable(asked.interventions) = {}
    BY <2>7
  <2>9. AsAsked(g)
    BY <2>1, <2>5, <2>6, <2>7, <2>8 DEF AsAsked, InterventionsAsAsked
  <2>10. OfProject(g)
    BY <2>1 DEF OfProject, HeatAsAsked, PortfolioAsAsked
  <2>11. QED  BY <2>9, <2>10 DEF g
<1>2. QED  BY <1>1, KeptInit, KeptInductive, InvariantHolds, PTL DEF Spec
=============================================================================
