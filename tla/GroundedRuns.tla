---------------------------- MODULE GroundedRuns ----------------------------
(***************************************************************************)
(* What an agent run is grounded in (app/agents/grounding.py and the graph *)
(* of app/agents/runtime.py): the references kept from the request, the    *)
(* tenant's rows they resolve to, what the providers are sent, what of     *)
(* their output is kept, and the state that becomes durable.               *)
(*                                                                         *)
(* resolve_grounding issues one SELECT after another, and the tenant's     *)
(* rows change between them.  The state is committed by each of the four   *)
(* checkpoints and the execution may be lost between any two steps: then   *)
(* the run is running for good, for nothing resumes it.  One run, one      *)
(* execution at a time: AgentRuns has the overlapping requests.  A row is  *)
(* named by a model identifier that also stands for its citation.          *)
(***************************************************************************)
EXTENDS Sequences, FiniteSets, Integers

CONSTANTS
  Us,             \* the organization of the run
  OurProjects,    \* its projects
  HeatRows,       \* heat_analyses: [id -> [org, project]]
  PortfolioRows,  \* portfolio_runs: [id -> [org, project]]
  Catalogue,      \* active interventions: [id -> org]
  EvidenceOf,     \* intervention_evidence: [id -> the intervention it backs]
  Inputs,         \* bound: the input objects clients send
  Outputs,        \* bound: the validated AgentOutputs providers return
  MaxChanges,     \* bound: rows added or removed
  MaxRevisions    \* bound: revise decisions

Heat       == DOMAIN HeatRows
Portfolio  == DOMAIN PortfolioRows
Evidence   == DOMAIN EvidenceOf
Citations  == Heat \union Portfolio \union Evidence
Junk       == "junk"   \* an input value that is not a UUID
Invented   == "invented"

\* What a provider may put in facts: measurements, short labels (status,
\* method, agent and *_id strings) and any other text.
FactKinds == {"measure", "label", "text"}
Output == [citations : SUBSET (Citations \union {Invented}),
           facts : SUBSET FactKinds]
Input  == [heat : Seq(Heat \union {Junk}), portfolio : Seq(Portfolio \union {Junk}),
           interventions : Seq(DOMAIN Catalogue \union {Junk})]
References == [heat : Seq(Heat), portfolio : Seq(Portfolio),
               interventions : Seq(DOMAIN Catalogue)]

\* Ids name one row of one table.
ASSUME GroundingAssumption ==
  /\ {Heat \intersect Portfolio, Heat \intersect Evidence, Portfolio \intersect Evidence,
      Citations \intersect DOMAIN Catalogue} = {{}}
  /\ EvidenceOf \in [Evidence -> DOMAIN Catalogue]
  /\ Inputs \subseteq Input /\ Outputs \subseteq Output
  /\ MaxChanges \in Nat /\ MaxRevisions \in Nat

AgentNames == <<"heat_intelligence", "intervention_analyst", "portfolio",
                "verification">>
Agents     == {AgentNames[i] : i \in 1..Len(AgentNames)}

Grounding == [heat : Heat \union {"none"}, portfolio : Portfolio \union {"none"},
              interventions : SUBSET DOMAIN Catalogue, citations : SUBSET Citations]
Empty     == [heat |-> "none", portfolio |-> "none", interventions |-> {},
              citations |-> {}]

VARIABLES
  heat,       \* the committed heat analyses of every tenant, oldest first
  portfolios, \* the committed portfolio runs, likewise
  evidence,   \* the committed intervention_evidence rows
  run,        \* status, project and input_json of the run
  state,      \* its durable state_json
  step,       \* what the execution does next
  work,       \* the CoolProofState in memory
  todo,       \* interventions whose evidence is still to be selected
  revisions,  \* revise decisions so far
  changes,    \* rows added or removed so far
  asked,      \* history: the input object as the client sent it
  sent,       \* history: rows a provider was told of
  issued,     \* history: citations the resolver issued to this run
  lasting     \* history: evidence that was there all along this execution

tenant  == <<heat, portfolios, evidence, changes>>
history == <<asked, sent, issued, lasting>>
vars    == <<tenant, run, state, step, work, todo, revisions, history>>

State == [grounding : Grounding, citations : SUBSET (Citations \union {Invented}),
          summaries : [Agents -> [of : {"provider", "grounding"}, about : Grounding]],
          facts : [Agents -> SUBSET FactKinds], entries : Nat]

NoReferences == [heat |-> <<>>, portfolio |-> <<>>, interventions |-> <<>>]
Silent == [of |-> "grounding", about |-> Empty]
Blank  == [grounding |-> Empty, citations |-> {}, entries |-> 0,
           summaries |-> [a \in Agents |-> Silent],
           facts |-> [a \in Agents |-> {}]]

Steps == {"none", "heat", "portfolio", "interventions", "evidence", "node1",
          "node2", "node3", "node4", "persist1", "persist2", "persist3",
          "persist4", "gate", "fail"}
NodeStep == <<"node1", "node2", "node3", "node4", "persist1">>
CheckpointStep == <<"persist1", "persist2", "persist3", "persist4", "gate">>

TypeOK ==
  /\ heat \in Seq(Heat) /\ portfolios \in Seq(Portfolio)
  /\ evidence \subseteq Evidence /\ changes \in 0..MaxChanges
  /\ run.status \in {"absent", "running", "waiting_approval", "closed", "failed"}
  /\ run.project \in OurProjects \union {"none"}
  /\ run.input \in References /\ asked \in Input
  /\ state \in State /\ work \in State
  /\ step \in Steps /\ todo \subseteq DOMAIN Catalogue
  /\ revisions \in 0..MaxRevisions
  /\ sent \subseteq Citations \union DOMAIN Catalogue
  /\ issued \subseteq Citations /\ lasting \subseteq Evidence

Init ==
  /\ heat = <<>> /\ portfolios = <<>> /\ evidence = {} /\ changes = 0
  /\ run = [status |-> "absent", project |-> "none", input |-> NoReferences]
  /\ state = Blank /\ work = Blank
  /\ step = "none" /\ todo = {} /\ revisions = 0
  /\ asked = NoReferences /\ sent = {} /\ issued = {} /\ lasting = {}

-----------------------------------------------------------------------------
(***************************************************************************)
(* The rest of the application: rows appear, and evidence goes when it or  *)
(* the chunk it cites is deleted.                                          *)
(***************************************************************************)
InSequence(x, s) == \E i \in DOMAIN s : s[i] = x

TenantChanges ==
  /\ changes < MaxChanges /\ changes' = changes + 1
  /\ \/ /\ \E h \in Heat : ~InSequence(h, heat) /\ heat' = Append(heat, h)
        /\ UNCHANGED <<portfolios, evidence, lasting>>
     \/ /\ \E p \in Portfolio : ~InSequence(p, portfolios)
                                /\ portfolios' = Append(portfolios, p)
        /\ UNCHANGED <<heat, evidence, lasting>>
     \/ /\ \E e \in Evidence \ evidence : evidence' = evidence \union {e}
        /\ UNCHANGED <<heat, portfolios, lasting>>
     \/ /\ \E e \in evidence : /\ evidence' = evidence \ {e}
                               /\ lasting' = lasting \ {e}
        /\ UNCHANGED <<heat, portfolios>>
  /\ UNCHANGED <<run, state, step, work, todo, revisions, asked, sent, issued>>

-----------------------------------------------------------------------------
(***************************************************************************)
(* create_run, and the beginning of execute_run.                           *)
(***************************************************************************)
\* The values that are UUIDs, in the order of the request.
Valid(values) ==
  LET kept[n \in 0..Len(values)] ==
        IF n = 0 THEN <<>>
        ELSE IF values[n] = Junk THEN kept[n - 1] ELSE Append(kept[n - 1], values[n])
  IN  kept[Len(values)]

\* Mutant: values that are not UUIDs are kept.
UnsafeInputReferences(input) == input

\* safe_input_references: what is not a UUID is dropped.
SafeInputReferences(input) ==
  [heat |-> Valid(input.heat), portfolio |-> Valid(input.portfolio),
   interventions |-> Valid(input.interventions)]

Begin == /\ step' = "heat" /\ work' = state /\ lasting' = evidence
         /\ UNCHANGED <<tenant, state, todo, sent, issued>>

\* POST /agent-runs: a project of another organization is not found.
StartAgentRun ==
  /\ run.status = "absent"
  /\ \E project \in OurProjects \union {"none"}, input \in Inputs :
       /\ run' = [status |-> "running", project |-> project,
                  input |-> SafeInputReferences(input)]
       /\ asked' = input
  /\ Begin /\ UNCHANGED revisions

\* A revise decision: the execution starts from the durable state, with the
\* references of the first request.
Revise == /\ run.status = "waiting_approval" /\ revisions < MaxRevisions
          /\ revisions' = revisions + 1
          /\ run' = [run EXCEPT !.status = "running"]
          /\ Begin /\ UNCHANGED asked

\* An approve or reject decision: the state is not touched again.
Close == /\ run.status = "waiting_approval"
         /\ run' = [run EXCEPT !.status = "closed"]
         /\ UNCHANGED <<tenant, state, step, work, todo, revisions, history>>

-----------------------------------------------------------------------------
(***************************************************************************)
(* resolve_grounding.                                                      *)
(***************************************************************************)
\* ORDER BY created_at DESC LIMIT 1 over the rows at these positions.
Latest(rows, positions) ==
  LET newest == {i \in positions : \A j \in positions : j <= i}
  IN  IF newest = {} THEN "none" ELSE rows[CHOOSE i \in newest : TRUE]

\* Asked for by its id, or else any of the project.
Asked(id, table, refs) == IF refs # <<>> THEN id = refs[1]
                          ELSE run.project \in {"none", table[id].project}

\* Mutant: the latest row is not restricted to the organization.
SelectRowOfAnyone(rows, table, refs) ==
  Latest(rows, {i \in DOMAIN rows : Asked(rows[i], table, refs)})

\* Mutant: the reference is ignored and the latest row taken.
SelectLatestRow(rows, table, refs) ==
  Latest(rows, {i \in DOMAIN rows : /\ table[rows[i]].org = Us
                                    /\ Asked(rows[i], table, <<>>)})

\* The referenced row of the organization, else its latest in the project.
SelectRow(rows, table, refs) ==
  Latest(rows, {i \in DOMAIN rows : /\ table[rows[i]].org = Us
                                    /\ Asked(rows[i], table, refs)})

\* A reference must be found, and belong to the project of the run.
Accepts(found, table, refs, alsoFor) ==
  IF found = "none" THEN refs = <<>>
  ELSE run.project # "none" => table[found].project \in {run.project} \union alsoFor

GroundingError == /\ step' = "fail"
                  /\ UNCHANGED <<tenant, run, state, work, todo, revisions, history>>

Resolve(grounding, next) ==
  /\ work' = [work EXCEPT !.grounding = grounding] /\ step' = next
  /\ UNCHANGED <<tenant, run, state, revisions, asked, sent, lasting>>

ResolveHeat ==
  /\ step = "heat"
  /\ LET refs  == run.input.heat
         found == SelectRow(heat, HeatRows, refs)
     IN  IF Accepts(found, HeatRows, refs, {})
         THEN /\ Resolve([heat |-> found, portfolio |-> "none", interventions |-> {},
                          citations |-> {found} \ {"none"}], "portfolio")
              /\ issued' = issued \union ({found} \ {"none"})
              /\ UNCHANGED todo
         ELSE GroundingError

\* A portfolio run without a project serves every project.
ResolvePortfolio ==
  /\ step = "portfolio"
  /\ LET refs  == run.input.portfolio
         found == SelectRow(portfolios, PortfolioRows, refs)
     IN  IF Accepts(found, PortfolioRows, refs, {"none"})
         THEN /\ Resolve([work.grounding EXCEPT !.portfolio = found,
                           !.citations = @ \union ({found} \ {"none"})],
                         "interventions")
              /\ issued' = issued \union ({found} \ {"none"})
              /\ UNCHANGED todo
         ELSE GroundingError

Requested == {run.input.interventions[i] : i \in DOMAIN run.input.interventions}

\* Every referenced intervention must be the organization's; without a
\* reference the whole catalogue is taken.
ResolveInterventions ==
  /\ step = "interventions"
  /\ LET ours == {i \in DOMAIN Catalogue : Catalogue[i] = Us}
     IN  IF Requested \subseteq ours
         THEN LET found == IF Requested = {} THEN ours ELSE Requested IN
              /\ Resolve([work.grounding EXCEPT !.interventions = found], "evidence")
              /\ todo' = found
              /\ UNCHANGED issued
         ELSE GroundingError

\* Mutant: the evidence of the first intervention only is selected.
ResolveEvidenceOnce ==
  /\ step = "evidence" /\ todo # {}
  /\ \E i \in todo :
       LET found == {e \in evidence : EvidenceOf[e] = i} IN
       /\ Resolve([work.grounding EXCEPT !.citations = @ \union found], "evidence")
       /\ issued' = issued \union found
       /\ todo' = {}

\* One SELECT of evidence for each intervention in turn.
ResolveEvidence ==
  /\ step = "evidence" /\ todo # {}
  /\ \E i \in todo :
       LET found == {e \in evidence : EvidenceOf[e] = i} IN
       /\ Resolve([work.grounding EXCEPT !.citations = @ \union found], "evidence")
       /\ issued' = issued \union found
       /\ todo' = todo \ {i}

CompileGraph == /\ step = "evidence" /\ todo = {}
                /\ step' = NodeStep[1]
                /\ UNCHANGED <<tenant, run, state, work, todo, revisions, history>>

-----------------------------------------------------------------------------
(***************************************************************************)
(* The four nodes, and what becomes durable.                               *)
(***************************************************************************)

\* The rows named in the context of a provider call.
Context(s) == (({s.grounding.heat, s.grounding.portfolio} \ {"none"})
               \union s.grounding.interventions) \union s.grounding.citations

SafeProviderFacts(facts) == facts \ {"text"}

\* A fixed sentence filled in from the grounding.
SummaryForAgent(grounding) == [of |-> "grounding", about |-> grounding]

\* Mutant: the citations are those the provider gives.
ProviderCitations(grounding, output) == output.citations

\* grounded_citations: the provider's own are not looked at.
TrustedCitations(grounding, output) == grounding.citations

\* _run_node with a resolved grounding: of the provider's output only safe
\* facts are merged in; the analyst appends an entry.
TakeOutput(s, name, output) ==
  [s EXCEPT !.summaries[name] = SummaryForAgent(s.grounding),
            !.citations = @ \union TrustedCitations(s.grounding, output),
            !.facts[name] = @ \union SafeProviderFacts(output.facts),
            !.entries = IF name = "intervention_analyst" THEN @ + 1 ELSE @]

\* One node: the provider answers with valid JSON or raises ProviderError.
RunNode(n) ==
  /\ step = NodeStep[n]
  /\ sent' = sent \union Context(work)
  /\ \/ /\ \E output \in Outputs : work' = TakeOutput(work, AgentNames[n], output)
        /\ step' = NodeStep[n + 1]
     \/ step' = "fail" /\ UNCHANGED work
  /\ UNCHANGED <<tenant, run, state, todo, revisions, asked, issued, lasting>>

\* One checkpoint for each node, after the last of them: a transaction that
\* saves the state, the run still running.
Checkpoint(n) ==
  /\ step = CheckpointStep[n]
  /\ state' = work /\ step' = CheckpointStep[n + 1]
  /\ UNCHANGED <<tenant, run, work, todo, revisions, history>>

\* The approval gate.
OpenGate ==
  /\ step = "gate"
  /\ step' = "none" /\ work' = Blank
  /\ run' = [run EXCEPT !.status = "waiting_approval"]
  /\ UNCHANGED <<tenant, state, todo, revisions, history>>

\* Mutant: the state in memory is saved with the failure.
FailRunWithState ==
  /\ step = "fail"
  /\ step' = "none" /\ work' = Blank /\ todo' = {} /\ state' = work
  /\ run' = [run EXCEPT !.status = "failed"]
  /\ UNCHANGED <<tenant, revisions, history>>

\* except Exception: the status and the error, not the state.
FailRun ==
  /\ step = "fail"
  /\ step' = "none" /\ work' = Blank /\ todo' = {}
  /\ run' = [run EXCEPT !.status = "failed"]
  /\ UNCHANGED <<tenant, state, revisions, history>>

\* The process or its database connection is lost, also on the way to FAILED: an
\* error in a checkpoint breaks the transaction that would record it.
Crash ==
  /\ step # "none"
  /\ step' = "none" /\ work' = Blank /\ todo' = {}
  /\ UNCHANGED <<tenant, run, state, revisions, history>>

Next == \/ TenantChanges \/ StartAgentRun \/ Revise \/ Close
        \/ ResolveHeat \/ ResolvePortfolio \/ ResolveInterventions
        \/ ResolveEvidence \/ CompileGraph
        \/ \E n \in 1..Len(AgentNames) : RunNode(n)
        \/ \E n \in 1..Len(AgentNames) : Checkpoint(n)
        \/ OpenGate \/ FailRun \/ Crash

Spec == Init /\ [][Next]_vars

-----------------------------------------------------------------------------
(***************************************************************************)
(* Properties.                                                             *)
(***************************************************************************)
Owner(x) == CASE x \in Heat      -> HeatRows[x].org
              [] x \in Portfolio -> PortfolioRows[x].org
              [] x \in Evidence  -> Catalogue[EvidenceOf[x]]
              [] OTHER           -> Catalogue[x]

\* Every row that a provider was told of or that the durable state is grounded
\* in belongs to the run's organization, whatever ids the client sent.
TenantIsolation == \A x \in sent \union Context(state) : Owner(x) = Us

\* "citations must be issued by the tenant-scoped resolver rather than
\* invented by a model" (app/agents/runtime.py:79-80): through any number of
\* revisions a durable citation was issued to this run, and the citations of
\* the current grounding are all among them.
CitationsIssued == /\ state.citations \subseteq issued
                   /\ state.grounding.citations \subseteq state.citations

\* The ids of a reference that can be read; some execution has saved its state.
Readable(values) == {i \in DOMAIN values : values[i] # Junk}
Saved == state.entries > 0

\* Of the references as the client sent them, the first readable id decides, and
\* of interventions all of them.  Where none can be read, the ids count as not
\* sent: the run is not refused, and takes the latest row or the whole catalogue.
FirstReadable(id, values) ==
  \E i \in Readable(values) : id = values[i] /\ \A j \in Readable(values) : i <= j

AsAsked(g) ==
  /\ Readable(asked.heat) # {} => FirstReadable(g.heat, asked.heat)
  /\ Readable(asked.portfolio) # {} => FirstReadable(g.portfolio, asked.portfolio)
  /\ g.interventions =
       IF Readable(asked.interventions) = {}
       THEN {i \in DOMAIN Catalogue : Catalogue[i] = Us}
       ELSE {asked.interventions[i] : i \in Readable(asked.interventions)}

OfProject(g) ==
  run.project # "none" =>
    /\ g.heat # "none" => HeatRows[g.heat].project = run.project
    /\ g.portfolio # "none" =>
         PortfolioRows[g.portfolio].project \in {run.project, "none"}

\* A durable state is grounded as the client asked, through every revision and
\* whatever execution was lost, and whether they were asked for or found, the
\* heat analysis and the portfolio run (if it has a project) are of the project
\* the run is about.
GroundedAsAsked == Saved => AsAsked(state.grounding) /\ OfProject(state.grounding)

\* The nodes are done; the first checkpoint is committed.
Checkpointing == {CheckpointStep[n] : n \in 1..Len(CheckpointStep)}
Checkpointed  == Checkpointing \ {CheckpointStep[1]}

\* Evidence of a grounded intervention that was there from the beginning of
\* the execution is cited in what its checkpoints save, although it is selected
\* row by row while other evidence comes and goes.
EvidenceComplete ==
  step \in Checkpointing =>
    \A e \in lasting : EvidenceOf[e] \in work.grounding.interventions
                         => e \in work.citations

\* The durable state is that of one execution, never of parts of two: the
\* current one from its first checkpoint on (execute_run commits four before the
\* gate), and until then, or if it fails, the last complete one.  A lost
\* execution has left all of its state or nothing.  The analyst has one entry
\* for each execution saved, every summary is written from the saved grounding
\* and never from a provider's text, and of a provider's facts only
\* measurements and short labels are kept.
StateOfLastExecution ==
  LET saved == run.status \in {"waiting_approval", "closed"} \/ step \in Checkpointed
      lost  == run.status = "running" /\ step = "none"
  IN  /\ state.entries \in {revisions, revisions + 1}
      /\ saved => state.entries = revisions + 1
      /\ ~saved /\ ~lost => state.entries = revisions
      /\ ~Saved => state = Blank
      /\ \A a \in Agents :
           /\ Saved => state.summaries[a] = [of |-> "grounding", about |-> state.grounding]
           /\ state.facts[a] \subseteq {"measure", "label"}
=============================================================================
