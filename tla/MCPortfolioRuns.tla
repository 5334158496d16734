--------------------------- MODULE MCPortfolioRuns ---------------------------
(* A small instance of PortfolioRuns for TLC: two zones and two             *)
(* interventions of one tenant, a project, a zone and an intervention of    *)
(* another, and one request for each constraint, the refusals included.     *)
EXTENDS PortfolioRuns

MCCasefold  == [u \in {"Park", "park", "school"} |-> IF u = "school" THEN u ELSE "park"]
MCProjectOf == [z \in {"z1", "z2", "zx"} |-> IF z = "zx" THEN "px" ELSE "p1"]
MCOrgOf     == [x \in {"p1", "px", "i1", "i2", "ix"} |->
                  IF x \in {"px", "ix"} THEN "them" ELSE "us"]
MCCatalogue == [i \in {"i1", "i2", "ix"} |->
                  CASE i = "i1" -> [cost |-> 207, score |-> 5, uses |-> {"Park", "school"}]
                    [] i = "i2" -> [cost |-> 104, score |-> 3, uses |-> {"school"}]
                    [] i = "ix" -> [cost |-> 1, score |-> 9, uses |-> {"park"}]]

Place(use, equity, school, capacity) ==
  [use |-> use, equity |-> equity, school |-> school, capacity |-> capacity]
Claim(cost, uncertainty) == [cost |-> cost, uncertainty |-> uncertainty]

Basic == [tenant |-> "us", project |-> "p1", repeated |-> FALSE,
          zones |-> [z \in {"z1", "z2"} |->
                       IF z = "z1" THEN Place("park", TRUE, FALSE, 1)
                                   ELSE Place("school", FALSE, TRUE, 2)],
          items |-> [i \in {"i1", "i2"} |-> Claim(1, IF i = "i1" THEN 1 ELSE 0)],
          budget |-> 414, minEquity |-> 0, minSchool |-> 0, penalty |-> 0,
          required |-> {}, incompatible |-> {}]
MCBodies ==
  {Basic, [Basic EXCEPT !.budget = 311], [Basic EXCEPT !.budget = 207],
   [Basic EXCEPT !.penalty = 2, !.minEquity = 1, !.minSchool = 1],
   [Basic EXCEPT !.required = {<<"z2", "i2">>, <<"z1", "i2">>, <<Other, "i1">>},
                 !.incompatible = {<<"z1", "i1">>}],
   [Basic EXCEPT !.minEquity = 2], [Basic EXCEPT !.repeated = TRUE],
   [Basic EXCEPT !.tenant = "them"],
   [Basic EXCEPT !.items = [i \in {"ix"} |-> Claim(1, 0)]],
   [Basic EXCEPT !.zones = [z \in {"zx"} |-> Place("park", FALSE, FALSE, 2)]],
   [Basic EXCEPT !.tenant = "them", !.project = "px",
                 !.zones = [z \in {"zx"} |-> Place("Park", FALSE, FALSE, 2)],
                 !.items = [i \in {"ix"} |-> Claim(3, 1)]]}
=============================================================================
