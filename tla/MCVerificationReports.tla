------------------------ MODULE MCVerificationReports ------------------------
(* A small instance of VerificationReports for TLC: two good bodies, one of  *)
(* a zone that warmed, and one body for each way a request is refused.       *)
EXTENDS VerificationReports

MCProjects   == {"p1", "p2"}
MCPortfolios == [f \in {"f1"} |-> "p1"]

Zone(baseline, observed, weather, before, after) ==
  [baseline |-> baseline, observed |-> observed, weather |-> weather,
   hoursBefore |-> before, hoursAfter |-> after]
Steady == Zone(40, 41, 1, 6, 6)
Cooled == [treated |-> Zone(40, 38, 1, 9, 3), control |-> Steady,
           expected |-> 3, cost |-> 90]
Warmed == [treated |-> Zone(38, 41, 0, 2, 5), control |-> Steady,
           expected |-> 0, cost |-> 10]

For(project, portfolio, data, finite) ==
  [project |-> project, portfolio |-> portfolio, data |-> data, finite |-> finite]
MCBodies == {For("p1", "f1", Cooled, TRUE), For("none", "none", Warmed, TRUE),
             For("p2", "f1", Cooled, TRUE), For("foreign", "none", Cooled, TRUE),
             For("p1", "foreign", Cooled, TRUE), For("p1", "none", Cooled, FALSE)}
=============================================================================
