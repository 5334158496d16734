--------------------------- MODULE MCGroundedRuns ---------------------------
(* A small instance of GroundedRuns for TLC: two projects of the tenant, a   *)
(* second tenant's rows, inputs that name good, foreign and unreadable ids,  *)
(* and a provider that invents citations and fills facts with everything.    *)
EXTENDS GroundedRuns

Row(org, project) == [org |-> org, project |-> project]
MCHeatRows == [h \in {"h1", "h2", "hx"} |->
                 CASE h = "h1" -> Row("us", "p1")
                   [] h = "h2" -> Row("us", "p2")
                   [] h = "hx" -> Row("them", "px")]
MCPortfolioRows == [f \in {"f1", "fx"} |->
                      IF f = "f1" THEN Row("us", "p1") ELSE Row("them", "px")]
MCCatalogue  == [i \in {"i1", "i2", "ix"} |-> IF i = "ix" THEN "them" ELSE "us"]
MCEvidenceOf == [e \in {"e1", "e2", "ex"} |->
                   CASE e = "e1" -> "i1" [] e = "e2" -> "i2" [] e = "ex" -> "ix"]
MCProjects == {"p1", "p2"}

Asks(h, f, i) == [heat |-> h, portfolio |-> f, interventions |-> i]
MCInputs == {Asks(<<>>, <<>>, <<>>), Asks(<<Junk>>, <<>>, <<>>),
             Asks(<<Junk, "h1">>, <<>>, <<"i1">>),
             Asks(<<"h2">>, <<"f1">>, <<Junk>>), Asks(<<"hx">>, <<>>, <<>>),
             Asks(<<>>, <<"f1">>, <<"i2", "i1">>), Asks(<<>>, <<>>, <<"ix">>)}
MCOutputs == {[citations |-> {Invented, "hx"}, facts |-> FactKinds]}
=============================================================================
