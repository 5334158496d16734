----------------------------- MODULE MCAgentRuns -----------------------------
(***************************************************************************)
(* Model checking of AgentRuns: the configurations give the bounds.        *)
(***************************************************************************)
EXTENDS AgentRuns
=============================================================================
