---------------------------- MODULE RunLifecycle ----------------------------
(***************************************************************************)
(* The governed lifecycle of an agent run, as its reviewers understand it: *)
(* executions of Stages checkpoints, each ending at an approval gate or in *)
(* failure, and one decision per gate.                                     *)
(***************************************************************************)
EXTENDS Naturals

CONSTANT Stages   \* checkpoints of one execution

VARIABLES status, revision

WholeExecution == revision > 0 /\ revision % Stages = 0

Move(from, to) == status = from /\ status' = to /\ UNCHANGED revision

Init == status = "absent" /\ revision = 0

Create     == Move("absent", "queued")
Begin      == Move("queued", "running")
Checkpoint == status = "running" /\ revision' = revision + 1 /\ UNCHANGED status
OpenGate   == WholeExecution /\ Move("running", "waiting_approval")
Fail       == revision % Stages = 0 /\ Move("running", "failed")
Decide     == \E to \in {"approved", "rejected", "queued"} :
                Move("waiting_approval", to)
Finalize   == Move("approved", "completed")

Next == Create \/ Begin \/ Checkpoint \/ OpenGate \/ Fail \/ Decide \/ Finalize

Spec == Init /\ [][Next]_<<status, revision>>
=============================================================================
