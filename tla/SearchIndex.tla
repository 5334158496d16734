----------------------------- MODULE SearchIndex -----------------------------
(***************************************************************************)
(* What search promises about one document: it serves the chunks of a      *)
(* single finalization or none at all, and what it newly serves is what    *)
(* the finalization that ends at that moment has just ingested.            *)
(***************************************************************************)
CONSTANT Finalizations

VARIABLES
  served,    \* the finalizations whose chunks search returns
  finished   \* the finalizations that are over

Init == served = {} /\ finished = {}

\* A finalization ends and its chunks replace whatever was served.
Publish(f) == /\ f \notin finished /\ f \in finished'
              /\ served' = {f}

\* The document stops being served, or nothing changes for its readers.
WithdrawOrKeep == served' \in {{}, served}

Next == /\ finished \subseteq finished'
        /\ (\E f \in Finalizations : Publish(f)) \/ WithdrawOrKeep

Spec == Init /\ [][Next]_<<served, finished>>
=============================================================================
