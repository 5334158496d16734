--------------------------- MODULE MCHeatPipeline ---------------------------
(* Small instances of HeatPipeline for TLC: one query, whose row, schedule   *)
(* and queue items the submit requests and the worker race for.  The cfg     *)
(* files give the constants.                                                 *)
EXTENDS HeatPipeline
=============================================================================
