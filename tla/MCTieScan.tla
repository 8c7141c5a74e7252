----------------------------- MODULE MCTieScan ------------------------------
(***************************************************************************)
(* The snapshot steps of the scenarios of TieScan: many where the table    *)
(* matters, one where other tasks use the converter.                       *)
(***************************************************************************)
EXTENDS TieScan

MCMaxScans == [s \in TieScenarios |-> IF "busy" \in s THEN 0 ELSE IF "closed" \in s THEN 6 ELSE 3]
=============================================================================
