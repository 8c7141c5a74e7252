--------------------------- MODULE MCPersistence ---------------------------
(* One recipe, two recipe texts of different length and the factory's      *)
(* configuration, two calibrations; each scenario has one thing that goes  *)
(* wrong.                                                                  *)
EXTENDS Persistence, TLC

CONSTANTS A, B, F

MCTexts == {A, B, F}
MCLength == (A :> 1) @@ (B :> 2) @@ (F :> 1)
MCScenarios == {{}} \cup {{s} : s \in {"torn", "full", "format", "nvs", "collide"}}
MCReload == {{"reload"}}
=============================================================================
