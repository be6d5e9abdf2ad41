------------------------- MODULE MCAnalysisConfigs -------------------------
(* Requests of several administrators on a small table.                    *)
EXTENDS AnalysisConfigs
=============================================================================
