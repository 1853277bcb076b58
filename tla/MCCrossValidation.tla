------------------------- MODULE MCCrossValidation -------------------------
(* CrossValidation with two metrics, one of them better when higher.       *)
EXTENDS CrossValidation

MCMetrics == <<"auc", "l2">>
MCHigher == {"auc"}
=============================================================================
