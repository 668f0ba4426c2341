--------------------- MODULE MCTracePipelineReconciler ---------------------
(* Constants of the TracePipelineReconciler runs.                          *)
EXTENDS TracePipelineReconciler, TLC

MCTLSAllValid == [p \in Pipelines |-> "NotRequired"]
\* pipeline 1 carries a certificate about to expire (a soft pass)
MCTLSExpiring == [p \in Pipelines |-> IF p = 1 THEN "AboutToExpire" ELSE "NotRequired"]
\* pipeline 1 carries a certificate about to expire, the others an invalid one
MCTLSMixed == [p \in Pipelines |-> IF p = 1 THEN "AboutToExpire" ELSE "Invalid"]

WorkerSymmetry == Permutations(Workers)
=============================================================================
