---------------------- MODULE MCGeneralizationLearner ----------------------
(* Four batches, the last of which does not fit the cap.                   *)
EXTENDS GeneralizationLearner

MCTokens == <<1, 1, 2, 2>>
MCMilestones == {1, 3, 5}
=============================================================================
