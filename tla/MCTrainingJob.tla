---------------------------- MODULE MCTrainingJob ----------------------------
(* Three seeds, so that a success, a failure and a seed that is not started *)
(* meet in one job; two progress frames, so that the counter is compared.   *)
EXTENDS TrainingJob
=============================================================================
