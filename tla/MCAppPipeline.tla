---------------------------- MODULE MCAppPipeline ----------------------------
(* Instances of AppPipeline for TLC.                                       *)
EXTENDS AppPipeline, TLC

\* The apps of one source are interchangeable.
AppSymmetry == Permutations(Apps)
=============================================================================
