-------------------------- MODULE MCStatefulSetPods --------------------------
(* Instances of StatefulSetPods for TLC.                                   *)
EXTENDS StatefulSetPods, TLC
=============================================================================
