---------------------------- MODULE MCReconcile ----------------------------
(* Instances of Reconcile for TLC.                                         *)
EXTENDS Reconcile

\* Two resources, the second of which may refer to the first as its cluster
\* manager, and which register with the console "mc" or are it.
Pair(first, second, managed) ==
  LET refs == IF managed THEN [a |-> None, b |-> "a"] ELSE [a |-> None, b |-> None] IN
  [kind |-> [a |-> first, b |-> second], license |-> [a |-> None, b |-> None],
   manager |-> refs, console |-> [a |-> "mc", b |-> "mc"]]

\* A resource and the console it registers with.
Monitored(first, managed) ==
  LET refs == IF managed THEN [a |-> None, mc |-> "a"] ELSE [a |-> None, mc |-> None] IN
  [kind |-> [a |-> first, mc |-> "MonitoringConsole"], license |-> [a |-> None, mc |-> None],
   manager |-> refs, console |-> [a |-> "mc", mc |-> None]]

Tiers == {Pair("ClusterManager", "IndexerCluster", TRUE), Pair("ClusterMaster", "IndexerCluster", TRUE),
          [Pair("ClusterManager", "SearchHeadCluster", TRUE) EXCEPT !.console.a = None, !.console.b = None],
          Monitored("ClusterManager", TRUE),
          [Pair("LicenseManager", "ClusterManager", FALSE) EXCEPT !.license.b = "a"]}
Instances == {Monitored("Standalone", FALSE), Monitored("IngestorCluster", FALSE)}
============================================================================
