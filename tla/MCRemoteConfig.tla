--------------------------- MODULE MCRemoteConfig ---------------------------
(* Instances of RemoteConfig for TLC.                                      *)
EXTENDS RemoteConfig

Deployment(kind, happens) == [kind |-> kind, happens |-> happens]

\* The faults that each kind recovers from.
All == {Deployment("ClusterManager", {"settings", "rotate", "pod", "keys", "map", "exec", "rest"}),
        Deployment("Standalone", {"settings", "rotate", "scale", "map"}),
        Deployment("Standalone", {"settings", "api", "second", "pod"}),
        Deployment("Standalone", {"settings", "rotate", "pod", "conflict", "status", "crash"}),
        Deployment("IndexerCluster", {"rotate", "account", "scale", "pod", "secret", "password",
                                      "rest", "restart", "status", "crash"}),
        Deployment("IngestorCluster", {"rotate", "account", "pod", "secret", "password", "rest",
                                       "restart", "status", "crash"}),
        Deployment("IngestorCluster", {"rotate", "account", "scale", "rest", "restart"})}

\* Nothing goes wrong; a peer may become ready in the middle of a reconcile.
LatePod == {Deployment("IndexerCluster", {"scale", "late"})}
=============================================================================
