------------------------------ MODULE MCAppRepo ------------------------------
(* Instances of AppRepo for TLC.                                           *)
EXTENDS AppRepo

Placed(a) == IF a = 3 THEN "cluster" ELSE "local"
Placement == [a \in Apps |-> Placed(a)]
\* "app.tgz" and "myapp.tgz"
Hidden == {<<1, 2>>}

\* A resource that polls its sources.
Polls(sources, provider, happens) ==
  [crs |-> {"a"}, sources |-> sources, provider |-> provider, interval |-> 30, events |-> happens]
\* Two resources that are updated manually.
Manual(happens) ==
  [crs |-> {"a", "b"}, sources |-> {"local"}, provider |-> "aws", interval |-> 0, events |-> happens]

All == {Polls({"local"}, "aws", {"put", "remove", "list", "install", "pod", "scale"}),
        Polls(Sources, "minio", {"put", "sources", "list"}),
        Polls(Sources, "azure", {"put", "remove", "sources", "delete"}),
        Polls({"cluster"}, "gcp", {"put", "remove", "zero", "crash"}),
        Manual({"trigger", "triggerCR", "delete", "refs", "api"})}
\* The instance in which ManualReachesAll fails.
Updates == {Manual({"trigger"})}
=============================================================================
