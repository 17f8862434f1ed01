----------------------------- MODULE AppDelivery -----------------------------
(***************************************************************************)
(* What the app framework promises to somebody who reads the status of a   *)
(* custom resource: apps reach the pods one by one, an app is reported as  *)
(* installed once every pod has it, and a report is never taken back.      *)
(* How (downloads, copies, retries, yields and restarts) is AppPipeline.   *)
(***************************************************************************)
CONSTANTS
  Apps,   \* apps of the app sources
  Pods    \* pods that have to get them

VARIABLES
  has,       \* per app, the pods on which it is installed
  reported   \* the apps that the stored status calls installed

vars == <<has, reported>>

Init == has = [a \in Apps |-> {}] /\ reported = {}

\* A pod gets an app.
Install(a, p) ==
  /\ p \notin has[a] /\ has' = [has EXCEPT ![a] = @ \cup {p}]
  /\ UNCHANGED reported

\* The status is stored: it may name apps that all pods have by now.
Report(done) ==
  /\ done # {} /\ \A a \in done : has[a] = Pods
  /\ reported' = reported \cup done
  /\ UNCHANGED has

Next == \/ \E a \in Apps, p \in Pods : Install(a, p)
        \/ \E done \in SUBSET (Apps \ reported) : Report(done)

Spec == Init /\ [][Next]_vars
=============================================================================
