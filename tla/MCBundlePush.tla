----------------------------- MODULE MCBundlePush -----------------------------
(* Instances of BundlePush for TLC.                                        *)
EXTENDS BundlePush
=============================================================================
