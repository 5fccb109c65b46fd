---------------------------- MODULE MCLifecycle ----------------------------
(* Instances of Lifecycle for TLC.                                        *)
EXTENDS Lifecycle

(* The last version is as server/conf/discovery.conf.in: without try-all.  *)
MCHolds == [v \in Versions |->
    IF v = LastVersion THEN FieldNames \ {"tryAll"} ELSE FieldNames]
=============================================================================
