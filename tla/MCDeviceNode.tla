---------------------------- MODULE MCDeviceNode ----------------------------
(* Two threads, two cards, and a module that is absent, compatible, too old, *)
(* or of another major version.                                              *)
EXTENDS DeviceNode

CONSTANTS t1, t2

MCCalls == t1 :> {"list", "get", "open", "status", "check_kernel_mod"} @@ t2 :> {"add", "remove_all"}

MCVersions == [major : {1}, minor : {0, 1}] \cup {[major |-> 2, minor |-> 1]}
=============================================================================
