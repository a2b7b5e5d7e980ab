---------------------------- MODULE InstanceNames ----------------------------
(***************************************************************************)
(* The Instance Names by which the store and the bus know an instance      *)
(* (instance_name.c).                                                      *)
(***************************************************************************)

CONSTANT Instances

=============================================================================
