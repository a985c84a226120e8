-------------------------- MODULE MCEventDispatcher --------------------------
(* Instances of EventDispatcher for TLC: the subscribers and devices are model values  *)
(* given in the configurations.                                                       *)
EXTENDS EventDispatcher
=============================================================================
