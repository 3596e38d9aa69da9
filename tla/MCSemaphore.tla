---------------------------- MODULE MCSemaphore ------------------------------
(* LightWeightSemaphore for TLC. *)
EXTENDS LightWeightSemaphore
=============================================================================
