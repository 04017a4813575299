-------------------------- MODULE MCEventGenerator --------------------------
(***************************************************************************)
(* UUIDs are numbers, which FKK lists in ascending order.                  *)
(***************************************************************************)
EXTENDS EventGenerator

MCBefore(u, v) == u < v

=============================================================================
