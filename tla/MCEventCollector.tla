-------------------------- MODULE MCEventCollector --------------------------
(***************************************************************************)
(* EventCollector on a small chain, in a deployment that is safe.          *)
(***************************************************************************)
EXTENDS EventCollector

CONSTANT Start

MCStart == [c \in Collectors |-> Start]

ASSUME SafeAssumption == SafeDeployment
=============================================================================
