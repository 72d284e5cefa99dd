--------------------------- MODULE MCEventPipeline ---------------------------
(***************************************************************************)
(* EventPipeline on a small chain: every actor reads every collector.      *)
(***************************************************************************)
EXTENDS EventPipeline, SequencesExt

CONSTANT Start

MCStart == [c \in Collectors |-> Start]

MCCollectorsOf == [a \in Actors |-> SetToSeq(Collectors)]

ASSUME SafeAssumption == SafeDeployment
=============================================================================
