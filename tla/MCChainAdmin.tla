---------------------------- MODULE MCChainAdmin ----------------------------
(***************************************************************************)
(* ChainAdmin with one live chain from the configuration file and one      *)
(* alias that comes and goes.                                              *)
(***************************************************************************)
EXTENDS ChainAdmin

CONSTANTS LiveChains, LiveStart

MCBoot ==
    [c \in Chains |-> IF c \in LiveChains THEN [mode |-> "live", start |-> LiveStart]
                      ELSE Absent]
=============================================================================
