-------------------------- MODULE MCCollectorFaults --------------------------
(***************************************************************************)
(* EventCollector where the deployment is not safe.                        *)
(***************************************************************************)
EXTENDS EventCollector

CONSTANT Start

MCStart == [c \in Collectors |-> Start]

\* The cursor never passes an event it has not saved: the logger collects the events
\* up to the latest block.  A reply without logs, or a node lower than
\* commitBlockCount, makes getLogAndSaveToFile pass over events for good.
CollectsUpToCursor ==
    \A c \in Collectors : \A b \in logs[c] :
       StartBlockNumber[c] < b /\ b <= meta[c] => b \in Saved(c)
=============================================================================
