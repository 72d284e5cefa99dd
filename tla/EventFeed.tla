------------------------------ MODULE EventFeed ------------------------------
(***************************************************************************)
(* What the event collector promises, without files, requests or           *)
(* goroutines: the events of committed blocks are saved, and a cursor      *)
(* moves over blocks only when their events are saved.  The cursor may     *)
(* fall back to where the configuration starts, and then events are saved  *)
(* again: the promise is at least once, in ranges without gaps.            *)
(***************************************************************************)
EXTENDS Naturals

CONSTANTS Collectors, StartBlockNumber, CommitBlockCount

VARIABLES head, logs, saved, cursor

vars == <<head, logs, saved, cursor>>

Init ==
    /\ head \in Nat
    /\ logs \in [Collectors -> SUBSET (1 .. head)]
    /\ saved = [c \in Collectors |-> {}]
    /\ cursor = StartBlockNumber

Mine ==
    /\ head' = head + 1
    /\ \E touched \in SUBSET Collectors :
          logs' = [c \in Collectors |->
                     IF c \in touched THEN logs[c] \cup {head + 1} ELSE logs[c]]
    /\ UNCHANGED <<saved, cursor>>

\* A committed block past the cursor is saved, in any order.
Save(c) ==
    /\ \E b \in logs[c] :
          /\ cursor[c] < b
          /\ b + CommitBlockCount <= head
          /\ saved' = [saved EXCEPT ![c] = @ \cup {b}]
    /\ UNCHANGED <<head, logs, cursor>>

\* The cursor passes only blocks whose events are saved.
Advance(c) ==
    /\ \E n \in 1 .. head :
          /\ cursor[c] < n
          /\ n + CommitBlockCount <= head
          /\ \A b \in logs[c] : cursor[c] < b /\ b <= n => b \in saved[c]
          /\ cursor' = [cursor EXCEPT ![c] = n]
    /\ UNCHANGED <<head, logs, saved>>

\* The process died while it was rewriting the files of some cursors.
Forget ==
    /\ \E lost \in SUBSET Collectors :
          cursor' = [c \in Collectors |->
                       IF c \in lost THEN StartBlockNumber[c] ELSE cursor[c]]
    /\ UNCHANGED <<head, logs, saved>>

Next ==
    \/ Mine
    \/ \E c \in Collectors : Save(c) \/ Advance(c)
    \/ Forget

Spec == Init /\ [][Next]_vars
=============================================================================
