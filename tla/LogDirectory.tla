---------------------------- MODULE LogDirectory ----------------------------
(***************************************************************************)
(* The directory of a collector, where the collector leaves event files    *)
(* and the actors pick them up.  A block's file is written under the name  *)
(* <n>.json.lock and renamed to <n>.json when it is complete.  A directory *)
(* is a set of files with at most one file for each kind and block.        *)
(***************************************************************************)
EXTENDS Naturals

File(kind, block, body) == [kind |-> kind, block |-> block, body |-> body]

Files == [kind : {"lock", "json"}, block : Nat, body : {"empty", "full"}]

\* The directory after writing, renaming or creating file f: a name holds one file.
Put(d, f) == {g \in d : g.kind # f.kind \/ g.block # f.block} \cup {f}

\* The blocks whose events are in a complete <n>.json of directory d.
SavedIn(d) == {b \in {f.block : f \in d} : File("json", b, "full") \in d}

\* What is in <n>.json.lock becomes <n>.json; without a lock file nothing moves.
Renamed(d, b) ==
    LET locks == {f \in d : f.kind = "lock" /\ f.block = b}
    IN  IF locks = {} THEN d
        ELSE {g \in d : g.block # b} \cup {File("json", b, f.body) : f \in locks}
=============================================================================
