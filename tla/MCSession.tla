----------------------------- MODULE MCSession -----------------------------
(***************************************************************************)
(* Session: the lines a user may type.                                     *)
(***************************************************************************)
EXTENDS Session

CONSTANTS chain1, w1, w2, a, b, x, y, line1

MCHome == [chain |-> chain1, wallet |-> w1]

Snap(n) == [op |-> "snapshot", name |-> n]
Back(t) == [op |-> "revert", target |-> t]
Use(c, w) == [op |-> "use", chain |-> c, wallet |-> w]
Call(v, catch) == [op |-> "call", var |-> v, catch |-> catch]
Run(lines, n) == [op |-> "sh", lines |-> lines, repeat |-> n]

\* A user who waits for each prompt, on one chain, and names her snapshots.
MCCommands ==
    {Snap(a), Back(a), Snap(b), Back(b), Call(x, FALSE), Use(None, w2), Use("typo", None), Use("typo", "typo"),
     [op |-> "clear"], Run(<<Use(None, w1), Call(y, TRUE)>>, 2), Run(<<Snap(a), Back(a)>>, 0)}

\* The theorems' hypothesis on the lines holds of this instance.
ASSUME MCSessionAssumption == OneNamedChain
=============================================================================
