------------------------ MODULE EventPipelineProofs ------------------------
(***************************************************************************)
(* In a safe deployment no event is lost, by the collectors alone          *)
(* (EventCollector) and by the collectors and the actors together          *)
(* (EventPipeline), for every set of them, every assignment of directories *)
(* to actors and every value of the configuration; and what a collector    *)
(* saves of a reply is what the contracts emitted (EventDecode), for every *)
(* contract, every configuration of interfaces and replies of any length.  *)
(***************************************************************************)
EXTENDS EventPipeline, EventDecode, LeastNumber, FiniteSetTheorems, SequenceTheorems

-----------------------------------------------------------------------------
(***************************************************************************)
(* The collectors (EventCollector).                                        *)
(***************************************************************************)

\* The goroutine holds a range of blocks, and the files it must still write.
InRange(c) == pc[c] \in {"fetch", "save", "write", "rename"}
Saving(c) == pc[c] \in {"save", "write", "rename"}

\* Names are unique in a directory, no <n>.json is torn, and the lock file of
\* the block being saved is as far as the goroutine is.
DirInv(c) ==
    /\ \A f, g \in dir[c] : f.kind = g.kind /\ f.block = g.block => f = g
    /\ \A f \in dir[c] : f.kind = "json" => f.body = "full"
    /\ pc[c] \in {"write", "rename"} => saving[c] \in blockLogs[c]
    /\ pc[c] = "write" => File("lock", saving[c], "empty") \in dir[c]
    /\ pc[c] = "rename" => File("lock", saving[c], "full") \in dir[c]

\* The cursor is committed, and it is what the goroutine counts from until the
\* range is done.
CursorInv(c) ==
    /\ meta[c] = 0 \/ meta[c] + CommitBlockCount <= head
    /\ pc[c] = "poll" \/ InRange(c) =>
          latestBlockNumber[c] = Larger(meta[c], StartBlockNumber[c])
    /\ InRange(c) => /\ latestBlockNumber[c] < toBlock[c]
                     /\ toBlock[c] + CommitBlockCount <= head
    /\ pc[c] = "meta" => /\ meta[c] = 0
                         /\ StartBlockNumber[c] < latestBlockNumber[c]
                         /\ latestBlockNumber[c] + CommitBlockCount <= head

\* Every event below the cursor is saved, every event of the range is saved or
\* held, and every event below the number about to be written is saved, but for
\* the blocks in gone[c], whose files others may have taken away.
HeldInv(c, gone) ==
    /\ \A b \in logs[c] :
          StartBlockNumber[c] < b /\ b <= meta[c] => b \in Saved(c) \cup gone[c]
    /\ Saving(c) =>
          /\ blockLogs[c] \subseteq logs[c]
          /\ \A b \in blockLogs[c] : latestBlockNumber[c] < b /\ b <= toBlock[c]
          /\ \A b \in logs[c] :
                latestBlockNumber[c] < b /\ b <= toBlock[c]
                   => b \in blockLogs[c] \cup Saved(c) \cup gone[c]
    /\ pc[c] = "meta" => \A b \in logs[c] :
          StartBlockNumber[c] < b /\ b <= latestBlockNumber[c]
             => b \in Saved(c) \cup gone[c]

KeptInv(gone) ==
    /\ TypeOK
    /\ MinHead <= head
    /\ \A c \in Collectors : DirInv(c) /\ CursorInv(c) /\ HeldInv(c, gone)

\* The collector alone removes nothing: what it saved stays saved.
None == [c \in Collectors |-> {}]

IInv == KeptInv(None)
-----------------------------------------------------------------------------
\* A block counts as saved exactly when its complete file is in the directory.
LEMMA SavedInMember ==
    ASSUME NEW d, NEW b
    PROVE  b \in SavedIn(d) <=> File("json", b, "full") \in d
<1>1. File("json", b, "full").block = b
  BY DEF File
<1> QED
  BY <1>1 DEF SavedIn

\* A step that leaves a collector's part of the state alone keeps its invariant.
LEMMA Frame ==
    ASSUME NEW gone, NEW d \in Collectors,
           DirInv(d), CursorInv(d), HeldInv(d, gone),
           UNCHANGED <<head, logs>>,
           meta'[d] = meta[d], dir'[d] = dir[d], pc'[d] = pc[d],
           latestBlockNumber'[d] = latestBlockNumber[d],
           toBlock'[d] = toBlock[d], blockLogs'[d] = blockLogs[d],
           saving'[d] = saving[d]
    PROVE  DirInv(d)' /\ CursorInv(d)' /\ HeldInv(d, gone)'
<1>1. DirInv(d)'
  BY DEF DirInv
<1>2. CursorInv(d)'
  BY DEF CursorInv, InRange
<1>3. HeldInv(d, gone)'
  BY DEF HeldInv, Saving, Saved
<1> QED
  BY <1>1, <1>2, <1>3

\* Initially nothing is saved and event.meta reads as 0.
LEMMA InitKept ==
    ASSUME NEW gone, SafeDeployment, Init
    PROVE  KeptInv(gone)
<1> USE ConfigAssumption, WidthAssumption
<1>1. TypeOK
  BY DEF Init, TypeOK, Stages, Uint
<1>3. MinHead <= head
  BY DEF Init
<1>2. ASSUME NEW c \in Collectors PROVE DirInv(c) /\ CursorInv(c) /\ HeldInv(c, gone)
  <2>1. DirInv(c)
    BY DEF Init, DirInv
  <2>2. CursorInv(c)
    BY DEF Init, CursorInv, InRange
  <2>3. HeldInv(c, gone)
    BY DEF Init, HeldInv, Saving
  <2> QED
    BY <2>1, <2>2, <2>3
<1> QED
  BY <1>1, <1>2, <1>3 DEF KeptInv

LEMMA MineStep ==
    ASSUME NEW gone, SafeDeployment, KeptInv(gone), Mine
    PROVE  KeptInv(gone)'
<1> USE ConfigAssumption, WidthAssumption
<1>1. TypeOK'
  BY DEF KeptInv, Mine, TypeOK, diskVars, cycleVars
<1>2. ASSUME NEW d \in Collectors PROVE DirInv(d)' /\ CursorInv(d)' /\ HeldInv(d, gone)'
  <2>1. DirInv(d) /\ CursorInv(d) /\ HeldInv(d, gone) /\ TypeOK
    BY DEF KeptInv
  <2>2. UNCHANGED <<meta, dir, latestBlockNumber, toBlock, blockLogs, saving, pc>>
    BY DEF Mine, diskVars, cycleVars
  <2>3. /\ head' = head + 1
        /\ logs[d] \subseteq logs'[d] /\ logs'[d] \subseteq logs[d] \cup {head + 1}
    BY DEF Mine
  <2>4. DirInv(d)'
    BY <2>1, <2>2 DEF DirInv
  <2>5. CursorInv(d)'
    BY <2>1, <2>2, <2>3 DEF CursorInv, InRange, TypeOK, Uint
  <2>6. HeldInv(d, gone)'
    BY <2>1, <2>2, <2>3 DEF HeldInv, CursorInv, Saving, InRange, Saved, TypeOK, Uint
  <2> QED
    BY <2>4, <2>5, <2>6
<1>3. (MinHead <= head)'
  BY DEF KeptInv, Mine, TypeOK
<1> QED
  BY <1>1, <1>2, <1>3 DEF KeptInv

LEMMA ToggleStep ==
    ASSUME NEW gone, KeptInv(gone), ToggleSyncing
    PROVE  KeptInv(gone)'
<1>1. TypeOK'
  BY DEF KeptInv, ToggleSyncing, TypeOK, diskVars, cycleVars
<1>2. ASSUME NEW d \in Collectors PROVE DirInv(d)' /\ CursorInv(d)' /\ HeldInv(d, gone)'
  BY Frame DEF KeptInv, ToggleSyncing, diskVars, cycleVars
<1>3. (MinHead <= head)'
  BY DEF KeptInv, ToggleSyncing
<1> QED
  BY <1>1, <1>2, <1>3 DEF KeptInv

LEMMA CrashStep ==
    ASSUME NEW gone, KeptInv(gone), Crash
    PROVE  KeptInv(gone)'
<1> USE ConfigAssumption, WidthAssumption
<1>1. TypeOK'
  BY DEF KeptInv, Crash, TypeOK, nodeVars, diskVars, Uint
<1>2. ASSUME NEW d \in Collectors PROVE DirInv(d)' /\ CursorInv(d)' /\ HeldInv(d, gone)'
  <2>1. DirInv(d) /\ CursorInv(d) /\ HeldInv(d, gone)
    BY DEF KeptInv
  <2>2. UNCHANGED <<head, logs, meta, dir>> /\ pc'[d] = "down"
    BY DEF Crash, nodeVars, diskVars
  <2>3. DirInv(d)'
    BY <2>1, <2>2 DEF DirInv
  <2>4. CursorInv(d)'
    BY <2>1, <2>2 DEF CursorInv, InRange
  <2>5. HeldInv(d, gone)'
    BY <2>1, <2>2 DEF HeldInv, Saving, Saved
  <2> QED
    BY <2>3, <2>4, <2>5
<1>3. (MinHead <= head)'
  BY DEF KeptInv, Crash, nodeVars
<1> QED
  BY <1>1, <1>2, <1>3 DEF KeptInv

LEMMA RestartStep ==
    ASSUME NEW gone, KeptInv(gone), Restart
    PROVE  KeptInv(gone)'
<1>1. TypeOK'
  BY DEF KeptInv, Restart, TypeOK, Stages, nodeVars, diskVars, cycleVars
<1>2. ASSUME NEW d \in Collectors PROVE DirInv(d)' /\ CursorInv(d)' /\ HeldInv(d, gone)'
  <2>1. DirInv(d) /\ CursorInv(d) /\ HeldInv(d, gone)
    BY DEF KeptInv
  <2>2. UNCHANGED <<head, logs, meta, dir>> /\ pc'[d] = "read"
    BY DEF Restart, nodeVars, diskVars
  <2>3. DirInv(d)'
    BY <2>1, <2>2 DEF DirInv
  <2>4. CursorInv(d)'
    BY <2>1, <2>2 DEF CursorInv, InRange
  <2>5. HeldInv(d, gone)'
    BY <2>1, <2>2 DEF HeldInv, Saving, Saved
  <2> QED
    BY <2>3, <2>4, <2>5
<1>3. (MinHead <= head)'
  BY DEF KeptInv, Restart, nodeVars
<1> QED
  BY <1>1, <1>2, <1>3 DEF KeptInv

LEMMA ReadCursorStep ==
    ASSUME NEW gone, SafeDeployment, KeptInv(gone), NEW c \in Collectors, ReadCursor(c)
    PROVE  KeptInv(gone)'
<1> USE ConfigAssumption, WidthAssumption
<1>0. Larger(meta[c], StartBlockNumber[c]) \in Uint
  <2>1. StartBlockNumber[c] \in Nat /\ StartBlockNumber[c] + LogRange < U64 /\ LogRange \in Nat
    OBVIOUS
  <2>2. meta[c] \in Uint
    BY DEF KeptInv, TypeOK
  <2> QED
    BY <2>1, <2>2 DEF Larger, Uint
<1>1. TypeOK'
  BY <1>0 DEF KeptInv, ReadCursor, Goto, TypeOK, Stages, nodeVars, diskVars
<1>2. ASSUME NEW d \in Collectors PROVE DirInv(d)' /\ CursorInv(d)' /\ HeldInv(d, gone)'
  <2>1. CASE d # c
    BY <2>1, Frame DEF KeptInv, ReadCursor, Goto, TypeOK, nodeVars, diskVars
  <2>2. CASE d = c
    <3>1. DirInv(c) /\ CursorInv(c) /\ HeldInv(c, gone) /\ TypeOK
      BY DEF KeptInv
    <3>2. /\ UNCHANGED <<head, logs, meta, dir>>
          /\ pc'[c] = "poll"
          /\ latestBlockNumber'[c] = Larger(meta[c], StartBlockNumber[c])
      BY <3>1 DEF ReadCursor, Goto, TypeOK, nodeVars, diskVars
    <3>3. DirInv(c)'
      BY <3>1, <3>2 DEF DirInv
    <3>4. CursorInv(c)'
      BY <3>1, <3>2 DEF CursorInv, InRange
    <3>5. HeldInv(c, gone)'
      BY <3>1, <3>2 DEF HeldInv, Saving, Saved
    <3> QED
      BY <2>2, <3>3, <3>4, <3>5
  <2> QED
    BY <2>1, <2>2
<1>3. (MinHead <= head)'
  BY DEF KeptInv, ReadCursor, nodeVars
<1> QED
  BY <1>1, <1>2, <1>3 DEF KeptInv

\* The range a poll leaves ends at a committed block and does not wrap around.
LEMMA PollStep ==
    ASSUME NEW gone, SafeDeployment, KeptInv(gone), NEW c \in Collectors, Poll(c)
    PROVE  KeptInv(gone)'
<1> USE ConfigAssumption, WidthAssumption
<1>1. DirInv(c) /\ CursorInv(c) /\ HeldInv(c, gone) /\ TypeOK /\ MinHead <= head
  BY DEF KeptInv
<1>2. UNCHANGED <<head, logs, syncing, meta, dir, latestBlockNumber, blockLogs,
                  saving, crashes>>
  BY DEF Poll, nodeVars, diskVars
<1>3. ASSUME NEW h \in Heights
      PROVE  /\ ToBlockNumber(h) \in Uint
             /\ ToBlockNumber(h) = 0 \/ ToBlockNumber(h) + CommitBlockCount <= head
  BY <1>1 DEF Heights, ToBlockNumber, Sub64, SafeDeployment, TypeOK, Uint
<1>4. \/ pc' = [pc EXCEPT ![c] = "wait"] /\ UNCHANGED toBlock
      \/ /\ pc' = [pc EXCEPT ![c] = "fetch"]
         /\ \E n \in Uint : /\ toBlock' = [toBlock EXCEPT ![c] = n]
                            /\ latestBlockNumber[c] < n
                            /\ n + CommitBlockCount <= head
  <2>1. PICK h \in Heights :
           IF latestBlockNumber[c] >= ToBlockNumber(h)
           THEN Goto(c, "wait") /\ UNCHANGED toBlock
           ELSE /\ toBlock' = [toBlock EXCEPT ![c] =
                                 Smaller(Add64(latestBlockNumber[c], LogRange),
                                         ToBlockNumber(h))]
                /\ Goto(c, "fetch")
    BY DEF Poll
  <2>2. CASE latestBlockNumber[c] >= ToBlockNumber(h)
    BY <2>1, <2>2 DEF Goto
  <2>3. CASE ~(latestBlockNumber[c] >= ToBlockNumber(h))
    <3> DEFINE n == Smaller(Add64(latestBlockNumber[c], LogRange), ToBlockNumber(h))
    <3>1. latestBlockNumber[c] \in Uint /\ latestBlockNumber[c] < ToBlockNumber(h)
      BY <1>1, <1>3, <2>3 DEF TypeOK, Uint
    <3>2. ToBlockNumber(h) + CommitBlockCount <= head /\ head <= MaxHead
      BY <1>1, <1>3, <3>1 DEF TypeOK, Uint
    <3>3. Add64(latestBlockNumber[c], LogRange) = latestBlockNumber[c] + LogRange
      BY <1>1, <1>3, <3>1, <3>2 DEF Add64, Uint, TypeOK
    <3>4. n \in Uint /\ latestBlockNumber[c] < n /\ n + CommitBlockCount <= head
      BY <1>1, <1>3, <3>1, <3>2, <3>3 DEF Smaller, SafeDeployment, Uint, TypeOK
    <3> QED
      BY <2>1, <2>3, <3>4 DEF Goto
  <2> QED
    BY <2>2, <2>3
<1>5. TypeOK'
  BY <1>1, <1>2, <1>4 DEF TypeOK, Stages
<1>6. ASSUME NEW d \in Collectors PROVE DirInv(d)' /\ CursorInv(d)' /\ HeldInv(d, gone)'
  <2>1. CASE d # c
    BY <1>1, <1>2, <1>4, <2>1, Frame DEF KeptInv, TypeOK
  <2>2. CASE d = c
    <3>1. \/ pc'[c] = "wait"
          \/ /\ pc'[c] = "fetch" /\ pc[c] = "poll"
             /\ latestBlockNumber[c] < toBlock'[c]
             /\ toBlock'[c] + CommitBlockCount <= head
      BY <1>1, <1>4 DEF TypeOK, Poll
    <3>2. DirInv(c)'
      BY <1>1, <1>2, <3>1 DEF DirInv
    <3>3. CursorInv(c)'
      BY <1>1, <1>2, <3>1 DEF CursorInv, InRange
    <3>4. HeldInv(c, gone)'
      BY <1>1, <1>2, <3>1 DEF HeldInv, Saving, Saved
    <3> QED
      BY <2>2, <3>2, <3>3, <3>4
  <2> QED
    BY <2>1, <2>2
<1> QED
  BY <1>1, <1>2, <1>5, <1>6 DEF KeptInv

\* The backend that answers is past the range, so the reply holds all of it.
LEMMA FetchStep ==
    ASSUME NEW gone, SafeDeployment, KeptInv(gone), NEW c \in Collectors, Fetch(c)
    PROVE  KeptInv(gone)'
<1> USE ConfigAssumption, WidthAssumption
<1>1. DirInv(c) /\ CursorInv(c) /\ HeldInv(c, gone) /\ TypeOK /\ MinHead <= head
  BY DEF KeptInv
<1>2. UNCHANGED <<head, logs, syncing, meta, dir, latestBlockNumber, toBlock,
                  saving, crashes>>
  BY DEF Fetch, nodeVars, diskVars
<1>3. pc[c] = "fetch" /\ pc' = [pc EXCEPT ![c] = "save"]
  BY DEF Fetch, Goto
<1>4. PICK h \in Heights : blockLogs' = [blockLogs EXCEPT ![c] = Returned(c, h, "logs")]
  BY DEF Fetch, SafeDeployment
<1>5. Returned(c, h, "logs")
         = {b \in logs[c] : latestBlockNumber[c] < b /\ b <= toBlock[c]}
  <2>1. toBlock[c] <= h /\ latestBlockNumber[c] \in Nat /\ toBlock[c] \in Nat
    BY <1>1, <1>3 DEF Heights, CursorInv, InRange, SafeDeployment, TypeOK, Uint
  <2>2. FromBlock(c) = latestBlockNumber[c] + 1
    BY <1>1, <1>3, <2>1 DEF FromBlock, Add64, CursorInv, InRange, TypeOK, Uint
  <2>3. logs[c] \subseteq Nat
    BY <1>1 DEF TypeOK
  <2> QED
    BY <1>1, <2>1, <2>2, <2>3 DEF Returned, Heights, TypeOK
<1>6. TypeOK'
  BY <1>1, <1>2, <1>3, <1>4, <1>5 DEF TypeOK, Stages
<1>7. ASSUME NEW d \in Collectors PROVE DirInv(d)' /\ CursorInv(d)' /\ HeldInv(d, gone)'
  <2>1. CASE d # c
    BY <1>1, <1>2, <1>3, <1>4, <2>1, Frame DEF KeptInv, TypeOK
  <2>2. CASE d = c
    <3>1. /\ pc'[c] = "save"
          /\ blockLogs'[c] = {b \in logs[c] : latestBlockNumber[c] < b /\ b <= toBlock[c]}
      BY <1>1, <1>3, <1>4, <1>5 DEF TypeOK
    <3>2. DirInv(c)'
      BY <1>1, <1>2, <3>1 DEF DirInv
    <3>3. CursorInv(c)'
      BY <1>1, <1>2, <1>3, <3>1 DEF CursorInv, InRange
    <3>4. HeldInv(c, gone)'
      BY <1>1, <1>2, <3>1 DEF HeldInv, Saving, Saved
    <3> QED
      BY <2>2, <3>2, <3>3, <3>4
  <2> QED
    BY <2>1, <2>2
<1> QED
  BY <1>1, <1>2, <1>6, <1>7 DEF KeptInv

LEMMA GiveUpStep ==
    ASSUME NEW gone, KeptInv(gone), NEW c \in Collectors, GiveUp(c) \/ Wake(c)
    PROVE  KeptInv(gone)'
<1>1. /\ UNCHANGED <<nodeVars, diskVars, cycleVars, crashes>>
      /\ \E s \in {"wait", "read"} : pc' = [pc EXCEPT ![c] = s]
  BY DEF GiveUp, Wake, Goto
<1>2. TypeOK'
  BY <1>1 DEF KeptInv, TypeOK, Stages, nodeVars, diskVars, cycleVars
<1>3. ASSUME NEW d \in Collectors PROVE DirInv(d)' /\ CursorInv(d)' /\ HeldInv(d, gone)'
  <2>1. CASE d # c
    BY <1>1, <2>1, Frame DEF KeptInv, TypeOK, nodeVars, diskVars, cycleVars
  <2>2. CASE d = c
    <3>1. DirInv(c) /\ CursorInv(c) /\ HeldInv(c, gone)
      BY DEF KeptInv
    <3>2. UNCHANGED <<head, logs, meta, dir>> /\ pc'[c] \in {"wait", "read"}
      BY <1>1 DEF KeptInv, TypeOK, nodeVars, diskVars
    <3>3. DirInv(c)'
      BY <3>1, <3>2 DEF DirInv
    <3>4. CursorInv(c)'
      BY <3>1, <3>2 DEF CursorInv, InRange
    <3>5. HeldInv(c, gone)'
      BY <3>1, <3>2 DEF HeldInv, Saving, Saved
    <3> QED
      BY <2>2, <3>3, <3>4, <3>5
  <2> QED
    BY <2>1, <2>2
<1> QED
  BY <1>1, <1>2, <1>3 DEF KeptInv, nodeVars

\* A lock file put into a directory disturbs no other name in it.
LEMMA PutLock ==
    ASSUME NEW d, d \subseteq Files, NEW b \in Nat, NEW body \in {"empty", "full"},
           \A f, g \in d : f.kind = g.kind /\ f.block = g.block => f = g
    PROVE  LET e == Put(d, File("lock", b, body))
           IN  /\ e \subseteq Files
               /\ File("lock", b, body) \in e
               /\ \A f, g \in e : f.kind = g.kind /\ f.block = g.block => f = g
               /\ \A f : f.kind = "json" => (f \in e <=> f \in d)
<1> DEFINE n == File("lock", b, body)
<1>1. n \in Files /\ n.kind = "lock" /\ n.block = b
  BY DEF File, Files
<1>2. Put(d, n) = {g \in d : g.kind # "lock" \/ g.block # b} \cup {n}
  BY <1>1 DEF Put
<1> HIDE DEF n
<1>3. /\ Put(d, n) \subseteq Files
      /\ n \in Put(d, n)
      /\ \A f : f.kind = "json" => (f \in Put(d, n) <=> f \in d)
  BY <1>1, <1>2
<1>4. \A f, g \in Put(d, n) : f.kind = g.kind /\ f.block = g.block => f = g
  BY <1>1, <1>2
<1> QED
  BY <1>3, <1>4 DEF n

\* Renaming a full lock file leaves every other complete file in place.
LEMMA RenameFull ==
    ASSUME NEW d, d \subseteq Files, NEW b \in Nat,
           \A f, g \in d : f.kind = g.kind /\ f.block = g.block => f = g,
           File("lock", b, "full") \in d
    PROVE  LET e == Renamed(d, b)
           IN  /\ e \subseteq Files
               /\ File("json", b, "full") \in e
               /\ \A f, g \in e : f.kind = g.kind /\ f.block = g.block => f = g
               /\ \A f \in d : f.block # b => f \in e
               /\ \A f \in e : f = File("json", b, "full") \/ f \in d
<1> DEFINE l == File("lock", b, "full")
           n == File("json", b, "full")
<1>1. n \in Files /\ n.kind = "json" /\ n.block = b
  BY DEF File, Files
<1>2. l.kind = "lock" /\ l.block = b /\ l.body = "full"
  BY DEF File
<1>3. {f \in d : f.kind = "lock" /\ f.block = b} = {l}
  BY <1>2
<1>4. Renamed(d, b) = {g \in d : g.block # b} \cup {n}
  BY <1>2, <1>3 DEF Renamed
<1> HIDE DEF n, l
<1>5. /\ Renamed(d, b) \subseteq Files
      /\ n \in Renamed(d, b)
      /\ \A f \in d : f.block # b => f \in Renamed(d, b)
      /\ \A f \in Renamed(d, b) : f = n \/ f \in d
  BY <1>1, <1>4
<1>6. \A f, g \in Renamed(d, b) : f.kind = g.kind /\ f.block = g.block => f = g
  BY <1>1, <1>4
<1> QED
  BY <1>5, <1>6 DEF n

LEMMA OpenLockStep ==
    ASSUME NEW gone, SafeDeployment, KeptInv(gone), NEW c \in Collectors, OpenLock(c)
    PROVE  KeptInv(gone)'
<1> USE ConfigAssumption, WidthAssumption
<1>1. DirInv(c) /\ CursorInv(c) /\ HeldInv(c, gone) /\ TypeOK /\ MinHead <= head
  BY DEF KeptInv
<1>2. UNCHANGED <<head, logs, syncing, meta, latestBlockNumber, toBlock, blockLogs,
                  crashes>>
  BY DEF OpenLock, nodeVars
<1>3. PICK b \in blockLogs[c] :
         /\ saving' = [saving EXCEPT ![c] = b]
         /\ dir' = [dir EXCEPT ![c] = Put(dir[c], File("lock", b, "empty"))]
         /\ pc' = [pc EXCEPT ![c] = "write"]
  BY DEF OpenLock, Goto, DiskOutcomes, SafeDeployment
<1>4. pc[c] = "save" /\ b \in 1 .. MaxHead /\ b \in Nat /\ dir[c] \subseteq Files
  BY <1>1, <1>3 DEF OpenLock, TypeOK
<1> DEFINE e == Put(dir[c], File("lock", b, "empty"))
<1>5. /\ e \subseteq Files
      /\ File("lock", b, "empty") \in e
      /\ \A f, g \in e : f.kind = g.kind /\ f.block = g.block => f = g
      /\ \A f : f.kind = "json" => (f \in e <=> f \in dir[c])
  BY <1>1, <1>4, PutLock DEF DirInv
<1> HIDE DEF e
<1>6. dir' = [dir EXCEPT ![c] = e]
  BY <1>3 DEF e
<1>7. TypeOK'
  BY <1>1, <1>2, <1>3, <1>4, <1>5, <1>6 DEF TypeOK, Stages
<1>8. ASSUME NEW d \in Collectors PROVE DirInv(d)' /\ CursorInv(d)' /\ HeldInv(d, gone)'
  <2>1. CASE d # c
    BY <1>1, <1>2, <1>3, <1>6, <2>1, Frame DEF KeptInv, TypeOK
  <2>2. CASE d = c
    <3>1. dir'[c] = e /\ pc'[c] = "write" /\ saving'[c] = b
      BY <1>1, <1>3, <1>6 DEF TypeOK
    <3>2. DirInv(c)'
      BY <1>1, <1>2, <1>3, <1>5, <3>1 DEF DirInv
    <3>3. CursorInv(c)'
      BY <1>1, <1>2, <1>4, <3>1 DEF CursorInv, InRange
    <3>4. \A x : x \in SavedIn(e) <=> x \in SavedIn(dir[c])
      BY <1>5, SavedInMember DEF File
    <3>5. HeldInv(c, gone)'
      BY <1>1, <1>2, <1>4, <3>1, <3>4 DEF HeldInv, Saving, Saved
    <3> QED
      BY <2>2, <3>2, <3>3, <3>5
  <2> QED
    BY <2>1, <2>2
<1> QED
  BY <1>1, <1>2, <1>7, <1>8 DEF KeptInv

LEMMA WriteLockStep ==
    ASSUME NEW gone, SafeDeployment, KeptInv(gone), NEW c \in Collectors, WriteLock(c)
    PROVE  KeptInv(gone)'
<1> USE ConfigAssumption, WidthAssumption
<1>1. DirInv(c) /\ CursorInv(c) /\ HeldInv(c, gone) /\ TypeOK /\ MinHead <= head
  BY DEF KeptInv
<1>2. UNCHANGED <<head, logs, syncing, meta, latestBlockNumber, toBlock, blockLogs,
                  saving, crashes>>
  BY DEF WriteLock, nodeVars, cycleVars
<1>3. /\ pc[c] = "write"
      /\ dir' = [dir EXCEPT ![c] = Put(dir[c], File("lock", saving[c], "full"))]
      /\ pc' = [pc EXCEPT ![c] = "rename"]
  BY DEF WriteLock, Goto, DiskOutcomes, SafeDeployment
<1>4. saving[c] \in Nat /\ dir[c] \subseteq Files
  BY <1>1 DEF TypeOK
<1> DEFINE e == Put(dir[c], File("lock", saving[c], "full"))
<1>5. /\ e \subseteq Files
      /\ File("lock", saving[c], "full") \in e
      /\ \A f, g \in e : f.kind = g.kind /\ f.block = g.block => f = g
      /\ \A f : f.kind = "json" => (f \in e <=> f \in dir[c])
  BY <1>1, <1>4, PutLock DEF DirInv
<1> HIDE DEF e
<1>6. dir' = [dir EXCEPT ![c] = e]
  BY <1>3 DEF e
<1>7. TypeOK'
  BY <1>1, <1>2, <1>3, <1>5, <1>6 DEF TypeOK, Stages
<1>8. ASSUME NEW d \in Collectors PROVE DirInv(d)' /\ CursorInv(d)' /\ HeldInv(d, gone)'
  <2>1. CASE d # c
    BY <1>1, <1>2, <1>3, <1>6, <2>1, Frame DEF KeptInv, TypeOK
  <2>2. CASE d = c
    <3>1. dir'[c] = e /\ pc'[c] = "rename"
      BY <1>1, <1>3, <1>6 DEF TypeOK
    <3>2. DirInv(c)'
      BY <1>1, <1>2, <1>3, <1>5, <3>1 DEF DirInv
    <3>3. CursorInv(c)'
      BY <1>1, <1>2, <1>3, <3>1 DEF CursorInv, InRange
    <3>4. \A x : x \in SavedIn(e) <=> x \in SavedIn(dir[c])
      BY <1>5, SavedInMember DEF File
    <3>5. HeldInv(c, gone)'
      BY <1>1, <1>2, <1>3, <3>1, <3>4 DEF HeldInv, Saving, Saved
    <3> QED
      BY <2>2, <3>2, <3>3, <3>5
  <2> QED
    BY <2>1, <2>2
<1> QED
  BY <1>1, <1>2, <1>7, <1>8 DEF KeptInv

\* The file of the block is published, so the goroutine need not hold it any more.
LEMMA RenameLockStep ==
    ASSUME NEW gone, SafeDeployment, KeptInv(gone), NEW c \in Collectors, RenameLock(c)
    PROVE  KeptInv(gone)'
<1> USE ConfigAssumption, WidthAssumption
<1>1. DirInv(c) /\ CursorInv(c) /\ HeldInv(c, gone) /\ TypeOK /\ MinHead <= head
  BY DEF KeptInv
<1>2. UNCHANGED <<head, logs, syncing, meta, latestBlockNumber, toBlock, saving,
                  crashes>>
  BY DEF RenameLock, nodeVars
<1>3. /\ pc[c] = "rename"
      /\ dir' = [dir EXCEPT ![c] = Renamed(dir[c], saving[c])]
      /\ blockLogs' = [blockLogs EXCEPT ![c] = blockLogs[c] \ {saving[c]}]
      /\ pc' = [pc EXCEPT ![c] = "save"]
  BY DEF RenameLock, Goto
<1>4. /\ saving[c] \in Nat /\ dir[c] \subseteq Files
      /\ File("lock", saving[c], "full") \in dir[c]
  BY <1>1, <1>3 DEF TypeOK, DirInv
<1> DEFINE e == Renamed(dir[c], saving[c])
<1>5. /\ e \subseteq Files
      /\ File("json", saving[c], "full") \in e
      /\ \A f, g \in e : f.kind = g.kind /\ f.block = g.block => f = g
      /\ \A f \in dir[c] : f.block # saving[c] => f \in e
      /\ \A f \in e : f = File("json", saving[c], "full") \/ f \in dir[c]
  BY <1>1, <1>4, RenameFull DEF DirInv
<1> HIDE DEF e
<1>6. dir' = [dir EXCEPT ![c] = e]
  BY <1>3 DEF e
<1>7. TypeOK'
  BY <1>1, <1>2, <1>3, <1>5, <1>6 DEF TypeOK, Stages
<1>8. ASSUME NEW d \in Collectors PROVE DirInv(d)' /\ CursorInv(d)' /\ HeldInv(d, gone)'
  <2>1. CASE d # c
    BY <1>1, <1>2, <1>3, <1>6, <2>1, Frame DEF KeptInv, TypeOK
  <2>2. CASE d = c
    <3>1. /\ dir'[c] = e /\ pc'[c] = "save"
          /\ blockLogs'[c] = blockLogs[c] \ {saving[c]}
      BY <1>1, <1>3, <1>6 DEF TypeOK
    <3>2. DirInv(c)'
      BY <1>1, <1>5, <3>1 DEF DirInv, File
    <3>3. CursorInv(c)'
      BY <1>1, <1>2, <1>3, <3>1 DEF CursorInv, InRange
    <3>4. saving[c] \in SavedIn(e) /\ \A x : x \in SavedIn(dir[c]) => x \in SavedIn(e)
      BY <1>5, SavedInMember DEF File
    <3>5. HeldInv(c, gone)'
      BY <1>1, <1>2, <1>3, <3>1, <3>4 DEF HeldInv, Saving, Saved
    <3> QED
      BY <2>2, <3>2, <3>3, <3>5
  <2> QED
    BY <2>1, <2>2
<1> QED
  BY <1>1, <1>2, <1>7, <1>8 DEF KeptInv

\* The range is done: everything in it is saved, so the new cursor is safe to write.
LEMMA TruncateMetaStep ==
    ASSUME NEW gone, SafeDeployment, KeptInv(gone), NEW c \in Collectors, TruncateMeta(c)
    PROVE  KeptInv(gone)'
<1> USE ConfigAssumption, WidthAssumption
<1>1. DirInv(c) /\ CursorInv(c) /\ HeldInv(c, gone) /\ TypeOK /\ MinHead <= head
  BY DEF KeptInv
<1>2. UNCHANGED <<head, logs, syncing, dir, toBlock, blockLogs, saving, crashes>>
  BY DEF TruncateMeta, nodeVars
<1>3. /\ pc[c] = "save" /\ blockLogs[c] = {}
      /\ latestBlockNumber' = [latestBlockNumber EXCEPT ![c] = toBlock[c]]
      /\ meta' = [meta EXCEPT ![c] = 0]
      /\ pc' = [pc EXCEPT ![c] = "meta"]
  BY DEF TruncateMeta, Goto, DiskOutcomes, SafeDeployment
<1>4. TypeOK'
  BY <1>1, <1>2, <1>3 DEF TypeOK, Stages, Uint
<1>5. ASSUME NEW d \in Collectors PROVE DirInv(d)' /\ CursorInv(d)' /\ HeldInv(d, gone)'
  <2>1. CASE d # c
    BY <1>1, <1>2, <1>3, <2>1, Frame DEF KeptInv, TypeOK
  <2>2. CASE d = c
    <3>1. meta'[c] = 0 /\ pc'[c] = "meta" /\ latestBlockNumber'[c] = toBlock[c]
      BY <1>1, <1>3 DEF TypeOK
    <3>2. DirInv(c)'
      BY <1>1, <1>2, <3>1 DEF DirInv
    <3>3. CursorInv(c)'
      <4>1. latestBlockNumber[c] \in Nat /\ toBlock[c] \in Nat /\ meta[c] \in Nat
        BY <1>1 DEF TypeOK, Uint
      <4>2. StartBlockNumber[c] < toBlock[c] /\ toBlock[c] + CommitBlockCount <= head
        BY <1>1, <1>3, <4>1 DEF CursorInv, InRange, Larger
      <4> QED
        BY <1>2, <3>1, <4>2 DEF CursorInv, InRange
    <3>4. ASSUME NEW b \in logs[c], StartBlockNumber[c] < b, b <= toBlock[c]
          PROVE  b \in Saved(c) \cup gone[c]
      <4>1. latestBlockNumber[c] = Larger(meta[c], StartBlockNumber[c])
        BY <1>1, <1>3 DEF CursorInv, InRange
      <4>2. /\ b \in Nat /\ meta[c] \in Nat /\ StartBlockNumber[c] \in Nat
            /\ toBlock[c] \in Nat
        BY <1>1 DEF TypeOK, Uint
      <4>3. CASE b <= meta[c]
        BY <1>1, <3>4, <4>3 DEF HeldInv
      <4>4. CASE ~(b <= meta[c])
        <5>1. latestBlockNumber[c] < b
          BY <3>4, <4>1, <4>2, <4>4 DEF Larger
        <5> QED
          BY <1>1, <1>3, <3>4, <5>1 DEF HeldInv, Saving
      <4> QED
        BY <4>3, <4>4
    <3>5. HeldInv(c, gone)'
      <4>1. logs[c] \subseteq 1 .. MaxHead
        BY <1>1 DEF TypeOK
      <4> QED
        BY <1>2, <3>1, <3>4, <4>1 DEF HeldInv, Saving, Saved
    <3> QED
      BY <2>2, <3>2, <3>3, <3>5
  <2> QED
    BY <2>1, <2>2
<1> QED
  BY <1>1, <1>2, <1>4, <1>5 DEF KeptInv

LEMMA WriteMetaStep ==
    ASSUME NEW gone, SafeDeployment, KeptInv(gone), NEW c \in Collectors, WriteMeta(c)
    PROVE  KeptInv(gone)'
<1> USE ConfigAssumption, WidthAssumption
<1>1. DirInv(c) /\ CursorInv(c) /\ HeldInv(c, gone) /\ TypeOK /\ MinHead <= head
  BY DEF KeptInv
<1>2. UNCHANGED <<head, logs, syncing, dir, latestBlockNumber, toBlock, blockLogs,
                  saving, crashes>>
  BY DEF WriteMeta, nodeVars, cycleVars
<1>3. /\ pc[c] = "meta"
      /\ meta' = [meta EXCEPT ![c] = latestBlockNumber[c]]
      /\ pc' = [pc EXCEPT ![c] = "wait"]
  BY DEF WriteMeta, Goto, DiskOutcomes, SafeDeployment
<1>4. TypeOK'
  BY <1>1, <1>2, <1>3 DEF TypeOK, Stages
<1>5. ASSUME NEW d \in Collectors PROVE DirInv(d)' /\ CursorInv(d)' /\ HeldInv(d, gone)'
  <2>1. CASE d # c
    BY <1>1, <1>2, <1>3, <2>1, Frame DEF KeptInv, TypeOK
  <2>2. CASE d = c
    <3>1. meta'[c] = latestBlockNumber[c] /\ pc'[c] = "wait"
      BY <1>1, <1>3 DEF TypeOK
    <3>2. DirInv(c)'
      BY <1>1, <1>2, <3>1 DEF DirInv
    <3>3. CursorInv(c)'
      BY <1>1, <1>2, <1>3, <3>1 DEF CursorInv, InRange
    <3>4. HeldInv(c, gone)'
      BY <1>1, <1>2, <1>3, <3>1 DEF HeldInv, Saving, Saved
    <3> QED
      BY <2>2, <3>2, <3>3, <3>4
  <2> QED
    BY <2>1, <2>2
<1> QED
  BY <1>1, <1>2, <1>4, <1>5 DEF KeptInv

LEMMA NextKept ==
    ASSUME NEW gone, SafeDeployment, KeptInv(gone), [Next]_vars
    PROVE  KeptInv(gone)'
<1>1. CASE Mine
  BY <1>1, MineStep
<1>2. CASE ToggleSyncing
  BY <1>2, ToggleStep
<1>3. ASSUME NEW c \in Collectors, Cycle(c) PROVE KeptInv(gone)'
  BY <1>3, ReadCursorStep, PollStep, FetchStep, GiveUpStep, OpenLockStep, WriteLockStep,
     RenameLockStep, TruncateMetaStep, WriteMetaStep DEF Cycle
<1>4. CASE Crash
  BY <1>4, CrashStep
<1>5. CASE Restart
  BY <1>5, RestartStep
<1>6. CASE UNCHANGED vars
  <2>1. TypeOK'
    BY <1>6 DEF KeptInv, TypeOK, vars, nodeVars, diskVars, cycleVars
  <2>2. ASSUME NEW d \in Collectors PROVE DirInv(d)' /\ CursorInv(d)' /\ HeldInv(d, gone)'
    BY <1>6, Frame DEF KeptInv, vars, nodeVars, diskVars, cycleVars
  <2> QED
    BY <1>6, <2>1, <2>2 DEF KeptInv, vars, nodeVars
<1> QED
  BY <1>1, <1>2, <1>3, <1>4, <1>5, <1>6 DEF Next
-----------------------------------------------------------------------------
\* What a step adds to a directory is a file of a block being saved, which
\* event.meta has not passed.
LEMMA NewFile ==
    ASSUME NEW gone, SafeDeployment, KeptInv(gone), [Next]_vars,
           NEW c \in Collectors, NEW f \in dir'[c] \ dir[c]
    PROVE  f.block \in blockLogs[c] /\ f.block > meta[c]
<1>1. DirInv(c) /\ CursorInv(c) /\ HeldInv(c, gone) /\ TypeOK
  BY DEF KeptInv
<1>2. OpenLock(c) \/ WriteLock(c) \/ RenameLock(c)
  BY <1>1 DEF Next, Mine, ToggleSyncing, Crash, Restart, Cycle, ReadCursor, Poll, Fetch,
     GiveUp, OpenLock, WriteLock, RenameLock, TruncateMeta, WriteMeta, Wake, vars,
     nodeVars, diskVars, cycleVars, TypeOK
<1>3. f.block \in blockLogs[c]
  <2>1. CASE OpenLock(c)
    BY <1>1, <2>1 DEF OpenLock, DiskOutcomes, SafeDeployment, Put, File, TypeOK
  <2>2. CASE WriteLock(c)
    BY <1>1, <2>2 DEF WriteLock, DiskOutcomes, SafeDeployment, Put, File, TypeOK, DirInv
  <2>3. CASE RenameLock(c)
    BY <1>1, <2>3 DEF RenameLock, Renamed, File, TypeOK, DirInv
  <2> QED
    BY <1>2, <2>1, <2>2, <2>3
<1>4. pc[c] \in {"save", "write", "rename"}
  BY <1>2 DEF OpenLock, WriteLock, RenameLock
<1> QED
  BY <1>1, <1>3, <1>4, ConfigAssumption
     DEF CursorInv, HeldInv, InRange, Saving, Larger, TypeOK, Uint

\* No step of the collector takes a saved block away.
LEMMA SavedGrows ==
    ASSUME NEW gone, SafeDeployment, KeptInv(gone), [Next]_vars, NEW c \in Collectors
    PROVE  Saved(c) \subseteq Saved(c)'
<1>1. DirInv(c) /\ TypeOK /\ dir[c] \subseteq Files
  BY DEF KeptInv, TypeOK
<1>2. CASE dir'[c] = dir[c]
  BY <1>2 DEF Saved
<1>3. CASE OpenLock(c) \/ WriteLock(c)
  <2>1. PICK b \in Nat, body \in {"empty", "full"} :
           dir'[c] = Put(dir[c], File("lock", b, body))
    <3>1. CASE OpenLock(c)
      <4>1. PICK b \in blockLogs[c] :
               dir' = [dir EXCEPT ![c] = Put(dir[c], File("lock", b, "empty"))]
        BY <3>1 DEF OpenLock, DiskOutcomes, SafeDeployment
      <4>2. b \in Nat /\ dir'[c] = Put(dir[c], File("lock", b, "empty"))
        BY <1>1, <4>1, ConfigAssumption DEF TypeOK
      <4> QED
        BY <4>2
    <3>2. CASE WriteLock(c)
      <4>1. dir' = [dir EXCEPT ![c] = Put(dir[c], File("lock", saving[c], "full"))]
        BY <3>2 DEF WriteLock, DiskOutcomes, SafeDeployment
      <4>2. saving[c] \in Nat /\ dir'[c] = Put(dir[c], File("lock", saving[c], "full"))
        BY <1>1, <4>1, ConfigAssumption DEF TypeOK
      <4> QED
        BY <4>2
    <3> QED
      BY <1>3, <3>1, <3>2
  <2> DEFINE e == Put(dir[c], File("lock", b, body))
  <2>2. \A f : f.kind = "json" => (f \in e <=> f \in dir[c])
    BY <1>1, PutLock DEF DirInv
  <2> HIDE DEF e
  <2>3. \A x : x \in SavedIn(dir[c]) => x \in SavedIn(e)
    BY <2>2, SavedInMember DEF File
  <2> QED
    BY <2>1, <2>3 DEF e, Saved
<1>4. CASE RenameLock(c)
  <2>1. /\ dir'[c] = Renamed(dir[c], saving[c]) /\ saving[c] \in Nat
        /\ File("lock", saving[c], "full") \in dir[c]
    BY <1>1, <1>4 DEF RenameLock, TypeOK, DirInv
  <2> DEFINE e == Renamed(dir[c], saving[c])
  <2>2. /\ File("json", saving[c], "full") \in e
        /\ \A f \in dir[c] : f.block # saving[c] => f \in e
    BY <1>1, <2>1, RenameFull DEF DirInv
  <2> HIDE DEF e
  <2>3. \A x : x \in SavedIn(dir[c]) => x \in SavedIn(e)
    BY <2>2, SavedInMember DEF File
  <2> QED
    BY <2>1, <2>3 DEF e, Saved
<1>5. dir'[c] = dir[c] \/ OpenLock(c) \/ WriteLock(c) \/ RenameLock(c)
  BY <1>1 DEF Next, Mine, ToggleSyncing, Crash, Restart, Cycle, ReadCursor, Poll, Fetch,
     GiveUp, OpenLock, WriteLock, RenameLock, TruncateMeta, WriteMeta, Wake, vars,
     nodeVars, diskVars, cycleVars, TypeOK
<1> QED
  BY <1>2, <1>3, <1>4, <1>5
-----------------------------------------------------------------------------
\* In a safe deployment the inductive invariant holds in every reachable state.
THEOREM Invariance == ASSUME SafeDeployment PROVE Spec => []IInv
<1>1. Init => IInv
  BY InitKept DEF IInv
<1>2. IInv /\ [Next]_vars => IInv'
  BY NextKept DEF IInv
<1> QED
  BY <1>1, <1>2, PTL DEF Spec

\* The variables of the collector keep to their types, and no counter wraps around.
THEOREM TypeCorrect == ASSUME SafeDeployment PROVE Spec => []TypeOK
<1>1. IInv => TypeOK
  BY DEF IInv, KeptInv
<1> QED
  BY <1>1, Invariance, PTL

\* Whatever a later cycle skips has been saved: no event between startBlockNumber
\* and event.meta is lost, by any crash or failed request.
THEOREM NothingLost == ASSUME SafeDeployment PROVE Spec => []NoEventLost
<1>1. IInv => NoEventLost
  BY DEF IInv, KeptInv, HeldInv, None, NoEventLost
<1> QED
  BY <1>1, Invariance, PTL

\* event.meta never runs past the committed blocks of the chain.
THEOREM CursorCommitted == ASSUME SafeDeployment PROVE Spec => []CursorIsCommitted
<1>1. IInv => CursorIsCommitted
  BY DEF IInv, KeptInv, CursorInv, CursorIsCommitted
<1> QED
  BY <1>1, Invariance, PTL

\* No crash leaves a half-written <n>.json behind.
THEOREM FilesWhole == ASSUME SafeDeployment PROVE Spec => []NoTornFile
<1>1. IInv => NoTornFile
  BY DEF IInv, KeptInv, DirInv, NoTornFile
<1> QED
  BY <1>1, Invariance, PTL
-----------------------------------------------------------------------------
(***************************************************************************)
(* What the steps of the collector do to what is saved and to the cursors. *)
(***************************************************************************)
\* A committed block past the cursor is saved.
Saves(c, b) ==
    /\ b \in logs[c] /\ Cursor(c) < b /\ b + CommitBlockCount <= head
    /\ UNCHANGED <<head, logs>>
    /\ \A d \in Collectors :
          /\ Cursor(d)' = Cursor(d)
          /\ Saved(d)' = IF d = c THEN Saved(d) \cup {b} ELSE Saved(d)

\* The cursor passes committed blocks whose events are saved, or were.
Advances(c, n, gone) ==
    /\ n \in 1 .. head /\ Cursor(c) < n /\ n + CommitBlockCount <= head
    /\ \A b \in logs[c] : Cursor(c) < b /\ b <= n => b \in Saved(c) \cup gone[c]
    /\ UNCHANGED <<head, logs>>
    /\ \A d \in Collectors :
          /\ Saved(d)' = Saved(d)
          /\ Cursor(d)' = IF d = c THEN n ELSE Cursor(d)

\* Some cursors fall back to where the configuration starts.
Forgets(lost) ==
    /\ UNCHANGED <<head, logs>>
    /\ \A d \in Collectors :
          /\ Saved(d)' = Saved(d)
          /\ Cursor(d)' = IF d \in lost THEN StartBlockNumber[d] ELSE Cursor(d)

\* No cursor moves, and nothing is saved.
Idles == \A d \in Collectors : Saved(d)' = Saved(d) /\ Cursor(d)' = Cursor(d)

\* Publishing a file is the step that saves its block.
LEMMA SaveEffect ==
    ASSUME NEW gone, SafeDeployment, KeptInv(gone), NEW c \in Collectors, RenameLock(c)
    PROVE  \E b : Saves(c, b)
<1>1. DirInv(c) /\ CursorInv(c) /\ HeldInv(c, gone) /\ TypeOK
  BY DEF KeptInv
<1>2. /\ pc[c] = "rename"
      /\ dir' = [dir EXCEPT ![c] = Renamed(dir[c], saving[c])]
      /\ pc' = [pc EXCEPT ![c] = "save"]
      /\ UNCHANGED <<head, logs, meta, latestBlockNumber>>
  BY DEF RenameLock, Goto, nodeVars
<1>3. /\ saving[c] \in Nat /\ dir[c] \subseteq Files
      /\ File("lock", saving[c], "full") \in dir[c]
  BY <1>1, <1>2, ConfigAssumption DEF TypeOK, DirInv
<1>4. SavedIn(Renamed(dir[c], saving[c])) = SavedIn(dir[c]) \cup {saving[c]}
  <2> DEFINE e == Renamed(dir[c], saving[c])
  <2>1. /\ File("json", saving[c], "full") \in e
        /\ \A f \in dir[c] : f.block # saving[c] => f \in e
        /\ \A f \in e : f = File("json", saving[c], "full") \/ f \in dir[c]
    BY <1>1, <1>3, RenameFull DEF DirInv
  <2> HIDE DEF e
  <2>2. \A b : b \in SavedIn(e) <=> b \in SavedIn(dir[c]) \cup {saving[c]}
    BY <2>1, SavedInMember DEF File
  <2> QED
    BY <2>2 DEF e
<1>5. /\ saving[c] \in logs[c]
      /\ Cursor(c) < saving[c]
      /\ saving[c] + CommitBlockCount <= head
  <2>1. saving[c] \in blockLogs[c] /\ Cursor(c) = latestBlockNumber[c]
    BY <1>1, <1>2 DEF DirInv, CursorInv, InRange, Cursor
  <2> QED
    BY <1>1, <1>2, <1>3, <2>1, ConfigAssumption
       DEF HeldInv, CursorInv, Saving, InRange, TypeOK, Uint
<1>6. \A d \in Collectors :
         /\ Cursor(d)' = Cursor(d)
         /\ Saved(d)' = IF d = c THEN Saved(d) \cup {saving[c]} ELSE Saved(d)
  BY <1>1, <1>2, <1>4 DEF Cursor, Saved, TypeOK
<1> QED
  BY <1>2, <1>5, <1>6 DEF Saves

\* Opening event.meta for the new number is the step that moves the cursor.
LEMMA AdvanceEffect ==
    ASSUME NEW gone, SafeDeployment, KeptInv(gone), NEW c \in Collectors, TruncateMeta(c)
    PROVE  \E n : Advances(c, n, gone)
<1>1. CursorInv(c) /\ HeldInv(c, gone) /\ TypeOK
  BY DEF KeptInv
<1>2. /\ pc[c] = "save" /\ blockLogs[c] = {}
      /\ latestBlockNumber' = [latestBlockNumber EXCEPT ![c] = toBlock[c]]
      /\ meta' = [meta EXCEPT ![c] = 0]
      /\ pc' = [pc EXCEPT ![c] = "meta"]
      /\ UNCHANGED <<head, logs, dir>>
  BY DEF TruncateMeta, Goto, DiskOutcomes, SafeDeployment, nodeVars
<1>3. Cursor(c) = latestBlockNumber[c]
  BY <1>1, <1>2 DEF CursorInv, InRange, Cursor
<1>4. /\ toBlock[c] \in 1 .. head
      /\ Cursor(c) < toBlock[c]
      /\ toBlock[c] + CommitBlockCount <= head
      /\ \A b \in logs[c] :
            Cursor(c) < b /\ b <= toBlock[c] => b \in Saved(c) \cup gone[c]
  BY <1>1, <1>2, <1>3, ConfigAssumption
     DEF CursorInv, HeldInv, Saving, InRange, TypeOK, Uint
<1>5. \A d \in Collectors :
         /\ Saved(d)' = Saved(d)
         /\ Cursor(d)' = IF d = c THEN toBlock[c] ELSE Cursor(d)
  BY <1>1, <1>2 DEF Cursor, Saved, TypeOK
<1> QED
  BY <1>2, <1>4, <1>5 DEF Advances

\* A crash loses the cursors whose files were being rewritten, and no other.
LEMMA ForgetEffect ==
    ASSUME NEW gone, KeptInv(gone), Crash
    PROVE  \E lost \in SUBSET Collectors : Forgets(lost)
<1>1. UNCHANGED <<head, logs, meta, dir>> /\ pc' = [c \in Collectors |-> "down"]
  BY DEF Crash, nodeVars, diskVars
<1> DEFINE lost == {c \in Collectors : pc[c] = "meta"}
<1>2. ASSUME NEW c \in Collectors
      PROVE  /\ Saved(c)' = Saved(c)
             /\ Cursor(c)' = IF c \in lost THEN StartBlockNumber[c] ELSE Cursor(c)
  <2>1. pc[c] = "meta" => meta[c] = 0
    BY DEF KeptInv, CursorInv
  <2>2. Larger(0, StartBlockNumber[c]) = StartBlockNumber[c]
    BY ConfigAssumption DEF Larger
  <2> QED
    BY <1>1, <2>1, <2>2 DEF Cursor, Saved
<1>3. Forgets(lost)
  BY <1>1, <1>2 DEF Forgets
<1> QED
  BY <1>3

\* Creating or filling a lock file publishes nothing.
LEMMA LockEffect ==
    ASSUME NEW gone, SafeDeployment, KeptInv(gone), NEW c \in Collectors, OpenLock(c) \/ WriteLock(c)
    PROVE  UNCHANGED <<head, logs>> /\ Idles
<1>1. DirInv(c) /\ CursorInv(c) /\ TypeOK
  BY DEF KeptInv
<1>2. /\ UNCHANGED <<head, logs, meta, latestBlockNumber>>
      /\ \E s \in {"write", "rename"} : pc' = [pc EXCEPT ![c] = s]
      /\ pc[c] \in {"save", "write"}
      /\ \E b \in Nat, body \in {"empty", "full"} :
            dir' = [dir EXCEPT ![c] = Put(dir[c], File("lock", b, body))]
  <2>1. CASE OpenLock(c)
    <3>1. PICK b \in blockLogs[c] :
             /\ dir' = [dir EXCEPT ![c] = Put(dir[c], File("lock", b, "empty"))]
             /\ pc' = [pc EXCEPT ![c] = "write"]
      BY <2>1 DEF OpenLock, Goto, DiskOutcomes, SafeDeployment
    <3>2. b \in Nat
      BY <1>1, <3>1, ConfigAssumption DEF TypeOK
    <3>3. pc[c] = "save" /\ UNCHANGED <<head, logs, meta, latestBlockNumber>>
      BY <2>1 DEF OpenLock, nodeVars
    <3> QED
      BY <3>1, <3>2, <3>3
  <2>2. CASE WriteLock(c)
    <3>1. /\ pc[c] = "write" /\ UNCHANGED <<head, logs, meta, latestBlockNumber>>
          /\ dir' = [dir EXCEPT ![c] = Put(dir[c], File("lock", saving[c], "full"))]
          /\ pc' = [pc EXCEPT ![c] = "rename"]
      BY <2>2 DEF WriteLock, Goto, DiskOutcomes, SafeDeployment, nodeVars, cycleVars
    <3>2. saving[c] \in Nat
      BY <1>1, ConfigAssumption DEF TypeOK
    <3> QED
      BY <3>1, <3>2
  <2> QED
    BY <2>1, <2>2
<1>3. PICK b \in Nat, body \in {"empty", "full"} :
         dir' = [dir EXCEPT ![c] = Put(dir[c], File("lock", b, body))]
  BY <1>2
<1>4. SavedIn(Put(dir[c], File("lock", b, body))) = SavedIn(dir[c])
  <2> DEFINE e == Put(dir[c], File("lock", b, body))
  <2>1. \A f : f.kind = "json" => (f \in e <=> f \in dir[c])
    BY <1>1, PutLock DEF DirInv, TypeOK
  <2> HIDE DEF e
  <2>2. \A x : x \in SavedIn(e) <=> x \in SavedIn(dir[c])
    BY <2>1, SavedInMember DEF File
  <2>3. SavedIn(e) = SavedIn(dir[c])
    BY <2>2
  <2> QED
    BY <2>3 DEF e
<1>5. \A d \in Collectors : Saved(d)' = Saved(d) /\ Cursor(d)' = Cursor(d)
  BY <1>1, <1>2, <1>3, <1>4 DEF Saved, Cursor, TypeOK
<1> QED
  BY <1>2, <1>5 DEF Idles

\* Writing event.meta records the cursor that opening it had announced.
LEMMA WriteMetaEffect ==
    ASSUME NEW gone, SafeDeployment, KeptInv(gone), NEW c \in Collectors, WriteMeta(c)
    PROVE  UNCHANGED <<head, logs>> /\ Idles
<1>1. CursorInv(c) /\ TypeOK
  BY DEF KeptInv
<1>2. /\ pc[c] = "meta"
      /\ meta' = [meta EXCEPT ![c] = latestBlockNumber[c]]
      /\ pc' = [pc EXCEPT ![c] = "wait"]
      /\ UNCHANGED <<head, logs, dir, latestBlockNumber>>
  BY DEF WriteMeta, Goto, DiskOutcomes, SafeDeployment, nodeVars, cycleVars
<1>3. Larger(latestBlockNumber[c], StartBlockNumber[c]) = latestBlockNumber[c]
  <2>1. StartBlockNumber[c] < latestBlockNumber[c]
    BY <1>1, <1>2 DEF CursorInv
  <2>2. StartBlockNumber[c] \in Nat /\ latestBlockNumber[c] \in Nat
    BY <1>1, ConfigAssumption DEF TypeOK, Uint
  <2> QED
    BY <2>1, <2>2 DEF Larger
<1>4. \A d \in Collectors : Saved(d)' = Saved(d) /\ Cursor(d)' = Cursor(d)
  BY <1>1, <1>2, <1>3 DEF Saved, Cursor, TypeOK
<1> QED
  BY <1>2, <1>4 DEF Idles

LEMMA QuietEffect ==
    ASSUME NEW gone, KeptInv(gone), NEW c \in Collectors,
           ReadCursor(c) \/ Poll(c) \/ Fetch(c) \/ GiveUp(c) \/ Wake(c)
    PROVE  UNCHANGED <<head, logs>> /\ Idles
<1>1. /\ UNCHANGED <<head, logs, meta, dir>>
      /\ pc[c] # "meta"
  BY DEF ReadCursor, Poll, Fetch, GiveUp, Wake, nodeVars, diskVars, cycleVars
<1>2. PICK s \in {"poll", "wait", "fetch", "save", "read"} : pc' = [pc EXCEPT ![c] = s]
  BY DEF ReadCursor, Poll, Fetch, GiveUp, Wake, Goto
<1>3. \A d \in Collectors : d # c => latestBlockNumber'[d] = latestBlockNumber[d]
  <2>1. CASE ReadCursor(c)
    BY <2>1 DEF ReadCursor, KeptInv, TypeOK
  <2>2. CASE ~ReadCursor(c)
    BY <2>2 DEF Poll, Fetch, GiveUp, Wake, cycleVars
  <2> QED
    BY <2>1, <2>2
<1>4. \A d \in Collectors : Saved(d)' = Saved(d) /\ Cursor(d)' = Cursor(d)
  BY <1>1, <1>2, <1>3 DEF Saved, Cursor, KeptInv, TypeOK
<1> QED
  BY <1>1, <1>4 DEF Idles

\* What any step of the collector does, of the five things EventFeed knows of.
LEMMA StepEffect ==
    ASSUME NEW gone, SafeDeployment, KeptInv(gone), [Next]_vars
    PROVE  \/ Mine /\ Idles
           \/ \E c \in Collectors : \E b : Saves(c, b)
           \/ \E c \in Collectors : \E n : Advances(c, n, gone)
           \/ \E lost \in SUBSET Collectors : Forgets(lost)
           \/ UNCHANGED <<head, logs>> /\ Idles
<1>1. CASE Mine
  <2>1. UNCHANGED <<meta, dir, latestBlockNumber, pc>>
    BY <1>1 DEF Mine, diskVars, cycleVars
  <2> QED
    BY <1>1, <2>1 DEF Idles, Saved, Cursor
<1>2. ASSUME NEW c \in Collectors, Cycle(c)
      PROVE  \/ \E b : Saves(c, b)
             \/ \E n : Advances(c, n, gone)
             \/ UNCHANGED <<head, logs>> /\ Idles
  BY <1>2, SaveEffect, AdvanceEffect, LockEffect, WriteMetaEffect, QuietEffect DEF Cycle
<1>3. CASE Crash
  BY <1>3, ForgetEffect
<1>4. CASE Restart
  BY <1>4 DEF Restart, KeptInv, Idles, Saved, Cursor, nodeVars, diskVars, cycleVars
<1>5. CASE ToggleSyncing \/ UNCHANGED vars
  BY <1>5 DEF ToggleSyncing, vars, Idles, Saved, Cursor, nodeVars, diskVars, cycleVars
<1> QED
  BY <1>1, <1>2, <1>3, <1>4, <1>5 DEF Next
-----------------------------------------------------------------------------
(***************************************************************************)
(* The steps of the collector as steps of EventFeed.                       *)
(***************************************************************************)
LEMMA FeedInit == ASSUME SafeDeployment, Init PROVE Feed!Init
<1> USE ConfigAssumption
<1>1. head \in Nat /\ logs \in [Collectors -> SUBSET (1 .. head)]
  BY DEF Init
<1>2. ASSUME NEW c \in Collectors PROVE Saved(c) = {} /\ Cursor(c) = StartBlockNumber[c]
  BY DEF Init, Saved, SavedIn, Cursor, Larger
<1>3. [c \in Collectors |-> Cursor(c)] = StartBlockNumber
  BY <1>2
<1> QED
  BY <1>1, <1>2, <1>3 DEF Feed!Init

LEMMA FeedNext ==
    ASSUME SafeDeployment, IInv, [Next]_vars PROVE [Feed!Next]_(Feed!vars)
<1>1. CASE Idles
  <2>1. UNCHANGED <<[d \in Collectors |-> Saved(d)], [d \in Collectors |-> Cursor(d)]>>
    BY <1>1 DEF Idles
  <2>2. CASE Mine
    BY <2>1, <2>2 DEF Mine, Feed!Mine, Feed!Next
  <2>3. CASE UNCHANGED <<head, logs>>
    BY <2>1, <2>3 DEF Feed!vars
  <2>4. Mine \/ UNCHANGED <<head, logs>>
    BY StepEffect DEF IInv, Saves, Advances, Forgets
  <2> QED
    BY <2>2, <2>3, <2>4
<1>2. ASSUME NEW c \in Collectors, NEW b, Saves(c, b) PROVE Feed!Save(c)
  <2>1. UNCHANGED [d \in Collectors |-> Cursor(d)]
    BY <1>2 DEF Saves
  <2>2. [d \in Collectors |-> Saved(d)]' =
           [[d \in Collectors |-> Saved(d)] EXCEPT ![c] = @ \cup {b}]
    BY <1>2 DEF Saves
  <2> QED
    BY <1>2, <2>1, <2>2 DEF Saves, Feed!Save
<1>3. ASSUME NEW c \in Collectors, NEW n, Advances(c, n, None) PROVE Feed!Advance(c)
  <2>1. UNCHANGED [d \in Collectors |-> Saved(d)]
    BY <1>3 DEF Advances
  <2>2. [d \in Collectors |-> Cursor(d)]' =
           [[d \in Collectors |-> Cursor(d)] EXCEPT ![c] = n]
    BY <1>3 DEF Advances
  <2> QED
    BY <1>3, <2>1, <2>2 DEF Advances, None, Feed!Advance
<1>4. ASSUME NEW lost \in SUBSET Collectors, Forgets(lost) PROVE Feed!Forget
  <2>1. UNCHANGED [d \in Collectors |-> Saved(d)]
    BY <1>4 DEF Forgets
  <2>2. [d \in Collectors |-> Cursor(d)]' =
           [d \in Collectors |-> IF d \in lost THEN StartBlockNumber[d]
                                ELSE [e \in Collectors |-> Cursor(e)][d]]
    BY <1>4 DEF Forgets
  <2> QED
    BY <1>4, <2>1, <2>2 DEF Forgets, Feed!Forget
<1> QED
  BY <1>1, <1>2, <1>3, <1>4, StepEffect DEF IInv, Feed!Next

\* The collector implements EventFeed: it saves only committed blocks, and its
\* cursor passes a range only when every event in it is saved.
THEOREM CollectorImplementsFeed ==
    ASSUME SafeDeployment PROVE Spec => ImplementsFeed
<1>1. Init => Feed!Init
  BY FeedInit
<1>2. IInv /\ [Next]_vars => [Feed!Next]_(Feed!vars)
  BY FeedNext
<1> QED
  BY <1>1, <1>2, Invariance, PTL DEF Spec, ImplementsFeed, Feed!Spec
-----------------------------------------------------------------------------
\* No step collects again a block that event.meta has passed.
THEOREM BeyondCursor == ASSUME SafeDeployment PROVE Spec => CollectsBeyondCursor
<1>1. IInv /\ [Next]_vars =>
         [\A c \in Collectors : \A f \in dir'[c] \ dir[c] : f.block > meta[c]]_vars
  BY NewFile DEF IInv
<1> QED
  BY <1>1, Invariance, PTL DEF Spec, CollectsBeyondCursor

-----------------------------------------------------------------------------
(***************************************************************************)
(* A listing is in the order of its blocks.                                *)
(***************************************************************************)
Sorted(paths) == \A i, j \in 1 .. Len(paths) : i < j => paths[i] < paths[j]

\* What CHOOSE picks as the greatest element of a bounded set is one.
LEMMA MaxIsGreatest ==
    ASSUME NEW T, NEW k \in Nat, T \subseteq 0 .. k, T # {}
    PROVE  A!Max(T) \in T /\ \A n \in T : n <= A!Max(T)
<1>1. \E x \in T : \A y \in T : x >= y
  <2>1. PICK m \in T : \A n \in T : n <= m
    BY Greatest
  <2>2. \A n \in T : m >= n
    BY <2>1
  <2> QED
    BY <2>2
<1>2. A!Max(T) \in T /\ \A y \in T : A!Max(T) >= y
  BY <1>1, Zenon DEF A!Max
<1> QED
  BY <1>2

\* A round of getFilePaths splits the listing behind the last smaller block.
LEMMA InsertedAt ==
    ASSUME NEW p \in Seq(Nat), NEW b \in Nat
    PROVE  LET q == A!Inserted(p, b)
           IN  /\ q \in Seq(Nat)
               /\ Len(q) = Len(p) + 1
               /\ \E m \in 0 .. Len(p) :
                     /\ m # 0 => p[m] < b
                     /\ \A i \in m + 1 .. Len(p) : ~(p[i] < b)
                     /\ \A i \in 1 .. m : q[i] = p[i]
                     /\ q[m + 1] = b
                     /\ \A i \in m + 2 .. Len(q) : q[i] = p[i - 1]
<1> DEFINE I == {i \in 1 .. Len(p) : p[i] < b}
           m == A!SelectLastInSeq(p, LAMBDA x : x < b)
<1>0. Len(p) \in Nat
  OBVIOUS
<1>1. m = IF I # {} THEN A!Max(I) ELSE 0
  BY DEF A!SelectLastInSeq
<1>2. /\ m \in 0 .. Len(p)
      /\ m # 0 => p[m] < b
      /\ \A i \in m + 1 .. Len(p) : ~(p[i] < b)
  <2> HIDE DEF m
  <2>1. CASE I = {}
    BY <1>0, <1>1, <2>1
  <2>2. CASE I # {}
    <3>1. m \in I /\ \A n \in I : n <= m
      <4>1. I \subseteq 0 .. Len(p)
        OBVIOUS
      <4> HIDE DEF I
      <4> QED
        BY <1>0, <1>1, <2>2, <4>1, MaxIsGreatest
    <3>2. ASSUME NEW i \in m + 1 .. Len(p), p[i] < b PROVE FALSE
      <4>1. i \in I
        BY <1>0, <3>1, <3>2
      <4> QED
        BY <1>0, <3>1, <4>1
    <3> QED
      BY <1>0, <3>1, <3>2
  <2> QED
    BY <2>1, <2>2
<1>3. A!Inserted(p, b) = (SubSeq(p, 1, m) \o <<b>>) \o SubSeq(p, m + 1, Len(p))
  <2>1. A!Inserted(p, b) = A!InsertAt(p, m + 1, b)
    BY DEF A!Inserted
  <2>2. (m + 1) - 1 = m
    BY <1>2
  <2> QED
    BY <2>1, <2>2 DEF A!InsertAt
<1> HIDE DEF m
<1> DEFINE u == SubSeq(p, 1, m)
           v == SubSeq(p, m + 1, Len(p))
<1>4. u \in Seq(Nat) /\ Len(u) = m /\ \A i \in 1 .. m : u[i] = p[i]
  BY <1>2
<1>5. /\ v \in Seq(Nat) /\ Len(v) = Len(p) - m
      /\ \A i \in 1 .. Len(p) - m : v[i] = p[m + i]
  BY <1>2
<1> HIDE DEF u, v
<1>6. /\ (u \o <<b>>) \o v \in Seq(Nat)
      /\ Len((u \o <<b>>) \o v) = Len(p) + 1
      /\ \A i \in 1 .. m : ((u \o <<b>>) \o v)[i] = p[i]
      /\ ((u \o <<b>>) \o v)[m + 1] = b
      /\ \A i \in m + 2 .. Len(p) + 1 : ((u \o <<b>>) \o v)[i] = p[i - 1]
  <2> DEFINE w == u \o <<b>>
  <2>1. /\ w \in Seq(Nat) /\ Len(w) = m + 1
        /\ \A i \in 1 .. m : w[i] = p[i]
        /\ w[m + 1] = b
    BY <1>2, <1>4
  <2> HIDE DEF w
  <2>2. w \o v \in Seq(Nat) /\ Len(w \o v) = Len(p) + 1
    BY <1>2, <1>5, <2>1
  <2>3. \A i \in 1 .. m + 1 : (w \o v)[i] = w[i]
    BY <1>2, <1>5, <2>1
  <2>4. ASSUME NEW i \in m + 2 .. Len(p) + 1 PROVE (w \o v)[i] = p[i - 1]
    <3>1. (w \o v)[i] = v[i - (m + 1)]
      <4>1. i \in 1 .. Len(w) + Len(v) /\ ~(i <= Len(w))
        BY <1>0, <1>2, <1>5, <2>1
      <4>2. \A n \in 1 .. Len(w) + Len(v) :
               (w \o v)[n] = IF n <= Len(w) THEN w[n] ELSE v[n - Len(w)]
        BY <1>5, <2>1, ConcatProperties, Zenon
      <4> QED
        BY <2>1, <4>1, <4>2
    <3>2. i - (m + 1) \in 1 .. Len(p) - m /\ m + (i - (m + 1)) = i - 1
      BY <1>2
    <3> QED
      BY <1>5, <3>1, <3>2
  <2> QED
    <3>1. 1 .. m \subseteq 1 .. m + 1 /\ m + 1 \in 1 .. m + 1
      BY <1>2
    <3>2. \A i \in 1 .. m : (w \o v)[i] = p[i]
      BY <2>1, <2>3, <3>1
    <3>3. (w \o v)[m + 1] = b
      BY <2>1, <2>3, <3>1
    <3> QED
      BY <2>2, <2>4, <3>2, <3>3 DEF w
<1> QED
  BY <1>2, <1>3, <1>6 DEF u, v

\* A new block goes where the order asks for it, and nothing else comes in.
LEMMA InsertedSorted ==
    ASSUME NEW p \in Seq(Nat), NEW b \in Nat, Sorted(p),
           \A i \in 1 .. Len(p) : p[i] # b
    PROVE  /\ Sorted(A!Inserted(p, b))
           /\ \A i \in 1 .. Len(A!Inserted(p, b)) :
                 \/ A!Inserted(p, b)[i] = b
                 \/ \E j \in 1 .. Len(p) : A!Inserted(p, b)[i] = p[j]
<1> DEFINE q == A!Inserted(p, b)
<1>1. /\ q \in Seq(Nat)
      /\ Len(q) = Len(p) + 1
      /\ \E m \in 0 .. Len(p) :
            /\ m # 0 => p[m] < b
            /\ \A i \in m + 1 .. Len(p) : ~(p[i] < b)
            /\ \A i \in 1 .. m : q[i] = p[i]
            /\ q[m + 1] = b
            /\ \A i \in m + 2 .. Len(q) : q[i] = p[i - 1]
  BY InsertedAt
<1> HIDE DEF q
<1>2. PICK m \in 0 .. Len(p) :
            /\ m # 0 => p[m] < b
            /\ \A i \in m + 1 .. Len(p) : ~(p[i] < b)
            /\ \A i \in 1 .. m : q[i] = p[i]
            /\ q[m + 1] = b
            /\ \A i \in m + 2 .. Len(q) : q[i] = p[i - 1]
  BY <1>1
<1>3. Len(p) \in Nat /\ \A i \in 1 .. Len(p) : p[i] \in Nat
  OBVIOUS
<1>4. \A i \in 1 .. m : p[i] < b
  BY <1>2, <1>3 DEF Sorted
<1>5. \A i \in m + 1 .. Len(p) : b < p[i]
  BY <1>2, <1>3
<1>6. Sorted(q)
  <2> SUFFICES ASSUME NEW i \in 1 .. Len(q), NEW j \in 1 .. Len(q), i < j
               PROVE  q[i] < q[j]
    BY DEF Sorted
  <2>0. i \in Nat /\ j \in Nat /\ 1 <= i /\ j <= Len(p) + 1 /\ m \in Nat
    BY <1>1, <1>3
  <2>1. CASE j <= m
    <3>1. q[i] = p[i] /\ q[j] = p[j] /\ i \in 1 .. Len(p) /\ j \in 1 .. Len(p)
      BY <1>2, <1>3, <2>0, <2>1
    <3> QED
      BY <3>1 DEF Sorted
  <2>2. CASE j = m + 1
    <3>1. i \in 1 .. m
      BY <2>0, <2>2
    <3> QED
      BY <1>2, <1>4, <2>2, <3>1
  <2>3. CASE m + 2 <= j
    <3>1. q[j] = p[j - 1] /\ j - 1 \in m + 1 .. Len(p)
      <4>1. j \in m + 2 .. Len(q) /\ j - 1 \in m + 1 .. Len(p)
        BY <1>1, <1>3, <2>0, <2>3
      <4> QED
        BY <1>2, <4>1
    <3>2. CASE i <= m
      <4>1. q[i] = p[i] /\ i \in 1 .. Len(p) /\ j - 1 \in 1 .. Len(p) /\ i < j - 1
        BY <1>2, <1>3, <2>0, <2>3, <3>2
      <4> QED
        BY <3>1, <4>1 DEF Sorted
    <3>3. CASE i = m + 1
      BY <1>2, <1>5, <3>1, <3>3
    <3>4. CASE m + 2 <= i
      <4>1. /\ q[i] = p[i - 1] /\ i - 1 < j - 1
            /\ i - 1 \in 1 .. Len(p) /\ j - 1 \in 1 .. Len(p)
        <5>1. i \in m + 2 .. Len(q)
          BY <1>1, <1>3, <2>0, <3>4
        <5>2. /\ i - 1 < j - 1 /\ i - 1 \in 1 .. Len(p) /\ j - 1 \in 1 .. Len(p)
          BY <1>3, <2>0, <2>3, <3>4
        <5> QED
          BY <1>2, <5>1, <5>2
      <4> QED
        BY <3>1, <4>1 DEF Sorted
    <3> QED
      BY <3>2, <3>3, <3>4
  <2> QED
    BY <2>1, <2>2, <2>3
<1>7. ASSUME NEW i \in 1 .. Len(q)
      PROVE  q[i] = b \/ \E j \in 1 .. Len(p) : q[i] = p[j]
  <2>1. PICK k, h : k = Len(p) /\ h = Len(q)
    OBVIOUS
  <2>2. k \in Nat /\ h = k + 1 /\ m \in 0 .. k /\ i \in 1 .. h
    BY <1>1, <1>3, <1>7, <2>1
  <2>3. i \in 1 .. m \/ i = m + 1 \/ i \in m + 2 .. h
    BY ONLY <2>2
  <2>4. i \in 1 .. m => i \in 1 .. k
    BY ONLY <2>2
  <2>5. i \in m + 2 .. h => i - 1 \in 1 .. k
    BY ONLY <2>2
  <2>6. /\ i \in 1 .. m => q[i] = p[i]
        /\ i = m + 1 => q[i] = b
        /\ i \in m + 2 .. h => q[i] = p[i - 1]
    BY <1>2, <2>1, Zenon
  <2> QED
    BY <2>1, <2>3, <2>4, <2>5, <2>6, Zenon
<1> QED
  BY <1>6, <1>7 DEF q

\* The listings of getFilePaths, one for each round, exist.
LEMMA ListingsExist ==
    ASSUME NEW k \in Nat, NEW step \in [1 .. k -> [Seq(Nat) -> Seq(Nat)]]
    PROVE  \E g \in [0 .. k -> Seq(Nat)] :
              g[0] = <<>> /\ \A n \in 1 .. k : g[n] = step[n][g[n - 1]]
<1> DEFINE S == Seq(Nat)
           init == <<>>
<1>1. init \in S /\ step \in [1 .. k -> [S -> S]]
  OBVIOUS
<1> HIDE DEF S, init
<1>2. \E g \in [0 .. k -> S] :
         g[0] = init /\ \A n \in 1 .. k : g[n] = step[n][g[n - 1]]
  BY <1>1, StepsExist
<1> QED
  BY <1>2 DEF S, init

\* A listing made of distinct blocks has them in order and no others.
LEMMA ListingSorted ==
    ASSUME NEW names \in Seq(Nat),
           \A i, j \in 1 .. Len(names) : i # j => names[i] # names[j]
    PROVE  /\ A!GetFilePaths(names) \in Seq(Nat)
           /\ Sorted(A!GetFilePaths(names))
           /\ \A i \in 1 .. Len(A!GetFilePaths(names)) :
                 \E j \in 1 .. Len(names) : A!GetFilePaths(names)[i] = names[j]
<1> DEFINE k == Len(names)
           Step(g, n) == IF n = 0 THEN <<>> ELSE A!Inserted(g[n - 1], names[n])
           listed == CHOOSE g : g = [n \in 0 .. k |-> Step(g, n)]
<1>1. k \in Nat /\ \A n \in 1 .. k : names[n] \in Nat
  OBVIOUS
<1>2. A!GetFilePaths(names) = listed[k]
  BY DEF A!GetFilePaths
<1> HIDE DEF k
<1>3. \E g : g = [n \in 0 .. k |-> Step(g, n)]
  <2> DEFINE step == [n \in 1 .. k |-> [p \in Seq(Nat) |-> A!Inserted(p, names[n])]]
  <2>1. step \in [1 .. k -> [Seq(Nat) -> Seq(Nat)]]
    <3>1. \A n \in 1 .. k : \A p \in Seq(Nat) : A!Inserted(p, names[n]) \in Seq(Nat)
      BY <1>1, InsertedAt
    <3> QED
      BY <3>1
  <2>2. \A n \in 1 .. k : \A p \in Seq(Nat) : step[n][p] = A!Inserted(p, names[n])
    OBVIOUS
  <2> HIDE DEF step
  <2>3. PICK g \in [0 .. k -> Seq(Nat)] :
           g[0] = <<>> /\ \A n \in 1 .. k : g[n] = step[n][g[n - 1]]
    BY <1>1, <2>1, ListingsExist
  <2>5. ASSUME NEW n \in 0 .. k PROVE g[n] = Step(g, n)
    <3>1. CASE n = 0
      BY <2>3, <3>1
    <3>2. CASE n # 0
      <4>1. n \in 1 .. k /\ n - 1 \in 0 .. k
        BY <1>1, <3>2
      <4>2. g[n - 1] \in Seq(Nat)
        BY <2>3, <4>1
      <4> QED
        BY <2>2, <2>3, <3>2, <4>1, <4>2
    <3> QED
      BY <3>1, <3>2
  <2>6. g = [n \in 0 .. k |-> g[n]]
    BY <2>3
  <2>7. g = [n \in 0 .. k |-> Step(g, n)]
    <3> HIDE DEF Step
    <3> QED
      BY <2>5, <2>6
  <2> QED
    BY <2>7
<1>4. listed = [n \in 0 .. k |-> Step(listed, n)]
  <2> HIDE DEF Step
  <2> QED
    BY <1>3
<1> HIDE DEF listed
<1>5. listed[0] = <<>>
  BY <1>1, <1>4
<1>6. \A n \in 1 .. k : listed[n] = A!Inserted(listed[n - 1], names[n])
  BY <1>1, <1>4
<1> HIDE DEF Step
<1> DEFINE Good(n) == /\ listed[n] \in Seq(Nat)
                      /\ Sorted(listed[n])
                      /\ \A i \in 1 .. Len(listed[n]) :
                            \E j \in 1 .. n : listed[n][i] = names[j]
           T == {n \in 0 .. k : ~Good(n)}
<1>7. T = {}
  <2> SUFFICES ASSUME T # {} PROVE FALSE
    OBVIOUS
  <2>0. T \subseteq Nat
    BY <1>1
  <2>1. PICK n \in T : \A m \in T : n <= m
    BY <2>0, Least
  <2>2. n \in 0 .. k /\ ~Good(n)
    OBVIOUS
  <2>3. n # 0
    <3>1. Good(0)
      BY <1>5 DEF Sorted
    <3> QED
      BY <2>2, <3>1
  <2>4. n \in 1 .. k /\ n - 1 \in 0 .. k /\ Good(n - 1)
    <3> HIDE DEF Good
    <3>1. n \in 1 .. k /\ n - 1 \in 0 .. k /\ ~(n <= n - 1)
      BY <1>1, <2>2, <2>3
    <3> QED
      BY <2>1, <3>1
  <2> DEFINE p == listed[n - 1]
             q == listed[n]
  <2>5. /\ p \in Seq(Nat) /\ Sorted(p)
        /\ \A i \in 1 .. Len(p) : \E j \in 1 .. n - 1 : p[i] = names[j]
    BY <2>4
  <2>6. q = A!Inserted(p, names[n])
    BY <1>6, <2>4
  <2> HIDE DEF p
  <2>7. \A i \in 1 .. Len(p) : p[i] # names[n]
    <3>1. \A j \in 1 .. n - 1 : j \in 1 .. k /\ j # n
      BY <1>1, <2>4
    <3>2. \A j \in 1 .. n - 1 : names[j] # names[n]
      BY <2>4, <3>1 DEF k
    <3> QED
      BY <2>5, <3>2
  <2>8. names[n] \in Nat
    BY <1>1, <2>4
  <2>9. /\ A!Inserted(p, names[n]) \in Seq(Nat)
        /\ Sorted(A!Inserted(p, names[n]))
        /\ \A i \in 1 .. Len(A!Inserted(p, names[n])) :
              \/ A!Inserted(p, names[n])[i] = names[n]
              \/ \E j \in 1 .. Len(p) : A!Inserted(p, names[n])[i] = p[j]
    <3>1. A!Inserted(p, names[n]) \in Seq(Nat)
      BY <2>5, <2>8, InsertedAt
    <3>2. p \in Seq(Nat) /\ Sorted(p)
      BY <2>5
    <3> QED
      BY <2>7, <2>8, <3>1, <3>2, InsertedSorted, Zenon
  <2> HIDE DEF q
  <2>10. /\ q \in Seq(Nat)
         /\ Sorted(q)
         /\ \A i \in 1 .. Len(q) : q[i] = names[n] \/ \E j \in 1 .. Len(p) : q[i] = p[j]
    BY <2>6, <2>9
  <2>11. \A i \in 1 .. Len(q) : \E j \in 1 .. n : q[i] = names[j]
    <3> SUFFICES ASSUME NEW i \in 1 .. Len(q) PROVE \E j \in 1 .. n : q[i] = names[j]
      OBVIOUS
    <3>1. CASE q[i] = names[n]
      <4>1. n \in 1 .. n
        BY <2>4
      <4> QED
        BY <3>1, <4>1
    <3>2. CASE \E j \in 1 .. Len(p) : q[i] = p[j]
      <4>1. PICK l \in 1 .. Len(p) : q[i] = p[l]
        BY <3>2
      <4>2. PICK j \in 1 .. n - 1 : p[l] = names[j]
        BY <2>5
      <4>3. j \in 1 .. n
        BY <2>4
      <4> QED
        BY <4>1, <4>2, <4>3
    <3> QED
      BY <2>10, <3>1, <3>2
  <2> QED
    BY <2>2, <2>10, <2>11 DEF q
<1>8. Good(k)
  <2>1. k \in 0 .. k
    BY <1>1
  <2> HIDE DEF Good
  <2> QED
    BY <1>7, <2>1
<1> QED
  BY <1>2, <1>8 DEF k
-----------------------------------------------------------------------------
(***************************************************************************)
(* The inductive invariant.                                                *)
(***************************************************************************)
\* The blocks whose files an actor may have removed.
Gone == [c \in Collectors |-> {b \in 1 .. MaxHead : A!Handled(c, b)}]

\* Only blocks of the chain have files.
BlocksInv == \A c \in Collectors : \A f \in dir[c] : f.block \in 1 .. MaxHead

\* What an actor lists is in order, has been dealt with up to the file it is at,
\* and waits in a file or has been handled; and of that file it has handled the
\* events before nextEvent, and all of them when it is about to remove it.
ListingInv(a) ==
    /\ Sorted(filePaths[a])
    /\ \A i \in 1 .. at[a] - 1 : A!Handled(A!Directory(a), filePaths[a][i])
    /\ \A i \in 1 .. Len(filePaths[a]) : filePaths[a][i] \in Kept(A!Directory(a))
    /\ apc[a] = "event" =>
          \A k \in 1 .. nextEvent[a] - 1 :
             A!Event(A!Directory(a), A!Block(a), k) \in delivered
    /\ apc[a] = "remove" => A!Handled(A!Directory(a), A!Block(a))

PipelineInv ==
    /\ KeptInv(Gone)
    /\ A!ActorTypeOK
    /\ BlocksInv
    /\ \A a \in Actors : ListingInv(a)
-----------------------------------------------------------------------------
\* An actor is in one of the directories it is configured with.
LEMMA DirectoryType ==
    ASSUME A!ActorTypeOK, NEW a \in Actors
    PROVE  A!Directory(a) \in Collectors
<1>1. CollectorsOf[a] \in Seq(Collectors) /\ turn[a] \in DOMAIN CollectorsOf[a]
  BY ActorAssumption DEF A!ActorTypeOK
<1> QED
  BY <1>1 DEF A!Directory

\* At a file, the actor is at a block of the chain.
LEMMA BlockType ==
    ASSUME A!ActorTypeOK, NEW a \in Actors, at[a] \in DOMAIN filePaths[a]
    PROVE  A!Block(a) \in 1 .. MaxHead
<1>1. filePaths[a] \in Seq(1 .. MaxHead)
  BY DEF A!ActorTypeOK
<1>2. at[a] \in 1 .. Len(filePaths[a])
  BY <1>1
<1> QED
  BY <1>1, <1>2, ElementOfSeq DEF A!Block

\* A block is kept when its complete file is there or its events are handled.
LEMMA KeptMember ==
    ASSUME NEW c, NEW b
    PROVE  b \in Kept(c) <=> b \in Saved(c) \/ (b \in 1 .. MaxHead /\ A!Handled(c, b))
  BY DEF Kept

\* What is handled stays handled.
LEMMA HandledGrows ==
    ASSUME delivered \subseteq delivered', NEW c, NEW b, A!Handled(c, b)
    PROVE  A!Handled(c, b)'
  BY DEF A!Handled, A!Event

\* A step that leaves an actor's part of the state alone, undoes no handling and
\* takes away only the files of handled blocks keeps the actor's invariant.
LEMMA ListingFrame ==
    ASSUME NEW a \in Actors, A!ActorTypeOK, ListingInv(a),
           delivered \subseteq delivered',
           \A c \in Collectors : Kept(c) \subseteq Kept(c)',
           apc'[a] = apc[a], turn'[a] = turn[a], filePaths'[a] = filePaths[a],
           at'[a] = at[a], nextEvent'[a] = nextEvent[a]
    PROVE  ListingInv(a)'
<1>1. PICK D, B : D = A!Directory(a) /\ B = A!Block(a)
  OBVIOUS
<1>2. D \in Collectors
  BY <1>1, DirectoryType
<1>3. A!Directory(a)' = D /\ A!Block(a)' = B
  BY <1>1 DEF A!Directory, A!Block
<1>4. Kept(A!Directory(a))' = Kept(D)'
  BY <1>3 DEF Kept, Saved, A!Handled
<1>5. \A i \in 1 .. at[a] - 1 : A!Handled(D, filePaths[a][i])
  BY <1>1 DEF ListingInv
<1>6. \A i \in 1 .. Len(filePaths[a]) : filePaths[a][i] \in Kept(D)'
  BY <1>1, <1>2 DEF ListingInv
<1>7. apc[a] = "remove" => A!Handled(D, B)
  BY <1>1 DEF ListingInv
<1>8. apc[a] = "event" => \A k \in 1 .. nextEvent[a] - 1 : A!Event(D, B, k) \in delivered
  BY <1>1 DEF ListingInv
<1>9. Sorted(filePaths[a])
  BY DEF ListingInv
<1> QED
  BY <1>3, <1>4, <1>5, <1>6, <1>7, <1>8, <1>9 DEF ListingInv, Sorted, A!Handled, A!Event
-----------------------------------------------------------------------------
(***************************************************************************)
(* What a step of a collector, and what a step of an actor, does to the    *)
(* directories.                                                            *)
(***************************************************************************)
\* The collectors' steps keep their invariant, whatever the actors have removed.
LEMMA CollectorKeeps ==
    ASSUME SafeDeployment, PipelineInv, [Next]_vars, UNCHANGED delivered
    PROVE  /\ KeptInv(Gone)'
           /\ BlocksInv'
           /\ \A c \in Collectors : Saved(c) \subseteq Saved(c)'
           /\ \A c \in Collectors : Kept(c) \subseteq Kept(c)'
<1>1. PICK gone : gone = Gone
  OBVIOUS
<1>2. KeptInv(gone)
  BY <1>1 DEF PipelineInv
<1>3. KeptInv(gone)'
  BY <1>2, NextKept
<1>4. Gone' = Gone
  BY DEF Gone, A!Handled
<1>5. KeptInv(Gone)'
  BY <1>1, <1>3, <1>4 DEF KeptInv, HeldInv
<1>6. BlocksInv'
  <2> SUFFICES ASSUME NEW c \in Collectors, NEW f \in dir'[c]
               PROVE  f.block \in 1 .. MaxHead
    BY DEF BlocksInv
  <2>1. CASE f \in dir[c]
    BY <2>1 DEF PipelineInv, BlocksInv
  <2>2. CASE f \notin dir[c]
    <3>1. f.block \in blockLogs[c]
      BY <1>2, <2>2, NewFile
    <3> QED
      BY <1>2, <3>1 DEF KeptInv, TypeOK
  <2> QED
    BY <2>1, <2>2
<1>7. \A c \in Collectors : Saved(c) \subseteq Saved(c)'
  BY <1>2, SavedGrows
<1>8. \A c \in Collectors : Kept(c) \subseteq Kept(c)'
  BY <1>7 DEF Kept, A!Handled
<1> QED
  BY <1>5, <1>6, <1>7, <1>8

\* A file taken out of a directory takes out its block and no other.
LEMMA RemovedFile ==
    ASSUME NEW d, NEW b, NEW x, x \in SavedIn(d), x # b
    PROVE  x \in SavedIn({f \in d : f.kind # "json" \/ f.block # b})
<1>1. File("json", x, "full") \in d /\ File("json", x, "full").block = x
  BY SavedInMember DEF File
<1> QED
  BY <1>1, SavedInMember

\* An actor removes at most one file, of a block whose events are all handled.
LEMMA ActorFiles ==
    ASSUME PipelineInv, NEW a \in Actors, A!Cycle(a)
    PROVE  /\ delivered \subseteq delivered'
           /\ dir' \in [Collectors -> SUBSET Files]
           /\ \A c \in Collectors :
                 /\ dir'[c] \subseteq dir[c]
                 /\ \A f \in dir[c] : f.kind = "lock" => f \in dir'[c]
                 /\ \A b \in Saved(c) : b \in Saved(c)' \/ A!Handled(c, b)
<1>1. dir \in [Collectors -> SUBSET Files] /\ A!ActorTypeOK
  BY DEF PipelineInv, KeptInv, TypeOK
<1>2. delivered \subseteq delivered'
  BY DEF A!Cycle, A!List, A!ReadFile, A!GetBlock, A!Deliver, A!RemoveFile, A!EndOfListing,
         A!Abort, A!Wake, A!NextDirectory
<1>3. CASE A!RemoveFile(a)
  <2>0. PICK D, B : D = A!Directory(a) /\ B = A!Block(a)
    OBVIOUS
  <2>1. /\ apc[a] = "remove"
        /\ dir' = [dir EXCEPT ![D] = {f \in dir[D] : f.kind # "json" \/ f.block # B}]
    BY <1>3, <2>0 DEF A!RemoveFile
  <2>2. D \in Collectors
    BY <1>1, <2>0, DirectoryType
  <2>3. A!Handled(D, B)
    BY <2>0, <2>1 DEF PipelineInv, ListingInv
  <2>4. dir'[D] = {f \in dir[D] : f.kind # "json" \/ f.block # B}
    BY <1>1, <2>1, <2>2
  <2>5. ASSUME NEW b \in Saved(D) PROVE b \in Saved(D)' \/ A!Handled(D, b)
    <3>1. CASE b = B
      BY <2>3, <3>1
    <3>2. CASE b # B
      <4>1. b \in SavedIn(dir[D])
        BY <2>5 DEF Saved
      <4>2. b \in SavedIn({f \in dir[D] : f.kind # "json" \/ f.block # B})
        BY <3>2, <4>1, RemovedFile, Zenon
      <4> QED
        BY <2>4, <4>2, Zenon DEF Saved
    <3> QED
      BY <3>1, <3>2
  <2>6. \A c \in Collectors : c # D => dir'[c] = dir[c]
    BY <1>1, <2>1
  <2>7. \A c \in Collectors : dir'[c] \subseteq dir[c] /\ dir[c] \subseteq Files
    BY <1>1, <2>4, <2>6
  <2>8. dir' \in [Collectors -> SUBSET Files]
    BY <1>1, <2>1
  <2>9. \A c \in Collectors : \A f \in dir[c] : f.kind = "lock" => f \in dir'[c]
    BY <2>4, <2>6
  <2>10. ASSUME NEW c \in Collectors, NEW b \in Saved(c) PROVE b \in Saved(c)' \/ A!Handled(c, b)
    <3>1. c # D => Saved(c)' = Saved(c)
      BY <2>6 DEF Saved
    <3> QED
      BY <2>5, <2>10, <3>1
  <2> QED
    BY <1>2, <2>7, <2>8, <2>9, <2>10
<1>4. CASE dir' = dir
  BY <1>1, <1>2, <1>4 DEF Saved
<1>5. A!RemoveFile(a) \/ dir' = dir
  BY DEF A!Cycle, A!List, A!ReadFile, A!GetBlock, A!Deliver, A!EndOfListing,
         A!Abort, A!Wake, A!NextDirectory
<1> QED
  BY <1>3, <1>4, <1>5

\* An actor's step keeps the collectors' invariant.
LEMMA ActorKeeps ==
    ASSUME PipelineInv, NEW a \in Actors, A!Cycle(a), UNCHANGED collectorVars
    PROVE  /\ KeptInv(Gone)'
           /\ BlocksInv'
           /\ \A c \in Collectors : Kept(c) \subseteq Kept(c)'
<1>1. /\ delivered \subseteq delivered'
      /\ dir' \in [Collectors -> SUBSET Files]
      /\ \A c \in Collectors :
            /\ dir'[c] \subseteq dir[c]
            /\ \A f \in dir[c] : f.kind = "lock" => f \in dir'[c]
            /\ \A b \in Saved(c) : b \in Saved(c)' \/ A!Handled(c, b)
  BY ActorFiles
<1>2. KeptInv(Gone)
  BY DEF PipelineInv
<1>3. UNCHANGED <<head, logs, syncing, crashes, meta, pc, latestBlockNumber, toBlock,
                  blockLogs, saving>>
  BY DEF collectorVars, nodeVars, cycleVars
<1>4. TypeOK'
  BY <1>1, <1>2, <1>3 DEF KeptInv, TypeOK
<1>5. \A c \in Collectors : \A b : A!Handled(c, b) => A!Handled(c, b)'
  BY <1>1, HandledGrows
<1>6. BlocksInv'
  BY <1>1 DEF PipelineInv, BlocksInv
<1>7. \A c \in Collectors : Saved(c) \subseteq 1 .. MaxHead
  <2>1. ASSUME NEW c \in Collectors, NEW b \in Saved(c) PROVE b \in 1 .. MaxHead
    <3>1. File("json", b, "full") \in dir[c] /\ File("json", b, "full").block = b
      BY <2>1, SavedInMember DEF Saved, File
    <3> QED
      BY <3>1 DEF PipelineInv, BlocksInv
  <2> QED
    BY <2>1
<1>8. \A c \in Collectors : Kept(c) \subseteq Kept(c)'
  BY <1>1, <1>5, <1>7 DEF Kept
<1>9. ASSUME NEW c \in Collectors
      PROVE  DirInv(c)' /\ CursorInv(c)' /\ HeldInv(c, Gone)'
  <2>1. DirInv(c) /\ CursorInv(c) /\ HeldInv(c, Gone)
    BY <1>2 DEF KeptInv
  <2>2. DirInv(c)'
    <3>1. \A b, body : File("lock", b, body).kind = "lock"
      BY DEF File
    <3> QED
      BY <1>1, <1>3, <2>1, <3>1 DEF DirInv
  <2>3. CursorInv(c)'
    BY <1>3, <2>1 DEF CursorInv, InRange
  <2>4. \A b : b \in Saved(c) \cup Gone[c] => b \in Saved(c)' \cup Gone'[c]
    BY <1>1, <1>5, <1>7 DEF Gone
  <2>5. HeldInv(c, Gone)'
    BY <1>3, <2>1, <2>4 DEF HeldInv, Saving
  <2> QED
    BY <2>2, <2>3, <2>5
<1>10. KeptInv(Gone)'
  BY <1>2, <1>3, <1>4, <1>9 DEF KeptInv
<1> QED
  BY <1>6, <1>8, <1>10
-----------------------------------------------------------------------------
(***************************************************************************)
(* The steps of an actor.                                                  *)
(***************************************************************************)
\* An actor's step leaves the other actors where they are.
LEMMA OtherActors ==
    ASSUME A!ActorTypeOK, NEW a \in Actors, A!Cycle(a), NEW b \in Actors, b # a
    PROVE  /\ apc'[b] = apc[b] /\ turn'[b] = turn[b] /\ filePaths'[b] = filePaths[b]
           /\ at'[b] = at[b] /\ nextEvent'[b] = nextEvent[b]
<1>1. CASE A!List(a)
  BY <1>1 DEF A!ActorTypeOK, A!List, A!Stage
<1>2. CASE A!ReadFile(a)
  BY <1>2 DEF A!ActorTypeOK, A!ReadFile, A!Stage
<1>3. CASE A!GetBlock(a)
  BY <1>3 DEF A!ActorTypeOK, A!GetBlock, A!Stage
<1>4. CASE A!RemoveFile(a)
  BY <1>4 DEF A!ActorTypeOK, A!RemoveFile, A!Stage
<1>5. CASE A!EndOfListing(a)
  BY <1>5 DEF A!ActorTypeOK, A!EndOfListing, A!NextDirectory, A!Stage
<1>6. CASE A!Abort(a)
  BY <1>6 DEF A!ActorTypeOK, A!Abort, A!NextDirectory, A!Stage
<1>7. CASE A!Wake(a)
  BY <1>7 DEF A!ActorTypeOK, A!Wake, A!Stage
<1>8. ASSUME NEW k \in 1 .. EventsPerBlock, A!Deliver(a, k)
      PROVE  /\ apc'[b] = apc[b] /\ turn'[b] = turn[b] /\ filePaths'[b] = filePaths[b]
             /\ at'[b] = at[b] /\ nextEvent'[b] = nextEvent[b]
  BY <1>8 DEF A!ActorTypeOK, A!Deliver, A!Stage
<1> QED
  BY <1>1, <1>2, <1>3, <1>4, <1>5, <1>6, <1>7, <1>8 DEF A!Cycle

\* The names a directory yields, in any order, are distinct blocks of the chain.
LEMMA NamesType ==
    ASSUME NEW S, S \subseteq 1 .. MaxHead, NEW names \in A!SetToSeqs(S)
    PROVE  /\ names \in Seq(Nat)
           /\ \A i \in 1 .. Len(names) : names[i] \in S
           /\ \A i, j \in 1 .. Len(names) : i # j => names[i] # names[j]
<1>1. A!Cardinality(S) = Cardinality(S)
  BY DEF A!Cardinality, Cardinality
<1>2. Cardinality(S) \in Nat
  <2>1. MaxHead \in Nat
    BY ConfigAssumption
  <2>2. IsFiniteSet(1 .. MaxHead)
    BY <2>1, FS_Interval
  <2>3. IsFiniteSet(S)
    BY <2>2, FS_Subset
  <2> QED
    BY <2>3, FS_CardinalityType
<1> DEFINE n == Cardinality(S)
<1>3. /\ names \in [1 .. n -> S]
      /\ \A i, j \in 1 .. n : i # j => names[i] # names[j]
  BY <1>1 DEF A!SetToSeqs
<1>4. S \subseteq Nat
  BY ConfigAssumption
<1> HIDE DEF n
<1>5. n \in Nat
  BY <1>2 DEF n
<1>6. names \in Seq(Nat) /\ Len(names) = n
  <2>1. names \in [1 .. n -> Nat]
    BY <1>3, <1>4
  <2> QED
    BY <1>5, <2>1
<1> QED
  BY <1>3, <1>6

\* A new listing is in order, and every block in it has its file.
LEMMA ListStep ==
    ASSUME PipelineInv, NEW a \in Actors, A!List(a)
    PROVE  A!ActorTypeOK' /\ ListingInv(a)'
<1>0. PICK D : D = A!Directory(a)
  OBVIOUS
<1> DEFINE S == {f.block : f \in {g \in dir[D] : g.kind = "json"}}
<1>1. A!ActorTypeOK /\ D \in Collectors
  BY <1>0, DirectoryType DEF PipelineInv
<1>2. PICK names \in A!SetToSeqs(S) :
         filePaths' = [filePaths EXCEPT ![a] = A!GetFilePaths(names)]
  BY <1>0 DEF A!List
<1> DEFINE q == A!GetFilePaths(names)
<1>3. S \subseteq 1 .. MaxHead
  BY <1>1 DEF PipelineInv, BlocksInv
<1>4. \A b \in S : b \in Saved(D)
  <2> SUFFICES ASSUME NEW f \in dir[D], f.kind = "json" PROVE f.block \in Saved(D)
    OBVIOUS
  <2>1. DirInv(D) /\ dir[D] \subseteq Files
    BY <1>1 DEF PipelineInv, KeptInv, TypeOK
  <2>2. f = File("json", f.block, "full")
    BY <2>1 DEF DirInv, Files, File
  <2> QED
    BY <2>2, SavedInMember DEF Saved
<1> HIDE DEF S
<1>5. /\ names \in Seq(Nat)
      /\ \A i \in 1 .. Len(names) : names[i] \in S
      /\ \A i, j \in 1 .. Len(names) : i # j => names[i] # names[j]
  BY <1>2, <1>3, NamesType
<1>6. /\ q \in Seq(Nat)
      /\ Sorted(q)
      /\ \A i \in 1 .. Len(q) : \E j \in 1 .. Len(names) : q[i] = names[j]
  BY <1>5, ListingSorted
<1> HIDE DEF q
<1>7. \A i \in 1 .. Len(q) : q[i] \in S
  BY <1>5, <1>6
<1>8. q \in Seq(1 .. MaxHead)
  <2>1. Len(q) \in Nat /\ DOMAIN q = 1 .. Len(q) /\ q = [i \in DOMAIN q |-> q[i]]
    BY <1>6
  <2>2. \A i \in 1 .. Len(q) : q[i] \in 1 .. MaxHead
    BY <1>3, <1>7
  <2>3. q \in [1 .. Len(q) -> 1 .. MaxHead]
    BY <2>1, <2>2
  <2> QED
    BY <2>1, <2>3, SeqDef
<1>9. filePaths' = [filePaths EXCEPT ![a] = q]
  BY <1>2 DEF q
<1>10. /\ at' = [at EXCEPT ![a] = 1]
       /\ apc' = [apc EXCEPT ![a] = "file"]
       /\ UNCHANGED <<dir, delivered, turn, nextEvent>>
  BY DEF A!List, A!Stage
<1>11. A!ActorTypeOK'
  BY <1>1, <1>8, <1>9, <1>10 DEF A!ActorTypeOK, A!Events
<1>12. /\ filePaths'[a] = q /\ at'[a] = 1 /\ apc'[a] = "file"
       /\ A!Directory(a)' = D
  BY <1>0, <1>1, <1>9, <1>10 DEF A!ActorTypeOK, A!Directory
<1>13. \A i \in 1 .. Len(q) : q[i] \in Kept(D)'
  BY <1>4, <1>7, <1>10 DEF Kept, Saved
<1>14. Kept(A!Directory(a))' = Kept(D)'
  BY <1>12 DEF Kept, Saved, A!Handled
<1> QED
  BY <1>6, <1>11, <1>12, <1>13, <1>14 DEF ListingInv, Sorted

\* A file that is gone was removed by another actor, which had handled its events.
LEMMA ReadFileStep ==
    ASSUME PipelineInv, NEW a \in Actors, A!ReadFile(a)
    PROVE  A!ActorTypeOK' /\ ListingInv(a)'
<1>1. A!ActorTypeOK /\ ListingInv(a) /\ A!Directory(a) \in Collectors
  BY DirectoryType DEF PipelineInv
<1>2. /\ apc[a] = "file" /\ at[a] \in DOMAIN filePaths[a]
      /\ UNCHANGED <<dir, delivered, turn, filePaths, nextEvent>>
  BY DEF A!ReadFile
<1>3. at[a] \in 1 .. Len(filePaths[a]) /\ Len(filePaths[a]) \in Nat
  BY <1>1, <1>2 DEF A!ActorTypeOK
<1>4. A!Directory(a)' = A!Directory(a) /\ \A c : Kept(c)' = Kept(c)
  BY <1>2 DEF A!Directory, Kept, Saved, A!Handled
<1>5. CASE A!Block(a) \in A!SavedIn(dir[A!Directory(a)])
  <2>1. apc' = [apc EXCEPT ![a] = "block"] /\ UNCHANGED at
    BY <1>5 DEF A!ReadFile, A!Stage
  <2>2. A!ActorTypeOK'
    BY <1>1, <1>2, <2>1 DEF A!ActorTypeOK, A!Events
  <2>3. apc'[a] = "block"
    BY <1>1, <2>1 DEF A!ActorTypeOK
  <2>4. ListingInv(a)'
    BY <1>1, <1>2, <1>4, <2>1, <2>3 DEF ListingInv, A!Handled, Sorted
  <2> QED
    BY <2>2, <2>4
<1>6. CASE A!Block(a) \notin A!SavedIn(dir[A!Directory(a)])
  <2>1. at' = [at EXCEPT ![a] = at[a] + 1] /\ UNCHANGED apc
    BY <1>6 DEF A!ReadFile
  <2>2. A!ActorTypeOK'
    BY <1>1, <1>2, <1>3, <2>1 DEF A!ActorTypeOK, A!Events
  <2>3. at'[a] = at[a] + 1
    BY <1>1, <2>1 DEF A!ActorTypeOK
  <2>4. A!Block(a) \notin Saved(A!Directory(a))
    BY <1>6 DEF Saved, SavedIn, A!SavedIn, File, A!File
  <2>5. A!Handled(A!Directory(a), filePaths[a][at[a]])
    BY <1>1, <1>3, <2>4 DEF ListingInv, Kept, A!Block
  <2>6. \A i \in 1 .. at'[a] - 1 : i = at[a] \/ i \in 1 .. at[a] - 1
    BY <1>3, <2>3
  <2>7. \A i \in 1 .. at'[a] - 1 : A!Handled(A!Directory(a), filePaths[a][i])
    BY <1>1, <2>5, <2>6 DEF ListingInv
  <2>8. ListingInv(a)'
    BY <1>1, <1>2, <1>4, <2>1, <2>7 DEF ListingInv, A!Handled, Sorted
  <2> QED
    BY <2>2, <2>8
<1> QED
  BY <1>5, <1>6

LEMMA GetBlockStep ==
    ASSUME PipelineInv, NEW a \in Actors, A!GetBlock(a)
    PROVE  A!ActorTypeOK' /\ ListingInv(a)'
<1>1. A!ActorTypeOK /\ ListingInv(a)
  BY DEF PipelineInv
<1>2. /\ apc[a] = "block"
      /\ apc' = [apc EXCEPT ![a] = "event"]
      /\ nextEvent' = [nextEvent EXCEPT ![a] = 1]
      /\ UNCHANGED <<dir, delivered, turn, filePaths, at>>
  BY DEF A!GetBlock, A!Stage
<1>3. A!ActorTypeOK'
  BY <1>1, <1>2, ActorAssumption DEF A!ActorTypeOK, A!Events
<1>4. A!Directory(a)' = A!Directory(a) /\ \A c : Kept(c)' = Kept(c)
  BY <1>2 DEF A!Directory, Kept, Saved, A!Handled
<1>5. apc'[a] = "event" /\ nextEvent'[a] = 1
  BY <1>1, <1>2 DEF A!ActorTypeOK
<1> QED
  BY <1>1, <1>2, <1>3, <1>4, <1>5 DEF ListingInv, A!Handled, Sorted

\* The last event of a file completes the handling of its block.
LEMMA DeliverStep ==
    ASSUME PipelineInv, NEW a \in Actors, NEW k \in 1 .. EventsPerBlock, A!Deliver(a, k)
    PROVE  A!ActorTypeOK' /\ ListingInv(a)'
<1>0. PICK D, B : D = A!Directory(a) /\ B = A!Block(a)
  OBVIOUS
<1>1. A!ActorTypeOK /\ ListingInv(a) /\ D \in Collectors
  BY <1>0, DirectoryType DEF PipelineInv
<1>2. /\ apc[a] = "event" /\ nextEvent[a] = k
      /\ delivered' = delivered \cup {A!Event(D, B, k)}
      /\ UNCHANGED <<dir, turn, filePaths, at>>
  BY <1>0 DEF A!Deliver
<1>3. B \in 1 .. MaxHead
  BY <1>0, <1>1, <1>2, BlockType DEF A!ActorTypeOK
<1>4. A!Directory(a)' = D /\ A!Block(a)' = B
  BY <1>0, <1>2 DEF A!Directory, A!Block
<1>5. A!Event(D, B, k) \in A!Events
  BY <1>1, <1>3 DEF A!Event, A!Events
<1>6. \A c, b : A!Handled(c, b) => A!Handled(c, b)'
  BY <1>2, HandledGrows
<1>7. \A c : Kept(c) \subseteq Kept(c)'
  BY <1>2, <1>6 DEF Kept, Saved
<1>8. \A j \in 1 .. k : A!Event(D, B, j) \in delivered'
  <2>1. \A j \in 1 .. k : j = k \/ j \in 1 .. k - 1
    OBVIOUS
  <2>2. \A j \in 1 .. k - 1 : A!Event(D, B, j) \in delivered
    BY <1>0, <1>1, <1>2 DEF ListingInv
  <2> QED
    BY <1>2, <2>1, <2>2
<1>9. /\ Sorted(filePaths[a])'
      /\ \A i \in 1 .. at'[a] - 1 : A!Handled(A!Directory(a), filePaths[a][i])'
      /\ \A i \in 1 .. Len(filePaths'[a]) : filePaths'[a][i] \in Kept(A!Directory(a))'
  <2>1. Kept(A!Directory(a))' = Kept(D)'
    BY <1>4 DEF Kept, Saved, A!Handled
  <2>2. /\ Sorted(filePaths[a])
        /\ \A i \in 1 .. at[a] - 1 : A!Handled(D, filePaths[a][i])
        /\ \A i \in 1 .. Len(filePaths[a]) : filePaths[a][i] \in Kept(D)
    BY <1>0, <1>1 DEF ListingInv
  <2>3. \A i \in 1 .. at'[a] - 1 : A!Handled(A!Directory(a), filePaths[a][i])'
    BY <1>2, <1>4, <2>2 DEF A!Handled
  <2> QED
    BY <1>2, <1>7, <2>1, <2>2, <2>3 DEF Sorted
<1>10. CASE k = EventsPerBlock
  <2>1. apc' = [apc EXCEPT ![a] = "remove"] /\ UNCHANGED nextEvent
    BY <1>10 DEF A!Deliver, A!Stage
  <2>2. A!ActorTypeOK'
    BY <1>1, <1>2, <1>5, <2>1 DEF A!ActorTypeOK, A!Events
  <2>3. apc'[a] = "remove"
    BY <1>1, <2>1 DEF A!ActorTypeOK
  <2>4. A!Handled(A!Directory(a), A!Block(a))'
    BY <1>4, <1>8, <1>10 DEF A!Handled, A!Event
  <2> QED
    BY <1>9, <2>2, <2>3, <2>4 DEF ListingInv
<1>11. CASE k # EventsPerBlock
  <2>1. nextEvent' = [nextEvent EXCEPT ![a] = k + 1] /\ UNCHANGED apc
    BY <1>11 DEF A!Deliver
  <2>2. k + 1 \in 1 .. EventsPerBlock
    BY <1>11, ActorAssumption
  <2>3. A!ActorTypeOK'
    BY <1>1, <1>2, <1>5, <2>1, <2>2 DEF A!ActorTypeOK, A!Events
  <2>4. nextEvent'[a] = k + 1 /\ (k + 1) - 1 = k
    BY <1>1, <2>1 DEF A!ActorTypeOK
  <2> QED
    BY <1>2, <1>4, <1>8, <1>9, <2>1, <2>3, <2>4 DEF ListingInv, A!Event
<1> QED
  BY <1>10, <1>11

LEMMA RemoveFileStep ==
    ASSUME PipelineInv, NEW a \in Actors, A!RemoveFile(a),
           \A c \in Collectors : Kept(c) \subseteq Kept(c)'
    PROVE  A!ActorTypeOK' /\ ListingInv(a)'
<1>1. A!ActorTypeOK /\ ListingInv(a) /\ A!Directory(a) \in Collectors
  BY DirectoryType DEF PipelineInv
<1>2. /\ apc[a] = "remove"
      /\ at' = [at EXCEPT ![a] = at[a] + 1]
      /\ nextEvent' = [nextEvent EXCEPT ![a] = 1]
      /\ apc' = [apc EXCEPT ![a] = "file"]
      /\ UNCHANGED <<delivered, turn, filePaths>>
  BY DEF A!RemoveFile, A!Stage
<1>3. at[a] \in 1 .. Len(filePaths[a]) /\ Len(filePaths[a]) \in Nat
  BY <1>1, <1>2 DEF A!ActorTypeOK
<1>4. A!ActorTypeOK'
  BY <1>1, <1>2, <1>3, ActorAssumption DEF A!ActorTypeOK, A!Events
<1>5. at'[a] = at[a] + 1 /\ apc'[a] = "file"
  BY <1>1, <1>2 DEF A!ActorTypeOK
<1>6. A!Directory(a)' = A!Directory(a)
  BY <1>2 DEF A!Directory
<1>7. A!Handled(A!Directory(a), filePaths[a][at[a]])
  BY <1>1, <1>2 DEF ListingInv, A!Block
<1>8. \A i \in 1 .. at'[a] - 1 : i = at[a] \/ i \in 1 .. at[a] - 1
  BY <1>3, <1>5
<1>9. \A i \in 1 .. at'[a] - 1 : A!Handled(A!Directory(a), filePaths[a][i])
  BY <1>1, <1>7, <1>8 DEF ListingInv
<1>10. \A i \in 1 .. Len(filePaths[a]) : filePaths[a][i] \in Kept(A!Directory(a))'
  <2>1. PICK D : D = A!Directory(a)
    OBVIOUS
  <2>2. Kept(A!Directory(a))' = Kept(D)'
    BY <1>6, <2>1 DEF Kept, Saved, A!Handled
  <2> QED
    BY <1>1, <2>1, <2>2 DEF ListingInv
<1> QED
  BY <1>1, <1>2, <1>4, <1>5, <1>6, <1>9, <1>10 DEF ListingInv, A!Handled, Sorted

\* A listing that is given up leaves nothing to prove.
LEMMA EmptyListing ==
    ASSUME NEW a \in Actors, filePaths[a] = <<>>, at[a] = 1,
           apc[a] \notin {"event", "remove"}
    PROVE  ListingInv(a)
  BY DEF ListingInv, Sorted

LEMMA NextDirectoryStep ==
    ASSUME PipelineInv, NEW a \in Actors, A!NextDirectory(a)
    PROVE  A!ActorTypeOK' /\ ListingInv(a)'
<1>1. A!ActorTypeOK
  BY DEF PipelineInv
<1>2. /\ filePaths' = [filePaths EXCEPT ![a] = <<>>]
      /\ at' = [at EXCEPT ![a] = 1]
      /\ nextEvent' = [nextEvent EXCEPT ![a] = 1]
      /\ UNCHANGED <<dir, delivered>>
  BY DEF A!NextDirectory
<1>3. /\ \E s \in {"list", "sleep"} : apc' = [apc EXCEPT ![a] = s]
      /\ \E t \in DOMAIN CollectorsOf[a] : turn' = [turn EXCEPT ![a] = t] /\ t \in Nat
  <2>1. /\ CollectorsOf[a] \in Seq(Collectors) /\ CollectorsOf[a] # <<>>
        /\ turn[a] \in DOMAIN CollectorsOf[a]
    BY <1>1, ActorAssumption DEF A!ActorTypeOK
  <2>2. 1 \in DOMAIN CollectorsOf[a]
    BY <2>1
  <2>3. turn[a] < Len(CollectorsOf[a]) => turn[a] + 1 \in DOMAIN CollectorsOf[a]
    BY <2>1
  <2>4. turn[a] + 1 \in Nat
    BY <2>1
  <2>5. CASE turn[a] < Len(CollectorsOf[a])
    <3>1. apc' = [apc EXCEPT ![a] = "list"] /\ turn' = [turn EXCEPT ![a] = turn[a] + 1]
      BY <2>5 DEF A!NextDirectory, A!Stage
    <3> QED
      BY <2>3, <2>4, <2>5, <3>1, Zenon
  <2>6. CASE ~(turn[a] < Len(CollectorsOf[a]))
    <3>1. apc' = [apc EXCEPT ![a] = "sleep"] /\ turn' = [turn EXCEPT ![a] = 1]
      BY <2>6 DEF A!NextDirectory, A!Stage
    <3>2. 1 \in Nat
      OBVIOUS
    <3> QED
      BY <2>2, <3>1, <3>2, Zenon
  <2> QED
    BY <2>5, <2>6
<1>4. A!ActorTypeOK'
  <2>1. PICK s \in {"list", "sleep"}, t \in DOMAIN CollectorsOf[a] :
           apc' = [apc EXCEPT ![a] = s] /\ turn' = [turn EXCEPT ![a] = t] /\ t \in Nat
    BY <1>3
  <2>2. delivered' \subseteq A!Events
    BY <1>1, <1>2 DEF A!ActorTypeOK, A!Events
  <2>3. /\ apc' \in [Actors -> {"list", "file", "block", "event", "remove", "sleep", "down"}]
        /\ turn' \in [Actors -> Nat]
    BY <1>1, <2>1 DEF A!ActorTypeOK
  <2>4. /\ filePaths' \in [Actors -> Seq(1 .. MaxHead)] /\ at' \in [Actors -> Nat]
        /\ nextEvent' \in [Actors -> 1 .. EventsPerBlock]
    BY <1>1, <1>2, ActorAssumption DEF A!ActorTypeOK
  <2>5. /\ turn'[a] = t /\ apc'[a] = s /\ at'[a] = 1 /\ filePaths'[a] = <<>>
        /\ \A b \in Actors \ {a} : /\ turn'[b] = turn[b] /\ apc'[b] = apc[b]
                                   /\ at'[b] = at[b] /\ filePaths'[b] = filePaths[b]
    BY <1>1, <1>2, <2>1 DEF A!ActorTypeOK
  <2>6. \A b \in Actors :
           /\ turn'[b] \in DOMAIN CollectorsOf[b]
           /\ at'[b] \in 1 .. Len(filePaths'[b]) + 1
           /\ apc'[b] \in {"block", "event", "remove"} => at'[b] \in DOMAIN filePaths'[b]
    BY <1>1, <2>5 DEF A!ActorTypeOK
  <2> QED
    BY <2>2, <2>3, <2>4, <2>6 DEF A!ActorTypeOK, A!Events
<1>5. filePaths'[a] = <<>> /\ at'[a] = 1 /\ apc'[a] \notin {"event", "remove"}
  BY <1>1, <1>2, <1>3 DEF A!ActorTypeOK
<1>6. ListingInv(a)'
  BY <1>5 DEF ListingInv, Sorted
<1> QED
  BY <1>4, <1>6

LEMMA WakeStep ==
    ASSUME PipelineInv, NEW a \in Actors, A!Wake(a)
    PROVE  A!ActorTypeOK' /\ ListingInv(a)'
<1>1. A!ActorTypeOK /\ ListingInv(a)
  BY DEF PipelineInv
<1>2. /\ apc' = [apc EXCEPT ![a] = "list"]
      /\ UNCHANGED <<dir, delivered, turn, filePaths, at, nextEvent>>
  BY DEF A!Wake, A!Stage
<1>3. A!ActorTypeOK'
  BY <1>1, <1>2 DEF A!ActorTypeOK, A!Events
<1>4. A!Directory(a)' = A!Directory(a) /\ \A c : Kept(c)' = Kept(c)
  BY <1>2 DEF A!Directory, Kept, Saved, A!Handled
<1>5. apc'[a] = "list"
  BY <1>1, <1>2 DEF A!ActorTypeOK
<1> QED
  BY <1>1, <1>2, <1>3, <1>4, <1>5 DEF ListingInv, A!Handled, Sorted
-----------------------------------------------------------------------------
(***************************************************************************)
(* The steps of the process.                                               *)
(***************************************************************************)
LEMMA ActorStepInv ==
    ASSUME PipelineInv, NEW a \in Actors, A!Cycle(a), UNCHANGED collectorVars
    PROVE  PipelineInv'
<1>1. /\ KeptInv(Gone)'
      /\ BlocksInv'
      /\ \A c \in Collectors : Kept(c) \subseteq Kept(c)'
  BY ActorKeeps
<1>2. A!ActorTypeOK' /\ ListingInv(a)'
  BY <1>1, ListStep, ReadFileStep, GetBlockStep, DeliverStep, RemoveFileStep,
     NextDirectoryStep, WakeStep DEF A!Cycle, A!EndOfListing, A!Abort
<1>3. delivered \subseteq delivered'
  BY ActorFiles
<1>4. ASSUME NEW b \in Actors PROVE ListingInv(b)'
  <2>1. CASE b = a
    BY <1>2, <2>1
  <2>2. CASE b # a
    <3>1. A!ActorTypeOK /\ ListingInv(b)
      BY DEF PipelineInv
    <3>2. /\ apc'[b] = apc[b] /\ turn'[b] = turn[b] /\ filePaths'[b] = filePaths[b]
          /\ at'[b] = at[b] /\ nextEvent'[b] = nextEvent[b]
      BY <2>2, <3>1, OtherActors
    <3> QED
      BY <1>1, <1>3, <3>1, <3>2, ListingFrame
  <2> QED
    BY <2>1, <2>2
<1> QED
  BY <1>1, <1>2, <1>4 DEF PipelineInv

\* The actors do not move while a collector does.
LEMMA CollectorStepInv ==
    ASSUME SafeDeployment, PipelineInv, [Next]_vars, UNCHANGED actorVars
    PROVE  PipelineInv'
<1>1. UNCHANGED <<delivered, apc, turn, filePaths, at, nextEvent>>
  BY DEF actorVars
<1>2. /\ KeptInv(Gone)'
      /\ BlocksInv'
      /\ \A c \in Collectors : Kept(c) \subseteq Kept(c)'
  BY <1>1, CollectorKeeps
<1>3. A!ActorTypeOK'
  BY <1>1 DEF PipelineInv, A!ActorTypeOK, A!Events
<1>4. ASSUME NEW a \in Actors PROVE ListingInv(a)'
  <2>1. A!ActorTypeOK /\ ListingInv(a)
    BY DEF PipelineInv
  <2> QED
    BY <1>1, <1>2, <2>1, ListingFrame
<1> QED
  BY <1>2, <1>3, <1>4 DEF PipelineInv

\* A process that dies holds no listing any more.
LEMMA PipelineCrashInv ==
    ASSUME SafeDeployment, PipelineInv, PipelineCrash PROVE PipelineInv'
<1>1. /\ Next
      /\ apc' = [a \in Actors |-> "down"] /\ turn' = [a \in Actors |-> 1]
      /\ filePaths' = [a \in Actors |-> <<>>] /\ at' = [a \in Actors |-> 1]
      /\ nextEvent' = [a \in Actors |-> 1] /\ UNCHANGED delivered
  BY DEF PipelineCrash, A!ActorCrash, Next
<1>2. KeptInv(Gone)' /\ BlocksInv'
  BY <1>1, CollectorKeeps
<1>3. delivered \subseteq A!Events
  BY DEF PipelineInv, A!ActorTypeOK
<1>4. \A a \in Actors : 1 \in DOMAIN CollectorsOf[a]
  BY ActorAssumption
<1>5. A!ActorTypeOK'
  BY <1>1, <1>3, <1>4, ActorAssumption DEF A!ActorTypeOK, A!Events
<1>6. ASSUME NEW a \in Actors PROVE ListingInv(a)'
  <2>1. filePaths'[a] = <<>> /\ at'[a] = 1 /\ apc'[a] = "down"
    BY <1>1
  <2> QED
    BY <2>1 DEF ListingInv, Sorted
<1> QED
  BY <1>2, <1>5, <1>6 DEF PipelineInv

LEMMA PipelineRestartInv ==
    ASSUME SafeDeployment, PipelineInv, PipelineRestart PROVE PipelineInv'
<1>1. /\ Next /\ UNCHANGED dir
      /\ apc' = [a \in Actors |-> "list"]
      /\ UNCHANGED <<delivered, turn, filePaths, at, nextEvent>>
  BY DEF PipelineRestart, A!ActorRestart, Next, Restart, diskVars
<1>2. KeptInv(Gone)' /\ BlocksInv'
  BY <1>1, CollectorKeeps
<1>3. A!ActorTypeOK'
  BY <1>1 DEF PipelineInv, A!ActorTypeOK, A!Events
<1>4. ASSUME NEW a \in Actors PROVE ListingInv(a)'
  <2>1. A!Directory(a)' = A!Directory(a) /\ \A c : Kept(c)' = Kept(c)
    BY <1>1 DEF A!Directory, Kept, Saved, A!Handled
  <2>2. ListingInv(a) /\ apc'[a] = "list"
    BY <1>1 DEF PipelineInv
  <2> QED
    BY <1>1, <2>1, <2>2 DEF ListingInv, A!Handled, Sorted
<1> QED
  BY <1>2, <1>3, <1>4 DEF PipelineInv

LEMMA InitPipelineInv == ASSUME SafeDeployment, PipelineInit PROVE PipelineInv
<1>1. Init /\ A!ActorInit
  BY DEF PipelineInit
<1>2. KeptInv(Gone)
  <2>1. PICK gone : gone = Gone
    OBVIOUS
  <2>2. KeptInv(gone)
    BY <1>1, InitKept
  <2> QED
    BY <2>1, <2>2
<1>3. BlocksInv
  BY <1>1 DEF Init, BlocksInv
<1>4. \A a \in Actors : 1 \in DOMAIN CollectorsOf[a]
  BY ActorAssumption
<1>5. A!ActorTypeOK
  BY <1>1, <1>4, ActorAssumption DEF A!ActorInit, A!ActorTypeOK
<1>6. ASSUME NEW a \in Actors PROVE ListingInv(a)
  <2>1. filePaths[a] = <<>> /\ at[a] = 1 /\ apc[a] = "list"
    BY <1>1 DEF A!ActorInit
  <2> QED
    BY <2>1 DEF ListingInv, Sorted
<1> QED
  BY <1>2, <1>3, <1>5, <1>6 DEF PipelineInv

LEMMA NextPipelineInv ==
    ASSUME SafeDeployment, PipelineInv, [PipelineNext]_pipelineVars PROVE PipelineInv'
<1>1. CASE CollectorStep
  <2>1. Next /\ UNCHANGED actorVars
    BY <1>1 DEF CollectorStep, Next
  <2> QED
    BY <2>1, CollectorStepInv
<1>2. CASE ActorStep
  BY <1>2, ActorStepInv DEF ActorStep, A!ActorNext
<1>3. CASE PipelineCrash
  BY <1>3, PipelineCrashInv
<1>4. CASE PipelineRestart
  BY <1>4, PipelineRestartInv
<1>5. CASE UNCHANGED pipelineVars
  <2>1. UNCHANGED vars /\ UNCHANGED actorVars
    BY <1>5 DEF pipelineVars
  <2> QED
    BY <2>1, CollectorStepInv
<1> QED
  BY <1>1, <1>2, <1>3, <1>4, <1>5 DEF PipelineNext
-----------------------------------------------------------------------------
\* In a safe deployment the inductive invariant of the process always holds.
THEOREM PipelineInvariance == ASSUME SafeDeployment PROVE PipelineSpec => []PipelineInv
<1>1. PipelineInit => PipelineInv
  BY InitPipelineInv
<1>2. PipelineInv /\ [PipelineNext]_pipelineVars => PipelineInv'
  BY NextPipelineInv
<1> QED
  BY <1>1, <1>2, PTL DEF PipelineSpec

\* No event at or below event.meta is without its file before it has been handled,
\* and the variables of collectors and actors keep to their types.
THEOREM PipelineSkipsNothing == ASSUME SafeDeployment PROVE PipelineSpec => []NothingSkipped
<1>1. PipelineInv => NothingSkipped
  <2> SUFFICES ASSUME PipelineInv PROVE NothingSkipped
    OBVIOUS
  <2>1. PipelineTypeOK
    BY DEF PipelineInv, KeptInv, PipelineTypeOK
  <2>2. ASSUME NEW c \in Collectors PROVE Kept(c) = Saved(c) \cup Gone[c]
    BY DEF Kept, Gone
  <2>3. \A c \in Collectors : HeldInv(c, Gone)
    BY DEF PipelineInv, KeptInv
  <2> QED
    BY <2>1, <2>2, <2>3 DEF NothingSkipped, HeldInv
<1> QED
  BY <1>1, PipelineInvariance, PTL

\* An actor goes through its listing in the order of the blocks and leaves no file
\* of it behind unhandled, whichever actors share the directory.
THEOREM ListingInOrder == ASSUME SafeDeployment PROVE PipelineSpec => []HandledInOrder
<1>1. PipelineInv => HandledInOrder
  <2> SUFFICES ASSUME PipelineInv, NEW a \in Actors
               PROVE  /\ \A i, j \in DOMAIN filePaths[a] :
                            i < j => filePaths[a][i] < filePaths[a][j]
                      /\ \A i \in 1 .. at[a] - 1 :
                            A!Handled(A!Directory(a), filePaths[a][i])
    BY DEF HandledInOrder
  <2>1. ListingInv(a) /\ A!ActorTypeOK
    BY DEF PipelineInv
  <2>2. DOMAIN filePaths[a] = 1 .. Len(filePaths[a])
    BY <2>1 DEF A!ActorTypeOK
  <2> QED
    BY <2>1, <2>2 DEF ListingInv, Sorted
<1> QED
  BY <1>1, PipelineInvariance, PTL

\* A saved block leaves its directory only once all its events are handled.
THEOREM SavedIsSafe == ASSUME SafeDeployment PROVE PipelineSpec => SavedUntilHandled
<1>1. ASSUME PipelineInv, [PipelineNext]_pipelineVars,
             NEW c \in Collectors, NEW b \in Saved(c)
      PROVE  b \in Saved(c)' \/ A!Handled(c, b)
  <2>1. CASE ActorStep
    BY <1>1, <2>1, ActorFiles DEF ActorStep, A!ActorNext
  <2>2. CASE [Next]_vars
    <3>1. PICK gone : gone = Gone
      OBVIOUS
    <3>2. KeptInv(gone)
      BY <1>1, <3>1 DEF PipelineInv
    <3> QED
      BY <1>1, <2>2, <3>2, SavedGrows
  <2> QED
    BY <1>1, <2>1, <2>2 DEF PipelineNext, CollectorStep, PipelineCrash, PipelineRestart,
       Next, pipelineVars
<1>2. PipelineInv /\ [PipelineNext]_pipelineVars =>
         [\A c \in Collectors : \A b \in Saved(c) :
             b \in Saved(c)' \/ A!Handled(c, b)]_pipelineVars
  BY <1>1
<1> QED
  BY <1>2, PipelineInvariance, PTL DEF PipelineSpec, SavedUntilHandled
-----------------------------------------------------------------------------
(***************************************************************************)
(* The steps of the process as steps of EventFeed.                         *)
(***************************************************************************)
\* An actor's step neither adds to what is kept nor takes from it.
LEMMA ActorKeepsAll ==
    ASSUME PipelineInv, NEW a \in Actors, A!Cycle(a), UNCHANGED collectorVars,
           NEW c \in Collectors
    PROVE  Kept(c)' = Kept(c) /\ Cursor(c)' = Cursor(c)
<1>1. Kept(c) \subseteq Kept(c)'
  BY ActorKeeps
<1>2. UNCHANGED <<meta, pc, latestBlockNumber>>
  BY DEF collectorVars, cycleVars
<1>3. A!ActorTypeOK /\ ListingInv(a) /\ dir' \in [Collectors -> SUBSET Files]
      /\ dir'[c] \subseteq dir[c]
  BY ActorFiles DEF PipelineInv
<1>4. Saved(c)' \subseteq Saved(c)
  BY <1>3, SavedInMember DEF Saved
<1>5. CASE UNCHANGED delivered
  <2>1. Kept(c)' \subseteq Kept(c)
    BY <1>4, <1>5 DEF Kept, A!Handled
  <2> QED
    BY <1>1, <1>2, <2>1 DEF Cursor
<1>6. ASSUME NEW k \in 1 .. EventsPerBlock, A!Deliver(a, k)
      PROVE  Kept(c)' \subseteq Kept(c)
  <2>0. PICK D, B : D = A!Directory(a) /\ B = A!Block(a)
    OBVIOUS
  <2>1. /\ apc[a] = "event"
        /\ delivered' = delivered \cup {A!Event(D, B, k)}
        /\ UNCHANGED dir
    BY <1>6, <2>0 DEF A!Deliver
  <2>2. B \in Kept(D)
    BY <1>3, <2>0, <2>1 DEF ListingInv, A!ActorTypeOK, A!Block
  <2>3. ASSUME NEW b \in 1 .. MaxHead, A!Handled(c, b)', ~A!Handled(c, b)
        PROVE  c = D /\ b = B
    <3>1. PICK j \in 1 .. EventsPerBlock : A!Event(c, b, j) \notin delivered
      BY <2>3 DEF A!Handled
    <3>2. A!Event(c, b, j) \in delivered'
      BY <2>3 DEF A!Handled, A!Event
    <3>3. A!Event(c, b, j) = A!Event(D, B, k)
      BY <2>1, <3>1, <3>2
    <3> QED
      BY <3>3 DEF A!Event
  <2>4. \A b \in 1 .. MaxHead : A!Handled(c, b)' => A!Handled(c, b) \/ b \in Kept(c)
    BY <2>2, <2>3
  <2> QED
    BY <1>4, <2>4 DEF Kept
<1>7. UNCHANGED delivered \/ \E k \in 1 .. EventsPerBlock : A!Deliver(a, k)
  BY DEF A!Cycle, A!List, A!ReadFile, A!GetBlock, A!RemoveFile, A!EndOfListing, A!Abort,
         A!Wake, A!NextDirectory
<1> QED
  BY <1>1, <1>2, <1>5, <1>6, <1>7 DEF Cursor

\* A collector's step does to what is kept what it does to what is saved.
LEMMA KeptFeedNext ==
    ASSUME SafeDeployment, PipelineInv, [Next]_vars, UNCHANGED delivered
    PROVE  [KeptFeed!Next]_(KeptFeed!vars)
<1>0. PICK gone : gone = Gone
  OBVIOUS
<1>1. KeptInv(gone) /\ \A c \in Collectors : Kept(c) = Saved(c) \cup gone[c]
  BY <1>0 DEF PipelineInv, Kept, Gone
<1>2. \A c \in Collectors : Kept(c)' = Saved(c)' \cup gone[c]
  BY <1>0 DEF Kept, Gone, A!Handled
<1>3. CASE Idles
  <2>1. UNCHANGED <<[d \in Collectors |-> Kept(d)], [d \in Collectors |-> Cursor(d)]>>
    BY <1>1, <1>2, <1>3 DEF Idles
  <2>2. CASE Mine
    BY <2>1, <2>2 DEF Mine, KeptFeed!Mine, KeptFeed!Next
  <2>3. CASE UNCHANGED <<head, logs>>
    BY <2>1, <2>3 DEF KeptFeed!vars
  <2>4. Mine \/ UNCHANGED <<head, logs>>
    BY <1>1, StepEffect DEF Saves, Advances, Forgets
  <2> QED
    BY <2>2, <2>3, <2>4
<1>4. ASSUME NEW c \in Collectors, NEW b, Saves(c, b) PROVE KeptFeed!Save(c)
  <2>1. UNCHANGED [d \in Collectors |-> Cursor(d)]
    BY <1>4 DEF Saves
  <2>2. \A d \in Collectors : Kept(d)' = IF d = c THEN Kept(d) \cup {b} ELSE Kept(d)
    BY <1>1, <1>2, <1>4 DEF Saves
  <2>3. [d \in Collectors |-> Kept(d)]' =
           [[d \in Collectors |-> Kept(d)] EXCEPT ![c] = @ \cup {b}]
    BY <2>2
  <2> QED
    BY <1>4, <2>1, <2>3 DEF Saves, KeptFeed!Save
<1>5. ASSUME NEW c \in Collectors, NEW n, Advances(c, n, gone) PROVE KeptFeed!Advance(c)
  <2>1. UNCHANGED [d \in Collectors |-> Kept(d)]
    BY <1>1, <1>2, <1>5 DEF Advances
  <2>2. [d \in Collectors |-> Cursor(d)]' =
           [[d \in Collectors |-> Cursor(d)] EXCEPT ![c] = n]
    BY <1>5 DEF Advances
  <2> QED
    BY <1>1, <1>5, <2>1, <2>2 DEF Advances, KeptFeed!Advance
<1>6. ASSUME NEW lost \in SUBSET Collectors, Forgets(lost) PROVE KeptFeed!Forget
  <2>1. UNCHANGED [d \in Collectors |-> Kept(d)]
    BY <1>1, <1>2, <1>6 DEF Forgets
  <2>2. [d \in Collectors |-> Cursor(d)]' =
           [d \in Collectors |-> IF d \in lost THEN StartBlockNumber[d]
                                ELSE [e \in Collectors |-> Cursor(e)][d]]
    BY <1>6 DEF Forgets
  <2> QED
    BY <1>6, <2>1, <2>2 DEF Forgets, KeptFeed!Forget
<1> QED
  BY <1>1, <1>3, <1>4, <1>5, <1>6, StepEffect DEF KeptFeed!Next

LEMMA KeptFeedInit ==
    ASSUME SafeDeployment, PipelineInit PROVE KeptFeed!Init
<1> USE ConfigAssumption
<1>1. Init /\ delivered = {}
  BY DEF PipelineInit, A!ActorInit
<1>2. head \in Nat /\ logs \in [Collectors -> SUBSET (1 .. head)]
  BY <1>1 DEF Init
<1>3. ASSUME NEW c \in Collectors PROVE Kept(c) = {} /\ Cursor(c) = StartBlockNumber[c]
  <2>1. Saved(c) = {} /\ Cursor(c) = StartBlockNumber[c]
    BY <1>1 DEF Init, Saved, SavedIn, Cursor, Larger
  <2>2. 1 \in 1 .. EventsPerBlock
    BY ActorAssumption
  <2>3. \A b : ~A!Handled(c, b)
    BY <1>1, <2>2 DEF A!Handled
  <2> QED
    BY <2>1, <2>3 DEF Kept
<1>4. [c \in Collectors |-> Cursor(c)] = StartBlockNumber
  BY <1>3
<1> QED
  BY <1>2, <1>3, <1>4 DEF KeptFeed!Init

\* The process implements EventFeed of what is kept: whatever the actors handle and
\* remove, fail at or leave behind, the cursor passes only blocks whose events wait
\* in a file or have been handled, and nothing uncommitted is kept.
THEOREM PipelineFeeds ==
    ASSUME SafeDeployment PROVE PipelineSpec => PipelineImplementsFeed
<1>1. PipelineInit => KeptFeed!Init
  BY KeptFeedInit
<1>2. PipelineInv /\ [PipelineNext]_pipelineVars => [KeptFeed!Next]_(KeptFeed!vars)
  <2> SUFFICES ASSUME PipelineInv, [PipelineNext]_pipelineVars
               PROVE  [KeptFeed!Next]_(KeptFeed!vars)
    OBVIOUS
  <2>1. CASE ActorStep
    <3>1. PICK a \in Actors : A!Cycle(a) /\ UNCHANGED collectorVars
      BY <2>1 DEF ActorStep, A!ActorNext
    <3>2. UNCHANGED <<head, logs>>
      BY <3>1 DEF collectorVars, nodeVars
    <3>3. \A c \in Collectors : Kept(c)' = Kept(c) /\ Cursor(c)' = Cursor(c)
      BY <3>1, ActorKeepsAll
    <3>4. UNCHANGED <<[d \in Collectors |-> Kept(d)], [d \in Collectors |-> Cursor(d)]>>
      BY <3>3
    <3> QED
      BY <3>2, <3>4 DEF KeptFeed!vars
  <2>2. CASE [Next]_vars /\ UNCHANGED delivered
    BY <2>2, KeptFeedNext
  <2>3. ActorStep \/ ([Next]_vars /\ UNCHANGED delivered)
    <3>1. CASE CollectorStep
      BY <3>1 DEF CollectorStep, Next, actorVars
    <3>2. CASE PipelineCrash \/ PipelineRestart
      BY <3>2 DEF PipelineCrash, PipelineRestart, A!ActorCrash, A!ActorRestart, Next
    <3>3. CASE UNCHANGED pipelineVars
      BY <3>3 DEF pipelineVars, actorVars
    <3> QED
      BY <3>1, <3>2, <3>3 DEF PipelineNext
  <2> QED
    BY <2>1, <2>2, <2>3
<1> QED
  BY <1>1, <1>2, PipelineInvariance, PTL
     DEF PipelineSpec, PipelineImplementsFeed, KeptFeed!Spec
-----------------------------------------------------------------------------
(***************************************************************************)
(* Decoding (EventDecode): which place is the n-th of a set of places.     *)
(***************************************************************************)
\* How many places of a set are not behind this one.
Rank(P, i) == Cardinality({j \in P : j <= i})

\* Ranks are counted one place after the other.
LEMMA RankSteps ==
    ASSUME NEW k \in Nat, NEW P, P \subseteq 1 .. k
    PROVE  /\ Cardinality(P) \in Nat
           /\ Rank(P, 0) = 0 /\ Rank(P, k) = Cardinality(P)
           /\ \A i \in 0 .. k : Rank(P, i) \in Nat
           /\ \A i \in 1 .. k : Rank(P, i) = Rank(P, i - 1) + (IF i \in P THEN 1 ELSE 0)
<1>1. \A Q : Q \subseteq 1 .. k => IsFiniteSet(Q) /\ Cardinality(Q) \in Nat
  <2>1. IsFiniteSet(1 .. k)
    BY FS_Interval
  <2> QED
    BY <2>1, FS_Subset, FS_CardinalityType
<1>2. \A i : {j \in P : j <= i} \subseteq 1 .. k
  OBVIOUS
<1>0. \A j \in P : j \in Int /\ 1 <= j /\ j <= k
  OBVIOUS
<1>3. Rank(P, 0) = 0
  <2>1. {j \in P : j <= 0} = {}
    <3>1. \A j \in P : ~(j <= 0)
      BY <1>0
    <3> QED
      BY <3>1, Zenon
  <2> QED
    BY <2>1, FS_EmptySet DEF Rank
<1>4. Rank(P, k) = Cardinality(P)
  <2>1. {j \in P : j <= k} = P
    BY <1>0
  <2> QED
    BY <2>1 DEF Rank
<1>5. \A i \in 0 .. k : Rank(P, i) \in Nat
  BY <1>1, <1>2 DEF Rank
<1>6. ASSUME NEW i \in 1 .. k PROVE Rank(P, i) = Rank(P, i - 1) + (IF i \in P THEN 1 ELSE 0)
  <2> DEFINE Upto(n) == {j \in P : j <= n}
  <2>1. CASE i \in P
    <3>1. Upto(i) = Upto(i - 1) \cup {i} /\ i \notin Upto(i - 1)
      <4>1. \A j \in P : j <= i <=> j <= i - 1 \/ j = i
        BY <1>0
      <4>2. i <= i /\ ~(i <= i - 1)
        OBVIOUS
      <4> QED
        BY <2>1, <4>1, <4>2, Zenon
    <3>2. IsFiniteSet(Upto(i - 1))
      BY <1>1, <1>2
    <3> HIDE DEF Upto
    <3>3. Cardinality(Upto(i)) = Cardinality(Upto(i - 1)) + 1
      BY <3>1, <3>2, FS_AddElement
    <3> QED
      BY <2>1, <3>3 DEF Rank, Upto
  <2>2. CASE i \notin P
    <3>1. Upto(i) = Upto(i - 1)
      <4>1. \A j \in P : j <= i <=> j <= i - 1
        BY <1>0, <2>2
      <4> QED
        BY <4>1, Zenon
    <3>2. Rank(P, i) = Rank(P, i - 1) /\ Rank(P, i - 1) \in Nat
      BY <1>1, <1>2, <3>1 DEF Rank
    <3> QED
      BY <2>2, <3>2
  <2> QED
    BY <2>1, <2>2
<1> QED
  BY <1>1, <1>3, <1>4, <1>5, <1>6

\* A later place has no smaller rank.
LEMMA RankGrows ==
    ASSUME NEW k \in Nat, NEW P, P \subseteq 1 .. k, NEW i \in 0 .. k, NEW j \in i .. k
    PROVE  Rank(P, i) <= Rank(P, j)
<1>1. \A n \in 0 .. k : Rank(P, n) \in Nat
  BY RankSteps
<1>2. \A n \in 1 .. k : Rank(P, n) = Rank(P, n - 1) + (IF n \in P THEN 1 ELSE 0)
  BY RankSteps
<1> DEFINE Good == {n \in 0 .. k : i <= n => Rank(P, i) <= Rank(P, n)}
<1>3. 0 \in Good
  BY <1>1
<1>4. \A n \in 1 .. k : n - 1 \in Good => n \in Good
  BY <1>1, <1>2
<1> HIDE DEF Good
<1>5. \A n \in 0 .. k : n \in Good
  BY ONLY k \in Nat, <1>3, <1>4, NumbersUpTo
<1> QED
  BY <1>5 DEF Good

\* Places and ranks are the inverse of each other.
LEMMA Places ==
    ASSUME NEW k \in Nat, NEW P, P \subseteq 1 .. k
    PROVE  /\ \A n \in 1 .. Cardinality(P) : Place(P, n) \in P /\ Rank(P, Place(P, n)) = n
           /\ \A i \in P : Rank(P, i) \in 1 .. Cardinality(P) /\ Place(P, Rank(P, i)) = i
<1>1. /\ Cardinality(P) \in Nat /\ Rank(P, 0) = 0 /\ Rank(P, k) = Cardinality(P)
      /\ \A i \in 0 .. k : Rank(P, i) \in Nat
      /\ \A i \in 1 .. k : Rank(P, i) = Rank(P, i - 1) + (IF i \in P THEN 1 ELSE 0)
  BY RankSteps
<1>2. \A n \in 1 .. Cardinality(P) : \E i \in P : Rank(P, i) = n
  <2> DEFINE Good == {m \in 0 .. k : \A n \in 1 .. Rank(P, m) : \E i \in P : Rank(P, i) = n}
  <2>1. 0 \in Good
    BY <1>1
  <2>2. \A m \in 1 .. k : m - 1 \in Good => m \in Good
    BY <1>1
  <2> HIDE DEF Good
  <2>3. \A m \in 0 .. k : m \in Good
    BY ONLY k \in Nat, <2>1, <2>2, NumbersUpTo
  <2>4. k \in Good
    BY <2>3
  <2> QED
    BY <1>1, <2>4 DEF Good
<1>3. \A i, j \in P : i < j => Rank(P, i) < Rank(P, j)
  <2> SUFFICES ASSUME NEW i \in P, NEW j \in P, i < j PROVE Rank(P, i) < Rank(P, j)
    OBVIOUS
  <2>1. i \in 0 .. k /\ j - 1 \in i .. k /\ j \in 1 .. k
    OBVIOUS
  <2>2. Rank(P, i) <= Rank(P, j - 1)
    BY <2>1, RankGrows
  <2>3. Rank(P, j) = Rank(P, j - 1) + 1 /\ Rank(P, j - 1) \in Nat /\ Rank(P, i) \in Nat
    BY <1>1, <2>1
  <2> QED
    BY <2>2, <2>3
<1>4. ASSUME NEW n \in 1 .. Cardinality(P)
      PROVE  Place(P, n) \in P /\ Rank(P, Place(P, n)) = n
  <2>1. \E i \in P : Cardinality({j \in P : j <= i}) = n
    BY <1>2 DEF Rank
  <2> QED
    BY <2>1 DEF Place, Rank
<1>5. \A i \in P : Rank(P, i) \in 1 .. Cardinality(P)
  <2> SUFFICES ASSUME NEW i \in P PROVE Rank(P, i) \in 1 .. Cardinality(P)
    OBVIOUS
  <2>1. i \in 1 .. k /\ i \in 0 .. k /\ k \in i .. k /\ i - 1 \in 0 .. k
    OBVIOUS
  <2>2. Rank(P, i) <= Rank(P, k)
    BY <2>1, RankGrows
  <2>3. Rank(P, i) = Rank(P, i - 1) + 1 /\ Rank(P, i - 1) \in Nat
    BY <1>1, <2>1
  <2> QED
    BY <1>1, <2>2, <2>3
<1>6. ASSUME NEW i \in P PROVE Place(P, Rank(P, i)) = i
  <2> DEFINE j == Place(P, Rank(P, i))
  <2>1. j \in P /\ Rank(P, j) = Rank(P, i) /\ Rank(P, i) \in Nat
    BY <1>4, <1>5
  <2> HIDE DEF j
  <2>2. j \in Nat /\ i \in Nat
    BY <2>1
  <2>3. ~(i < j) /\ ~(j < i)
    BY <1>3, <2>1
  <2> QED
    BY <2>2, <2>3 DEF j
<1> QED
  BY <1>4, <1>5, <1>6

\* What is picked of a sequence is a sequence, of the elements at these places.
LEMMA PickedElements ==
    ASSUME NEW S, NEW s \in Seq(S), NEW P, P \subseteq 1 .. Len(s)
    PROVE  /\ Cardinality(P) \in Nat
           /\ Picked(s, P) \in Seq(S) /\ Len(Picked(s, P)) = Cardinality(P)
           /\ \A n \in 1 .. Cardinality(P) :
                Place(P, n) \in P /\ Picked(s, P)[n] = s[Place(P, n)] /\ Picked(s, P)[n] \in S
<1>1. Len(s) \in Nat /\ \A i \in 1 .. Len(s) : s[i] \in S
  BY LenProperties, ElementOfSeq
<1>2. Cardinality(P) \in Nat
  BY <1>1, RankSteps
<1>3. \A n \in 1 .. Cardinality(P) : Place(P, n) \in P
  BY <1>1, Places
<1>4. \A n \in 1 .. Cardinality(P) : Picked(s, P)[n] = s[Place(P, n)] /\ Picked(s, P)[n] \in S
  BY <1>1, <1>3 DEF Picked
<1>5. Picked(s, P) \in [1 .. Cardinality(P) -> S]
  BY <1>1, <1>3 DEF Picked
<1>6. Picked(s, P) \in Seq(S) /\ Len(Picked(s, P)) = Cardinality(P)
  <2> DEFINE t == Picked(s, P)
             c == Cardinality(P)
  <2>1. t \in [1 .. c -> S] /\ c \in Nat
    BY <1>2, <1>5
  <2> HIDE DEF t, c
  <2>2. t \in Seq(S)
    BY <2>1, IsASeq
  <2>3. Len(t) = c
    BY <2>1, <2>2, LenProperties
  <2> QED
    BY <2>2, <2>3 DEF t, c
<1> QED
  BY <1>2, <1>3, <1>4, <1>6

\* The places of a sequence that something has been put before, at a place that is in Q or not.
Shifted(P, Q, k) ==
    P \subseteq 1 .. k /\ Q \subseteq 1 .. k + 1 /\ \A i \in 1 .. k : i + 1 \in Q <=> i \in P

First(Q) == IF 1 \in Q THEN 1 ELSE 0

\* Every rank grows by what is put before, and every place by one.
LEMMA ShiftedPlaces ==
    ASSUME NEW k \in Nat, NEW P, NEW Q, Shifted(P, Q, k)
    PROVE  /\ Cardinality(Q) = Cardinality(P) + First(Q)
           /\ \A i \in 0 .. k : Rank(Q, i + 1) = Rank(P, i) + First(Q)
           /\ \A n \in 1 .. Cardinality(P) : Place(Q, n + First(Q)) = Place(P, n) + 1
<1>0. P \subseteq 1 .. k /\ Q \subseteq 1 .. k + 1 /\ \A i \in 1 .. k : i + 1 \in Q <=> i \in P
  BY DEF Shifted
<1> DEFINE first == IF 1 \in Q THEN 1 ELSE 0
<1>1. /\ Rank(P, 0) = 0 /\ Rank(P, k) = Cardinality(P) /\ Cardinality(P) \in Nat
      /\ \A i \in 0 .. k : Rank(P, i) \in Nat
      /\ \A i \in 1 .. k : Rank(P, i) = Rank(P, i - 1) + (IF i \in P THEN 1 ELSE 0)
  BY <1>0, RankSteps
<1>2. /\ Rank(Q, 0) = 0 /\ Rank(Q, k + 1) = Cardinality(Q) /\ Cardinality(Q) \in Nat
      /\ \A i \in 0 .. k + 1 : Rank(Q, i) \in Nat
      /\ \A i \in 1 .. k + 1 : Rank(Q, i) = Rank(Q, i - 1) + (IF i \in Q THEN 1 ELSE 0)
  <2>1. k + 1 \in Nat
    OBVIOUS
  <2> QED
    BY <1>0, <2>1, RankSteps
<1>3. \A i \in 0 .. k : Rank(Q, i + 1) = Rank(P, i) + first
  <2> DEFINE Good == {i \in 0 .. k : Rank(Q, i + 1) = Rank(P, i) + first}
  <2>1. 0 \in Good
    <3>1. 1 \in 1 .. k + 1
      OBVIOUS
    <3>2. Rank(Q, 1) = Rank(Q, 1 - 1) + first
      BY <1>2, <3>1
    <3> QED
      BY <1>1, <1>2, <3>2
  <2>2. \A i \in 1 .. k : i - 1 \in Good => i \in Good
    <3> SUFFICES ASSUME NEW i \in 1 .. k, i - 1 \in Good PROVE i \in Good
      OBVIOUS
    <3>1. Rank(Q, i) = Rank(P, i - 1) + first
      OBVIOUS
    <3>2. i + 1 \in 1 .. k + 1 /\ (i + 1) - 1 = i
      OBVIOUS
    <3>3. Rank(Q, i + 1) = Rank(Q, i) + (IF i \in P THEN 1 ELSE 0)
      BY <1>0, <1>2, <3>2
    <3>4. Rank(P, i) = Rank(P, i - 1) + (IF i \in P THEN 1 ELSE 0) /\ Rank(P, i - 1) \in Nat
      BY <1>1
    <3> QED
      BY <3>1, <3>3, <3>4
  <2> HIDE DEF Good, first
  <2>3. \A i \in 0 .. k : i \in Good
    BY ONLY k \in Nat, <2>1, <2>2, NumbersUpTo
  <2> QED
    BY <2>3 DEF Good
<1>4. Cardinality(Q) = Cardinality(P) + first
  BY <1>1, <1>2, <1>3
<1>5. ASSUME NEW n \in 1 .. Cardinality(P) PROVE Place(Q, n + first) = Place(P, n) + 1
  <2>1. Place(P, n) \in P /\ Rank(P, Place(P, n)) = n
    BY <1>0, Places
  <2>2. Place(P, n) + 1 \in Q /\ Rank(Q, Place(P, n) + 1) = n + first
    <3>1. Place(P, n) \in 1 .. k /\ Place(P, n) \in 0 .. k
      <4>1. \A i \in P : i \in 1 .. k /\ i \in 0 .. k
        BY <1>0
      <4> QED
        BY <2>1, <4>1, Zenon
    <3> QED
      BY <1>0, <1>3, <2>1, <3>1
  <2>3. Place(Q, Rank(Q, Place(P, n) + 1)) = Place(P, n) + 1
    <3>1. k + 1 \in Nat
      OBVIOUS
    <3>2. \A j \in Q : Place(Q, Rank(Q, j)) = j
      BY ONLY <1>0, <3>1, Places
    <3> QED
      BY <2>2, <3>2, Zenon
  <2> QED
    BY <2>2, <2>3
<1> QED
  BY <1>3, <1>4, <1>5 DEF First

\* A sequence that something has been put before.
LEMMA WithFirst ==
    ASSUME NEW S, NEW e, NEW s \in Seq(S)
    PROVE  /\ <<e>> \o s \in Seq(S \cup {e})
           /\ Len(<<e>> \o s) = Len(s) + 1 /\ (<<e>> \o s)[1] = e
           /\ \A n \in 1 .. Len(s) : (<<e>> \o s)[n + 1] = s[n]
<1>1. PICK U : U = S \cup {e}
  OBVIOUS
<1>2. PICK one : one = <<e>>
  OBVIOUS
<1>3. one \in Seq(U) /\ Len(one) = 1 /\ one[1] = e
  BY <1>1, <1>2
<1>4. Len(s) \in Nat /\ s \in Seq(U)
  <2>1. Seq(S) \subseteq Seq(U)
    BY <1>1
  <2> QED
    BY <2>1, LenProperties
<1>5. /\ one \o s \in Seq(U) /\ Len(one \o s) = 1 + Len(s)
      /\ \A i \in 1 .. 1 + Len(s) : (one \o s)[i] = IF i <= 1 THEN one[i] ELSE s[i - 1]
  <2> HIDE <1>1
  <2>1. /\ one \o s \in Seq(U) /\ Len(one \o s) = Len(one) + Len(s)
        /\ \A i \in 1 .. Len(one) + Len(s) :
              (one \o s)[i] = IF i <= Len(one) THEN one[i] ELSE s[i - Len(one)]
    BY ONLY <1>3, <1>4, ConcatProperties
  <2> QED
    BY <1>3, <1>4, <2>1
<1>6. \A n \in 1 .. Len(s) : (one \o s)[n + 1] = s[n]
  <2> SUFFICES ASSUME NEW n \in 1 .. Len(s) PROVE (one \o s)[n + 1] = s[n]
    OBVIOUS
  <2>1. n + 1 \in 1 .. 1 + Len(s) /\ ~(n + 1 <= 1) /\ (n + 1) - 1 = n
    BY <1>4
  <2> QED
    BY <1>5, <2>1
<1>7. (one \o s)[1] = e /\ Len(one \o s) = Len(s) + 1
  BY <1>3, <1>4, <1>5
<1> QED
  BY <1>1, <1>2, <1>5, <1>6, <1>7
-----------------------------------------------------------------------------
(***************************************************************************)
(* What declarations are compiled to.                                      *)
(***************************************************************************)
Params == [type : Words \cup {""}, indexed : BOOLEAN, name : Words \cup {""}]
Compiled == [name : Words, inputs : Seq(Params)]

\* A parameter has a type and a name, though they may be empty.
LEMMA ParamType == \A words \in Seq(Words) : Param(words) \in Params
<1> SUFFICES ASSUME NEW words \in Seq(Words) PROVE Param(words) \in Params
  OBVIOUS
<1>1. Len(words) \in Nat /\ \A i \in 1 .. Len(words) : words[i] \in Words
  BY LenProperties, ElementOfSeq
<1>2. ASSUME Len(words) \in 1 .. 3 PROVE words[1] \in Words
  BY <1>1, <1>2
<1>3. ASSUME Len(words) \in 2 .. 3 PROVE Last(words) \in Words
  BY <1>1, <1>3 DEF Last
<1> DEFINE type == IF Len(words) \in 1 .. 3 THEN words[1] ELSE ""
           indexed == Len(words) = 3 /\ words[2] = "indexed"
           name == IF Len(words) \in 2 .. 3 THEN Last(words) ELSE ""
<1>4. type \in Words \cup {""} /\ name \in Words \cup {""} /\ indexed \in BOOLEAN
  BY <1>2, <1>3, Zenon
<1> HIDE DEF type, indexed, name
<1>5. [type |-> type, indexed |-> indexed, name |-> name] \in Params
  BY <1>4 DEF Params
<1> QED
  BY <1>5, Zenon DEF Param, type, indexed, name

\* A declaration of an event is compiled to a name and parameters.
LEMMA CompiledType == \A text \in Declarations : CompileEvent(text) \in Compiled
<1> SUFFICES ASSUME NEW text \in Declarations PROVE CompileEvent(text) \in Compiled
  OBVIOUS
<1>1. text.head \in Seq(Words) /\ Len(text.head) >= 2 /\ text.params \in Seq(Seq(Words))
  BY DEF Declarations
<1>2. text.head[2] \in Words
  BY <1>1, LenProperties, ElementOfSeq
<1> DEFINE k == Len(text.params)
           inputs == [i \in DOMAIN text.params |-> Param(text.params[i])]
<1>3. k \in Nat /\ DOMAIN text.params = 1 .. k /\ \A i \in 1 .. k : text.params[i] \in Seq(Words)
  BY <1>1, LenProperties, ElementOfSeq
<1>4. inputs \in [1 .. k -> Params]
  BY <1>3, ParamType
<1> HIDE DEF k, inputs
<1>5. inputs \in Seq(Params)
  BY <1>3, <1>4, IsASeq
<1>6. [name |-> text.head[2], inputs |-> inputs] \in Compiled
  BY <1>2, <1>5 DEF Compiled
<1> QED
  BY <1>6 DEF CompileEvent, inputs

\* A table has, under a signature, an event with that signature.
LEMMA TableOf ==
    ASSUME NEW texts \in Seq(Declarations), NEW sig \in DOMAIN CompileEvents(texts)
    PROVE  CompileEvents(texts)[sig] \in Compiled /\ EncodeSig(CompileEvents(texts)[sig]) = sig
<1> DEFINE P == {i \in DOMAIN texts : texts[i].head[1] = "event"}
           events == Picked(texts, P)
           k == Len(events)
           compiled == [i \in DOMAIN events |-> CompileEvent(events[i])]
           T == {i \in DOMAIN compiled : EncodeSig(compiled[i]) = sig}
           last == CHOOSE i \in DOMAIN compiled :
                      /\ EncodeSig(compiled[i]) = sig
                      /\ \A j \in DOMAIN compiled : EncodeSig(compiled[j]) = sig => j <= i
<1>1. k \in Nat /\ DOMAIN events = 1 .. k /\ \A i \in 1 .. k : events[i] \in Declarations
  <2>1. P \subseteq 1 .. Len(texts)
    BY LenProperties
  <2> HIDE DEF P
  <2>2. events \in Seq(Declarations)
    BY <2>1, PickedElements
  <2> HIDE DEF events
  <2> QED
    BY <2>2, LenProperties, ElementOfSeq
<1> HIDE DEF events, k
<1>2. DOMAIN compiled = 1 .. k /\ \A i \in 1 .. k : compiled[i] \in Compiled
  BY <1>1, CompiledType
<1>3. sig \in {EncodeSig(compiled[i]) : i \in DOMAIN compiled}
  BY DEF CompileEvents, events
<1>4. CompileEvents(texts)[sig] = compiled[last]
  BY <1>3 DEF CompileEvents, events
<1> HIDE DEF compiled
<1>5. \E m \in T : \A n \in T : n <= m
  <2>1. T # {}
    BY <1>3
  <2>2. T \subseteq 0 .. k
    BY <1>1, <1>2
  <2> HIDE DEF T
  <2> QED
    BY <1>1, <2>1, <2>2, Greatest
<1>6. last \in DOMAIN compiled /\ EncodeSig(compiled[last]) = sig
  <2>1. \E i \in DOMAIN compiled :
           /\ EncodeSig(compiled[i]) = sig
           /\ \A j \in DOMAIN compiled : EncodeSig(compiled[j]) = sig => j <= i
    BY <1>5
  <2> QED
    BY <2>1
<1> QED
  BY <1>2, <1>4, <1>6

\* So have the tables of a collection.
LEMMA Tables ==
    ASSUME interface \in Interfaces \cup {<<>>}, NEW a \in DOMAIN EventMapper,
           NEW sig \in DOMAIN EventMapper[a]
    PROVE  EventMapper[a][sig] \in Compiled /\ EncodeSig(EventMapper[a][sig]) = sig
<1>1. a \in DOMAIN interface /\ EventMapper[a] = CompileEvents(interface[a])
  BY DEF EventMapper
<1>2. interface[a] \in Seq(Declarations)
  <2>1. interface # <<>>
    <3>1. PICK none : none = <<>>
      OBVIOUS
    <3>2. DOMAIN none = {}
      BY <3>1
    <3> QED
      BY <1>1, <3>1, <3>2
  <2>2. interface \in [DOMAIN interface -> Seq(Declarations)]
    BY <2>1, InterfacesAssumption
  <2> QED
    BY <1>1, <2>2
<1> QED
  BY <1>1, <1>2, TableOf
-----------------------------------------------------------------------------
(***************************************************************************)
(* Logs as the chain has them.                                             *)
(***************************************************************************)
\* The arguments of an event, and what is emitted with them.
ArgsOf(event) ==
    {args \in [DOMAIN event.inputs -> Arguments] :
        \A i \in DOMAIN args : Suits(args[i], event.inputs[i].type)}

Emission(event, args, address, block, index) ==
    [event |-> event, args |-> args, log |-> Log(event, args, address, block, index)]

\* The places of the parameters that are indexed, and of the others.
InTopics(inputs) == {i \in DOMAIN inputs : inputs[i].indexed}
InData(inputs) == {i \in DOMAIN inputs : ~inputs[i].indexed}

\* The topic of a parameter.
Topic(event, args, i) == IF Static(event.inputs[i].type) THEN args[i] ELSE Hash(args[i])

\* An event has a sequence of parameters.
LEMMA InputsOf ==
    ASSUME NEW event \in Contract
    PROVE  /\ event.anonymous \in BOOLEAN /\ event.name \in Words
           /\ Len(event.inputs) \in Nat /\ DOMAIN event.inputs = 1 .. Len(event.inputs)
           /\ \A i \in 1 .. Len(event.inputs) :
                 event.inputs[i].type \in Words /\ event.inputs[i].indexed \in BOOLEAN
<1>1. event.inputs \in Seq([type : Words, indexed : BOOLEAN])
      /\ event.anonymous \in BOOLEAN /\ event.name \in Words
  BY InterfacesAssumption DEF Events
<1>2. /\ Len(event.inputs) \in Nat /\ DOMAIN event.inputs = 1 .. Len(event.inputs)
      /\ \A i \in 1 .. Len(event.inputs) : event.inputs[i] \in [type : Words, indexed : BOOLEAN]
  BY <1>1, LenProperties, ElementOfSeq
<1> QED
  BY <1>1, <1>2

\* The data of a log are the arguments that are not indexed, its topics the signature and the
\* indexed ones.
LEMMA LogOf ==
    ASSUME NEW event \in Contract, NEW args \in ArgsOf(event), NEW address, NEW block, NEW index
    PROVE  LET log == Log(event, args, address, block, index)
               I == InTopics(event.inputs)
               N == InData(event.inputs)
           IN  /\ log.address = address /\ log.block = block /\ log.index = index
               /\ Cardinality(I) \in Nat /\ Cardinality(N) \in Nat
               /\ Len(log.data) = Cardinality(N)
               /\ \A n \in 1 .. Cardinality(N) : log.data[n] = args[Place(N, n)]
               /\ ~event.anonymous =>
                     /\ Len(log.topics) = Cardinality(I) + 1 /\ log.topics[1] = TrueSig(event)
                     /\ \A n \in 1 .. Cardinality(I) :
                           log.topics[n + 1] = Topic(event, args, Place(I, n))
               /\ event.anonymous =>
                     /\ Len(log.topics) = Cardinality(I)
                     /\ \A n \in 1 .. Cardinality(I) :
                           log.topics[n] = Topic(event, args, Place(I, n))
<1> DEFINE log == Log(event, args, address, block, index)
           I == InTopics(event.inputs)
           N == InData(event.inputs)
           k == Len(event.inputs)
           topics == [i \in DOMAIN args |-> IF Static(event.inputs[i].type) THEN args[i] ELSE Hash(args[i])]
           picked == Picked(topics, I)
           S == Arguments \cup {Hash(v) : v \in Arguments}
<1>1. k \in Nat /\ DOMAIN event.inputs = 1 .. k
  BY InputsOf
<1>2. args \in [1 .. k -> Arguments] /\ DOMAIN args = 1 .. k
  BY <1>1 DEF ArgsOf
<1>3. I \subseteq 1 .. k /\ N \subseteq 1 .. k
  BY <1>1 DEF InTopics, InData
<1>4. args \in Seq(Arguments) /\ Len(args) = k
  <2> HIDE DEF k
  <2>1. args \in Seq(Arguments)
    BY <1>1, <1>2, IsASeq
  <2> QED
    BY <1>1, <1>2, <2>1, LenProperties
<1>5. topics \in [1 .. k -> S] /\ \A i \in 1 .. k : topics[i] = Topic(event, args, i)
  BY <1>2 DEF Topic
<1>6. topics \in Seq(S) /\ Len(topics) = k
  <2> HIDE DEF k, topics, S
  <2>1. topics \in Seq(S)
    BY <1>1, <1>5, IsASeq
  <2> QED
    BY <1>1, <1>5, <2>1, LenProperties
<1>7. /\ log.address = address /\ log.block = block /\ log.index = index
      /\ log.data = Picked(args, N)
      /\ log.topics = (IF event.anonymous THEN <<>> ELSE <<TrueSig(event)>>) \o picked
  BY DEF Log, InTopics, InData
<1> HIDE DEF log, I, N, k, topics, picked, S
<1>8. /\ Cardinality(N) \in Nat /\ Len(log.data) = Cardinality(N)
      /\ \A n \in 1 .. Cardinality(N) : log.data[n] = args[Place(N, n)]
  BY <1>3, <1>4, <1>7, PickedElements
<1>9. /\ Cardinality(I) \in Nat /\ picked \in Seq(S) /\ Len(picked) = Cardinality(I)
      /\ \A n \in 1 .. Cardinality(I) : picked[n] = Topic(event, args, Place(I, n))
  <2>1. I \subseteq 1 .. Len(topics)
    BY <1>3, <1>6
  <2>2. Cardinality(I) \in Nat /\ picked \in Seq(S) /\ Len(picked) = Cardinality(I)
    BY ONLY <1>6, <2>1, PickedElements DEF picked
  <2>3. \A n \in 1 .. Cardinality(I) : picked[n] = topics[Place(I, n)]
    BY Zenon DEF Picked, picked
  <2>4. \A n \in 1 .. Cardinality(I) : Place(I, n) \in I
    BY ONLY <1>1, <1>3, Places
  <2> QED
    BY <1>3, <1>5, <2>2, <2>3, <2>4
<1>10. ASSUME event.anonymous PROVE log.topics = picked
  BY <1>7, <1>9, <1>10, ConcatEmptySeq
<1>11. ASSUME ~event.anonymous
       PROVE  /\ Len(log.topics) = Cardinality(I) + 1 /\ log.topics[1] = TrueSig(event)
              /\ \A n \in 1 .. Cardinality(I) : log.topics[n + 1] = picked[n]
  <2>1. log.topics = <<TrueSig(event)>> \o picked
    BY <1>7, <1>11
  <2> QED
    BY <1>9, <2>1, WithFirst
<1> QED
  BY <1>7, <1>8, <1>9, <1>10, <1>11 DEF log, I, N
-----------------------------------------------------------------------------
(***************************************************************************)
(* Decoding: the signature stands before the parameters.                   *)
(***************************************************************************)
Method == [type |-> "function", indexed |-> TRUE, name |-> "method"]

\* How many of the parameters up to one are indexed, or not indexed, as it is.
Nth(inputs, i) == Cardinality({j \in 1 .. i : inputs[j].indexed = inputs[i].indexed})

\* With the signature before them, the indexed parameters are one place further on.
LEMMA OptionOf ==
    ASSUME NEW inputs \in Seq(Params)
    PROVE  LET all == GetTopicOption(inputs)
               k == Len(inputs)
           IN  /\ k \in Nat /\ DOMAIN inputs = 1 .. k /\ \A i \in 1 .. k : inputs[i] \in Params
               /\ all \in Seq(Params \cup {Method}) /\ Len(all) = k + 1 /\ DOMAIN all = 1 .. k + 1
               /\ all[1] = Method /\ \A i \in 1 .. k : all[i + 1] = inputs[i]
<1>1. /\ Len(inputs) \in Nat /\ DOMAIN inputs = 1 .. Len(inputs)
      /\ \A i \in 1 .. Len(inputs) : inputs[i] \in Params
  BY LenProperties, ElementOfSeq
<1> DEFINE all == GetTopicOption(inputs)
<1>2. all = <<Method>> \o inputs
  BY DEF GetTopicOption, Method
<1> HIDE DEF all
<1>3. /\ all \in Seq(Params \cup {Method}) /\ Len(all) = Len(inputs) + 1 /\ all[1] = Method
      /\ \A i \in 1 .. Len(inputs) : all[i + 1] = inputs[i]
  BY <1>2, WithFirst
<1>4. DOMAIN all = 1 .. Len(inputs) + 1
  BY <1>3, LenProperties
<1> QED
  BY <1>1, <1>3, <1>4 DEF all

\* The indexed ones among them, and the others.
LEMMA OptionPlaces ==
    ASSUME NEW inputs \in Seq(Params)
    PROVE  LET all == GetTopicOption(inputs)
               k == Len(inputs)
               I == InTopics(inputs)
               N == InData(inputs)
           IN  /\ I \subseteq 1 .. k /\ N \subseteq 1 .. k
               /\ Cardinality(I) \in Nat /\ Cardinality(N) \in Nat
               /\ Len(Indexed(all)) = Cardinality(I) + 1
               /\ \A n \in 1 .. Cardinality(I) : Indexed(all)[n + 1] = inputs[Place(I, n)]
               /\ Len(NonIndexed(all)) = Cardinality(N)
               /\ DOMAIN NonIndexed(all) = 1 .. Cardinality(N)
               /\ \A n \in 1 .. Cardinality(N) : NonIndexed(all)[n] = inputs[Place(N, n)]
               /\ \A i \in I : Nth(all, i + 1) = Rank(I, i) + 1
               /\ \A i \in N : Nth(all, i + 1) = Rank(N, i)
<1> DEFINE all == GetTopicOption(inputs)
           k == Len(inputs)
           I == InTopics(inputs)
           N == InData(inputs)
           J == InTopics(all)
           M == InData(all)
<1>1. /\ k \in Nat /\ DOMAIN inputs = 1 .. k /\ \A i \in 1 .. k : inputs[i] \in Params
      /\ all \in Seq(Params \cup {Method}) /\ Len(all) = k + 1 /\ DOMAIN all = 1 .. k + 1
      /\ all[1] = Method /\ \A i \in 1 .. k : all[i + 1] = inputs[i]
  BY OptionOf
<1>2. \A i \in 1 .. k : inputs[i].indexed \in BOOLEAN
  BY <1>1 DEF Params
<1>3. all[1].indexed = TRUE
  BY <1>1 DEF Method
<1> HIDE DEF all, k
<1>4. I \subseteq 1 .. k /\ N \subseteq 1 .. k /\ J \subseteq 1 .. k + 1 /\ M \subseteq 1 .. k + 1
  BY <1>1 DEF InTopics, InData
<1>5. /\ 1 \in J /\ 1 \notin M
      /\ \A i \in 1 .. k : i + 1 \in J <=> i \in I
      /\ \A i \in 1 .. k : i + 1 \in M <=> i \in N
  <2>1. 1 \in 1 .. k + 1 /\ \A i \in 1 .. k : i + 1 \in 1 .. k + 1
    BY <1>1
  <2> QED
    BY <1>1, <1>3, <2>1 DEF InTopics, InData
<1>6. Indexed(all) = Picked(all, J) /\ NonIndexed(all) = Picked(all, M)
  BY DEF Indexed, NonIndexed, InTopics, InData
<1>7. \A i \in 1 .. k : \A j \in 1 .. i + 1 :
         /\ i \in I => (all[j].indexed = all[i + 1].indexed <=> j \in J)
         /\ i \in N => (all[j].indexed = all[i + 1].indexed <=> j \in M)
  <2>1. \A j \in 1 .. k + 1 : all[j].indexed \in BOOLEAN
    <3>1. \A j \in 1 .. k + 1 : j = 1 \/ (j - 1 \in 1 .. k /\ (j - 1) + 1 = j)
      BY <1>1
    <3> QED
      BY <1>1, <1>2, <1>3, <3>1
  <2>2. \A i \in 1 .. k : i + 1 \in 1 .. k + 1 /\ \A j \in 1 .. i + 1 : j \in 1 .. k + 1
    BY <1>1
  <2>3. \A i \in 1 .. k : (i \in I => all[i + 1].indexed) /\ (i \in N => ~all[i + 1].indexed)
    BY <1>1 DEF InTopics, InData
  <2>4. \A j \in 1 .. k + 1 : (j \in J <=> all[j].indexed) /\ (j \in M <=> ~all[j].indexed)
    BY <1>1 DEF InTopics, InData
  <2> QED
    BY <2>1, <2>2, <2>3, <2>4
<1> HIDE DEF I, N, J, M
<1>8. /\ Cardinality(J) = Cardinality(I) + 1
      /\ \A i \in 0 .. k : Rank(J, i + 1) = Rank(I, i) + 1
      /\ \A n \in 1 .. Cardinality(I) : Place(J, n + 1) = Place(I, n) + 1
  <2>1. k \in Nat /\ Shifted(I, J, k)
    BY <1>1, <1>4, <1>5 DEF Shifted
  <2>2. /\ Cardinality(J) = Cardinality(I) + First(J)
        /\ \A i \in 0 .. k : Rank(J, i + 1) = Rank(I, i) + First(J)
        /\ \A n \in 1 .. Cardinality(I) : Place(J, n + First(J)) = Place(I, n) + 1
    BY ONLY <2>1, ShiftedPlaces
  <2>3. First(J) = 1
    BY <1>5 DEF First
  <2> QED
    BY <2>2, <2>3
<1>9. /\ Cardinality(I) \in Nat /\ Cardinality(N) \in Nat
      /\ \A i \in 0 .. k : Rank(N, i) \in Nat
  BY <1>1, <1>4, RankSteps
<1>10. /\ Cardinality(M) = Cardinality(N)
       /\ \A i \in 0 .. k : Rank(M, i + 1) = Rank(N, i)
       /\ \A n \in 1 .. Cardinality(N) : Place(M, n) = Place(N, n) + 1
  <2>1. k \in Nat /\ Shifted(N, M, k)
    BY <1>1, <1>4, <1>5 DEF Shifted
  <2>2. /\ Cardinality(M) = Cardinality(N) + First(M)
        /\ \A i \in 0 .. k : Rank(M, i + 1) = Rank(N, i) + First(M)
        /\ \A n \in 1 .. Cardinality(N) : Place(M, n + First(M)) = Place(N, n) + 1
    BY ONLY <2>1, ShiftedPlaces
  <2>3. First(M) = 0
    BY <1>5 DEF First
  <2> QED
    BY <1>9, <2>2, <2>3
<1>11. /\ Len(Indexed(all)) = Cardinality(I) + 1
       /\ \A n \in 1 .. Cardinality(I) : Indexed(all)[n + 1] = inputs[Place(I, n)]
  <2>1. /\ Len(Picked(all, J)) = Cardinality(J)
        /\ \A n \in 1 .. Cardinality(J) : Picked(all, J)[n] = all[Place(J, n)]
    <3>1. all \in Seq(Params \cup {Method}) /\ J \subseteq 1 .. Len(all)
      BY <1>1, <1>4
    <3>2. PICK S : S = Params \cup {Method}
      OBVIOUS
    <3>3. all \in Seq(S)
      BY <3>1, <3>2
    <3>4. Len(Picked(all, J)) = Cardinality(J)
      BY ONLY <3>1, <3>3, PickedElements
    <3>5. \A n \in 1 .. Cardinality(J) : Picked(all, J)[n] = all[Place(J, n)]
      BY Zenon DEF Picked
    <3> QED
      BY <3>4, <3>5, Zenon
  <2>2. \A n \in 1 .. Cardinality(I) : Place(I, n) \in I
    BY <1>1, <1>4, Places
  <2>3. ASSUME NEW n \in 1 .. Cardinality(I) PROVE Picked(all, J)[n + 1] = inputs[Place(I, n)]
    <3>1. n + 1 \in 1 .. Cardinality(J)
      BY <1>8, <1>9
    <3>2. Picked(all, J)[n + 1] = all[Place(I, n) + 1]
      BY <1>8, <2>1, <3>1
    <3>3. Place(I, n) \in 1 .. k
      BY <1>4, <2>2
    <3> QED
      BY <1>1, <3>2, <3>3
  <2> QED
    BY <1>6, <1>8, <2>1, <2>3
<1>12. /\ Len(NonIndexed(all)) = Cardinality(N) /\ DOMAIN NonIndexed(all) = 1 .. Cardinality(N)
       /\ \A n \in 1 .. Cardinality(N) : NonIndexed(all)[n] = inputs[Place(N, n)]
  <2>1. /\ Len(Picked(all, M)) = Cardinality(M)
        /\ \A n \in 1 .. Cardinality(M) : Picked(all, M)[n] = all[Place(M, n)]
    <3>1. all \in Seq(Params \cup {Method}) /\ M \subseteq 1 .. Len(all)
      BY <1>1, <1>4
    <3>2. PICK S : S = Params \cup {Method}
      OBVIOUS
    <3>3. all \in Seq(S)
      BY <3>1, <3>2
    <3>4. Len(Picked(all, M)) = Cardinality(M)
      BY ONLY <3>1, <3>3, PickedElements
    <3>5. \A n \in 1 .. Cardinality(M) : Picked(all, M)[n] = all[Place(M, n)]
      BY Zenon DEF Picked
    <3> QED
      BY <3>4, <3>5, Zenon
  <2>2. \A n \in 1 .. Cardinality(N) : Place(N, n) \in N
    BY <1>1, <1>4, Places
  <2>3. DOMAIN Picked(all, M) = 1 .. Cardinality(M)
    BY DEF Picked
  <2> QED
    BY <1>1, <1>4, <1>6, <1>9, <1>10, <2>1, <2>2, <2>3
<1>13. ASSUME NEW i \in I PROVE Nth(all, i + 1) = Rank(I, i) + 1
  <2>1. i \in 1 .. k /\ i \in 0 .. k
    BY <1>1, <1>4
  <2>2. {j \in 1 .. i + 1 : all[j].indexed = all[i + 1].indexed} = {j \in J : j <= i + 1}
    <3>1. \A j \in 1 .. i + 1 : all[j].indexed = all[i + 1].indexed <=> j \in J
      BY <1>7, <2>1
    <3>2. \A j \in J : j <= i + 1 => j \in 1 .. i + 1
      BY <1>1, <1>4, <2>1
    <3>3. \A j \in 1 .. i + 1 : j <= i + 1
      BY <2>1
    <3> QED
      BY <3>1, <3>2, <3>3, Zenon
  <2>3. Nth(all, i + 1) = Rank(J, i + 1)
    BY <2>2 DEF Nth, Rank
  <2> QED
    BY <1>8, <2>1, <2>3
<1>14. ASSUME NEW i \in N PROVE Nth(all, i + 1) = Rank(N, i)
  <2>1. i \in 1 .. k /\ i \in 0 .. k
    BY <1>1, <1>4
  <2>2. {j \in 1 .. i + 1 : all[j].indexed = all[i + 1].indexed} = {j \in M : j <= i + 1}
    <3>1. \A j \in 1 .. i + 1 : all[j].indexed = all[i + 1].indexed <=> j \in M
      BY <1>7, <2>1
    <3>2. \A j \in M : j <= i + 1 => j \in 1 .. i + 1
      BY <1>1, <1>4, <2>1
    <3>3. \A j \in 1 .. i + 1 : j <= i + 1
      BY <2>1
    <3> QED
      BY <3>1, <3>2, <3>3, Zenon
  <2>3. Nth(all, i + 1) = Rank(M, i + 1)
    BY <2>2 DEF Nth, Rank
  <2> QED
    BY <1>10, <2>1, <2>3
<1> QED
  BY <1>4, <1>9, <1>11, <1>12, <1>13, <1>14 DEF all, k, I, N

\* A declaration that decoding cannot tell from the contract's.
Matches(inputs, event) ==
    /\ Len(inputs) = Len(event.inputs)
    /\ \A i \in 1 .. Len(inputs) :
          /\ inputs[i].indexed = event.inputs[i].indexed
          /\ Kind(inputs[i].type) = Kind(event.inputs[i].type)

\* No parameters are never too many, but for an anonymous event without topics.
LEMMA NoParams ==
    ASSUME NEW event \in Contract, NEW args \in ArgsOf(event), NEW address, NEW block, NEW index
    PROVE  LET log == Log(event, args, address, block, index)
           IN  DecodePanics(GetTopicOption(<<>>), log) <=> Len(log.topics) = 0
<1> DEFINE log == Log(event, args, address, block, index)
<1>1. PICK none : none = <<>>
  OBVIOUS
<1>2. none \in Seq(Params) /\ Len(none) = 0 /\ DOMAIN none = {}
  BY <1>1
<1>3. InTopics(none) = {} /\ InData(none) = {}
  BY <1>2 DEF InTopics, InData
<1>4. Cardinality(InTopics(none)) = 0 /\ Cardinality(InData(none)) = 0
  BY <1>3, FS_EmptySet
<1> DEFINE all == GetTopicOption(none)
<1>5. Len(Indexed(all)) = 1 /\ Len(NonIndexed(all)) = 0 /\ DOMAIN NonIndexed(all) = {}
  <2>1. /\ Len(Indexed(all)) = 0 + 1 /\ Len(NonIndexed(all)) = 0
        /\ DOMAIN NonIndexed(all) = 1 .. 0
    BY <1>2, <1>4, OptionPlaces
  <2> QED
    BY <2>1
<1>6. Len(log.data) \in Nat /\ Len(log.topics) \in Nat
  <2>1. event.anonymous \in BOOLEAN
    BY InputsOf
  <2> HIDE DEF log
  <2> QED
    BY <2>1, LogOf DEF log
<1> HIDE DEF all, log
<1>7. ~Unreadable(NonIndexed(all), log.data)
  BY <1>5, <1>6 DEF Unreadable
<1>8. DecodePanics(all, log) <=> 1 > Len(log.topics)
  BY <1>5, <1>7 DEF DecodePanics
<1>9. DecodePanics(all, log) <=> Len(log.topics) = 0
  BY <1>6, <1>8
<1> QED
  BY <1>1, <1>9, Zenon DEF all, log

\* A declaration that matches has the same places indexed, and types that suit the arguments.
LEMMA Matched ==
    ASSUME NEW event \in Contract, NEW args \in ArgsOf(event), NEW inputs \in Seq(Params),
           Matches(inputs, event)
    PROVE  /\ InTopics(inputs) = InTopics(event.inputs) /\ InData(inputs) = InData(event.inputs)
           /\ Len(inputs) \in Nat /\ Len(inputs) = Len(event.inputs)
           /\ \A i \in 1 .. Len(inputs) :
                 /\ args[i] \in Arguments /\ Suits(args[i], inputs[i].type)
                 /\ Kind(inputs[i].type) = Kind(event.inputs[i].type)
                 /\ Static(inputs[i].type) <=> Static(event.inputs[i].type)
<1>1. Len(inputs) \in Nat /\ DOMAIN inputs = 1 .. Len(inputs)
  BY OptionOf
<1>2. DOMAIN event.inputs = 1 .. Len(inputs) /\ Len(inputs) = Len(event.inputs)
  BY InputsOf DEF Matches
<1>3. InTopics(inputs) = InTopics(event.inputs) /\ InData(inputs) = InData(event.inputs)
  BY <1>1, <1>2 DEF Matches, InTopics, InData
<1>4. \A i \in 1 .. Len(inputs) : args[i] \in Arguments /\ Suits(args[i], event.inputs[i].type)
  BY <1>2 DEF ArgsOf
<1>5. \A i \in 1 .. Len(inputs) : Kind(inputs[i].type) = Kind(event.inputs[i].type)
  BY DEF Matches
<1>6. \A i \in 1 .. Len(inputs) : Static(inputs[i].type) = Static(event.inputs[i].type)
  BY <1>5, Zenon DEF Static
<1>7. ASSUME NEW i \in 1 .. Len(inputs) PROVE Suits(args[i], inputs[i].type)
  <2>1. Suits(args[i], event.inputs[i].type)
    BY <1>4, Zenon
  <2>2. PICK type, own : type = inputs[i].type /\ own = event.inputs[i].type
    OBVIOUS
  <2>3. Kind(type) = Kind(own) /\ Static(type) = Static(own) /\ Suits(args[i], own)
    BY <1>5, <1>6, <2>1, <2>2, Zenon
  <2>4. Suits(args[i], type)
    BY <2>3, Zenon DEF Suits
  <2> QED
    BY <2>2, <2>4, Zenon
<1> QED
  BY <1>1, <1>2, <1>3, <1>4, <1>5, <1>6, <1>7, Zenon

\* One word is unreadable or not.
LEMMA UnreadableOne ==
    ASSUME NEW p, NEW w PROVE Unreadable(<<p>>, <<w>>) <=> ~Readable(p.type, w)
<1>1. PICK ps, ws : ps = <<p>> /\ ws = <<w>>
  OBVIOUS
<1>2. Len(ps) = 1 /\ Len(ws) = 1 /\ DOMAIN ps = {1} /\ ps[1] = p /\ ws[1] = w
  BY <1>1
<1>3. Unreadable(ps, ws) <=> ~Readable(p.type, w)
  BY <1>2 DEF Unreadable
<1> QED
  BY <1>1, <1>3, Zenon

\* There are five kinds of types.
LEMMA Kinds == \A type : Kind(type) \in {"machine", "big", "list", "string", "word"}
<1> QED
  BY DEF Kind

\* Arguments are numbers, strings or lists.
LEMMA ArgumentFields ==
    ASSUME NEW v \in Arguments
    PROVE  /\ DOMAIN v \in {{"number"}, {"text"}, {"list"}}
           /\ DOMAIN v = {"number"} => v = Number(v.number)
           /\ DOMAIN v = {"list"} => v = List(v.list) /\ v.list \in Seq(Nat)
<1>1. v \in [number : Nat] \/ v \in [text : Nat] \/ v \in [list : Seq(Nat)]
  BY ArgumentsAssumption
<1>2. CASE v \in [number : Nat]
  BY <1>2 DEF Number
<1>3. CASE v \in [text : Nat]
  BY <1>3
<1>4. CASE v \in [list : Seq(Nat)]
  BY <1>4 DEF List
<1> QED
  BY <1>1, <1>2, <1>3, <1>4, Zenon

\* An argument can be read as what it is.
LEMMA ArgumentReadable ==
    ASSUME NEW v \in Arguments, NEW type, Suits(v, type) PROVE Readable(type, v)
<1>1. "hash" \notin DOMAIN v
  BY ArgumentFields
<1>2. Kind(type) = "list" => IsList(v)
  BY Zenon DEF Suits
<1>3. Kind(type) = "string" => IsHead(v)
  BY DEF Suits, Static
<1> QED
  BY <1>1, <1>2, <1>3 DEF Readable

\* The topic of one is its hash when it is a string or a list, and cannot be read then.
LEMMA TopicReadable ==
    ASSUME NEW v \in Arguments, NEW type, Suits(v, type)
    PROVE  Readable(type, IF Static(type) THEN v ELSE Hash(v)) <=> Static(type)
<1>1. Readable(type, v)
  BY ArgumentReadable
<1>2. DOMAIN Hash(v) = {"hash"}
  BY DEF Hash
<1>3. ~IsHead(Hash(v)) /\ ~IsList(Hash(v))
  BY <1>2 DEF IsHead, IsList
<1>4. ~Static(type) => ~Readable(type, Hash(v))
  BY <1>3 DEF Static, Readable
<1> QED
  BY <1>1, <1>4, Zenon

\* A log of an event that is declared as its contract does cannot be decoded only if a string or a
\* list is indexed.
LEMMA MatchPanics ==
    ASSUME NEW event \in Contract, ~event.anonymous, NEW args \in ArgsOf(event),
           NEW address, NEW block, NEW index,
           NEW inputs \in Seq(Params), Matches(inputs, event)
    PROVE  DecodePanics(GetTopicOption(inputs), Log(event, args, address, block, index)) <=>
              \E i \in InTopics(event.inputs) : ~Static(event.inputs[i].type)
<1> DEFINE log == Log(event, args, address, block, index)
           all == GetTopicOption(inputs)
           k == Len(inputs)
           I == InTopics(event.inputs)
           N == InData(event.inputs)
           c == Cardinality(I)
           d == Cardinality(N)
<1>1. /\ InTopics(inputs) = I /\ InData(inputs) = N /\ k \in Nat
      /\ \A i \in 1 .. k : args[i] \in Arguments /\ Suits(args[i], inputs[i].type)
      /\ \A i \in 1 .. k : Static(inputs[i].type) <=> Static(event.inputs[i].type)
  BY Matched
<1>2. /\ Len(log.data) = d /\ \A n \in 1 .. d : log.data[n] = args[Place(N, n)]
      /\ Len(log.topics) = c + 1
      /\ \A n \in 1 .. c : log.topics[n + 1] = Topic(event, args, Place(I, n))
  <2> HIDE DEF log, I, N, c, d
  <2> QED
    BY LogOf DEF log, I, N, c, d
<1>3. /\ I \subseteq 1 .. k /\ N \subseteq 1 .. k /\ c \in Nat /\ d \in Nat
      /\ Len(Indexed(all)) = c + 1
      /\ \A n \in 1 .. c : Indexed(all)[n + 1] = inputs[Place(I, n)]
      /\ Len(NonIndexed(all)) = d /\ DOMAIN NonIndexed(all) = 1 .. d
      /\ \A n \in 1 .. d : NonIndexed(all)[n] = inputs[Place(N, n)]
  <2>1. InTopics(inputs) = I /\ InData(inputs) = N
    BY <1>1
  <2> HIDE DEF I, N
  <2> QED
    BY <2>1, OptionPlaces
<1> HIDE DEF log, all, k, I, N, c, d
<1>4. /\ \A n \in 1 .. c : Place(I, n) \in I /\ Place(I, n) \in 1 .. k
      /\ \A n \in 1 .. d : Place(N, n) \in 1 .. k
      /\ \A i \in I : \E n \in 1 .. c : Place(I, n) = i
  <2>1. /\ \A n \in 1 .. c : Place(I, n) \in I
        /\ \A i \in I : Rank(I, i) \in 1 .. c /\ Place(I, Rank(I, i)) = i
    BY <1>1, <1>3, Places DEF c
  <2>2. \A n \in 1 .. d : Place(N, n) \in N
    BY <1>1, <1>3, Places DEF d
  <2> QED
    BY <1>3, <2>1, <2>2
<1>5. ~Unreadable(NonIndexed(all), log.data)
  <2>1. ~(Len(log.data) < Len(NonIndexed(all)))
    BY <1>2, <1>3
  <2>2. ASSUME NEW n \in 1 .. d PROVE Readable(NonIndexed(all)[n].type, log.data[n])
    <3>1. /\ Place(N, n) \in 1 .. k /\ NonIndexed(all)[n] = inputs[Place(N, n)]
          /\ log.data[n] = args[Place(N, n)]
      BY <1>2, <1>3, <1>4
    <3>2. Readable(inputs[Place(N, n)].type, args[Place(N, n)])
      BY <1>1, <3>1, ArgumentReadable
    <3> QED
      BY <3>1, <3>2, Zenon
  <2> QED
    BY <1>3, <2>1, <2>2 DEF Unreadable
<1>6. \A n \in 1 .. c : Unreadable(<<Indexed(all)[n + 1]>>, <<log.topics[n + 1]>>)
                           <=> ~Static(event.inputs[Place(I, n)].type)
  <2> SUFFICES ASSUME NEW n \in 1 .. c
               PROVE  Unreadable(<<Indexed(all)[n + 1]>>, <<log.topics[n + 1]>>)
                         <=> ~Static(event.inputs[Place(I, n)].type)
    OBVIOUS
  <2> DEFINE i == Place(I, n)
  <2>1. i \in 1 .. k /\ Indexed(all)[n + 1] = inputs[i] /\ log.topics[n + 1] = Topic(event, args, i)
    BY <1>2, <1>3, <1>4
  <2> HIDE DEF i
  <2>2. Unreadable(<<inputs[i]>>, <<Topic(event, args, i)>>)
           <=> ~Readable(inputs[i].type, Topic(event, args, i))
    BY UnreadableOne
  <2>3. Readable(inputs[i].type, Topic(event, args, i)) <=> Static(inputs[i].type)
    <3>1. Topic(event, args, i) = IF Static(inputs[i].type) THEN args[i] ELSE Hash(args[i])
      BY <1>1, <2>1, Zenon DEF Topic
    <3>2. Readable(inputs[i].type, IF Static(inputs[i].type) THEN args[i] ELSE Hash(args[i]))
             <=> Static(inputs[i].type)
      BY <1>1, <2>1, TopicReadable
    <3> QED
      BY <3>1, <3>2, Zenon
  <2>4. Unreadable(<<inputs[i]>>, <<Topic(event, args, i)>>) <=> ~Static(event.inputs[i].type)
    BY <1>1, <2>1, <2>2, <2>3, Zenon
  <2>5. Unreadable(<<Indexed(all)[n + 1]>>, <<log.topics[n + 1]>>)
           <=> ~Static(event.inputs[i].type)
    BY <2>1, <2>4, Zenon
  <2> QED
    BY <2>5 DEF i
<1>7. (\E j \in 2 .. Len(Indexed(all)) : Unreadable(<<Indexed(all)[j]>>, <<log.topics[j]>>))
         <=> \E i \in I : ~Static(event.inputs[i].type)
  <2>1. ASSUME NEW j \in 2 .. Len(Indexed(all)), Unreadable(<<Indexed(all)[j]>>, <<log.topics[j]>>)
        PROVE  \E i \in I : ~Static(event.inputs[i].type)
    <3>1. PICK n \in 1 .. c : n + 1 = j
      <4>1. j - 1 \in 1 .. c /\ (j - 1) + 1 = j
        BY <1>3
      <4> QED
        BY <4>1
    <3>2. ~Static(event.inputs[Place(I, n)].type)
      BY <1>6, <2>1, <3>1
    <3> QED
      BY <1>4, <3>2
  <2>2. ASSUME NEW i \in I, ~Static(event.inputs[i].type)
        PROVE  \E j \in 2 .. Len(Indexed(all)) : Unreadable(<<Indexed(all)[j]>>, <<log.topics[j]>>)
    <3>1. PICK n \in 1 .. c : Place(I, n) = i
      BY <1>4
    <3>2. n + 1 \in 2 .. Len(Indexed(all))
      BY <1>3
    <3>3. Unreadable(<<Indexed(all)[n + 1]>>, <<log.topics[n + 1]>>)
      BY <1>6, <2>2, <3>1
    <3> QED
      BY <3>2, <3>3
  <2> QED
    BY <2>1, <2>2
<1>8. ~(Len(Indexed(all)) > Len(log.topics))
  BY <1>2, <1>3
<1>9. DecodePanics(all, log) <=> \E i \in I : ~Static(event.inputs[i].type)
  BY <1>5, <1>7, <1>8, Zenon DEF DecodePanics
<1> QED
  BY <1>9 DEF log, all, I

\* Otherwise every parameter with a name of its own is decoded to the Go value of its argument.
LEMMA MatchDecodes ==
    ASSUME NEW event \in Contract, ~event.anonymous, NEW args \in ArgsOf(event),
           NEW address, NEW block, NEW index,
           NEW inputs \in Seq(Params), Matches(inputs, event),
           \A i \in InTopics(event.inputs) : Static(event.inputs[i].type),
           NEW p \in 1 .. Len(inputs), inputs[p].name # "method",
           \A q \in 1 .. Len(inputs) : inputs[q].name = inputs[p].name => q = p
    PROVE  LET decoded == DecodeLog(GetTopicOption(inputs), Log(event, args, address, block, index))
           IN  /\ inputs[p].name \in DOMAIN decoded
               /\ decoded[inputs[p].name] = GoValue(inputs[p].type, args[p])
<1> DEFINE log == Log(event, args, address, block, index)
           all == GetTopicOption(inputs)
           k == Len(inputs)
           I == InTopics(event.inputs)
           N == InData(event.inputs)
           c == Cardinality(I)
           d == Cardinality(N)
           decodedNonIndexed == Unpack(NonIndexed(all), log.data)
           value(i) == IF ~all[i].indexed THEN decodedNonIndexed[Nth(all, i)]
                       ELSE IF Nth(all, i) = 1 THEN log.topics[1]
                       ELSE Unpack(<<all[i]>>, <<log.topics[Nth(all, i)]>>)[1]
           name == inputs[p].name
           last == CHOOSE i \in DOMAIN all :
                      /\ all[i].name = name
                      /\ \A j \in DOMAIN all : all[j].name = name => j <= i
<1>1. /\ InTopics(inputs) = I /\ InData(inputs) = N /\ k \in Nat
      /\ \A i \in 1 .. k : args[i] \in Arguments /\ Suits(args[i], inputs[i].type)
      /\ \A i \in 1 .. k : Static(inputs[i].type) <=> Static(event.inputs[i].type)
  BY Matched
<1>2. /\ Len(log.data) = d /\ \A n \in 1 .. d : log.data[n] = args[Place(N, n)]
      /\ \A n \in 1 .. c : log.topics[n + 1] = Topic(event, args, Place(I, n))
  <2> HIDE DEF log, I, N, c, d
  <2> QED
    BY LogOf DEF log, I, N, c, d
<1>3. /\ I \subseteq 1 .. k /\ N \subseteq 1 .. k /\ c \in Nat /\ d \in Nat
      /\ Len(NonIndexed(all)) = d /\ DOMAIN NonIndexed(all) = 1 .. d
      /\ \A n \in 1 .. d : NonIndexed(all)[n] = inputs[Place(N, n)]
      /\ \A i \in I : Nth(all, i + 1) = Rank(I, i) + 1
      /\ \A i \in N : Nth(all, i + 1) = Rank(N, i)
  <2>1. InTopics(inputs) = I /\ InData(inputs) = N
    BY <1>1
  <2> HIDE DEF I, N
  <2> QED
    BY <2>1, OptionPlaces
<1>4. /\ DOMAIN inputs = 1 .. k /\ DOMAIN all = 1 .. k + 1 /\ all[1] = Method
      /\ \A i \in 1 .. k : all[i + 1] = inputs[i]
      /\ inputs[p].indexed \in BOOLEAN
  <2>1. \A i \in 1 .. k : inputs[i] \in Params
    BY OptionOf
  <2>2. inputs[p].indexed \in BOOLEAN
    BY <2>1 DEF Params
  <2> HIDE DEF all, k
  <2> QED
    BY <2>2, OptionOf DEF all, k
<1>5. all[1].name # name
  BY <1>4 DEF Method
<1>6. name \in DOMAIN DecodeLog(all, log) /\ DecodeLog(all, log)[name] = value(last)
  <2>1. p + 1 \in DOMAIN all /\ all[p + 1].name = name
    BY <1>1, <1>4
  <2>2. name \in {all[i].name : i \in DOMAIN all}
    BY <2>1
  <2> HIDE DEF log, all, name
  <2> QED
    BY <2>2 DEF DecodeLog, Nth
<1> HIDE DEF log, all, k, I, N, c, d, name, decodedNonIndexed
<1>7. last = p + 1
  <2>1. p + 1 \in DOMAIN all /\ all[p + 1].name = name /\ p \in 1 .. k
    BY <1>1, <1>4 DEF name, k
  <2>2. \A j \in DOMAIN all : all[j].name = name => j = p + 1
    <3> SUFFICES ASSUME NEW j \in DOMAIN all, all[j].name = name PROVE j = p + 1
      OBVIOUS
    <3>1. j # 1
      BY <1>5
    <3>2. j - 1 \in 1 .. k /\ (j - 1) + 1 = j
      BY <1>1, <1>4, <3>1
    <3>3. inputs[j - 1].name = name
      BY <1>4, <3>2
    <3>4. j - 1 = p
      BY <3>2, <3>3 DEF name, k
    <3> QED
      BY <3>2, <3>4
  <2>3. p + 1 <= p + 1
    BY <1>1, <2>1
  <2>4. \A j \in DOMAIN all : all[j].name = name => j <= p + 1
    BY <2>2, <2>3
  <2>5. /\ last \in DOMAIN all /\ all[last].name = name
    BY <2>1, <2>4
  <2> HIDE DEF last
  <2> QED
    BY <2>2, <2>5
<1> HIDE DEF last
<1>8. all[p + 1] = inputs[p] /\ p \in 1 .. k /\ DOMAIN inputs = 1 .. k
  BY <1>4 DEF k
<1>9. CASE inputs[p].indexed
  <2>1. p \in I
    BY <1>1, <1>8, <1>9 DEF InTopics
  <2> DEFINE n == Rank(I, p)
  <2>2. n \in 1 .. c /\ Place(I, n) = p
    <3>1. \A i \in I : Rank(I, i) \in 1 .. c /\ Place(I, Rank(I, i)) = i
      BY ONLY <1>1, <1>3, Places DEF c
    <3> QED
      BY <2>1, <3>1
  <2>3. Nth(all, p + 1) = n + 1
    BY <1>3, <2>1
  <2> HIDE DEF n
  <2>4. Nth(all, p + 1) # 1
    BY <2>2, <2>3
  <2>5. log.topics[Nth(all, p + 1)] = args[p]
    <3>1. Static(event.inputs[p].type)
      BY <2>1 DEF I
    <3> QED
      BY <1>2, <2>2, <2>3, <3>1 DEF Topic
  <2>7. Unpack(<<inputs[p]>>, <<args[p]>>)[1] = GoValue(inputs[p].type, args[p])
    <3>1. PICK ps, ws : ps = <<inputs[p]>> /\ ws = <<args[p]>>
      OBVIOUS
    <3>2. DOMAIN ps = {1} /\ ps[1] = inputs[p] /\ ws[1] = args[p]
      BY <3>1
    <3>3. Unpack(ps, ws)[1] = GoValue(inputs[p].type, args[p])
      BY <3>2, Zenon DEF Unpack
    <3> QED
      BY <3>1, <3>3, Zenon
  <2>8. value(p + 1) = GoValue(inputs[p].type, args[p])
    <3>1. value(p + 1) = Unpack(<<all[p + 1]>>, <<log.topics[Nth(all, p + 1)]>>)[1]
      BY <1>8, <1>9, <2>4, Zenon
    <3> QED
      BY <1>8, <2>5, <2>7, <3>1, Zenon
  <2> QED
    BY <1>6, <1>7, <2>8, Zenon DEF log, all, name
<1>10. CASE ~inputs[p].indexed
  <2>1. p \in N
    BY <1>1, <1>8, <1>10 DEF InData
  <2> DEFINE n == Rank(N, p)
  <2>2. n \in 1 .. d /\ Place(N, n) = p
    <3>1. \A i \in N : Rank(N, i) \in 1 .. d /\ Place(N, Rank(N, i)) = i
      BY ONLY <1>1, <1>3, Places DEF d
    <3> QED
      BY <2>1, <3>1
  <2>3. Nth(all, p + 1) = n
    BY <1>3, <2>1
  <2> HIDE DEF n
  <2>4. NonIndexed(all)[n] = inputs[p] /\ log.data[n] = args[p] /\ n \in DOMAIN NonIndexed(all)
    BY <1>2, <1>3, <2>2
  <2>6. decodedNonIndexed[n] = GoValue(inputs[p].type, args[p])
    BY <2>4, Zenon DEF Unpack, decodedNonIndexed
  <2>7. value(p + 1) = GoValue(inputs[p].type, args[p])
    BY <1>8, <1>10, <2>3, <2>6, Zenon
  <2> QED
    BY <1>6, <1>7, <2>7, Zenon DEF log, all, name
<1> QED
  BY <1>4, <1>9, <1>10
-----------------------------------------------------------------------------
(***************************************************************************)
(* The event of a log.                                                     *)
(***************************************************************************)
\* Types are of one kind in a signature and in the contract.
LEMMA SignedKinds ==
    ASSUME NEW event \in Contract, NEW i \in DOMAIN event.inputs
    PROVE  Kind(TrueSig(event).types[i]) = Kind(event.inputs[i].type)
<1> DEFINE type == event.inputs[i].type
<1>1. TrueSig(event).types[i] = IF type \in DOMAIN Canonical THEN Canonical[type] ELSE type
  BY DEF TrueSig
<1>2. type \in DOMAIN Canonical => Kind(type) = Kind(Canonical[type])
  BY ArgumentsAssumption
<1> HIDE DEF type
<1>3. Kind(TrueSig(event).types[i]) = Kind(type)
  BY <1>1, <1>2, Zenon
<1> QED
  BY <1>3 DEF type

\* An event with the signature of the contract's has as many parameters, of the same kinds.
LEMMA SignedAlike ==
    ASSUME NEW event \in Contract, NEW found \in Compiled, EncodeSig(found) = TrueSig(event)
    PROVE  /\ found.name = event.name /\ found.inputs \in Seq(Params)
           /\ DOMAIN found.inputs = DOMAIN event.inputs
           /\ Len(found.inputs) \in Nat /\ Len(found.inputs) = Len(event.inputs)
           /\ \A i \in 1 .. Len(found.inputs) :
                 Kind(found.inputs[i].type) = Kind(event.inputs[i].type)
<1>1. /\ found.inputs \in Seq(Params)
      /\ Len(found.inputs) \in Nat /\ DOMAIN found.inputs = 1 .. Len(found.inputs)
  <2>1. found.inputs \in Seq(Params)
    BY DEF Compiled
  <2> QED
    BY <2>1, LenProperties
<1>2. Len(event.inputs) \in Nat /\ DOMAIN event.inputs = 1 .. Len(event.inputs)
  BY InputsOf
<1>3. EncodeSig(found).name = found.name /\ TrueSig(event).name = event.name
  BY Zenon DEF EncodeSig, TrueSig
<1>4. /\ DOMAIN EncodeSig(found).types = DOMAIN found.inputs
      /\ \A i \in DOMAIN found.inputs : EncodeSig(found).types[i] = found.inputs[i].type
  BY DEF EncodeSig
<1>5. DOMAIN TrueSig(event).types = DOMAIN event.inputs
  BY DEF TrueSig
<1>6. DOMAIN found.inputs = DOMAIN event.inputs
  BY <1>4, <1>5, Zenon
<1>7. Len(found.inputs) = Len(event.inputs)
  <2>1. \A a, b \in Nat : 1 .. a = 1 .. b => a = b
    <3> SUFFICES ASSUME NEW a \in Nat, NEW b \in Nat, 1 .. a = 1 .. b PROVE a = b
      OBVIOUS
    <3>1. (a >= 1 => a \in 1 .. b) /\ (b >= 1 => b \in 1 .. a)
      OBVIOUS
    <3> QED
      BY <3>1
  <2>2. 1 .. Len(found.inputs) = 1 .. Len(event.inputs)
    BY <1>1, <1>2, <1>6, Zenon
  <2> QED
    BY <1>1, <1>2, <2>1, <2>2, Zenon
<1>8. \A i \in DOMAIN found.inputs : Kind(found.inputs[i].type) = Kind(event.inputs[i].type)
  <2> SUFFICES ASSUME NEW i \in DOMAIN found.inputs
               PROVE  Kind(found.inputs[i].type) = Kind(event.inputs[i].type)
    OBVIOUS
  <2>1. found.inputs[i].type = TrueSig(event).types[i]
    BY <1>4, Zenon
  <2>2. Kind(TrueSig(event).types[i]) = Kind(event.inputs[i].type)
    BY <1>6, SignedKinds
  <2> QED
    BY <2>1, <2>2, Zenon
<1> QED
  BY <1>1, <1>3, <1>6, <1>7, <1>8, Zenon

\* An argument, or the hash of one, is the key of no table.
LEMMA NoArgumentIsSigned ==
    ASSUME interface \in Interfaces \cup {<<>>}, NEW a \in DOMAIN EventMapper,
           NEW event \in Contract, NEW args \in ArgsOf(event), NEW i \in DOMAIN event.inputs
    PROVE  Topic(event, args, i) \notin DOMAIN EventMapper[a]
<1>1. args[i] \in Arguments
  BY DEF ArgsOf
<1>2. "name" \notin DOMAIN args[i]
  BY <1>1, ArgumentFields
<1>3. "name" \notin DOMAIN Hash(args[i])
  BY Zenon DEF Hash
<1>4. "name" \notin DOMAIN Topic(event, args, i)
  BY <1>2, <1>3, Zenon DEF Topic
<1>5. ASSUME NEW sig \in DOMAIN EventMapper[a] PROVE "name" \in DOMAIN sig
  <2>1. sig = EncodeSig(EventMapper[a][sig])
    BY <1>5, Tables
  <2>2. "name" \in DOMAIN EncodeSig(EventMapper[a][sig])
    BY Zenon DEF EncodeSig
  <2> QED
    BY <2>1, <2>2, Zenon
<1> QED
  BY <1>4, <1>5, Zenon

\* A log has the event that is registered for its address under its signature; an anonymous one has
\* none.
LEMMA EventOfLog ==
    ASSUME interface \in Interfaces \cup {<<>>},
           NEW event \in Contract, NEW args \in ArgsOf(event), NEW address, NEW block, NEW index
    PROVE  LET log == Log(event, args, address, block, index)
               e == Emission(event, args, address, block, index)
           IN  /\ ~event.anonymous /\ Registered(e) =>
                     /\ EventOf(log).name \in Words /\ EventOf(log).inputs = Declared(e)
                     /\ Declared(e) \in Seq(Params)
                     /\ DOMAIN Declared(e) = DOMAIN event.inputs
                     /\ SameIndexed(e) => Matches(Declared(e), event)
               /\ ~event.anonymous /\ ~Registered(e) => EventOf(log) = NoEvent
               /\ ~event.anonymous => Len(log.topics) # 0
               /\ event.anonymous /\ Len(log.topics) # 0 => EventOf(log) = NoEvent
<1> DEFINE log == Log(event, args, address, block, index)
           e == Emission(event, args, address, block, index)
           I == InTopics(event.inputs)
<1>1. e.event = event /\ e.log = log
  BY Zenon DEF Emission
<1>2. /\ log.address = address /\ Cardinality(I) \in Nat
      /\ ~event.anonymous => Len(log.topics) = Cardinality(I) + 1 /\ log.topics[1] = TrueSig(event)
      /\ event.anonymous =>
            /\ Len(log.topics) = Cardinality(I)
            /\ \A n \in 1 .. Cardinality(I) : log.topics[n] = Topic(event, args, Place(I, n))
  <2> HIDE DEF log, I
  <2> QED
    BY LogOf DEF log, I
<1>3. Registered(e) <=> address \in DOMAIN EventMapper /\ TrueSig(event) \in DOMAIN EventMapper[address]
  BY <1>1, <1>2, Zenon DEF Registered
<1>4. Declared(e) = EventMapper[address][TrueSig(event)].inputs
  BY <1>1, <1>2, Zenon DEF Declared
<1> HIDE DEF log, e, I
<1>5. ASSUME ~event.anonymous, Registered(e)
      PROVE  /\ EventOf(log).name \in Words /\ EventOf(log).inputs = Declared(e)
             /\ Declared(e) \in Seq(Params)
             /\ DOMAIN Declared(e) = DOMAIN event.inputs
             /\ SameIndexed(e) => Matches(Declared(e), event)
  <2> DEFINE found == EventMapper[address][TrueSig(event)]
  <2>1. found \in Compiled /\ EncodeSig(found) = TrueSig(event)
    BY <1>3, <1>5, Tables
  <2>2. EventOf(log) = found /\ Declared(e) = found.inputs
    BY <1>2, <1>3, <1>4, <1>5, Zenon DEF EventOf
  <2> HIDE DEF found
  <2>3. /\ found.inputs \in Seq(Params) /\ DOMAIN found.inputs = DOMAIN event.inputs
        /\ Len(found.inputs) = Len(event.inputs)
        /\ DOMAIN event.inputs = 1 .. Len(found.inputs)
        /\ \A i \in 1 .. Len(found.inputs) :
              Kind(found.inputs[i].type) = Kind(event.inputs[i].type)
    BY <2>1, SignedAlike, InputsOf
  <2>4. found.name \in Words
    BY <2>1 DEF Compiled
  <2>5. ASSUME SameIndexed(e) PROVE Matches(found.inputs, event)
    BY <1>1, <2>2, <2>3, <2>5, Zenon DEF SameIndexed, Matches
  <2> QED
    BY <2>2, <2>3, <2>4, <2>5, Zenon
<1>6. ASSUME ~event.anonymous, ~Registered(e) PROVE EventOf(log) = NoEvent
  BY <1>2, <1>3, <1>6, Zenon DEF EventOf
<1>7. ASSUME ~event.anonymous PROVE Len(log.topics) # 0
  BY <1>2, <1>7
<1>8. ASSUME event.anonymous, Len(log.topics) # 0 PROVE EventOf(log) = NoEvent
  <2>1. 1 \in 1 .. Cardinality(I)
    BY <1>2, <1>8
  <2>2. Place(I, 1) \in DOMAIN event.inputs
    <3>1. Len(event.inputs) \in Nat /\ I \subseteq 1 .. Len(event.inputs)
      BY InputsOf DEF I, InTopics
    <3>2. \A n \in 1 .. Cardinality(I) : Place(I, n) \in I
      BY ONLY <3>1, Places
    <3> QED
      BY <2>1, <3>2 DEF I, InTopics
  <2>3. log.topics[1] = Topic(event, args, Place(I, 1))
    BY <1>2, <1>8, <2>1
  <2>4. address \in DOMAIN EventMapper => log.topics[1] \notin DOMAIN EventMapper[address]
    BY <2>2, <2>3, NoArgumentIsSigned
  <2> QED
    BY <1>2, <2>4, Zenon DEF EventOf
<1> QED
  BY <1>5, <1>6, <1>7, <1>8 DEF log, e

\* What is emitted, by an event of a contract and with arguments that are its own.
IsEmission(e) ==
    \E event \in Contract : \E args \in ArgsOf(event) : \E address, block, index :
        e = Emission(event, args, address, block, index)

\* A log that is mined and has an event of its own is lost only to an event that is declared with
\* other parameters indexed, or with a string or a list indexed.
LEMMA LostLogs ==
    ASSUME interface \in Interfaces \cup {<<>>}, NEW e, IsEmission(e),
           ~Pending(e.log), ~e.event.anonymous, Registered(e) => SameIndexed(e)
    PROVE  LogPanics(e.log) <=>
              Registered(e) /\ \E p \in InTopics(e.event.inputs) : ~Static(e.event.inputs[p].type)
<1>1. PICK event \in Contract : \E args \in ArgsOf(event) : \E address, block, index :
              e = Emission(event, args, address, block, index)
  BY DEF IsEmission
<1>2. PICK args \in ArgsOf(event) : \E address, block, index :
              e = Emission(event, args, address, block, index)
  BY <1>1
<1>3. PICK address, block, index : e = Emission(event, args, address, block, index)
  BY <1>2
<1>4. e.event = event /\ e.log = Log(event, args, address, block, index)
  BY <1>3, Zenon DEF Emission
<1>5. ~event.anonymous /\ Len(e.log.topics) # 0
  BY <1>3, <1>4, EventOfLog
<1>6. ~DecodePanics(GetTopicOption(<<>>), e.log)
  BY <1>4, <1>5, NoParams
<1>7. CASE ~Registered(e)
  <2>1. EventOf(e.log) = NoEvent
    BY <1>3, <1>4, <1>5, <1>7, EventOfLog
  <2>2. EventOf(e.log).inputs = <<>>
    <3>1. NoEvent.inputs = <<>>
      BY DEF NoEvent
    <3> QED
      BY <2>1, <3>1, Zenon
  <2> QED
    BY <1>6, <1>7, <2>2, Zenon DEF LogPanics
<1>8. CASE Registered(e)
  <2>1. /\ EventOf(e.log).inputs = Declared(e) /\ Declared(e) \in Seq(Params)
        /\ Matches(Declared(e), event)
    BY <1>3, <1>4, <1>5, <1>8, EventOfLog
  <2>2. DecodePanics(GetTopicOption(Declared(e)), e.log) <=>
           \E i \in InTopics(event.inputs) : ~Static(event.inputs[i].type)
    BY <1>4, <1>5, <2>1, MatchPanics
  <2> QED
    BY <1>4, <1>6, <1>8, <2>1, <2>2, Zenon DEF LogPanics
<1> QED
  BY <1>7, <1>8
-----------------------------------------------------------------------------
(***************************************************************************)
(* What is emitted, and the two theorems.                                  *)
(***************************************************************************)
\* The interfaces are those of the configuration, or none yet, and all that is emitted are logs of
\* the contracts' events.
DecodeInv ==
    /\ interface \in Interfaces \cup {<<>>}
    /\ \E S : emitted \in Seq(S)
    /\ \A i \in DOMAIN emitted : IsEmission(emitted[i])

\* DecodeInv is inductive: EmitEvent appends an event of a contract with arguments of its own.
LEMMA DecodeInvStep ==
    /\ DecodeInit => DecodeInv
    /\ DecodeInv /\ [DecodeNext]_decodeVars => DecodeInv'
<1>1. ASSUME DecodeInit PROVE DecodeInv
  <2>1. PICK none : none = <<>>
    OBVIOUS
  <2>2. none \in Seq({}) /\ DOMAIN none = {}
    BY <2>1
  <2>3. interface = none /\ emitted = none
    BY <1>1, <2>1 DEF DecodeInit
  <2>4. interface \in Interfaces \cup {<<>>}
    BY <2>1, <2>3
  <2> QED
    BY <2>2, <2>3, <2>4, Zenon DEF DecodeInv
<1>2. ASSUME DecodeInv, Configure PROVE DecodeInv'
  <2>1. interface' \in Interfaces /\ emitted' = emitted
    BY <1>2 DEF Configure
  <2>2. interface' \in Interfaces \cup {<<>>}
    BY <2>1
  <2> QED
    BY <1>2, <2>1, <2>2 DEF DecodeInv
<1>3. ASSUME DecodeInv, EmitEvent PROVE DecodeInv'
  <2>1. PICK event \in Contract, address \in DOMAIN interface, block \in 0 .. 2 :
           \E args \in [DOMAIN event.inputs -> Arguments] :
             /\ \A i \in DOMAIN args : Suits(args[i], event.inputs[i].type)
             /\ emitted' = Append(emitted,
                    [event |-> event, args |-> args,
                     log |-> Log(event, args, address, block, Len(emitted))])
    BY <1>3 DEF EmitEvent
  <2>2. PICK args \in ArgsOf(event) :
           emitted' = Append(emitted, Emission(event, args, address, block, Len(emitted)))
    BY <2>1 DEF ArgsOf, Emission
  <2> DEFINE e == Emission(event, args, address, block, Len(emitted))
  <2>3. IsEmission(e)
    BY Zenon DEF IsEmission
  <2>4. emitted' = Append(emitted, e)
    BY <2>2
  <2>5. interface' = interface /\ \A x : IsEmission(x)' <=> IsEmission(x)
    BY <1>3 DEF EmitEvent, IsEmission, Emission, Log, ArgsOf
  <2> HIDE DEF e
  <2>6. PICK S : emitted \in Seq(S)
    BY <1>2, <1>3 DEF DecodeInv
  <2>7. PICK U : U = S \cup {e}
    OBVIOUS
  <2>8. emitted \in Seq(U) /\ e \in U
    <3>1. Seq(S) \subseteq Seq(U)
      BY <2>7
    <3> QED
      BY <2>6, <2>7, <3>1
  <2>9. /\ emitted' \in Seq(U) /\ Len(emitted) \in Nat /\ DOMAIN emitted = 1 .. Len(emitted)
        /\ DOMAIN emitted' = 1 .. Len(emitted) + 1
        /\ \A i \in 1 .. Len(emitted) : emitted'[i] = emitted[i]
        /\ emitted'[Len(emitted) + 1] = e
    BY ONLY <2>4, <2>8, AppendProperties, LenProperties
  <2>10. \A i \in DOMAIN emitted' : IsEmission(emitted'[i])
    <3>1. \A i \in DOMAIN emitted' : i \in 1 .. Len(emitted) \/ i = Len(emitted) + 1
      BY <2>9
    <3> QED
      BY <1>3, <2>3, <2>9, <3>1 DEF DecodeInv
  <2> QED
    BY <1>3, <2>5, <2>9, <2>10 DEF DecodeInv
<1>4. ASSUME DecodeInv, UNCHANGED decodeVars PROVE DecodeInv'
  <2>1. interface' = interface /\ emitted' = emitted
    BY <1>4 DEF decodeVars
  <2> QED
    BY <1>4, <2>1 DEF DecodeInv
<1> QED
  BY <1>1, <1>2, <1>3, <1>4 DEF DecodeNext

\* Spec keeps DecodeInv.
LEMMA DecodeInvHolds == DecodeSpec => []DecodeInv
<1> QED
  BY DecodeInvStep, PTL DEF DecodeSpec

\* The logs of the reply are those of what is emitted.
LEMMA LogsOf ==
    ASSUME NEW S, emitted \in Seq(S)
    PROVE  /\ Len(emitted) \in Nat /\ DOMAIN emitted = 1 .. Len(emitted)
           /\ \E T : Logs \in Seq(T)
           /\ DOMAIN Logs = DOMAIN emitted /\ Len(Logs) = Len(emitted)
           /\ \A i \in DOMAIN emitted : Logs[i] = emitted[i].log
<1>1. Len(emitted) \in Nat /\ DOMAIN emitted = 1 .. Len(emitted)
  BY LenProperties
<1>2. DOMAIN Logs = DOMAIN emitted /\ \A i \in DOMAIN emitted : Logs[i] = emitted[i].log
  BY DEF Logs
<1> DEFINE k == Len(emitted)
           T == {emitted[i].log : i \in 1 .. k}
<1>3. Logs \in [1 .. k -> T]
  BY <1>1, <1>2 DEF Logs
<1> HIDE DEF k, T
<1>4. Logs \in Seq(T)
  BY <1>1, <1>3, IsASeq DEF k
<1>5. Len(Logs) = k
  BY <1>1, <1>3, <1>4, LenProperties DEF k
<1> QED
  BY <1>1, <1>2, <1>4, <1>5, Zenon DEF k

\* A reply is lost to a panic only by a log that is not mined, by an anonymous event, or by a
\* registered one that is declared with other parameters indexed or has a string indexed: never by
\* an event that is not registered, nor by one that is registered for another contract
\* (eventLogger.go, decoder.go).
THEOREM RepliesLost == DecodeSpec => []PanicsOnlyWhen
<1>1. ASSUME DecodeInv PROVE PanicsOnlyWhen
  <2> SUFFICES ASSUME ReplyPanics(Logs),
                      \A i \in DOMAIN emitted :
                          ~Pending(emitted[i].log) /\ ~emitted[i].event.anonymous
               PROVE  \E i \in DOMAIN emitted :
                        /\ Registered(emitted[i])
                        /\ \/ ~SameIndexed(emitted[i])
                           \/ \E p \in DOMAIN emitted[i].event.inputs :
                                /\ emitted[i].event.inputs[p].indexed
                                /\ ~Static(emitted[i].event.inputs[p].type)
    BY Zenon DEF PanicsOnlyWhen
  <2>1. PICK S : emitted \in Seq(S)
    BY <1>1 DEF DecodeInv
  <2>2. PICK i \in DOMAIN emitted : LogPanics(emitted[i].log)
    BY <2>1, LogsOf DEF ReplyPanics
  <2>3. interface \in Interfaces \cup {<<>>} /\ IsEmission(emitted[i])
    BY <1>1 DEF DecodeInv
  <2>4. ~Pending(emitted[i].log) /\ ~emitted[i].event.anonymous
    OBVIOUS
  <2> DEFINE e == emitted[i]
  <2> HIDE DEF e
  <2>5. ASSUME Registered(e) => SameIndexed(e)
        PROVE  Registered(e) /\ \E p \in InTopics(e.event.inputs) : ~Static(e.event.inputs[p].type)
    BY <2>2, <2>3, <2>4, <2>5, LostLogs DEF e
  <2> QED
    BY <2>5, Zenon DEF InTopics, e
<1> QED
  BY <1>1, DecodeInvHolds, PTL
\* The places of what the collection declares.
Ours == {i \in DOMAIN emitted : ~emitted[i].event.anonymous /\ Registered(emitted[i])}

\* If no log of the reply panics, those that have an event with a name are those that are ours.
LEMMA KeptAreOurs ==
    ASSUME DecodeInv, ~ReplyPanics(Logs)
    PROVE  {i \in DOMAIN Logs : EventName(Logs[i]) # ""} = Ours
<1>1. PICK S : emitted \in Seq(S)
  BY DEF DecodeInv
<1>2. DOMAIN Logs = DOMAIN emitted /\ \A i \in DOMAIN emitted : Logs[i] = emitted[i].log
  BY <1>1, LogsOf
<1>3. ASSUME NEW i \in DOMAIN emitted
      PROVE  EventName(emitted[i].log) # "" <=> ~emitted[i].event.anonymous /\ Registered(emitted[i])
  <2> DEFINE e == emitted[i]
  <2>1. ~LogPanics(e.log)
    BY <1>2, Zenon DEF ReplyPanics
  <2>2. interface \in Interfaces \cup {<<>>} /\ IsEmission(e)
    BY DEF DecodeInv
  <2> HIDE DEF e
  <2>3. PICK event \in Contract : \E args \in ArgsOf(event) : \E address, block, index :
                e = Emission(event, args, address, block, index)
    BY <2>2 DEF IsEmission
  <2>4. PICK args \in ArgsOf(event) : \E address, block, index :
                e = Emission(event, args, address, block, index)
    BY <2>3
  <2>5. PICK address, block, index : e = Emission(event, args, address, block, index)
    BY <2>4
  <2>6. e.event = event /\ e.log = Log(event, args, address, block, index)
    BY <2>5, Zenon DEF Emission
  <2>7. Len(e.log.topics) # 0
    <3>1. ~DecodePanics(GetTopicOption(<<>>), e.log)
      BY <2>1, Zenon DEF LogPanics
    <3> QED
      BY <2>6, <3>1, NoParams
  <2>8. /\ ~event.anonymous /\ Registered(e) => EventOf(e.log).name \in Words
        /\ ~event.anonymous /\ ~Registered(e) => EventOf(e.log) = NoEvent
        /\ event.anonymous => EventOf(e.log) = NoEvent
    BY <2>2, <2>5, <2>6, <2>7, EventOfLog
  <2>9. NoEvent.name = "" /\ "" \notin Words
    BY InterfacesAssumption DEF NoEvent
  <2>10. EventName(e.log) # "" <=> ~event.anonymous /\ Registered(e)
    BY <2>8, <2>9, Zenon DEF EventName
  <2> QED
    BY <2>6, <2>10, Zenon DEF e
<1>4. \A i \in DOMAIN emitted : EventName(Logs[i]) # "" <=> i \in Ours
  BY <1>2, <1>3, Zenon DEF Ours
<1>5. \A i \in Ours : i \in DOMAIN emitted
  BY Zenon DEF Ours
<1> QED
  BY <1>2, <1>4, <1>5, Zenon

\* A decoded log with its big integers as text, and as the file has it.
Texts(decoded) == [name \in DOMAIN decoded |-> BigIntToText(decoded[name])]
Floats(decoded) == [name \in DOMAIN decoded |-> ThroughFloat(decoded[name])]

\* What is decoded then is what is ours, in its order.
LEMMA EventLogsOf ==
    ASSUME DecodeInv, ~ReplyPanics(Logs)
    PROVE  LET ours == Picked(emitted, Ours)
               c == Cardinality(Ours)
           IN  /\ c \in Nat /\ DOMAIN ours = 1 .. c /\ DOMAIN GetEventLogs(Logs) = 1 .. c
               /\ \E S : ours \in Seq(S) /\ Len(ours) = c
               /\ \E T : GetEventLogs(Logs) \in Seq(T) /\ Len(GetEventLogs(Logs)) = c
               /\ \A n \in 1 .. c :
                    /\ \E i \in Ours : ours[n] = emitted[i]
                    /\ GetEventLogs(Logs)[n].block = ours[n].log.block
                    /\ GetEventLogs(Logs)[n].index = ours[n].log.index
                    /\ GetEventLogs(Logs)[n].decodeLog =
                         Texts(DecodeLog(GetTopicOption(EventOf(ours[n].log).inputs), ours[n].log))
<1> DEFINE ours == Picked(emitted, Ours)
           c == Cardinality(Ours)
           kept == Picked(Logs, Ours)
           E == GetEventLogs(Logs)
<1>1. PICK S : emitted \in Seq(S)
  BY DEF DecodeInv
<1>2. /\ Len(emitted) \in Nat /\ DOMAIN emitted = 1 .. Len(emitted)
      /\ DOMAIN Logs = DOMAIN emitted /\ Len(Logs) = Len(emitted)
      /\ \A i \in DOMAIN emitted : Logs[i] = emitted[i].log
  BY <1>1, LogsOf
<1>3. PICK T : Logs \in Seq(T)
  BY <1>1, LogsOf
<1>4. Ours \subseteq 1 .. Len(emitted) /\ Ours \subseteq 1 .. Len(Logs)
  BY <1>2 DEF Ours
<1>5. /\ c \in Nat /\ ours \in Seq(S) /\ Len(ours) = c /\ DOMAIN ours = 1 .. c
      /\ \A n \in 1 .. c : Place(Ours, n) \in Ours /\ ours[n] = emitted[Place(Ours, n)]
  <2>1. DOMAIN ours = 1 .. c
    BY Zenon DEF Picked
  <2>2. c \in Nat /\ ours \in Seq(S) /\ Len(ours) = c
    BY ONLY <1>1, <1>4, PickedElements
  <2>3. \A n \in 1 .. c : ours[n] = emitted[Place(Ours, n)]
    BY Zenon DEF Picked
  <2>4. \A n \in 1 .. c : Place(Ours, n) \in Ours
    BY ONLY <1>2, <1>4, Places
  <2> QED
    BY <2>1, <2>2, <2>3, <2>4
<1>6. /\ DOMAIN kept = 1 .. c /\ \A n \in 1 .. c : kept[n] = Logs[Place(Ours, n)]
  BY Zenon DEF Picked
<1>7. E = [n \in DOMAIN kept |->
              [block |-> kept[n].block, index |-> kept[n].index, eventName |-> EventName(kept[n]),
               decodeLog |-> Texts(DecodeLog(GetTopicOption(EventOf(kept[n]).inputs), kept[n]))]]
  BY KeptAreOurs, Zenon DEF GetEventLogs, Texts
<1> HIDE DEF ours, kept, E, c
<1>8. \A n \in 1 .. c : kept[n] = ours[n].log
  BY <1>2, <1>4, <1>5, <1>6
<1>9. /\ DOMAIN E = 1 .. c
      /\ \A n \in 1 .. c :
           /\ E[n].block = ours[n].log.block /\ E[n].index = ours[n].log.index
           /\ E[n].decodeLog = Texts(DecodeLog(GetTopicOption(EventOf(ours[n].log).inputs), ours[n].log))
  BY <1>6, <1>7, <1>8, Zenon
<1>10. \E U : E \in Seq(U) /\ Len(E) = c
  <2> DEFINE U == {E[n] : n \in 1 .. c}
  <2>1. E \in [1 .. c -> U]
    <3>1. PICK dom : dom = 1 .. c
      OBVIOUS
    <3>2. DOMAIN E = dom /\ E = [n \in dom |-> E[n]]
      BY <1>7, <1>9, <3>1, Zenon
    <3> QED
      BY <3>1, <3>2
  <2> HIDE DEF U
  <2>2. E \in Seq(U)
    BY <1>5, <2>1, IsASeq
  <2>3. Len(E) = c
    BY <1>5, <2>1, <2>2, LenProperties
  <2> QED
    BY <2>2, <2>3
<1> QED
  BY <1>5, <1>9, <1>10 DEF ours, E, c

\* The way of an argument to the file: decoded, turned into text when it is big, and through
\* float64.  It comes out as it went in.
LEMMA ArgumentKept ==
    ASSUME NEW v \in Arguments, NEW type, Suits(v, type), Precise(type, v)
    PROVE  ThroughFloat(BigIntToText(GoValue(type, v))) = v
<1> DEFINE go == GoValue(type, v)
<1>1. DOMAIN v \in {{"number"}, {"text"}, {"list"}}
  BY ArgumentFields
<1>2. CASE Static(type)
  <2>1. ~IsHead(v)
    BY <1>2, Zenon DEF Suits
  <2>2. DOMAIN v = {"number"} /\ v = Number(v.number)
    BY <1>1, <2>1, ArgumentFields DEF IsHead
  <2>3. ThroughFloat(v) = v /\ BigIntToText(v) = v
    BY <2>2 DEF ThroughFloat, BigIntToText, IsList
  <2>4. CASE Kind(type) = "machine"
    <3>1. go = [machine |-> v]
      BY <2>1, <2>4 DEF GoValue
    <3>2. DOMAIN go = {"machine"} /\ go.machine = v
      BY <3>1
    <3> HIDE DEF go
    <3>3. BigIntToText(go) = go
      BY <3>2 DEF BigIntToText
    <3>4. ThroughFloat(go) = Number(Float64(v.number))
      <4>1. "machine" \in DOMAIN go /\ "big" \notin DOMAIN go /\ ~IsList(go)
        BY <3>2 DEF IsList
      <4>2. go.machine = v /\ "number" \in DOMAIN v
        BY <2>2, <3>2
      <4> QED
        BY ONLY <4>1, <4>2 DEF ThroughFloat
    <3>5. Float64(v.number) = v.number
      <4>1. v.number \in 0 .. MaxExact
        BY <2>4, Zenon DEF Precise
      <4> QED
        BY <4>1, FloatAssumption
    <3> QED
      BY <2>2, <3>3, <3>4, <3>5, Zenon DEF go
  <2>5. CASE Kind(type) = "big"
    <3>1. go = [big |-> v]
      BY <2>1, <2>5 DEF GoValue
    <3>2. DOMAIN go = {"big"} /\ go.big = v
      BY <3>1
    <3> HIDE DEF go
    <3>3. BigIntToText(go) = v
      BY <3>2 DEF BigIntToText
    <3> QED
      BY <2>3, <3>3, Zenon DEF go
  <2>6. CASE Kind(type) = "word"
    <3>1. go = v
      BY <2>1, <2>6 DEF GoValue
    <3> QED
      BY <2>3, <3>1, Zenon
  <2> QED
    BY <1>2, <2>4, <2>5, <2>6, Kinds DEF Static
<1>3. CASE Kind(type) = "string"
  <2>1. IsHead(v) /\ ~IsList(v)
    BY <1>3 DEF Suits, Static
  <2>2. DOMAIN v = {"text"}
    BY <1>1, <2>1 DEF IsHead, IsList
  <2>3. go = v
    BY <1>3, <2>1 DEF GoValue
  <2>4. ThroughFloat(v) = v /\ BigIntToText(v) = v
    BY <2>1, <2>2 DEF ThroughFloat, BigIntToText
  <2> QED
    BY <2>3, <2>4, Zenon
<1>4. CASE Kind(type) = "list"
  <2>1. IsList(v)
    BY <1>4 DEF Suits
  <2>2. DOMAIN v = {"list"} /\ v = List(v.list) /\ v.list \in Seq(Nat)
    BY <1>1, <2>1, ArgumentFields DEF IsList
  <2>3. go = v
    BY <1>4 DEF GoValue
  <2>4. BigIntToText(v) = v
    BY <2>2 DEF BigIntToText
  <2>5. ThroughFloat(v) = List([i \in DOMAIN v.list |-> Float64(v.list[i])])
    BY <2>1, <2>2 DEF ThroughFloat
  <2>6. PICK numbers : numbers = v.list
    OBVIOUS
  <2>7. \A i \in DOMAIN numbers : Float64(numbers[i]) = numbers[i]
    <3>1. \A i \in DOMAIN numbers : numbers[i] \in 0 .. MaxExact
      BY <1>4, <2>6, Zenon DEF Precise
    <3> QED
      BY <3>1, FloatAssumption
  <2>8. [i \in DOMAIN numbers |-> Float64(numbers[i])] = [i \in DOMAIN numbers |-> numbers[i]]
    BY <2>7, Zenon
  <2>9. numbers = [i \in DOMAIN numbers |-> numbers[i]]
    BY <2>2, <2>6
  <2> QED
    BY <2>2, <2>3, <2>4, <2>5, <2>6, <2>8, <2>9, Zenon
<1> QED
  BY <1>2, <1>3, <1>4, Kinds DEF Static

\* And every parameter of it is saved as its argument.
LEMMA OursDecoded ==
    ASSUME DecodeInv, NEW e, IsEmission(e), ~e.event.anonymous, Registered(e), SameIndexed(e),
           ~LogPanics(e.log), NEW p \in DOMAIN e.args,
           \A q \in DOMAIN Declared(e) \ {p} : Declared(e)[q].name # Declared(e)[p].name,
           Declared(e)[p].name # "method", Precise(e.event.inputs[p].type, e.args[p])
    PROVE  Floats(Texts(DecodeLog(GetTopicOption(EventOf(e.log).inputs), e.log)))[Declared(e)[p].name]
              = e.args[p]
<1>0. interface \in Interfaces \cup {<<>>}
  BY DEF DecodeInv
<1>1. PICK event \in Contract : \E args \in ArgsOf(event) : \E address, block, index :
              e = Emission(event, args, address, block, index)
  BY DEF IsEmission
<1>2. PICK args \in ArgsOf(event) : \E address, block, index :
              e = Emission(event, args, address, block, index)
  BY <1>1
<1>3. PICK address, block, index : e = Emission(event, args, address, block, index)
  BY <1>2
<1>4. e.event = event /\ e.args = args /\ e.log = Log(event, args, address, block, index)
  BY <1>3, Zenon DEF Emission
<1> DEFINE inputs == Declared(e)
<1>5. /\ EventOf(e.log).inputs = inputs /\ inputs \in Seq(Params)
      /\ DOMAIN inputs = DOMAIN event.inputs /\ Matches(inputs, event)
  BY <1>0, <1>3, <1>4, EventOfLog
<1>6. \A i \in InTopics(event.inputs) : Static(event.inputs[i].type)
  <2>1. ~Pending(e.log)
    BY Zenon DEF LogPanics
  <2>2. ~\E i \in InTopics(e.event.inputs) : ~Static(e.event.inputs[i].type)
    BY <1>0, <2>1, LostLogs
  <2> QED
    BY <1>4, <2>2, Zenon
<1>7. p \in DOMAIN inputs /\ DOMAIN inputs = 1 .. Len(inputs)
  <2>1. DOMAIN args = DOMAIN event.inputs
    BY DEF ArgsOf
  <2> QED
    BY <1>4, <1>5, <2>1, LenProperties
<1>8. \A q \in 1 .. Len(inputs) : inputs[q].name = inputs[p].name => q = p
  BY <1>7, Zenon
<1> HIDE DEF inputs
<1>9. inputs[p].name # "method" /\ p \in 1 .. Len(inputs)
  BY <1>7 DEF inputs
<1> DEFINE decoded == DecodeLog(GetTopicOption(inputs), Log(event, args, address, block, index))
<1>10. inputs[p].name \in DOMAIN decoded /\ decoded[inputs[p].name] = GoValue(inputs[p].type, args[p])
  BY <1>4, <1>5, <1>6, <1>8, <1>9, MatchDecodes
<1> HIDE DEF decoded
<1>11. Floats(Texts(decoded))[inputs[p].name]
          = ThroughFloat(BigIntToText(GoValue(inputs[p].type, args[p])))
  BY <1>10, Zenon DEF Floats, Texts
<1>12. /\ args[p] \in Arguments /\ Suits(args[p], inputs[p].type)
       /\ Kind(inputs[p].type) = Kind(event.inputs[p].type)
  BY <1>5, <1>9, Matched
<1>13. Precise(inputs[p].type, args[p])
  BY <1>4, <1>12, Zenon DEF Precise
<1>14. Floats(Texts(decoded))[inputs[p].name] = args[p]
  BY <1>11, <1>12, <1>13, ArgumentKept
<1> QED
  BY <1>4, <1>5, <1>14, Zenon DEF inputs, decoded

\* An entry is that of an emission, with its parameters' own values.
EntryOf(entry, e) ==
    /\ entry.index = e.log.index
    /\ \A p \in DOMAIN e.args :
          /\ \A q \in DOMAIN Declared(e) \ {p} : Declared(e)[q].name # Declared(e)[p].name
          /\ Declared(e)[p].name # "method"
          /\ Precise(e.event.inputs[p].type, e.args[p])
          => entry.decodeLog[Declared(e)[p].name] = e.args[p]

\* What is saved is what the contracts emitted: of a reply that no log spoils, a block gets one entry
\* for each event that the collection declares as its contract does, in the order of the chain, with
\* every parameter's own value under its own name, as far as a float64 holds the integers of up to
\* 64 bits and those in lists, and of any size otherwise (decoder.go, eventLogger.go, convert.go).
THEOREM SavedAsEmitted == DecodeSpec => []DecodedAsEmitted
<1>1. ASSUME DecodeInv PROVE DecodedAsEmitted
  <2> DEFINE ours == Picked(emitted, Ours)
             c == Cardinality(Ours)
             E == GetEventLogs(Logs)
             blocks == GetBlockLog(E)
             saved == {SaveToFile(t) : t \in blocks}
             B(b) == {i \in DOMAIN ours : ours[i].log.block = b}
             here(s) == Picked(ours, B(s.block))
  <2> SUFFICES ASSUME ~ReplyPanics(Logs), \A i \in DOMAIN ours : SameIndexed(ours[i])
               PROVE  /\ {s.block : s \in saved} = {ours[i].log.block : i \in DOMAIN ours}
                      /\ \A s \in saved :
                           /\ Len(s.eventLogs) = Len(here(s))
                           /\ \A n \in DOMAIN here(s) : EntryOf(s.eventLogs[n], here(s)[n])
    BY ZenonT(60) DEF DecodedAsEmitted, Ours, EntryOf
  <2>1. /\ c \in Nat /\ DOMAIN ours = 1 .. c /\ DOMAIN E = 1 .. c
        /\ \A n \in 1 .. c :
             /\ \E i \in Ours : ours[n] = emitted[i]
             /\ E[n].block = ours[n].log.block /\ E[n].index = ours[n].log.index
             /\ E[n].decodeLog = Texts(DecodeLog(GetTopicOption(EventOf(ours[n].log).inputs), ours[n].log))
    BY <1>1, EventLogsOf
  <2>2. PICK S : ours \in Seq(S) /\ Len(ours) = c
    BY <1>1, EventLogsOf
  <2>3. PICK T : E \in Seq(T) /\ Len(E) = c
    BY <1>1, EventLogsOf
  <2>4. \A n \in 1 .. c :
           /\ IsEmission(ours[n]) /\ ~ours[n].event.anonymous /\ Registered(ours[n])
           /\ SameIndexed(ours[n]) /\ ~LogPanics(ours[n].log)
    <3> SUFFICES ASSUME NEW n \in 1 .. c
                 PROVE  /\ IsEmission(ours[n]) /\ ~ours[n].event.anonymous /\ Registered(ours[n])
                        /\ SameIndexed(ours[n]) /\ ~LogPanics(ours[n].log)
      OBVIOUS
    <3>1. PICK i \in Ours : ours[n] = emitted[i]
      BY <2>1
    <3>2. i \in DOMAIN emitted /\ ~emitted[i].event.anonymous /\ Registered(emitted[i])
      BY <3>1, Zenon DEF Ours
    <3>3. ~LogPanics(emitted[i].log)
      <4>1. PICK U : emitted \in Seq(U)
        BY <1>1 DEF DecodeInv
      <4>2. i \in DOMAIN Logs /\ Logs[i] = emitted[i].log
        BY <3>2, <4>1, LogsOf
      <4> QED
        BY <4>2, Zenon DEF ReplyPanics
    <3>4. IsEmission(emitted[i])
      BY <1>1, <3>2 DEF DecodeInv
    <3>5. SameIndexed(ours[n])
      BY <2>1
    <3> QED
      BY <3>1, <3>2, <3>3, <3>4, <3>5, Zenon
  <2> HIDE DEF ours, c, E
  <2>5. blocks = {[block |-> b, eventLogs |-> Picked(E, B(b))] : b \in {ours[i].log.block : i \in 1 .. c}}
    <3>1. \A b : {i \in DOMAIN E : E[i].block = b} = B(b)
      BY <2>1
    <3>2. {E[i].block : i \in DOMAIN E} = {ours[i].log.block : i \in 1 .. c}
      BY <2>1
    <3>3. blocks = {[block |-> b, eventLogs |-> Picked(E, {i \in DOMAIN E : E[i].block = b})]
                      : b \in {E[i].block : i \in DOMAIN E}}
      BY Zenon DEF GetBlockLog
    <3>4. \A b : [block |-> b, eventLogs |-> Picked(E, {i \in DOMAIN E : E[i].block = b})]
                   = [block |-> b, eventLogs |-> Picked(E, B(b))]
      BY <3>1, Zenon
    <3> HIDE DEF B
    <3> QED
      BY ONLY <3>2, <3>3, <3>4, Zenon
  <2> HIDE DEF blocks
  <2>6. {s.block : s \in blocks} = {ours[i].log.block : i \in DOMAIN ours}
    <3>1. ASSUME NEW s \in blocks PROVE s.block \in {ours[i].log.block : i \in 1 .. c}
      <4>1. PICK b \in {ours[i].log.block : i \in 1 .. c} : s = [block |-> b, eventLogs |-> Picked(E, B(b))]
        BY <2>5, <3>1, Zenon
      <4> QED
        BY <4>1
    <3>2. ASSUME NEW b \in {ours[i].log.block : i \in 1 .. c} PROVE \E s \in blocks : s.block = b
      <4>1. [block |-> b, eventLogs |-> Picked(E, B(b))] \in blocks
        BY <2>5, Zenon
      <4> QED
        BY <4>1
    <3> QED
      BY <2>1, <3>1, <3>2, Zenon
  <2>7. ASSUME NEW s \in blocks
        PROVE  /\ \E T0 : s.eventLogs \in Seq(T0)
               /\ Len(s.eventLogs) = Len(here(s)) /\ DOMAIN here(s) = 1 .. Cardinality(B(s.block))
               /\ \A n \in DOMAIN here(s) : \E m \in 1 .. c :
                     here(s)[n] = ours[m] /\ s.eventLogs[n] = E[m]
    <3>1. PICK b : s = [block |-> b, eventLogs |-> Picked(E, B(b))]
      BY <2>5
    <3>2. s.block = b /\ s.eventLogs = Picked(E, B(b)) /\ here(s) = Picked(ours, B(b))
      BY <3>1, Zenon
    <3>3. B(b) \subseteq 1 .. c /\ B(b) \subseteq 1 .. Len(ours) /\ B(b) \subseteq 1 .. Len(E)
      BY <2>1, <2>2, <2>3
    <3> DEFINE P == B(b)
    <3> HIDE DEF P
    <3>4. P \subseteq 1 .. c /\ P \subseteq 1 .. Len(ours) /\ P \subseteq 1 .. Len(E)
      BY <3>3 DEF P
    <3>5. /\ Len(Picked(ours, P)) = Cardinality(P)
          /\ \A n \in 1 .. Cardinality(P) : Place(P, n) \in P /\ Picked(ours, P)[n] = ours[Place(P, n)]
      <4>1. Len(Picked(ours, P)) = Cardinality(P)
        BY ONLY <2>2, <3>4, PickedElements
      <4>2. \A n \in 1 .. Cardinality(P) : Picked(ours, P)[n] = ours[Place(P, n)]
        BY Zenon DEF Picked
      <4>3. \A n \in 1 .. Cardinality(P) : Place(P, n) \in P
        BY ONLY <2>1, <3>4, Places
      <4> QED
        BY <4>1, <4>2, <4>3
    <3>6. /\ Picked(E, P) \in Seq(T) /\ Len(Picked(E, P)) = Cardinality(P)
          /\ \A n \in 1 .. Cardinality(P) : Picked(E, P)[n] = E[Place(P, n)]
      BY ONLY <2>3, <3>4, PickedElements
    <3>7. DOMAIN Picked(ours, P) = 1 .. Cardinality(P)
      BY Zenon DEF Picked
    <3>8. /\ Picked(E, P) \in Seq(T)
          /\ Len(Picked(E, P)) = Len(Picked(ours, P))
          /\ \A n \in 1 .. Cardinality(P) : \E m \in 1 .. c :
                Picked(ours, P)[n] = ours[m] /\ Picked(E, P)[n] = E[m]
      BY <3>4, <3>5, <3>6
    <3> QED
      BY <3>2, <3>7, <3>8, Zenon DEF P
  <2>8. ASSUME NEW t \in blocks
        PROVE  LET s == SaveToFile(t)
               IN  /\ s.block = t.block /\ Len(s.eventLogs) = Len(t.eventLogs)
                   /\ \A n \in DOMAIN here(t) :
                        /\ s.eventLogs[n].index = t.eventLogs[n].index
                        /\ s.eventLogs[n].decodeLog = Floats(t.eventLogs[n].decodeLog)
    <3> DEFINE s == SaveToFile(t)
    <3>1. PICK T0 : t.eventLogs \in Seq(T0)
      BY <2>7, <2>8
    <3>2. /\ Len(t.eventLogs) \in Nat /\ DOMAIN t.eventLogs = 1 .. Len(t.eventLogs)
          /\ DOMAIN here(t) = 1 .. Len(t.eventLogs)
      <4>1. Len(t.eventLogs) = Len(here(t)) /\ DOMAIN here(t) = 1 .. Cardinality(B(t.block))
        BY <2>7, <2>8
      <4>2. Len(t.eventLogs) \in Nat /\ DOMAIN t.eventLogs = 1 .. Len(t.eventLogs)
        BY <3>1, LenProperties
      <4>3. B(t.block) \subseteq 1 .. c
        BY <2>1
      <4>4. Cardinality(B(t.block)) \in Nat
        <5>1. IsFiniteSet(1 .. c)
          BY <2>1, FS_Interval
        <5> HIDE DEF B
        <5> QED
          BY <4>3, <5>1, FS_Subset, FS_CardinalityType
      <4>5. Len(here(t)) = Cardinality(B(t.block))
        <5>1. PICK P : P = B(t.block)
          OBVIOUS
        <5>2. P \subseteq 1 .. Len(ours)
          BY <2>2, <4>3, <5>1
        <5>3. Len(Picked(ours, P)) = Cardinality(P)
          BY ONLY <2>2, <5>2, PickedElements
        <5> QED
          BY <5>1, <5>3, Zenon
      <4> HIDE DEF here, B
      <4> QED
        BY <4>1, <4>2, <4>4, <4>5
    <3>3. /\ s.block = t.block /\ DOMAIN s.eventLogs = DOMAIN t.eventLogs
          /\ \A n \in DOMAIN t.eventLogs :
               /\ s.eventLogs[n].index = t.eventLogs[n].index
               /\ s.eventLogs[n].decodeLog = Floats(t.eventLogs[n].decodeLog)
          /\ s.eventLogs = [n \in DOMAIN t.eventLogs |-> s.eventLogs[n]]
      BY Zenon DEF SaveToFile, Floats
    <3> HIDE DEF s, here
    <3>4. Len(s.eventLogs) = Len(t.eventLogs)
      <4>1. PICK f, k : f = s.eventLogs /\ k = Len(t.eventLogs)
        OBVIOUS
      <4>2. k \in Nat /\ f = [n \in 1 .. k |-> f[n]]
        BY <3>2, <3>3, <4>1, Zenon
      <4>3. f \in Seq({f[n] : n \in 1 .. k}) /\ DOMAIN f = 1 .. k
        BY ONLY <4>2, IsASeq
      <4>4. Len(f) = k
        BY ONLY <4>2, <4>3, LenProperties
      <4> QED
        BY <4>1, <4>4
    <3> QED
      BY <3>2, <3>3, <3>4, Zenon DEF s
  <2>9. {s.block : s \in saved} = {ours[i].log.block : i \in DOMAIN ours}
    <3>1. \A t \in blocks : SaveToFile(t).block = t.block
      BY <2>8, Zenon
    <3>2. {s.block : s \in saved} = {t.block : t \in blocks}
      BY <3>1
    <3> QED
      BY <2>6, <3>2, Zenon
  <2>10. ASSUME NEW t \in blocks, NEW n \in DOMAIN here(t)
         PROVE  EntryOf(SaveToFile(t).eventLogs[n], here(t)[n])
    <3>1. PICK m \in 1 .. c : here(t)[n] = ours[m] /\ t.eventLogs[n] = E[m]
      BY <2>7, <2>10
    <3> DEFINE e == ours[m]
    <3>2. /\ IsEmission(e) /\ ~e.event.anonymous /\ Registered(e) /\ SameIndexed(e) /\ ~LogPanics(e.log)
      BY <2>4
    <3>3. /\ E[m].index = e.log.index
          /\ E[m].decodeLog = Texts(DecodeLog(GetTopicOption(EventOf(e.log).inputs), e.log))
      BY <2>1
    <3> HIDE DEF e
    <3>4. ASSUME NEW p \in DOMAIN e.args,
                 \A q \in DOMAIN Declared(e) \ {p} : Declared(e)[q].name # Declared(e)[p].name,
                 Declared(e)[p].name # "method", Precise(e.event.inputs[p].type, e.args[p])
          PROVE  Floats(E[m].decodeLog)[Declared(e)[p].name] = e.args[p]
      <4>1. Floats(Texts(DecodeLog(GetTopicOption(EventOf(e.log).inputs), e.log)))[Declared(e)[p].name]
              = e.args[p]
        BY ONLY <1>1, <3>2, <3>4, OursDecoded
      <4> QED
        BY <3>3, <4>1, Zenon
    <3>5. here(t)[n] = e /\ t.eventLogs[n] = E[m]
      BY <3>1 DEF e
    <3>6. /\ SaveToFile(t).eventLogs[n].index = t.eventLogs[n].index
          /\ SaveToFile(t).eventLogs[n].decodeLog = Floats(t.eventLogs[n].decodeLog)
      BY <2>8, <2>10, Zenon
    <3> HIDE DEF here
    <3>7. PICK entry : entry = SaveToFile(t).eventLogs[n]
      OBVIOUS
    <3>8. entry.index = e.log.index /\ entry.decodeLog = Floats(E[m].decodeLog)
      BY <3>3, <3>5, <3>6, <3>7, Zenon
    <3>9. EntryOf(entry, e)
      BY <3>4, <3>8, Zenon DEF EntryOf
    <3> QED
      BY <3>5, <3>7, <3>9, Zenon
  <2>11. ASSUME NEW s \in saved
         PROVE  \E t \in blocks : s = SaveToFile(t) /\ here(s) = here(t)
                                  /\ Len(s.eventLogs) = Len(here(t))
    <3>1. PICK t \in blocks : s = SaveToFile(t)
      BY <2>11
    <3>2. s.block = t.block /\ Len(s.eventLogs) = Len(t.eventLogs)
      BY <2>8, <3>1, Zenon
    <3>3. Len(t.eventLogs) = Len(here(t))
      BY <2>7
    <3>4. here(s) = here(t)
      BY <3>2, Zenon
    <3> HIDE DEF here
    <3> QED
      BY <3>1, <3>2, <3>3, <3>4, Zenon
  <2> HIDE DEF here
  <2>12. ASSUME NEW s \in saved
         PROVE  /\ Len(s.eventLogs) = Len(here(s))
                /\ \A n \in DOMAIN here(s) : EntryOf(s.eventLogs[n], here(s)[n])
    <3>1. PICK t \in blocks : s = SaveToFile(t) /\ here(s) = here(t) /\ Len(s.eventLogs) = Len(here(t))
      BY <2>11, <2>12
    <3>2. PICK there : there = here(s)
      OBVIOUS
    <3>3. there = here(t) /\ Len(s.eventLogs) = Len(there)
      BY <3>1, <3>2, Zenon
    <3>4. \A n \in DOMAIN there : EntryOf(s.eventLogs[n], there[n])
      BY <2>10, <3>1, <3>3, Zenon
    <3> QED
      BY <3>2, <3>3, <3>4, Zenon
  <2> QED
    BY <2>9, <2>12, Zenon
<1> QED
  BY <1>1, DecodeInvHolds, PTL
=============================================================================
