--------------------------- MODULE EventCollector ---------------------------
(***************************************************************************)
(* The event collector of plugins/backend (pkg/eventLogger/eventCollector) *)
(* for one chain of a fixed configuration, as in live mode, which the API  *)
(* refuses to change.  One goroutine per collector polls the node, writes  *)
(* each block that has events to `<n>.json' in the collector's directory,  *)
(* and records in `event.meta' the last block it has dealt with.           *)
(*                                                                         *)
(* Durable: meta and dir.  Volatile: everything a goroutine holds (pc,     *)
(* latestBlockNumber, toBlock, blockLogs, saving); a crash loses it.       *)
(* The node and the file system are the environment.                       *)
(***************************************************************************)
EXTENDS Uint64, FiniteSets, LogDirectory

CONSTANTS
    Collectors,        \* the collectors of the chain's configuration
    StartBlockNumber,  \* [Collectors -> Nat], collectors.<name>.startBlockNumber
    LogRange,          \* the most blocks one cycle asks the node for
    CommitBlockCount,  \* how far behind the node's height a cycle stays
    Lag,               \* how far one backend of the endpoint trails another
    MinHead,           \* the node's height when the logger first runs
    FetchReplies,      \* what a reply without "error" to eth_getLogs may hold
    DiskFaults,        \* whether a file operation may fail
    MaxHead,           \* bound: the node mines no block above this one
    MaxCrashes         \* bound: how often the process may die

ASSUME ConfigAssumption ==
    /\ StartBlockNumber \in [Collectors -> Nat]
    /\ {LogRange, CommitBlockCount, Lag, MinHead, MaxHead, MaxCrashes} \subseteq Nat
    /\ FetchReplies \subseteq {"logs", "blank"}
    /\ DiskFaults \in BOOLEAN
    /\ MinHead <= MaxHead
    /\ MaxHead + LogRange < U64
    /\ \A c \in Collectors : StartBlockNumber[c] + LogRange < U64

VARIABLES
    head,               \* the height of the node
    logs,               \* [Collectors -> blocks with an event for the collector]
    syncing,            \* whether the node answers eth_syncing with a status
    crashes,            \* how often the process has died
    meta,               \* the number event.meta reads as; 0 when missing or empty
    dir,                \* the event files in the collector's directory
    pc,                 \* where the collector's goroutine is
    latestBlockNumber,  \* the goroutine's copy of the cursor
    toBlock,            \* the last block of the range being collected
    blockLogs,          \* blocks fetched and not yet saved
    saving              \* the block whose file is being written

nodeVars == <<head, logs, syncing>>
diskVars == <<meta, dir>>
cycleVars == <<latestBlockNumber, toBlock, blockLogs, saving>>
vars == <<nodeVars, diskVars, cycleVars, crashes, pc>>

Stages == {"read", "poll", "fetch", "save", "write", "rename", "meta", "wait"}

\* The blocks whose events are in a complete <n>.json of collector c.
Saved(c) == SavedIn(dir[c])

TypeOK ==
    /\ head \in 0 .. MaxHead
    /\ logs \in [Collectors -> SUBSET (1 .. MaxHead)]
    /\ syncing \in BOOLEAN
    /\ crashes \in 0 .. MaxCrashes
    /\ meta \in [Collectors -> Uint]
    /\ dir \in [Collectors -> SUBSET Files]
    /\ pc \in [Collectors -> Stages \cup {"down"}]
    /\ latestBlockNumber \in [Collectors -> Uint]
    /\ toBlock \in [Collectors -> Uint]
    /\ blockLogs \in [Collectors -> SUBSET (1 .. MaxHead)]
    /\ saving \in [Collectors -> 0 .. MaxHead]

\* main and eventCollector.Run: every collector starts with nothing on disk.
Init ==
    /\ head \in MinHead .. MaxHead
    /\ logs \in [Collectors -> SUBSET (1 .. head)]
    /\ syncing \in BOOLEAN
    /\ crashes = 0
    /\ meta = [c \in Collectors |-> 0]
    /\ dir = [c \in Collectors |-> {}]
    /\ pc = [c \in Collectors |-> "read"]
    /\ latestBlockNumber = [c \in Collectors |-> 0]
    /\ toBlock = [c \in Collectors |-> 0]
    /\ blockLogs = [c \in Collectors |-> {}]
    /\ saving = [c \in Collectors |-> 0]

Goto(c, stage) == pc' = [pc EXCEPT ![c] = stage]

DiskOutcomes == {TRUE} \cup (IF DiskFaults THEN {FALSE} ELSE {})
-----------------------------------------------------------------------------
(***************************************************************************)
(* The node.                                                               *)
(***************************************************************************)
\* A block is mined; its transactions may emit events of any collectors.
Mine ==
    /\ head < MaxHead
    /\ head' = head + 1
    /\ \E touched \in SUBSET Collectors :
          logs' = [c \in Collectors |->
                     IF c \in touched THEN logs[c] \cup {head + 1} ELSE logs[c]]
    /\ UNCHANGED <<syncing, diskVars, cycleVars, crashes, pc>>

ToggleSyncing ==
    /\ syncing' = ~syncing
    /\ UNCHANGED <<head, logs, diskVars, cycleVars, crashes, pc>>

\* The heights the backend that answers a request may be at.
Heights == {h \in 0 .. head : h + Lag >= head}
-----------------------------------------------------------------------------
(***************************************************************************)
(* One cycle of workerForContract.                                         *)
(***************************************************************************)
\* The top of the loop: the larger of event.meta and startBlockNumber.
ReadCursor(c) ==
    /\ pc[c] = "read"
    /\ latestBlockNumber' =
          [latestBlockNumber EXCEPT ![c] = Larger(meta[c], StartBlockNumber[c])]
    /\ Goto(c, "poll")
    /\ UNCHANGED <<nodeVars, diskVars, toBlock, blockLogs, saving, crashes>>

ToBlockNumberUncommitted(h) == IF syncing THEN 0 ELSE h

\* The height up to which blocks count as committed.  While the node is
\* syncing, the status decodes to CurrentBlock = 0 whatever the node said.
ToBlockNumber(h) == IF syncing THEN 0 ELSE Sub64(h, CommitBlockCount)

PollForWholeRange(c) ==
    /\ pc[c] = "poll"
    /\ \E h \in Heights :
          IF Add64(latestBlockNumber[c], LogRange) > ToBlockNumber(h)
          THEN Goto(c, "wait") /\ UNCHANGED toBlock
          ELSE /\ toBlock' = [toBlock EXCEPT ![c] = Add64(latestBlockNumber[c], LogRange)]
               /\ Goto(c, "fetch")
    /\ UNCHANGED <<nodeVars, diskVars, latestBlockNumber, blockLogs, saving, crashes>>

\* eth_syncing and eth_blockNumber, and the range of blocks they leave.
Poll(c) ==
    /\ pc[c] = "poll"
    /\ \E h \in Heights :
          IF latestBlockNumber[c] >= ToBlockNumber(h)
          THEN Goto(c, "wait") /\ UNCHANGED toBlock
          ELSE /\ toBlock' = [toBlock EXCEPT ![c] =
                                Smaller(Add64(latestBlockNumber[c], LogRange),
                                        ToBlockNumber(h))]
               /\ Goto(c, "fetch")
    /\ UNCHANGED <<nodeVars, diskVars, latestBlockNumber, blockLogs, saving, crashes>>

FromBlockAgain(c) == latestBlockNumber[c]

FromBlock(c) == Add64(latestBlockNumber[c], 1)

ReturnedToLatest(c, h, reply) ==
    IF reply = "blank" THEN {} ELSE {b \in logs[c] : FromBlock(c) <= b /\ b <= h}

\* The blocks with events that a backend at height h returns for the range.
Returned(c, h, reply) ==
    IF reply = "blank" THEN {}
    ELSE {b \in logs[c] : FromBlock(c) <= b /\ b <= toBlock[c] /\ b <= h}

\* eth_getLogs.  A body with neither "result" nor "error" counts as no logs.
Fetch(c) ==
    /\ pc[c] = "fetch"
    /\ \E h \in Heights, reply \in FetchReplies :
          blockLogs' = [blockLogs EXCEPT ![c] = Returned(c, h, reply)]
    /\ Goto(c, "save")
    /\ UNCHANGED <<nodeVars, diskVars, latestBlockNumber, toBlock, saving, crashes>>

GiveUpUnrecovered(c) ==
    /\ pc[c] \in {"poll", "fetch"}
    /\ Goto(c, "panicked")
    /\ UNCHANGED <<nodeVars, diskVars, cycleVars, crashes>>

\* A request fails: the panic is recovered and the cycle is given up.
GiveUp(c) ==
    /\ pc[c] \in {"poll", "fetch"}
    /\ Goto(c, "wait")
    /\ UNCHANGED <<nodeVars, diskVars, cycleVars, crashes>>

\* SaveToFile, first step: <n>.json.lock is created or truncated.
OpenLockUnlocked(c) ==
    /\ pc[c] = "save"
    /\ \E b \in blockLogs[c] :
          /\ saving' = [saving EXCEPT ![c] = b]
          /\ dir' = [dir EXCEPT ![c] = Put(@, File("json", b, "empty"))]
          /\ Goto(c, "write")
    /\ UNCHANGED <<nodeVars, meta, latestBlockNumber, toBlock, blockLogs, crashes>>

OpenLock(c) ==
    /\ pc[c] = "save"
    /\ \E b \in blockLogs[c], ok \in DiskOutcomes :
          /\ saving' = [saving EXCEPT ![c] = b]
          /\ dir' = IF ok THEN [dir EXCEPT ![c] = Put(@, File("lock", b, "empty"))] ELSE dir
          /\ Goto(c, IF ok THEN "write" ELSE "rename")
    /\ UNCHANGED <<nodeVars, meta, latestBlockNumber, toBlock, blockLogs, crashes>>

WriteLock(c) ==
    /\ pc[c] = "write"
    /\ \E ok \in DiskOutcomes :
          dir' = IF ok THEN [dir EXCEPT ![c] = Put(@, File("lock", saving[c], "full"))]
                 ELSE dir
    /\ Goto(c, "rename")
    /\ UNCHANGED <<nodeVars, meta, cycleVars, crashes>>

\* SaveToFile, last step: os.Rename publishes the block.
RenameLock(c) ==
    /\ pc[c] = "rename"
    /\ dir' = [dir EXCEPT ![c] = Renamed(@, saving[c])]
    /\ blockLogs' = [blockLogs EXCEPT ![c] = @ \ {saving[c]}]
    /\ Goto(c, "save")
    /\ UNCHANGED <<nodeVars, meta, latestBlockNumber, toBlock, saving, crashes>>

TruncateMetaEarly(c) ==
    /\ pc[c] = "save"
    /\ latestBlockNumber' = [latestBlockNumber EXCEPT ![c] = toBlock[c]]
    /\ meta' = [meta EXCEPT ![c] = 0]
    /\ Goto(c, "meta")
    /\ UNCHANGED <<nodeVars, dir, toBlock, blockLogs, saving, crashes>>

\* The range is done: event.meta is opened with O_TRUNC, then written.
TruncateMeta(c) ==
    /\ pc[c] = "save"
    /\ blockLogs[c] = {}
    /\ latestBlockNumber' = [latestBlockNumber EXCEPT ![c] = toBlock[c]]
    /\ \E ok \in DiskOutcomes :
          /\ meta' = IF ok THEN [meta EXCEPT ![c] = 0] ELSE meta
          /\ Goto(c, IF ok THEN "meta" ELSE "wait")
    /\ UNCHANGED <<nodeVars, dir, toBlock, blockLogs, saving, crashes>>

WriteMeta(c) ==
    /\ pc[c] = "meta"
    /\ \E ok \in DiskOutcomes :
          meta' = IF ok THEN [meta EXCEPT ![c] = latestBlockNumber[c]] ELSE meta
    /\ Goto(c, "wait")
    /\ UNCHANGED <<nodeVars, dir, cycleVars, crashes>>

\* The period is over.
Wake(c) ==
    /\ pc[c] = "wait"
    /\ Goto(c, "read")
    /\ UNCHANGED <<nodeVars, diskVars, cycleVars, crashes>>
-----------------------------------------------------------------------------
(***************************************************************************)
(* The process dies between any two steps and is started again.            *)
(***************************************************************************)
Crash ==
    /\ crashes < MaxCrashes
    /\ \E c \in Collectors : pc[c] # "down"
    /\ crashes' = crashes + 1
    /\ pc' = [c \in Collectors |-> "down"]
    /\ latestBlockNumber' = [c \in Collectors |-> 0]
    /\ toBlock' = [c \in Collectors |-> 0]
    /\ blockLogs' = [c \in Collectors |-> {}]
    /\ saving' = [c \in Collectors |-> 0]
    /\ UNCHANGED <<nodeVars, diskVars>>

Restart ==
    /\ \A c \in Collectors : pc[c] = "down"
    /\ pc' = [c \in Collectors |-> "read"]
    /\ UNCHANGED <<nodeVars, diskVars, cycleVars, crashes>>

Cycle(c) ==
    \/ ReadCursor(c) \/ Poll(c) \/ Fetch(c) \/ GiveUp(c)
    \/ OpenLock(c) \/ WriteLock(c) \/ RenameLock(c)
    \/ TruncateMeta(c) \/ WriteMeta(c) \/ Wake(c)

Next ==
    \/ Mine \/ ToggleSyncing
    \/ \E c \in Collectors : Cycle(c)
    \/ Crash \/ Restart

\* A goroutine that can run does run, and a dead process is started again.  Of
\* the endpoint: it does not fail at every request.
Fairness ==
    /\ WF_vars(Restart)
    /\ \A c \in Collectors :
          /\ WF_vars(Cycle(c))
          /\ SF_vars(Poll(c))
          /\ SF_vars(Fetch(c))

Spec == Init /\ [][Next]_vars

FairSpec == Spec /\ Fairness
-----------------------------------------------------------------------------
(***************************************************************************)
(* What must hold.                                                         *)
(***************************************************************************)
\* The deployment in which the collector keeps its promise: commitBlockCount covers
\* the lag of the endpoint's backends; no backend is lower than commitBlockCount;
\* every successful reply holds the logs; the disk takes every write.
SafeDeployment ==
    /\ LogRange >= 1
    /\ CommitBlockCount + Lag <= MinHead
    /\ Lag <= CommitBlockCount
    /\ FetchReplies = {"logs"}
    /\ ~DiskFaults

\* Every event above startBlockNumber and at or below event.meta is in a
\* complete file: whatever the next cycle skips has been saved.
NoEventLost ==
    \A c \in Collectors : \A b \in logs[c] :
       StartBlockNumber[c] < b /\ b <= meta[c] => b \in Saved(c)

\* event.meta never names a block that is not yet commitBlockCount deep.
CursorIsCommitted ==
    \A c \in Collectors : meta[c] = 0 \/ meta[c] + CommitBlockCount <= head

\* A crash at any step leaves no half-written <n>.json for an actor to read.
NoTornFile ==
    \A c \in Collectors : \A f \in dir[c] : f.kind = "json" => f.body = "full"

\* A block at or below event.meta is never collected a second time.
CollectsBeyondCursor ==
    [][\A c \in Collectors : \A f \in dir'[c] \ dir[c] : f.block > meta[c]]_vars

\* Every event in a block that is deep enough for the slowest backend is saved
\* in the end, whatever requests fail and whenever the process dies, provided
\* the node is at last in sync.
EventuallySaved ==
    <>[]~syncing =>
       \A c \in Collectors : \A b \in 1 .. MaxHead :
          (/\ b \in logs[c]
           /\ StartBlockNumber[c] < b
           /\ b + CommitBlockCount + Lag <= head)
          ~> b \in Saved(c)
-----------------------------------------------------------------------------
(***************************************************************************)
(* The collector implements EventFeed.  While event.meta is being          *)
(* rewritten the cursor is the number about to be written: a crash there   *)
(* is the step that loses it.                                              *)
(***************************************************************************)
Cursor(c) ==
    IF pc[c] = "meta" THEN latestBlockNumber[c]
    ELSE Larger(meta[c], StartBlockNumber[c])

Feed == INSTANCE EventFeed WITH
    saved <- [c \in Collectors |-> Saved(c)],
    cursor <- [c \in Collectors |-> Cursor(c)]

\* Each block is saved only once it is committed, and the cursor passes a range
\* only when the events in it are all saved.
ImplementsFeed == Feed!Spec
=============================================================================
