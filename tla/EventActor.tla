----------------------------- MODULE EventActor -----------------------------
(***************************************************************************)
(* The event actors of plugins/backend (pkg/eventLogger/eventActor) for    *)
(* one chain in live mode.  One goroutine per actor goes through the       *)
(* directories of its collectors in turn: it lists the files in the order  *)
(* of their blocks, and for each file asks the node for the block and for  *)
(* the receipt of every event's transaction, handles the events one by     *)
(* one and removes the file.  A failing request panics: the rest of the    *)
(* listing is left for the next period.                                    *)
(*                                                                         *)
(* The directories are the collectors' too, and `delivered', the events    *)
(* an actor has written out, is outside the process: both outlive a crash. *)
(* Every event is taken to have a transaction, and so a request, of its    *)
(* own; events that share one make fewer requests fail.                    *)
(***************************************************************************)
EXTENDS LogDirectory, SequencesExt

CONSTANTS
    Collectors,
    Actors,
    CollectorsOf,    \* [Actors -> Seq(Collectors)], actors.<name>.collectors
    EventsPerBlock,  \* the events in one file
    MaxBlock         \* bound: no block is above this one

VARIABLES
    dir,        \* the event files in each collector's directory
    delivered,  \* the events handled so far
    apc,        \* where the actor's goroutine is
    turn,       \* the position in CollectorsOf of the directory it is at
    filePaths,  \* the listing it is working through, as block numbers
    at,         \* the position in filePaths of the file it is at
    nextEvent   \* the position in the file of the next event to handle

cycleVars == <<apc, turn, filePaths, at, nextEvent>>
actorVars == <<delivered, cycleVars>>

Events == [collector : Collectors, block : 1 .. MaxBlock, index : 1 .. EventsPerBlock]

Event(c, b, k) == [collector |-> c, block |-> b, index |-> k]

\* Every event in block b has been handled.
Handled(c, b) == \A k \in 1 .. EventsPerBlock : Event(c, b, k) \in delivered

ActorTypeOK ==
    /\ delivered \subseteq Events
    /\ apc \in [Actors -> {"list", "file", "block", "event", "remove", "sleep", "down"}]
    /\ turn \in [Actors -> Nat]
    /\ filePaths \in [Actors -> Seq(1 .. MaxBlock)]
    /\ at \in [Actors -> Nat]
    /\ nextEvent \in [Actors -> 1 .. EventsPerBlock]
    /\ \A a \in Actors :
          /\ turn[a] \in DOMAIN CollectorsOf[a]
          /\ at[a] \in 1 .. Len(filePaths[a]) + 1
          /\ apc[a] \in {"block", "event", "remove"} => at[a] \in DOMAIN filePaths[a]

ActorInit ==
    /\ delivered = {}
    /\ apc = [a \in Actors |-> "list"]
    /\ turn = [a \in Actors |-> 1]
    /\ filePaths = [a \in Actors |-> <<>>]
    /\ at = [a \in Actors |-> 1]
    /\ nextEvent = [a \in Actors |-> 1]

Stage(a, stage) == apc' = [apc EXCEPT ![a] = stage]

Directory(a) == CollectorsOf[a][turn[a]]

Block(a) == filePaths[a][at[a]]
-----------------------------------------------------------------------------
InsertedFirst(paths, b) == <<b>> \o paths

\* One round of getFilePaths: b goes behind the last smaller block.
Inserted(paths, b) ==
    InsertAt(paths, SelectLastInSeq(paths, LAMBDA x : x < b) + 1, b)

\* getFilePaths, for the names in the order the directory yields them, which is
\* that of their characters and not of their numbers.
GetFilePaths(names) ==
    LET listed[n \in 0 .. Len(names)] ==
          IF n = 0 THEN <<>> ELSE Inserted(listed[n - 1], names[n])
    IN  listed[Len(names)]

List(a) ==
    /\ apc[a] = "list"
    /\ \E names \in SetToSeqs({f.block : f \in {g \in dir[Directory(a)] : g.kind = "json"}}) :
          filePaths' = [filePaths EXCEPT ![a] = GetFilePaths(names)]
    /\ at' = [at EXCEPT ![a] = 1]
    /\ Stage(a, "file")
    /\ UNCHANGED <<dir, delivered, turn, nextEvent>>

\* A file that is gone, or does not parse, is passed over: the directory failed/
\* it should move to is never created, so the rename does nothing.
ReadFile(a) ==
    /\ apc[a] = "file"
    /\ at[a] \in DOMAIN filePaths[a]
    /\ IF Block(a) \in SavedIn(dir[Directory(a)])
       THEN Stage(a, "block") /\ UNCHANGED at
       ELSE at' = [at EXCEPT ![a] = @ + 1] /\ UNCHANGED apc
    /\ UNCHANGED <<dir, delivered, turn, filePaths, nextEvent>>

\* logSwitch: eth_getBlockByNumber succeeds.
GetBlock(a) ==
    /\ apc[a] = "block"
    /\ Stage(a, "event")
    /\ nextEvent' = [nextEvent EXCEPT ![a] = 1]
    /\ UNCHANGED <<dir, delivered, turn, filePaths, at>>

DeliverFirstOnly(a, k) ==
    /\ apc[a] = "event"
    /\ nextEvent[a] = k
    /\ delivered' = delivered \cup {Event(Directory(a), Block(a), k)}
    /\ Stage(a, "remove")
    /\ UNCHANGED <<dir, turn, filePaths, at, nextEvent>>

\* logSwitch: the receipt arrives and the k-th event of the file is handled.
Deliver(a, k) ==
    /\ apc[a] = "event"
    /\ nextEvent[a] = k
    /\ delivered' = delivered \cup {Event(Directory(a), Block(a), k)}
    /\ IF k = EventsPerBlock
       THEN Stage(a, "remove") /\ UNCHANGED nextEvent
       ELSE nextEvent' = [nextEvent EXCEPT ![a] = k + 1] /\ UNCHANGED apc
    /\ UNCHANGED <<dir, turn, filePaths, at>>

RemoveFile(a) ==
    /\ apc[a] = "remove"
    /\ dir' = [dir EXCEPT ![Directory(a)] =
                 {f \in @ : f.kind # "json" \/ f.block # Block(a)}]
    /\ at' = [at EXCEPT ![a] = @ + 1]
    /\ nextEvent' = [nextEvent EXCEPT ![a] = 1]
    /\ Stage(a, "file")
    /\ UNCHANGED <<delivered, turn, filePaths>>

\* readEventLogFile returns and forgets its listing; onWriteEvent goes on to the
\* next collector, or the cycle is over.
NextDirectory(a) ==
    /\ IF turn[a] < Len(CollectorsOf[a])
       THEN turn' = [turn EXCEPT ![a] = @ + 1] /\ Stage(a, "list")
       ELSE turn' = [turn EXCEPT ![a] = 1] /\ Stage(a, "sleep")
    /\ filePaths' = [filePaths EXCEPT ![a] = <<>>]
    /\ at' = [at EXCEPT ![a] = 1]
    /\ nextEvent' = [nextEvent EXCEPT ![a] = 1]
    /\ UNCHANGED <<dir, delivered>>

EndOfListing(a) ==
    /\ apc[a] = "file"
    /\ at[a] \notin DOMAIN filePaths[a]
    /\ NextDirectory(a)

AbortAndRemove(a) ==
    /\ apc[a] \in {"block", "event"}
    /\ dir' = [dir EXCEPT ![Directory(a)] =
                 {f \in @ : f.kind # "json" \/ f.block # Block(a)}]
    /\ at' = [at EXCEPT ![a] = @ + 1]
    /\ nextEvent' = [nextEvent EXCEPT ![a] = 1]
    /\ Stage(a, "file")
    /\ UNCHANGED <<delivered, turn, filePaths>>

AbortUnrecovered(a) ==
    /\ apc[a] \in {"block", "event"}
    /\ Stage(a, "down")
    /\ UNCHANGED <<dir, delivered, turn, filePaths, at, nextEvent>>

\* A request fails: the panic is recovered outside the loop over the listing.
Abort(a) ==
    /\ apc[a] \in {"block", "event"}
    /\ NextDirectory(a)

Wake(a) ==
    /\ apc[a] = "sleep"
    /\ Stage(a, "list")
    /\ UNCHANGED <<dir, delivered, turn, filePaths, at, nextEvent>>

Cycle(a) ==
    \/ List(a) \/ ReadFile(a) \/ GetBlock(a)
    \/ \E k \in 1 .. EventsPerBlock : Deliver(a, k)
    \/ RemoveFile(a) \/ EndOfListing(a) \/ Abort(a) \/ Wake(a)

ActorNext == \E a \in Actors : Cycle(a)

\* The process dies with all its actors; files and what was handled remain.
ActorCrash ==
    /\ apc' = [a \in Actors |-> "down"]
    /\ turn' = [a \in Actors |-> 1]
    /\ filePaths' = [a \in Actors |-> <<>>]
    /\ at' = [a \in Actors |-> 1]
    /\ nextEvent' = [a \in Actors |-> 1]
    /\ UNCHANGED delivered

ActorRestart ==
    /\ apc' = [a \in Actors |-> "list"]
    /\ UNCHANGED <<delivered, turn, filePaths, at, nextEvent>>
=============================================================================
