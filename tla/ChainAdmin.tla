----------------------------- MODULE ChainAdmin -----------------------------
(***************************************************************************)
(* Changing the chains of a running event logger: the handlers PUT and     *)
(* DELETE /chains/:alias (api/routers/v1/eventLogger), the registry they   *)
(* change (api/preference) and the start and stop of the collectors of a   *)
(* chain (pkg/eventLogger/eventCollector).  Every request is a goroutine   *)
(* of its own, and so is every worker; they share the registry, which only *)
(* its writers lock, the table of cancel functions and event.meta.         *)
(*                                                                         *)
(* A chain stands for its registry entry and one collector.  Of an entry   *)
(* only mode and startBlockNumber matter here, of a cycle only where its   *)
(* cursor was read and is written: EventCollector has the rest.  Requests  *)
(* that are refused for their body alone, and updates without collectors,  *)
(* change nothing modelled here and are left out.                          *)
(***************************************************************************)
EXTENDS Naturals, SequencesExt

CONSTANTS
    Chains,      \* aliases
    Boot,        \* [Chains -> Entry \cup {Absent}], the entries of the configuration file that decode
    Clients,     \* requests that may be in progress at a time
    Workers,     \* bound: the workers that are ever started
    Starts,      \* startBlockNumbers a request may carry
    LogRange,
    MaxBlock,    \* bound: the chain has no block above this one
    Absent,      \* no registry entry
    Nobody       \* no client, no worker, no chain

Entry == [mode : {"live", "dev"}, start : Nat]

ASSUME AdminAssumption ==
    /\ Boot \in [Chains -> Entry \cup {Absent}]
    /\ Absent \notin Entry
    /\ Nobody \notin Chains \cup Clients \cup Workers
    /\ Starts \subseteq Nat
    /\ LogRange \in Nat \ {0}
    /\ MaxBlock \in Nat
    /\ IsFiniteSet(Workers)

VARIABLES
    fate,          \* "starting", "up" when the API is served, or what ended the process
    eventLogger,   \* the registry: tEventLogger.EventLogger
    chains,        \* tEventLogger.Chains
    lockMutex,     \* the client that holds it
    chainCancels,  \* [Chains -> the worker whose context StopChain would cancel]
    meta,          \* [Chains -> the number in event.meta]
    cpc,           \* where each client's handler is
    alias,         \* the chain of the client's request
    start,         \* the startBlockNumber of the client's request
    wpc,           \* where each worker is
    wchain,        \* the chain of each worker
    cancelled,     \* the workers whose context is cancelled
    startSeen,     \* the startBlockNumber the worker has read for this cycle
    latest         \* the worker's latestBlockNumber; 0 between cycles, which read it anew

registryVars == <<eventLogger, chains, lockMutex>>
clientVars == <<cpc, alias, start>>
workerVars == <<wpc, wchain, cancelled, startSeen, latest>>
vars == <<fate, registryVars, chainCancels, meta, clientVars, workerVars>>

Larger(a, b) == IF a < b THEN b ELSE a

Live == {c \in Chains : Boot[c] # Absent /\ Boot[c].mode = "live"}

RequestStages == {"idle", "put", "add", "adding", "initialize", "run", "meta", "update",
                  "updating", "delete", "stop", "remove", "removing"}

WorkerStages == {"unused", "register", "load", "check", "read", "meta", "collect", "write",
                 "wait", "stopped"}

AdminTypeOK ==
    /\ fate \in {"starting", "up", "nil dereference", "map race"}
    /\ eventLogger \in [Chains -> Entry \cup {Absent}]
    /\ chains \in Seq(Chains)
    /\ lockMutex \in Clients \cup {Nobody}
    /\ chainCancels \in [Chains -> Workers \cup {Nobody}]
    /\ meta \in [Chains -> Nat]
    /\ cpc \in [Clients -> RequestStages]
    /\ alias \in [Clients -> Chains \cup {Nobody}]
    /\ start \in [Clients -> Nat]
    /\ wpc \in [Workers -> WorkerStages]
    /\ wchain \in [Workers -> Chains \cup {Nobody}]
    /\ cancelled \subseteq Workers
    /\ startSeen \in [Workers -> Nat]
    /\ latest \in [Workers -> Nat]

Registered(c) == eventLogger[c] # Absent

\* The process has read the configuration and main has started a worker for every alias of the
\* list: also for one whose entry did not decode, which the registry does not have.
Init ==
    /\ fate = "starting"
    /\ eventLogger = Boot
    /\ \E listed \in SUBSET Chains :
          /\ IsFiniteSet(listed) /\ {c \in Chains : Boot[c] # Absent} \subseteq listed
          /\ chains \in SetToSeqs(listed)
          /\ wchain \in {f \in [Workers -> Chains \cup {Nobody}] :
                           \A c \in Chains : Cardinality({w \in Workers : f[w] = c}) =
                                               IF c \in listed THEN 1 ELSE 0}
    /\ lockMutex = Nobody
    /\ chainCancels = [c \in Chains |-> Nobody]
    /\ meta = [c \in Chains |-> 0]
    /\ cpc = [k \in Clients |-> "idle"]
    /\ alias = [k \in Clients |-> Nobody]
    /\ start = [k \in Clients |-> 0]
    /\ wpc = [w \in Workers |-> IF wchain[w] = Nobody THEN "unused" ELSE "register"]
    /\ cancelled = {}
    /\ startSeen = [w \in Workers |-> 0]
    /\ latest = [w \in Workers |-> 0]

\* eventActor.Run looks into the entry of every listed chain, in main, before the API is served.
Start ==
    /\ fate = "starting"
    /\ fate' = IF \A c \in ToSet(chains) : Registered(c) THEN "up" ELSE "nil dereference"
    /\ UNCHANGED <<registryVars, chainCancels, meta, clientVars, workerVars>>

At(k, stage) == fate = "up" /\ cpc[k] = stage
Goto(k, stage) == cpc' = [cpc EXCEPT ![k] = stage]

\* The response is sent.
Respond(k) ==
    /\ Goto(k, "idle")
    /\ alias' = [alias EXCEPT ![k] = Nobody]
    /\ start' = [start EXCEPT ![k] = 0]

Proceed(k, stage) == Goto(k, stage) /\ UNCHANGED <<alias, start>>

Lock(k) == lockMutex = Nobody /\ lockMutex' = k
-----------------------------------------------------------------------------
(***************************************************************************)
(* UpdateOrAddChain.                                                       *)
(***************************************************************************)
\* The bound on workers: a request that may need one comes while one is left for it.
WorkerLeft ==
    Cardinality({j \in Clients : cpc[j] \in {"put", "add", "adding", "initialize", "run"}})
       < Cardinality({w \in Workers : wpc[w] = "unused"})

Put(k) ==
    /\ At(k, "idle")
    /\ WorkerLeft
    /\ \E c \in Chains, s \in Starts :
          /\ alias' = [alias EXCEPT ![k] = c]
          /\ start' = [start EXCEPT ![k] = s]
    /\ Goto(k, "put")
    /\ UNCHANGED <<fate, registryVars, chainCancels, meta, workerVars>>

\* The handler decides between adding and updating, and refuses a live chain.
PutLookup(k) ==
    /\ At(k, "put")
    /\ IF ~Registered(alias[k]) THEN Proceed(k, "add")
       ELSE IF eventLogger[alias[k]].mode = "live" THEN Respond(k)
       ELSE Proceed(k, "update")
    /\ UNCHANGED <<fate, registryVars, chainCancels, meta, workerVars>>

AddLockUnchecked(k) ==
    /\ At(k, "add")
    /\ lockMutex = Nobody
    /\ Lock(k) /\ Proceed(k, "adding")
    /\ UNCHANGED <<fate, eventLogger, chains, chainCancels, meta, workerVars>>

\* AddEventLoggerChain takes the lock and looks again.
AddLock(k) ==
    /\ At(k, "add")
    /\ lockMutex = Nobody
    /\ IF Registered(alias[k]) THEN Respond(k) /\ UNCHANGED lockMutex
       ELSE Lock(k) /\ Proceed(k, "adding")
    /\ UNCHANGED <<fate, eventLogger, chains, chainCancels, meta, workerVars>>

AddChain(k) ==
    /\ At(k, "adding")
    /\ eventLogger' = [eventLogger EXCEPT ![alias[k]] = [mode |-> "dev", start |-> start[k]]]
    /\ chains' = Append(chains, alias[k])
    /\ lockMutex' = Nobody
    /\ Proceed(k, "initialize")
    /\ UNCHANGED <<fate, chainCancels, meta, workerVars>>

InitializeOnly(k) ==
    /\ At(k, "initialize")
    /\ IF Registered(alias[k]) THEN Proceed(k, "meta") ELSE Respond(k)
    /\ UNCHANGED <<fate, registryVars, chainCancels, meta, workerVars>>

InitializeChain(k) ==
    /\ At(k, "initialize")
    /\ IF Registered(alias[k]) THEN Proceed(k, "run") ELSE Respond(k)
    /\ UNCHANGED <<fate, registryVars, chainCancels, meta, workerVars>>

\* go workerForChain: the worker exists, and has not run yet.
RunChain(k) ==
    /\ At(k, "run")
    /\ \E w \in Workers :
          /\ wpc[w] = "unused"
          /\ wpc' = [wpc EXCEPT ![w] = "register"]
          /\ wchain' = [wchain EXCEPT ![w] = alias[k]]
    /\ Proceed(k, "meta")
    /\ UNCHANGED <<fate, registryVars, chainCancels, meta, cancelled, startSeen, latest>>

\* updateEventMetaFiles: the request's startBlockNumber becomes the cursor.
UpdateMeta(k) ==
    /\ At(k, "meta")
    /\ meta' = IF Registered(alias[k]) THEN [meta EXCEPT ![alias[k]] = start[k]] ELSE meta
    /\ Respond(k)
    /\ UNCHANGED <<fate, registryVars, chainCancels, workerVars>>

\* UpdateEventLoggerChain replaces the map of collectors by an empty one ...
UpdateLock(k) ==
    /\ At(k, "update")
    /\ lockMutex = Nobody
    /\ IF ~Registered(alias[k]) THEN Respond(k) /\ UNCHANGED <<lockMutex, eventLogger>>
       ELSE /\ Lock(k)
            /\ eventLogger' = [eventLogger EXCEPT ![alias[k]].start = 0]
            /\ Proceed(k, "updating")
    /\ UNCHANGED <<fate, chains, chainCancels, meta, workerVars>>

\* ... and fills it, unless the collector of the request does not decode.
UpdateChain(k) ==
    /\ At(k, "updating")
    /\ \/ /\ eventLogger' = [eventLogger EXCEPT ![alias[k]].start = start[k]]
          /\ Proceed(k, "meta")
       \/ Respond(k) /\ UNCHANGED eventLogger
    /\ lockMutex' = Nobody
    /\ UNCHANGED <<fate, chains, chainCancels, meta, workerVars>>
-----------------------------------------------------------------------------
(***************************************************************************)
(* RemoveChain.                                                            *)
(***************************************************************************)
Delete(k) ==
    /\ At(k, "idle")
    /\ \E c \in Chains : alias' = [alias EXCEPT ![k] = c]
    /\ Goto(k, "delete")
    /\ UNCHANGED <<fate, registryVars, chainCancels, meta, start, workerVars>>

DeleteLookupAnyMode(k) ==
    /\ At(k, "delete")
    /\ IF Registered(alias[k]) THEN Proceed(k, "stop") ELSE Respond(k)
    /\ UNCHANGED <<fate, registryVars, chainCancels, meta, workerVars>>

DeleteLookup(k) ==
    /\ At(k, "delete")
    /\ IF Registered(alias[k]) /\ eventLogger[alias[k]].mode = "dev"
       THEN Proceed(k, "stop") ELSE Respond(k)
    /\ UNCHANGED <<fate, registryVars, chainCancels, meta, workerVars>>

\* The one registered context of the chain is cancelled; if there is none the
\* error is logged and the deletion goes on.
StopChain(k) ==
    /\ At(k, "stop")
    /\ cancelled' = cancelled \cup ({chainCancels[alias[k]]} \ {Nobody})
    /\ chainCancels' = [chainCancels EXCEPT ![alias[k]] = Nobody]
    /\ Proceed(k, "remove")
    /\ UNCHANGED <<fate, registryVars, meta, wpc, wchain, startSeen, latest>>

DeleteLock(k) ==
    /\ At(k, "remove")
    /\ lockMutex = Nobody
    /\ IF Registered(alias[k]) THEN Lock(k) /\ Proceed(k, "removing")
       ELSE Respond(k) /\ UNCHANGED lockMutex
    /\ UNCHANGED <<fate, eventLogger, chains, chainCancels, meta, workerVars>>

\* The loop over the list of chains that leaves out the deleted one.
Without(names, c) ==
    LET newChains[n \in 0 .. Len(names)] ==
          IF n = 0 THEN <<>>
          ELSE IF names[n] = c THEN newChains[n - 1]
          ELSE Append(newChains[n - 1], names[n])
    IN  newChains[Len(names)]

DeleteChain(k) ==
    /\ At(k, "removing")
    /\ eventLogger' = [eventLogger EXCEPT ![alias[k]] = Absent]
    /\ chains' = Without(chains, alias[k])
    /\ lockMutex' = Nobody
    /\ Respond(k)
    /\ UNCHANGED <<fate, chainCancels, meta, workerVars>>

Handler(k) ==
    \/ PutLookup(k) \/ AddLock(k) \/ AddChain(k) \/ InitializeChain(k) \/ RunChain(k)
    \/ UpdateMeta(k) \/ UpdateLock(k) \/ UpdateChain(k)
    \/ DeleteLookup(k) \/ StopChain(k) \/ DeleteLock(k) \/ DeleteChain(k)
-----------------------------------------------------------------------------
(***************************************************************************)
(* workerForChain and the loop of workerForContract.                       *)
(***************************************************************************)
Running == fate \in {"starting", "up"}
Working(w, stage) == Running /\ wpc[w] = stage
Become(w, stage) == wpc' = [wpc EXCEPT ![w] = stage]

\* The context's cancel function goes into the table, over any other there.
Register(w) ==
    /\ Working(w, "register")
    /\ chainCancels' = [chainCancels EXCEPT ![wchain[w]] = w]
    /\ Become(w, "load")
    /\ UNCHANGED <<fate, registryVars, meta, clientVars, wchain, cancelled, startSeen, latest>>

\* Outside getLogAndSaveToFile nothing recovers: without a registry entry the nil
\* dereference in workerForChain, or in GetEventLoggerFilePath when event.meta is
\* first read before the loop, ends the process.
LoadChain(w) ==
    /\ Working(w, "load")
    /\ IF Registered(wchain[w]) THEN Become(w, "check") /\ UNCHANGED fate
       ELSE fate' = "nil dereference" /\ UNCHANGED wpc
    /\ UNCHANGED <<registryVars, chainCancels, meta, clientVars, wchain, cancelled, startSeen, latest>>

CheckNothing(w) ==
    /\ Working(w, "check")
    /\ Become(w, "read")
    /\ UNCHANGED <<fate, registryVars, chainCancels, meta, clientVars, wchain, cancelled, startSeen, latest>>

\* The top of the loop: has the context been cancelled?
CheckContext(w) ==
    /\ Working(w, "check")
    /\ Become(w, IF w \in cancelled THEN "stopped" ELSE "read")
    /\ UNCHANGED <<fate, registryVars, chainCancels, meta, clientVars, wchain, cancelled, startSeen, latest>>

\* The startBlockNumber of this cycle, 0 when the entry or its collector is missing.
ReadStart(w) ==
    /\ Working(w, "read")
    /\ startSeen' = [startSeen EXCEPT ![w] =
                       IF Registered(wchain[w]) THEN eventLogger[wchain[w]].start ELSE 0]
    /\ Become(w, "meta")
    /\ UNCHANGED <<fate, registryVars, chainCancels, meta, clientVars, wchain, cancelled, latest>>

\* event.meta of this cycle; its path is looked up in the registry.
ReadMeta(w) ==
    /\ Working(w, "meta")
    /\ IF Registered(wchain[w])
       THEN /\ latest' = [latest EXCEPT ![w] =
                            Larger(meta[wchain[w]], startSeen[w])]
            /\ startSeen' = [startSeen EXCEPT ![w] = 0]
            /\ Become(w, "collect")
            /\ UNCHANGED fate
       ELSE fate' = "nil dereference" /\ UNCHANGED <<wpc, startSeen, latest>>
    /\ UNCHANGED <<registryVars, chainCancels, meta, clientVars, wchain, cancelled>>

\* getLogAndSaveToFile collects a range of blocks, or there is none or it fails.
Collect(w) ==
    /\ Working(w, "collect")
    /\ \/ /\ \E n \in 1 .. LogRange :
                /\ latest[w] + n <= MaxBlock
                /\ latest' = [latest EXCEPT ![w] = @ + n]
          /\ Become(w, "write")
       \/ latest' = [latest EXCEPT ![w] = 0] /\ Become(w, "wait")
    /\ UNCHANGED <<fate, registryVars, chainCancels, meta, clientVars, wchain, cancelled, startSeen>>

\* UpdateEventMetaInfo; without a registry entry it panics and is recovered.
WriteMeta(w) ==
    /\ Working(w, "write")
    /\ meta' = IF Registered(wchain[w]) THEN [meta EXCEPT ![wchain[w]] = latest[w]] ELSE meta
    /\ latest' = [latest EXCEPT ![w] = 0]
    /\ Become(w, "wait")
    /\ UNCHANGED <<fate, registryVars, chainCancels, clientVars, wchain, cancelled, startSeen>>

\* The period is over, or the context is cancelled; when both hold, select takes
\* either branch.
Wait(w) ==
    /\ Working(w, "wait")
    /\ Become(w, "check") \/ (w \in cancelled /\ Become(w, "stopped"))
    /\ UNCHANGED <<fate, registryVars, chainCancels, meta, clientVars, wchain, cancelled, startSeen, latest>>

Loop(w) ==
    \/ Register(w) \/ LoadChain(w) \/ CheckContext(w) \/ ReadStart(w)
    \/ ReadMeta(w) \/ Collect(w) \/ WriteMeta(w) \/ Wait(w)

\* Readers take no lock: one that looks into a map while a writer changes it may
\* make the Go runtime end the process.  AddEventLoggerChain and
\* DeleteEventLoggerChain write the registry, UpdateEventLoggerChain the
\* collectors of one entry.
MapRace ==
    /\ fate = "up"
    /\ \/ /\ \E k \in Clients : cpc[k] \in {"adding", "removing"}
          /\ \/ \E w \in Workers : wpc[w] \in {"load", "read", "meta", "write"}
             \/ \E k \in Clients : cpc[k] \in {"put", "delete", "initialize", "meta"}
       \/ \E writer \in Clients :
             /\ cpc[writer] = "updating"
             /\ \/ \E w \in Workers :
                      wchain[w] = alias[writer] /\ wpc[w] \in {"load", "read"}
                \/ \E k \in Clients :
                      alias[k] = alias[writer] /\ cpc[k] \in {"initialize", "update"}
    /\ fate' = "map race"
    /\ UNCHANGED <<registryVars, chainCancels, meta, clientVars, workerVars>>

Next ==
    \/ Start
    \/ \E k \in Clients : Put(k) \/ Delete(k) \/ Handler(k)
    \/ \E w \in Workers : Loop(w)
    \/ MapRace

\* A handler and a goroutine that can run do run, and nobody waits for ever for a
\* mutex that others release: Go's sync.Mutex hands it to one that has waited long.
Fairness ==
    /\ WF_vars(Start)
    /\ \A k \in Clients :
          /\ WF_vars(Handler(k))
          /\ SF_vars(AddLock(k) \/ UpdateLock(k) \/ DeleteLock(k))
    /\ \A w \in Workers : WF_vars(Loop(w))

Spec == Init /\ [][Next]_vars

FairSpec == Spec /\ Fairness
-----------------------------------------------------------------------------
\* Whatever is asked of the API, a live chain keeps its entry, no worker of it is
\* cancelled, and its cursor never falls back: the mode that a request looked at is
\* still the mode when it comes to stop, delete or rewind.
LiveChainUntouched ==
    [][\A c \in Live :
          /\ eventLogger[c]' = Boot[c]
          /\ \A w \in cancelled' : wchain[w]' # c
          /\ meta[c]' >= meta[c]]_vars

\* Between changes the list of chains names every entry of the registry, and no other, once, even
\* when two requests add the same alias at the same time: a list that names an alias without an
\* entry never comes to be served.
ListMatchesRegistry ==
    /\ AdminTypeOK
    /\ fate = "up" /\ lockMutex = Nobody =>
          /\ ToSet(chains) = {c \in Chains : Registered(c)}
          /\ IsInjective(chains)

\* A worker whose context is cancelled stops, however busy the process is.
CancelledWorkerStops ==
    \A w \in Workers : w \in cancelled ~> (wpc[w] = "stopped" \/ ~Running)

\* A chain that is registered comes to be collected, unless it is deleted first.
RegisteredChainCollects ==
    \A c \in Chains :
       Registered(c) ~> \/ ~Running \/ ~Registered(c)
                        \/ \E w \in Workers :
                              wchain[w] = c /\ w \notin cancelled /\ wpc[w] = "collect"

=============================================================================
