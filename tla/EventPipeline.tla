--------------------------- MODULE EventPipeline ---------------------------
(***************************************************************************)
(* build/eventLogger in live mode: the collectors and the actors of one    *)
(* chain in one process, meeting only in the collectors' directories.      *)
(***************************************************************************)
EXTENDS EventCollector, Sequences

CONSTANTS Actors, CollectorsOf, EventsPerBlock

ASSUME ActorAssumption ==
    /\ CollectorsOf \in [Actors -> Seq(Collectors)]
    /\ \A a \in Actors : CollectorsOf[a] # <<>>
    /\ EventsPerBlock \in Nat \ {0}

VARIABLES delivered, apc, turn, filePaths, at, nextEvent

A == INSTANCE EventActor WITH MaxBlock <- MaxHead

actorVars == <<delivered, apc, turn, filePaths, at, nextEvent>>
collectorVars == <<nodeVars, meta, cycleVars, crashes, pc>>
pipelineVars == <<vars, actorVars>>

PipelineTypeOK == TypeOK /\ A!ActorTypeOK

\* main starts the collectors and then the actors.
PipelineInit == Init /\ A!ActorInit

CollectorStep ==
    /\ Mine \/ ToggleSyncing \/ \E c \in Collectors : Cycle(c)
    /\ UNCHANGED actorVars

ActorStep ==
    /\ A!ActorNext
    /\ UNCHANGED collectorVars

PipelineCrash == Crash /\ A!ActorCrash

PipelineRestart == Restart /\ A!ActorRestart

PipelineNext == CollectorStep \/ ActorStep \/ PipelineCrash \/ PipelineRestart

\* A goroutine that can run does run.  No request is refused for ever: not the
\* collector's, and none of those an actor makes for one file.
PipelineFairness ==
    /\ WF_pipelineVars(PipelineRestart)
    /\ \A c \in Collectors :
          /\ WF_pipelineVars(Cycle(c) /\ UNCHANGED actorVars)
          /\ SF_pipelineVars(Poll(c) /\ UNCHANGED actorVars)
          /\ SF_pipelineVars(Fetch(c) /\ UNCHANGED actorVars)
    /\ \A a \in Actors :
          /\ WF_pipelineVars(A!Cycle(a) /\ UNCHANGED collectorVars)
          /\ SF_pipelineVars(A!GetBlock(a) /\ UNCHANGED collectorVars)
          /\ \A k \in 1 .. EventsPerBlock :
                SF_pipelineVars(/\ A!Deliver(a, k)
                                /\ UNCHANGED collectorVars)

PipelineSpec == PipelineInit /\ [][PipelineNext]_pipelineVars

FairPipelineSpec == PipelineSpec /\ PipelineFairness
-----------------------------------------------------------------------------
\* The blocks of collector c whose events are in a file or have all been handled.
Kept(c) == Saved(c) \cup {b \in 1 .. MaxHead : A!Handled(c, b)}

\* No file is removed before all its events are handled: what has been saved stays
\* in its file until then, whichever actors share it, whatever fails or crashes.
SavedUntilHandled ==
    [][\A c \in Collectors : \A b \in Saved(c) :
          b \in Saved(c)' \/ A!Handled(c, b)]_pipelineVars

\* Every event above startBlockNumber and at or below event.meta waits in a file
\* or has been handled.
NothingSkipped ==
    /\ PipelineTypeOK
    /\ \A c \in Collectors : \A b \in logs[c] :
          StartBlockNumber[c] < b /\ b <= meta[c] => b \in Kept(c)

\* An actor works through a listing in the order of the blocks, and when it is at
\* a file, every older file of the listing has been handled, by it or another.
HandledInOrder ==
    \A a \in Actors :
       /\ \A i, j \in DOMAIN filePaths[a] : i < j => filePaths[a][i] < filePaths[a][j]
       /\ \A i \in 1 .. at[a] - 1 : A!Handled(A!Directory(a), filePaths[a][i])

\* With the actors at work the collectors still keep the promise of EventFeed, of
\* what is kept instead of what is saved.  A step of an actor is no step of it: a
\* file leaves its directory only when the block is kept without it, and no block
\* is handled that was not kept already.
KeptFeed == INSTANCE EventFeed WITH
    saved <- [c \in Collectors |-> Kept(c)],
    cursor <- [c \in Collectors |-> Cursor(c)]

PipelineImplementsFeed == KeptFeed!Spec

\* Every event in a block that is deep enough is handled in the end.
EventuallyHandled ==
    <>[]~syncing =>
       \A c \in Collectors : \A b \in 1 .. MaxHead :
          (/\ b \in logs[c]
           /\ StartBlockNumber[c] < b
           /\ b + CommitBlockCount + Lag <= head)
          ~> A!Handled(c, b)
=============================================================================
