------------------------------- MODULE Deploy -------------------------------
(***************************************************************************)
(* compose, deploy, import -abi and set collection of the command line     *)
(* (src/src/core/deploy, src/src/core/command, src/src/lib/deploy.js).     *)
(*                                                                         *)
(* Composing looks up the contracts of a compose file in the output of the *)
(* Solidity compiler and writes a manifest; deploying creates the          *)
(* contracts of a manifest one after the other, with one transaction each. *)
(* The addresses go to varStore one by one, where the constructors of      *)
(* later contracts find them; the names go to deployedContract at the end. *)
(*                                                                         *)
(* As in Session, a line goes from one await to the next, one action each, *)
(* and lines may overlap.  There is one account.  A contract's address     *)
(* depends on the account and the nonce alone, so the nonce stands for it. *)
(***************************************************************************)
EXTENDS Naturals, FiniteSets, SequencesExt

CONSTANTS
    ComposeFiles,   \* a function from files to what they say
    SourceFiles, Names,     \* of Solidity files and of contracts
    Artifacts,      \* the output of the compiler: pairs of a source file and a contract
    Collections, Vars,
    Commands,       \* what may be typed
    Lines,
    Prices,         \* the gas prices the node may suggest
    MaxLines,       \* bound: lines that are typed in all
    MaxForeign,     \* bound: transactions of the account that this program does not send
    MaxReverted,    \* bound: creations that the chain runs in vain
    MaxPolls,       \* requests for a receipt before the creation gives up: 10 in the code
    None            \* an absent option, an empty variable, no manifest

Files == DOMAIN ComposeFiles

ASSUME DeployAssumption ==
    /\ \A f \in Files : ComposeFiles[f].collection \in Collections
    /\ MaxLines \in Nat /\ MaxForeign \in Nat /\ MaxReverted \in Nat /\ MaxPolls \in Nat \ {0}
    /\ Prices \subseteq Nat /\ Prices # {}
    /\ \A c \in Commands :
          /\ c.op \in {"collection", "compose", "import", "deploy"}
          /\ c.op \in {"collection", "import"} => c.collection \in Collections
          /\ c.op \in {"compose", "deploy"} => c.file \in Files

\* What a compose file says of contracts and packages.
Contracts == [name : Names, alias : Names \cup {None}, ignore : BOOLEAN,
              input : Vars \cup {None}, returns : Vars \cup {None}]
Packages == [sources : Seq(SourceFiles), contracts : Seq(Contracts),
             imports : Seq([file : SourceFiles, name : Names])]

ASSUME ComposeAssumption == \A f \in Files : ComposeFiles[f].packages \in Seq(Packages)

VARIABLES
    registered,         \* the compose files with an entry files.manifest
    manifest,           \* [Collections -> output.obj of the collection, or None]
    currentCollection,
    varStore,           \* [Vars -> an address or None]
    deployedContract,   \* [Collections -> the names with an ABI, or None]
    mined,              \* the account's transactions on the chain, in the order of their nonces
    pool,               \* those the node holds
    reverted,           \* the nonces of creations that made no contract
    deployLog,          \* the nonces that the deployments' log has with another status than 0x1
    foreign, typed,     \* counters
    pc, cmd, local      \* what each line waits for, its command, and what it keeps

fileVars == <<registered, manifest, deployLog>>
memoryVars == <<currentCollection, varStore, deployedContract>>
nodeVars == <<mined, pool, foreign, reverted>>
lineVars == <<pc, cmd, local>>
vars == <<fileVars, memoryVars, nodeVars, typed, lineVars>>
-----------------------------------------------------------------------------
(***************************************************************************)
(* compose                                                                 *)
(***************************************************************************)
\* A JavaScript object keeps the place of a key whose value changes.
Keys(obj) == {obj[i].key : i \in DOMAIN obj}
ValueOf(obj, k) == LET i == CHOOSE j \in DOMAIN obj : obj[j].key = k IN obj[i].val
PutLast(obj, k, v) == Append(SelectSeq(obj, LAMBDA p : p.key # k), [key |-> k, val |-> v])

Put(obj, k, v) ==
    IF k \in Keys(obj)
    THEN [i \in DOMAIN obj |-> IF obj[i].key = k THEN [key |-> k, val |-> v] ELSE obj[i]]
    ELSE Append(obj, [key |-> k, val |-> v])

PutIn(obj, file, k, v) ==
    Put(obj, file, Put(IF file \in Keys(obj) THEN ValueOf(obj, file) ELSE <<>>, k, v))

\* What `deploy` calls a contract by.
Key(contract) == IF contract.alias = None THEN contract.name ELSE contract.alias

ImportedAs(contract) == [name |-> contract.name, input |-> None, returns |-> None, abiOnly |-> TRUE]
DeployedAs(contract) == [name |-> contract.name, input |-> contract.input,
                         returns |-> contract.returns, abiOnly |-> contract.ignore]

\* A contract, if the compiler found it in the source file.
PutCompiled(obj, file, c) ==
    IF <<file, c.name>> \in Artifacts THEN PutIn(obj, file, Key(c), DeployedAs(c)) ELSE obj

PutImported(obj, c) ==
    IF <<c.file, c.name>> \in Artifacts THEN PutIn(obj, c.file, c.name, ImportedAs(c)) ELSE obj

PutAll(obj, file, contracts) ==
    LET put[n \in 0 .. Len(contracts)] ==
            IF n = 0 THEN obj ELSE PutCompiled(put[n-1], file, contracts[n])
    IN  put[Len(contracts)]

\* For each source file, in the order in which the package's entry file imports them,
\* the contracts that the compiler found there.
Compiling(package) ==
    LET res[n \in 0 .. Len(package.sources)] ==
            IF n = 0 THEN <<>> ELSE PutAll(res[n-1], package.sources[n], package.contracts)
    IN  res[Len(package.sources)]

Importing(package, compiled) ==
    LET res[n \in 0 .. Len(package.imports)] ==
            IF n = 0 THEN compiled ELSE PutImported(res[n-1], package.imports[n])
    IN  res[Len(package.imports)]

\* { ...obj, ...more }
Spread(obj, more) ==
    LET put[n \in 0 .. Len(more)] ==
            IF n = 0 THEN obj ELSE Put(put[n-1], more[n].key, more[n].val)
    IN  put[Len(more)]

\* A source file of a later package takes the place of the same file of an earlier one.
WithPackage(output, package) == Spread(output, Importing(package, Compiling(package)))

ManifestOf(f) ==
    LET packages == ComposeFiles[f].packages
        output[n \in 0 .. Len(packages)] ==
            IF n = 0 THEN <<>> ELSE WithPackage(output[n-1], packages[n])
    IN  output[Len(packages)]

Manifests == [f \in Files |-> ManifestOf(f)]

\* The order in which `deploy` goes through a manifest.
Entries(obj) ==
    LET all[n \in 0 .. Len(obj)] == IF n = 0 THEN <<>> ELSE all[n-1] \o obj[n].val
    IN  all[Len(obj)]
-----------------------------------------------------------------------------
Address == Nat
Entry == UNION {{e.val : e \in ToSet(Entries(Manifests[f]))} : f \in Files}
Transaction == [nonce : Nat, entry : Entry, arg : Address \cup {None}, price : Prices]

ASSUME NoneAssumption == None \notin Transaction

DeployTypeOK ==
    /\ registered \subseteq Files
    /\ currentCollection \in Collections \cup {None}
    /\ \A c \in Collections : manifest[c] # None => \E f \in Files : manifest[c] = Manifests[f]
    /\ varStore \in [Vars -> Address \cup {None}]
    /\ \A t \in pool \cup ToSet(mined) :
          t = None \/ t \in Transaction
    /\ \A t, u \in pool : t.nonce = u.nonce => t = u
    /\ reverted \subseteq Nat /\ deployLog \subseteq Nat
    /\ foreign \in 0 .. MaxForeign /\ typed \in 0 .. MaxLines
    /\ pc \in [Lines -> {"idle", "ready", "wallet", "manifest", "estimate", "poll", "receipt", "sleep"}]

Init ==
    /\ registered = {}
    /\ manifest = [c \in Collections |-> None]
    /\ currentCollection = None
    /\ varStore = [v \in Vars |-> None]
    /\ deployedContract = [c \in Collections |-> None]
    /\ mined = <<>> /\ pool = {} /\ foreign = 0
    /\ reverted = {} /\ deployLog = {}
    /\ typed = 0
    /\ pc = [l \in Lines |-> "idle"]
    /\ cmd = [l \in Lines |-> None]
    /\ local = [l \in Lines |-> None]

Await(l, stage, data) ==
    /\ pc' = [pc EXCEPT ![l] = stage]
    /\ local' = [local EXCEPT ![l] = data]
    /\ UNCHANGED <<cmd, typed>>

\* The command is over, or has thrown: the prompt comes back.
Finish(l) ==
    /\ pc' = [pc EXCEPT ![l] = "idle"]
    /\ cmd' = [cmd EXCEPT ![l] = None]
    /\ local' = [local EXCEPT ![l] = None]
    /\ UNCHANGED typed

Type(l) ==
    /\ pc[l] = "idle" /\ typed < MaxLines
    /\ typed' = typed + 1
    /\ \E c \in Commands : cmd' = [cmd EXCEPT ![l] = c]
    /\ pc' = [pc EXCEPT ![l] = "ready"]
    /\ UNCHANGED <<fileVars, memoryVars, nodeVars, local>>

Starts(l, op) == pc[l] = "ready" /\ cmd[l].op = op

SetCollection(l) ==
    /\ Starts(l, "collection")
    /\ currentCollection' = cmd[l].collection
    /\ Finish(l)
    /\ UNCHANGED <<fileVars, varStore, deployedContract, nodeVars>>

\* The compose file gets its files.manifest before anything is looked up; the manifest's
\* place depends on the collection (and the chain) only.  A compiler output that cannot be
\* read leaves the previous manifest.
Compose(l) ==
    /\ Starts(l, "compose")
    /\ LET f == cmd[l].file  c == ComposeFiles[f].collection
       IN  /\ currentCollection' = c
           /\ registered' = registered \cup {f}
           /\ manifest' \in {manifest, [manifest EXCEPT ![c] = Manifests[f]]}
    /\ Finish(l)
    /\ UNCHANGED <<deployLog, varStore, deployedContract, nodeVars>>

\* import -abi
Import(l) ==
    /\ Starts(l, "import")
    /\ LET c == cmd[l].collection
           known == IF deployedContract[c] = None THEN {} ELSE deployedContract[c]
       IN  deployedContract' = [deployedContract EXCEPT ![c] = known \cup {cmd[l].name}]
    /\ Finish(l)
    /\ UNCHANGED <<fileVars, currentCollection, varStore, nodeVars>>
-----------------------------------------------------------------------------
(***************************************************************************)
(* deploy                                                                  *)
(***************************************************************************)
\* The collection is switched first; then the wallet is opened.
StartDeploy(l) ==
    /\ Starts(l, "deploy")
    /\ currentCollection' = ComposeFiles[cmd[l].file].collection
    /\ Await(l, "wallet", None)
    /\ UNCHANGED <<fileVars, varStore, deployedContract, nodeVars>>

NoManifest(l) ==
    LET f == cmd[l].file
    IN  f \notin registered \/ manifest[ComposeFiles[f].collection] = None

\* The wallet is opened a second time.
ReadManifest(l) ==
    /\ pc[l] = "wallet"
    /\ IF NoManifest(l) THEN Finish(l)
       ELSE Await(l, "manifest",
                  [left |-> Entries(manifest[ComposeFiles[cmd[l].file].collection]),
                   temp |-> {}])
    /\ UNCHANGED <<fileVars, memoryVars, nodeVars>>

AbiOnly(e) == e.val.abiOnly
Chosen(l, e) == cmd[l].only = {} \/ e.key \in cmd[l].only
ToDeploy(l) == {i \in DOMAIN local[l].left : ~AbiOnly(local[l].left[i]) /\ Chosen(l, local[l].left[i])}
NextOne(l) == CHOOSE i \in ToDeploy(l) : \A j \in ToDeploy(l) : i <= j
NamesOf(entries) == {entries[i].val.name : i \in {j \in DOMAIN entries : AbiOnly(entries[j])}}
InLoop(l) == pc[l] \in {"manifest", "sleep"}

\* On to the next contract to create: entries without `deploy` lend their ABI, those
\* not asked for are passed over.  The constructor's argument is taken from varStore
\* now.  The nonce is that of the latest block; an error in its place is not looked
\* at and makes the nonce 0.
AskNonce(l) ==
    /\ InLoop(l) /\ ToDeploy(l) # {}
    /\ LET left == local[l].left
           i == NextOne(l)
           input == left[i].val.input
           arg == IF input = None THEN None ELSE varStore[input]
       IN  IF input # None /\ arg = None THEN Finish(l)   \* "is undefined"
           ELSE \E n \in {Len(mined), 0} :
                  Await(l, "estimate",
                        [left |-> SubSeq(left, i + 1, Len(left)), tries |-> 0,
                         temp |-> local[l].temp \cup NamesOf(SubSeq(left, 1, i - 1)),
                             tx |-> [nonce |-> n, entry |-> left[i].val, arg |-> arg]])
    /\ UNCHANGED <<fileVars, memoryVars, nodeVars>>

\* The price, the latest block, the estimate or the transaction itself is answered with
\* an error, or a request fails, be it after the node has processed it.
RequestFails(l) ==
    /\ pc[l] \in {"estimate", "poll"}
    /\ Finish(l)
    /\ UNCHANGED <<fileVars, memoryVars, nodeVars>>

\* eth_sendRawTransaction.  The node refuses one that would replace another at no
\* higher price; of those whose nonce is used or that it knows, the receipt is polled
\* for as if they had been sent.
Submit(l) ==
    /\ pc[l] = "estimate"
    /\ \E price \in Prices :
         LET r == local[l].tx
             tx == [nonce |-> r.nonce, entry |-> r.entry, arg |-> r.arg, price |-> price]
             rivals == {t \in pool : t.nonce = tx.nonce}
             known == tx.nonce < Len(mined) \/ tx \in pool
             refused == ~known /\ \E t \in rivals : t.price >= price
         IN  /\ pool' = IF known \/ refused THEN pool ELSE (pool \ rivals) \cup {tx}
             /\ IF refused THEN Finish(l)
                ELSE Await(l, "poll", [local[l] EXCEPT !.tx = tx])
    /\ UNCHANGED <<fileVars, memoryVars, mined, foreign, reverted>>

HasReceiptOfNonce(tx) == tx.nonce < Len(mined)

\* By the transaction's hash.
HasReceipt(tx) == tx.nonce < Len(mined) /\ mined[tx.nonce + 1] = tx

PollForEver(l) ==
    /\ pc[l] = "poll"
    /\ Await(l, IF HasReceipt(local[l].tx) THEN "receipt" ELSE "poll", local[l])
    /\ UNCHANGED <<fileVars, memoryVars, nodeVars>>

\* eth_getTransactionReceipt; when the last request finds none, the result is
\* undefined and reading its error throws.
Poll(l) ==
    /\ pc[l] = "poll"
    /\ LET data == [local[l] EXCEPT !.tries = @ + 1]
       IN  IF HasReceipt(data.tx) THEN Await(l, "receipt", data)
           ELSE IF data.tries < MaxPolls THEN Await(l, "poll", data)
           ELSE Finish(l)
    /\ UNCHANGED <<fileVars, memoryVars, nodeVars>>

StoreAtOnce(l) ==
    /\ pc[l] = "receipt"
    /\ LET e == local[l].tx.entry
       IN  /\ varStore' = IF e.returns = None THEN varStore
                          ELSE [varStore EXCEPT ![e.returns] = local[l].tx.nonce]
           /\ deployedContract' = [deployedContract EXCEPT ![currentCollection] = local[l].temp \cup {e.name}]
           /\ deployLog' = deployLog \cup ({local[l].tx.nonce} \cap reverted)
           /\ Await(l, "sleep", [local[l] EXCEPT !.temp = @ \cup {e.name}])
    /\ UNCHANGED <<registered, manifest, currentCollection, nodeVars>>

\* The returns go to varStore, the name to the contracts of this run, the status to the
\* screen and the log, and it sleeps.  A receipt of a creation that was reverted has
\* an address too, and its status is shown but not looked at.
Store(l) ==
    /\ pc[l] = "receipt"
    /\ LET e == local[l].tx.entry
       IN  /\ varStore' = IF e.returns = None THEN varStore
                          ELSE [varStore EXCEPT ![e.returns] = local[l].tx.nonce]
           /\ deployLog' = deployLog \cup ({local[l].tx.nonce} \cap reverted)
           /\ Await(l, "sleep", [local[l] EXCEPT !.temp = @ \cup {e.name}])
    /\ UNCHANGED <<registered, manifest, currentCollection, deployedContract, nodeVars>>

\* What is left needs no transaction.  The contracts of this run are those of the
\* collection that is current by now.
Complete(l) ==
    /\ InLoop(l) /\ ToDeploy(l) = {}
    /\ LET all == local[l].temp \cup NamesOf(local[l].left)
       IN  deployedContract' = [deployedContract EXCEPT ![currentCollection] = all]
    /\ Finish(l)
    /\ UNCHANGED <<fileVars, currentCollection, varStore, nodeVars>>
-----------------------------------------------------------------------------
(***************************************************************************)
(* The node.                                                               *)
(***************************************************************************)
\* A creation may be reverted or run out of gas: the chain is not the one the estimate was
\* made for, or there was no estimate, customChain.gasLimit being set.
Mine ==
    /\ \E t \in pool :
          /\ t.nonce = Len(mined)
          /\ mined' = Append(mined, t)
          /\ pool' = pool \ {t}
          /\ \/ UNCHANGED reverted
             \/ Cardinality(reverted) < MaxReverted /\ reverted' = reverted \cup {t.nonce}
    /\ UNCHANGED <<fileVars, memoryVars, foreign, typed, lineVars>>

\* Another program uses the account.
MineForeign ==
    /\ foreign < MaxForeign
    /\ foreign' = foreign + 1
    /\ mined' = Append(mined, None)
    /\ pool' = {t \in pool : t.nonce # Len(mined)}
    /\ UNCHANGED <<fileVars, memoryVars, reverted, typed, lineVars>>

Proceed(l) ==
    \/ SetCollection(l) \/ Compose(l) \/ Import(l)
    \/ StartDeploy(l) \/ ReadManifest(l) \/ AskNonce(l) \/ Submit(l) \/ Poll(l)
    \/ Store(l) \/ Complete(l)

Next ==
    \/ \E l \in Lines : Type(l) \/ Proceed(l) \/ RequestFails(l)
    \/ Mine \/ MineForeign

Spec == Init /\ [][Next]_vars
FairSpec == Spec /\ \A l \in Lines : WF_vars(Proceed(l))
-----------------------------------------------------------------------------
Deployable(entries) == {i \in DOMAIN entries : ~AbiOnly(entries[i])}

\* Who deploys waits for the prompt.
OneAtATime == \A l, k \in Lines : l = k

\* Compose files whose contracts come after the one they need, and have variables of their own.
ContractsInOrder ==
    \A f \in Files :
       LET entries == Entries(Manifests[f])
       IN  \A i, j \in Deployable(entries) : entries[j].val.returns # None =>
              /\ i <= j => entries[i].val.input # entries[j].val.returns
              /\ i # j => entries[i].val.returns # entries[j].val.returns

\* A contract stands at the address, or the log tells that none does.
Stands(address) == address \in reverted => address \in deployLog

\* An address in varStore is that of a creation of the entry with this variable,
\* whatever became of the nonce meanwhile: replaced, used by another program, or made 0
\* by an error (lib/deploy.js:84, sendtx.js:43).  A creation that was reverted leaves
\* its address there as well, but not without its status in the log (deploy.js:155-165).
AddressIsOwn ==
    /\ DeployTypeOK
    /\ \A v \in Vars : varStore[v] # None =>
          /\ varStore[v] < Len(mined)
          /\ mined[varStore[v] + 1] # None
          /\ mined[varStore[v] + 1].entry.returns = v
          /\ Stands(varStore[v])

\* Each contract of the manifest was created with the address that varStore has for the
\* one it needs, and is on the chain unless the log tells that it is not.
WiredTogether(entries) ==
    \A i \in Deployable(entries) :
       LET e == entries[i].val
       IN  \E n \in 1 .. Len(mined) :
              /\ mined[n] # None /\ mined[n].entry = e
              /\ e.input # None => mined[n].arg = varStore[e.input]
              /\ e.returns # None => varStore[e.returns] = n - 1
              /\ Stands(n - 1)

\* A deployment of everything ends with contracts that know each other, though it may
\* follow attempts that failed half-way, with creations of theirs still to be mined and
\* addresses of theirs in varStore (deploy/deploy.js:99-178).  It completes with
\* a contract missing when a creation was reverted: this is all the log says of it.
CompleteIsWired ==
    [][\A l \in Lines :
          Complete(l) /\ cmd[l].only = {} =>
             WiredTogether(Entries(manifest[ComposeFiles[cmd[l].file].collection]))]_vars

\* deployedContract goes from one whole to another: what a deployment puts there has every
\* contract of the manifest that it was asked for, and one that fails puts nothing
\* there (deploy/deploy.js:175).
NoHalfCollection ==
    [][\A c \in Collections : deployedContract[c]' # deployedContract[c] =>
          \E l \in Lines :
             \/ Starts(l, "import") /\ cmd[l].collection = c
             \/ LET f == cmd[l].file  entries == Entries(manifest[c])
                IN  /\ pc[l] # "idle" /\ cmd[l].op = "deploy"
                    /\ c = ComposeFiles[f].collection
                    /\ deployedContract[c]' =
                         {entries[i].val.name :
                             i \in {j \in DOMAIN entries : AbiOnly(entries[j]) \/ Chosen(l, entries[j])}}]_vars

\* Every command ends, whatever the node does about its transactions.
DeployEnds == \A l \in Lines : pc[l] # "idle" ~> pc[l] = "idle"
=============================================================================
