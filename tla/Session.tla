------------------------------ MODULE Session ------------------------------
(***************************************************************************)
(* The command line's session (src/src/core): the settings that `use`      *)
(* switches, the varStore that calls fill, the snapshots of a development  *)
(* node, scripts, and contract calls that submit a transaction and poll    *)
(* for its receipt.                                                        *)
(*                                                                         *)
(* A line is handled by an async function that the reader of lines does    *)
(* not await: what it does between two awaits is one action here, and what *)
(* other lines typed meanwhile do can come between.  Lines has as many     *)
(* elements as lines may overlap; a user who waits for the prompt, like    *)
(* the commands of a script, needs one.                                    *)
(*                                                                         *)
(* A request is processed by the node when it is sent; its reply is seen   *)
(* in the next action of the line.  A wallet stands for its private key    *)
(* and its address, a chain for its rpc URL, a variable also for the call  *)
(* whose `.then()` fills it.                                               *)
(***************************************************************************)
EXTENDS Naturals, Sequences, FiniteSets

CONSTANTS
    Chains, Wallets,    \* the keys of settings.json
    KeyStores,          \* the wallets whose key is in a key store file
    Home,               \* currentSet of settings.json
    Names,              \* of snapshots
    Vars,               \* of variables
    Commands,           \* what may be typed
    Lines,
    MaxLines,           \* bound: lines that are typed in all
    MaxPolls,           \* requests for a receipt before the call gives up: 10 in the code
    None                \* an absent option, an empty variable, an unknown snapshot

Command ==
    [op : {"snapshot"}, name : Names]
      \cup [op : {"revert"}, target : Names \cup Nat]
      \cup [op : {"use"}, chain : STRING \cup Chains \cup {None}, wallet : STRING \cup Wallets \cup {None}]
      \cup [op : {"call"}, var : Vars, catch : BOOLEAN]
      \cup {[op |-> "clear"]}

ASSUME SessionAssumption ==
    /\ KeyStores \subseteq Wallets
    /\ Home \in [chain : Chains, wallet : Wallets]
    /\ \A cmd \in Commands :
          \/ cmd \in Command
          \/ cmd.op = "sh" /\ cmd.repeat \in Nat /\ cmd.lines \in Seq(Command) \ {<<>>}
    /\ Lines # {} /\ MaxLines \in Nat /\ MaxPolls \in Nat \ {0}
    /\ None \notin Chains \cup Wallets \cup Names \cup Vars

Ids == 1 .. MaxLines
Tx == [from : Wallets, nonce : Nat, call : Vars]
Receipt == [from : Wallets, nonce : Nat, call : Vars, ok : BOOLEAN]

VARIABLES
    mined,       \* [Chains -> the receipts on the chain]
    pool,        \* [Chains -> the transactions the node holds]
    snaps,       \* [Chains -> [Ids -> the chain at the snapshot, or None]]
    nextId,      \* [Chains -> the id of the node's next snapshot]
    currentSet, rpcUrl, privKey, user,   \* the settings in force
    varStore,    \* [Vars -> the receipt a call left there, with its chain]
    snapshot,    \* global.snapshot: [Names -> id and copy of varStore]
    typed,       \* the number of lines typed
    pc,          \* what each line waits for
    todo,        \* the commands it has left, the current one first
    loop,        \* the script it runs: its lines and the rounds left
    local,       \* what the current command keeps across its next await
    taken        \* history: varStore when the node took the snapshot

nodeVars == <<mined, pool, snaps, nextId, taken>>
settingVars == <<currentSet, rpcUrl, privKey, user>>
storeVars == <<varStore, snapshot>>
lineVars == <<pc, todo, loop, local>>
vars == <<nodeVars, settingVars, storeVars, typed, lineVars>>

EmptyStore == [v \in Vars |-> None]
Store == [Vars -> [chain : Chains, receipt : Receipt] \cup {None}]
Snapshot == [id : Ids, vars : Store]
Loop == [lines : Seq(Command) \ {<<>>}, left : Nat]

ASSUME NoneAssumption ==
    /\ None \notin Store \cup Snapshot \cup Loop
    /\ None \notin [chain : Chains, receipt : Receipt]

SessionTypeOK ==
    /\ mined \in [Chains -> SUBSET Receipt]
    /\ pool \in [Chains -> SUBSET Tx]
    /\ snaps \in [Chains -> [Ids -> {None} \cup SUBSET Receipt]]
    /\ taken \in [Chains -> [Ids -> Store \cup {None}]]
    /\ nextId \in [Chains -> 1 .. MaxLines + 1]
    /\ rpcUrl \in Chains /\ privKey \in Wallets /\ user \in Wallets
    /\ varStore \in Store
    /\ snapshot \in [Names -> Snapshot \cup {None}]
    /\ typed \in 0 .. MaxLines
    /\ pc \in [Lines -> {"idle", "ready", "snapshot", "reverted", "keystore", "wallet",
                         "tokenized", "opened", "submit", "poll", "receipt"}]
    /\ todo \in [Lines -> Seq(Commands \cup Command)]
    /\ loop \in [Lines -> Loop \cup {None}]
    /\ \A l \in Lines : (pc[l] = "idle") = (todo[l] = <<>>)

Init ==
    /\ mined = [c \in Chains |-> {}]
    /\ pool = [c \in Chains |-> {}]
    /\ snaps = [c \in Chains |-> [i \in Ids |-> None]]
    /\ nextId = [c \in Chains |-> 1]
    /\ currentSet = Home
    /\ rpcUrl = Home.chain
    /\ privKey = Home.wallet
    /\ user = Home.wallet
    /\ varStore = EmptyStore
    /\ snapshot = [n \in Names |-> None]
    /\ typed = 0
    /\ pc = [l \in Lines |-> "idle"]
    /\ todo = [l \in Lines |-> <<>>]
    /\ loop = [l \in Lines |-> None]
    /\ local = [l \in Lines |-> None]
    /\ taken = [c \in Chains |-> [i \in Ids |-> None]]
-----------------------------------------------------------------------------
Cmd(l) == Head(todo[l])
At(l, stage) == pc[l] = stage
Starts(l, op) == pc[l] = "ready" /\ Cmd(l).op = op
InScript(l) == loop[l] # None

\* The command goes on to its next await, with what it keeps.
Await(l, stage, data) ==
    /\ pc' = [pc EXCEPT ![l] = stage]
    /\ local' = [local EXCEPT ![l] = data]
    /\ UNCHANGED <<todo, loop>>

\* The command is over.  A script goes on with its next line, or its next round,
\* unless a command failed; otherwise the prompt comes back.
Finish(l, ok) ==
    LET more == ok /\ Len(todo[l]) > 1
        again == ok /\ ~more /\ InScript(l) /\ loop[l].left > 1
    IN  /\ todo' = [todo EXCEPT ![l] = IF more THEN Tail(@)
                                       ELSE IF again THEN loop[l].lines ELSE <<>>]
        /\ loop' = [loop EXCEPT ![l] = IF more THEN @
                                       ELSE IF again THEN [lines |-> @.lines, left |-> @.left - 1]
                                       ELSE None]
        /\ pc' = [pc EXCEPT ![l] = IF more \/ again THEN "ready" ELSE "idle"]
        /\ local' = [local EXCEPT ![l] = None]

\* The user ends a line; it is handled whether or not earlier ones are done.
Type(l) ==
    /\ At(l, "idle")
    /\ typed < MaxLines
    /\ typed' = typed + 1
    /\ \E cmd \in Commands : todo' = [todo EXCEPT ![l] = <<cmd>>]
    /\ pc' = [pc EXCEPT ![l] = "ready"]
    /\ UNCHANGED <<nodeVars, settingVars, storeVars, loop, local>>

\* sh: the rounds are counted down after each round, so that 0 is one round too.
RunScript(l) ==
    /\ Starts(l, "sh")
    /\ todo' = [todo EXCEPT ![l] = Cmd(l).lines]
    /\ loop' = [loop EXCEPT ![l] = [lines |-> Cmd(l).lines,
                                    left |-> IF Cmd(l).repeat = 0 THEN 1 ELSE Cmd(l).repeat]]
    /\ UNCHANGED <<nodeVars, settingVars, storeVars, typed, pc, local>>

\* memory -clear
ClearMemory(l) ==
    /\ Starts(l, "clear")
    /\ varStore' = EmptyStore
    /\ Finish(l, TRUE)
    /\ UNCHANGED <<nodeVars, settingVars, snapshot, typed>>
-----------------------------------------------------------------------------
(***************************************************************************)
(* snapshot --name, snapshot --revert                                      *)
(***************************************************************************)
\* A script hands its own arguments to the command, which then lacks its options.
SnapshotInScript(l) ==
    /\ Starts(l, "snapshot") \/ Starts(l, "revert")
    /\ InScript(l)
    /\ Finish(l, FALSE)
    /\ UNCHANGED <<nodeVars, settingVars, storeVars, typed>>

\* evm_snapshot
AskSnapshot(l) ==
    /\ Starts(l, "snapshot") /\ ~InScript(l)
    /\ LET c == rpcUrl  id == nextId[rpcUrl]
       IN  /\ snaps' = [snaps EXCEPT ![c][id] = mined[c]]
           /\ taken' = [taken EXCEPT ![c][id] = varStore]
           /\ nextId' = [nextId EXCEPT ![c] = id + 1]
           /\ Await(l, "snapshot", [id |-> id])
    /\ UNCHANGED <<mined, pool, settingVars, storeVars, typed>>

\* The reply has come: the name stands for the new id and a copy of varStore.
KeepSnapshot(l) ==
    /\ At(l, "snapshot")
    /\ snapshot' = [snapshot EXCEPT ![Cmd(l).name] = [id |-> local[l].id, vars |-> varStore]]
    /\ Finish(l, TRUE)
    /\ UNCHANGED <<nodeVars, settingVars, varStore, typed>>

\* The name an argument of --revert stands for: a name comes first, then an id.  On
\* one chain no two names have the same id.
NamesOf(target) ==
    IF target \in Names /\ snapshot[target] # None THEN {target}
    ELSE {n \in Names : snapshot[n] # None /\ snapshot[n].id = target}

\* evm_revert goes back to a snapshot and forgets it and all later ones; what
\* becomes of transactions not yet mined is the node's affair.
AskRevert(l) ==
    /\ Starts(l, "revert") /\ ~InScript(l)
    /\ LET c == rpcUrl
           target == Cmd(l).target
           name == IF NamesOf(target) = {} THEN None ELSE CHOOSE n \in NamesOf(target) : TRUE
           id == IF name = None THEN target ELSE snapshot[name].id
           known == id \in Ids /\ snaps[c][id] # None
       IN  /\ IF known
              THEN /\ mined' = [mined EXCEPT ![c] = snaps[c][id]]
                   /\ snaps' = [snaps EXCEPT ![c] =
                                  [i \in Ids |-> IF i < id THEN @[i] ELSE None]]
                   /\ \E left \in {pool[c], {}} : pool' = [pool EXCEPT ![c] = left]
              ELSE UNCHANGED <<mined, snaps, pool>>
           /\ Await(l, "reverted", [chain |-> c, id |-> id, name |-> name, done |-> known])
    /\ UNCHANGED <<nextId, taken, settingVars, storeVars, typed>>

FinishRevertChainOnly(l) ==
    /\ At(l, "reverted")
    /\ Finish(l, local[l].done)
    /\ UNCHANGED <<nodeVars, settingVars, storeVars, typed>>

FinishRevertUnchecked(l) ==
    /\ At(l, "reverted")
    /\ varStore' = IF local[l].name = None THEN varStore ELSE snapshot[local[l].name].vars
    /\ Finish(l, TRUE)
    /\ UNCHANGED <<nodeVars, settingVars, snapshot, typed>>

\* The reply has come.  Unless it is "false", the copy the name has by now becomes
\* the varStore; an id that no name has leaves the varStore alone.
FinishRevert(l) ==
    /\ At(l, "reverted")
    /\ varStore' = IF local[l].done /\ local[l].name # None
                   THEN snapshot[local[l].name].vars ELSE varStore
    /\ Finish(l, local[l].done)
    /\ UNCHANGED <<nodeVars, settingVars, snapshot, typed>>
-----------------------------------------------------------------------------
(***************************************************************************)
(* use --chainSet, --walletSet                                             *)
(***************************************************************************)
NewSet(l) ==
    [chain |-> IF Cmd(l).chain = None THEN currentSet.chain ELSE Cmd(l).chain,
     wallet |-> IF Cmd(l).wallet = None THEN currentSet.wallet ELSE Cmd(l).wallet]

Known(set) == set.chain \in Chains /\ set.wallet \in Wallets

\* Two unknown keys are refused; with one of them the settings change up to the
\* point where it is missed.
UseUnknown(l) ==
    /\ Starts(l, "use")
    /\ ~Known(NewSet(l))
    /\ IF NewSet(l).chain \notin Chains /\ NewSet(l).wallet \notin Wallets
       THEN UNCHANGED <<currentSet, rpcUrl>>
       ELSE /\ currentSet' = NewSet(l)
            /\ rpcUrl' = IF NewSet(l).chain \in Chains THEN NewSet(l).chain ELSE rpcUrl
    /\ Finish(l, FALSE)
    /\ UNCHANGED <<nodeVars, privKey, user, storeVars, typed>>

\* A key in the settings is in force at once, the address after the wallet is open.
UsePrivateKey(l) ==
    /\ Starts(l, "use")
    /\ Known(NewSet(l)) /\ NewSet(l).wallet \notin KeyStores
    /\ currentSet' = NewSet(l)
    /\ rpcUrl' = NewSet(l).chain
    /\ privKey' = NewSet(l).wallet
    /\ Await(l, "wallet", NewSet(l).wallet)
    /\ UNCHANGED <<nodeVars, user, storeVars, typed>>

OpenWallet(l) ==
    /\ At(l, "wallet")
    /\ user' = local[l]
    /\ Finish(l, TRUE)
    /\ UNCHANGED <<nodeVars, currentSet, rpcUrl, privKey, storeVars, typed>>

\* The passphrase is asked for, and everything else waits while it is typed.
UseKeyStore(l) ==
    /\ Starts(l, "use")
    /\ Known(NewSet(l)) /\ NewSet(l).wallet \in KeyStores
    /\ currentSet' = NewSet(l)
    /\ rpcUrl' = NewSet(l).chain
    /\ \E right \in BOOLEAN : Await(l, "keystore", [wallet |-> NewSet(l).wallet, right |-> right])
    /\ UNCHANGED <<nodeVars, privKey, user, storeVars, typed>>

OpenKeyStoreKeyOnly(l) ==
    /\ At(l, "keystore")
    /\ privKey' = IF local[l].right THEN local[l].wallet ELSE privKey
    /\ Finish(l, local[l].right)
    /\ UNCHANGED <<nodeVars, currentSet, rpcUrl, user, storeVars, typed>>

\* With a wrong passphrase chain and wallet are switched and the key is the old one.
OpenKeyStore(l) ==
    /\ At(l, "keystore")
    /\ privKey' = IF local[l].right THEN local[l].wallet ELSE privKey
    /\ user' = IF local[l].right THEN local[l].wallet ELSE user
    /\ Finish(l, local[l].right)
    /\ UNCHANGED <<nodeVars, currentSet, rpcUrl, storeVars, typed>>
-----------------------------------------------------------------------------
(***************************************************************************)
(* A call of a function that changes state, with `.then(var => ...)` and   *)
(* perhaps a `.catch`.                                                     *)
(***************************************************************************)
Caught(l) == Cmd(l).op = "call" /\ Cmd(l).catch

\* The command fails, unless a `.catch` block takes the error and does not throw.
Fail(l) == \E ok \in {FALSE, Caught(l)} : Finish(l, ok)

\* _queryTokenize: "${USER}" is replaced by the address in force.
Tokenize(l) ==
    /\ Starts(l, "call")
    /\ Await(l, "tokenized", [who |-> user])
    /\ UNCHANGED <<nodeVars, settingVars, storeVars, typed>>

\* The signer is the key in force after the await.
OpenSigner(l) ==
    /\ At(l, "tokenized")
    /\ Await(l, "opened", [who |-> local[l].who, key |-> privKey])
    /\ UNCHANGED <<nodeVars, settingVars, storeVars, typed>>

MinedNonce(c, w) == Cardinality({r \in mined[c] : r.from = w})

\* eth_getTransactionCount at "pending": the first nonce no transaction has.
PendingNonce(c, w) ==
    LET used == {tx.nonce : tx \in {t \in pool[c] : t.from = w}}
        base == MinedNonce(c, w)
    IN  CHOOSE n \in base .. base + Cardinality(pool[c]) :
           n \notin used /\ \A m \in base .. n - 1 : m \in used

\* An error in the reply is not looked at: its missing result is taken for 0.
AskNonce(l) ==
    /\ At(l, "opened")
    /\ \E nonce \in {PendingNonce(rpcUrl, local[l].key), 0} :
          Await(l, "submit",
                [who |-> local[l].who, key |-> local[l].key, url |-> rpcUrl, polls |-> 0,
                 tx |-> [from |-> local[l].key, nonce |-> nonce, call |-> Cmd(l).var]])
    /\ UNCHANGED <<nodeVars, settingVars, storeVars, typed>>

Rivals(c, tx) == {t \in pool[c] : t.from = tx.from /\ t.nonce = tx.nonce}

\* eth_sendRawTransaction.  "nonce too low" and "already known" are taken for a
\* transaction that was sent; another one with the nonce is replaced, or this one
\* is refused.
Submit(l) ==
    /\ At(l, "submit")
    /\ LET c == local[l].url  tx == local[l].tx
       IN  \/ /\ tx.nonce < MinedNonce(c, tx.from) \/ tx \in pool[c]
              /\ Await(l, "poll", local[l])
              /\ UNCHANGED pool
           \/ /\ tx.nonce >= MinedNonce(c, tx.from) /\ tx \notin pool[c]
              /\ pool' = [pool EXCEPT ![c] = (@ \ Rivals(c, tx)) \cup {tx}]
              /\ Await(l, "poll", local[l])
           \/ /\ tx.nonce >= MinedNonce(c, tx.from) /\ Rivals(c, tx) \notin {{}, {tx}}
              /\ Fail(l)
              /\ UNCHANGED pool
    /\ UNCHANGED <<mined, snaps, nextId, taken, settingVars, storeVars, typed>>

\* Gas prices are left out: transactions of a sender with one nonce and call are one.
Receipts(c, tx) ==
    {r \in mined[c] : r.from = tx.from /\ r.nonce = tx.nonce /\ r.call = tx.call}

PollForEver(l) ==
    /\ At(l, "poll")
    /\ LET found == Receipts(local[l].url, local[l].tx)
       IN  IF found # {}
           THEN \E r \in found :
                   Await(l, "receipt", [who |-> local[l].who, key |-> local[l].key,
                                        chain |-> local[l].url, receipt |-> r])
           ELSE Await(l, "poll", local[l])
    /\ UNCHANGED <<nodeVars, settingVars, storeVars, typed>>

\* eth_getTransactionReceipt, with a longer sleep each time.  After the last one the
\* missing receipt makes a TypeError, whatever becomes of the transaction.
Poll(l) ==
    /\ At(l, "poll")
    /\ LET found == Receipts(local[l].url, local[l].tx)
       IN  IF found # {}
           THEN \E r \in found :
                   Await(l, "receipt", [who |-> local[l].who, key |-> local[l].key,
                                        chain |-> local[l].url, receipt |-> r])
           ELSE IF local[l].polls + 1 < MaxPolls
           THEN Await(l, "poll", [local[l] EXCEPT !.polls = @ + 1])
           ELSE Fail(l)
    /\ UNCHANGED <<nodeVars, settingVars, storeVars, typed>>

\* The receipt goes into the variable, whatever its status, and the block runs; if
\* the block throws, that is caught like an error of the call.
Then(l) ==
    /\ At(l, "receipt")
    /\ varStore' = [varStore EXCEPT ![Cmd(l).var] =
                      [chain |-> local[l].chain, receipt |-> local[l].receipt]]
    /\ Finish(l, TRUE) \/ Fail(l)
    /\ UNCHANGED <<nodeVars, settingVars, snapshot, typed>>

\* The endpoint refuses a request, or reports an error where errors are looked at;
\* for "submit" that is the estimate of gas as well.  (That a request is processed
\* and only its reply is lost is left out.)
RequestFails(l) ==
    /\ \/ (Starts(l, "snapshot") \/ Starts(l, "revert")) /\ ~InScript(l)
       \/ pc[l] \in {"opened", "submit", "poll"}
    /\ Fail(l)
    /\ UNCHANGED <<nodeVars, settingVars, storeVars, typed>>
-----------------------------------------------------------------------------
\* The node mines one transaction, which may fail on the chain.
Mine(c) ==
    /\ \E tx \in pool[c], ok \in BOOLEAN :
          /\ tx.nonce = MinedNonce(c, tx.from)
          /\ mined' = [mined EXCEPT ![c] = @ \cup {[from |-> tx.from, nonce |-> tx.nonce,
                                                   call |-> tx.call, ok |-> ok]}]
          /\ pool' = [pool EXCEPT ![c] = @ \ {tx}]
    /\ UNCHANGED <<snaps, nextId, taken, settingVars, storeVars, typed, lineVars>>

Proceed(l) ==
    \/ RunScript(l) \/ ClearMemory(l)
    \/ SnapshotInScript(l) \/ AskSnapshot(l) \/ KeepSnapshot(l) \/ AskRevert(l) \/ FinishRevert(l)
    \/ UseUnknown(l) \/ UsePrivateKey(l) \/ OpenWallet(l) \/ UseKeyStore(l) \/ OpenKeyStore(l)
    \/ Tokenize(l) \/ OpenSigner(l) \/ AskNonce(l) \/ Submit(l) \/ Poll(l) \/ Then(l)

Step(l) == Proceed(l) \/ RequestFails(l)

Next ==
    \/ \E l \in Lines : Type(l) \/ Step(l)
    \/ \E c \in Chains : Mine(c)

Spec == Init /\ [][Next]_vars

\* Requests are answered, sleeps end, and the event loop runs what is ready.
FairSpec == Spec /\ \A l \in Lines : WF_vars(Proceed(l))
-----------------------------------------------------------------------------
\* The user waits for the prompt.
OneAtATime == \A l, k \in Lines : l = k

\* And she works on one chain, and goes back to snapshots by their names.
OneNamedChain ==
    /\ OneAtATime
    /\ \A c, d \in Chains : c = d
    /\ \A cmd \in Commands : cmd.op = "revert" => cmd.target \in Names \ Nat

\* What a variable holds is on the chain: no receipt of a transaction that a revert
\* has undone is left in the varStore, once the line that reverted is done.
VarsOnChain ==
    /\ SessionTypeOK
    /\ (\A l \in Lines : ~At(l, "reverted")) =>
          \A v \in Vars :
             varStore[v] # None => varStore[v].receipt \in mined[varStore[v].chain]

\* "varStore is saved and restored together with the snapshot": when a revert has
\* succeeded, the varStore is the one there was when the node took the snapshot; a
\* revert that fails leaves it alone.
RevertRestoresVars ==
    [][\A l \in Lines :
          At(l, "reverted") /\ ~At(l, "reverted")' =>
             varStore' = IF local[l].done THEN taken[local[l].chain][local[l].id]
                         ELSE varStore]_vars

\* The address a call uses for "${USER}" is the address of its signer, also after a
\* `use` that failed half-way.
SignerIsUser ==
    \A l \in Lines :
       pc[l] \in {"opened", "submit", "poll", "receipt"} => local[l].key = local[l].who

\* The prompt comes back after every line, whatever the chain does.
LineEnds == \A l \in Lines : pc[l] # "idle" ~> pc[l] = "idle"
=============================================================================
