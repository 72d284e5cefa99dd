---------------------------- MODULE SessionProofs ----------------------------
(***************************************************************************)
(* What holds of a session for every set of chains, wallets, variables and *)
(* commands, when the user waits for the prompt; for the snapshots, also   *)
(* when she works on one chain and calls them by name.                     *)
(*                                                                         *)
(* SessionInv is about what is in force and what a command keeps across an *)
(* await, KeptInv about snapshots: the chain at a snapshot, the varStore   *)
(* when the node took it and the copy that its name stands for.            *)
(***************************************************************************)
EXTENDS Session, LeastNumber, FiniteSetTheorems, SequenceTheorems

\* The awaits of a call.
Calling == {"tokenized", "opened", "submit", "poll", "receipt"}

Stages == {"snapshot", "reverted", "keystore", "wallet"} \cup Calling

\* A line is a command or a script, and one that may take a snapshot has been counted.
LineInv(l) ==
    /\ pc[l] = "idle" => loop[l] = None
    /\ loop[l] = None /\ pc[l] # "idle" => todo[l] \in Seq(Commands) /\ Len(todo[l]) < 2
    /\ loop[l] # None => todo[l] \in Seq(Command)
    /\ pc[l] = "ready" /\ ~InScript(l) => \A c \in Chains : nextId[c] <= typed

\* What a command keeps across an await.  A call keeps the address in force when its
\* line was tokenized, and the key.
LocalInv(l) ==
    /\ pc[l] = "snapshot" => Cmd(l).op = "snapshot" /\ Cmd(l).name \in Names /\ local[l].id \in Ids
    /\ pc[l] = "wallet" => local[l] = privKey
    /\ pc[l] = "keystore" => local[l].wallet \in Wallets /\ local[l].right \in BOOLEAN
    /\ pc[l] \in Calling => Cmd(l).op = "call" /\ Cmd(l).var \in Vars /\ local[l].who = user
    /\ pc[l] \in Calling \ {"tokenized"} => local[l].key = user
    /\ pc[l] \in {"submit", "poll"} => local[l].url \in Chains /\ local[l].tx \in Tx
    /\ pc[l] = "receipt" => local[l].chain \in Chains /\ local[l].receipt \in Receipt
    /\ pc[l] = "reverted" =>
          /\ local[l].done \in BOOLEAN /\ local[l].name \in Names \cup {None}
          /\ local[l].name # None => snapshot[local[l].name] # None

\* The parts of the type invariant.
NodeType ==
    /\ mined \in [Chains -> SUBSET Receipt] /\ pool \in [Chains -> SUBSET Tx]
    /\ snaps \in [Chains -> [Ids -> {None} \cup SUBSET Receipt]]
    /\ taken \in [Chains -> [Ids -> Store \cup {None}]]
    /\ nextId \in [Chains -> 1 .. MaxLines + 1]
    /\ \A c \in Chains :
          /\ IsFiniteSet(mined[c]) /\ IsFiniteSet(pool[c])
          /\ \A i \in Ids : snaps[c][i] # None => IsFiniteSet(snaps[c][i])
          /\ nextId[c] <= typed + 1
SettingType == rpcUrl \in Chains /\ privKey \in Wallets /\ user \in Wallets
StoreType == varStore \in Store /\ snapshot \in [Names -> Snapshot \cup {None}]
LineType ==
    /\ typed \in 0 .. MaxLines
    /\ pc \in [Lines -> {"idle", "ready"} \cup Stages]
    /\ todo \in [Lines -> Seq(Commands \cup Command)]
    /\ loop \in [Lines -> Loop \cup {None}]
    /\ DOMAIN local = Lines
    /\ \A l \in Lines : (pc[l] = "idle") = (todo[l] = <<>>)

\* Key and address are of one wallet, but while the wallet of a private key is opened.
SessionInv ==
    /\ NodeType /\ SettingType /\ StoreType /\ LineType
    /\ (\A l \in Lines : pc[l] # "wallet") => privKey = user
    /\ \A l \in Lines : LineInv(l) /\ LocalInv(l)

LEMMA TypeFollows == ASSUME SessionInv PROVE SessionTypeOK
<1>1. {"idle", "ready"} \cup Stages =
         {"idle", "ready", "snapshot", "reverted", "keystore", "wallet", "tokenized", "opened",
          "submit", "poll", "receipt"}
  BY DEF Stages, Calling
<1> QED BY <1>1 DEF SessionInv, NodeType, SettingType, StoreType, LineType, SessionTypeOK

LEMMA InitSession == ASSUME Init PROVE SessionInv
<1>1. NodeType
  <2>1. mined \in [Chains -> SUBSET Receipt] /\ pool \in [Chains -> SUBSET Tx]
    BY DEF Init
  <2>2. snaps \in [Chains -> [Ids -> {None} \cup SUBSET Receipt]]
    BY DEF Init
  <2>3. taken \in [Chains -> [Ids -> Store \cup {None}]]
    BY DEF Init
  <2>4. nextId \in [Chains -> 1 .. MaxLines + 1] /\ typed = 0
    BY SessionAssumption DEF Init
  <2>5. \A c \in Chains : nextId[c] <= typed + 1
    BY DEF Init
  <2>6. \A c \in Chains : mined[c] = {} /\ pool[c] = {} /\ \A i \in Ids : snaps[c][i] = None
    BY DEF Init
  <2> QED BY <2>1, <2>2, <2>3, <2>4, <2>5, <2>6, FS_EmptySet DEF NodeType
<1>2. SettingType
  BY SessionAssumption DEF Init, SettingType
<1>3. StoreType
  BY DEF Init, StoreType, Store, EmptyStore
<1>4. LineType
  BY SessionAssumption DEF Init, LineType
<1>5. \A l \in Lines : pc[l] = "idle" /\ loop[l] = None
  BY DEF Init
<1>6. \A l \in Lines : LineInv(l) /\ LocalInv(l)
  BY <1>5 DEF LineInv, LocalInv, Calling
<1>7. privKey = user
  BY DEF Init
<1> QED BY <1>1, <1>2, <1>3, <1>4, <1>6, <1>7 DEF SessionInv
-----------------------------------------------------------------------------
(***************************************************************************)
(* How a line goes on.                                                     *)
(***************************************************************************)
\* The command whose turn it is.
LEMMA CmdIsOne ==
    ASSUME SessionInv, NEW l \in Lines, pc[l] # "idle"
    PROVE  /\ todo[l] \in Seq(Commands \cup Command) /\ todo[l] # <<>> /\ Len(todo[l]) > 0
           /\ loop[l] = None => Cmd(l) \in Commands /\ Len(todo[l]) < 2
           /\ loop[l] # None => Cmd(l) \in Command /\ loop[l] \in Loop
<1>1. LineType /\ LineInv(l)
  BY DEF SessionInv
<1>2. todo[l] \in Seq(Commands \cup Command) /\ todo[l] # <<>> /\ loop[l] \in Loop \cup {None}
  BY <1>1 DEF LineType
<1>3. Len(todo[l]) > 0
  BY <1>2
<1> QED BY <1>1, <1>2, <1>3 DEF LineInv, Cmd

\* What a command of an operation has.
LEMMA CommandFields ==
    ASSUME SessionInv, NEW l \in Lines, pc[l] # "idle"
    PROVE  /\ Cmd(l).op = "snapshot" => Cmd(l).name \in Names
           /\ Cmd(l).op = "call" => Cmd(l).var \in Vars
           /\ Cmd(l).op = "sh" => Cmd(l).lines \in Seq(Command) \ {<<>>} /\ Cmd(l).repeat \in Nat
                                  /\ loop[l] = None
<1>1. /\ loop[l] = None => Cmd(l) \in Commands /\ Len(todo[l]) < 2
      /\ loop[l] # None => Cmd(l) \in Command /\ loop[l] \in Loop
  BY CmdIsOne
<1>2. PICK cmd : cmd = Cmd(l)
  OBVIOUS
<1>3. CASE cmd \in Command
  <2>1. \/ cmd \in [op : {"snapshot"}, name : Names]
        \/ cmd \in [op : {"revert"}, target : Names \cup Nat]
        \/ cmd \in [op : {"use"}, chain : STRING \cup Chains \cup {None}, wallet : STRING \cup Wallets \cup {None}]
        \/ cmd \in [op : {"call"}, var : Vars, catch : BOOLEAN]
        \/ cmd = [op |-> "clear"]
    BY <1>3 DEF Command
  <2> QED BY <1>2, <2>1
<1>4. CASE cmd \notin Command
  <2>1. cmd \in Commands /\ loop[l] = None
    BY <1>1, <1>2, <1>4
  <2>2. cmd.op = "sh" /\ cmd.repeat \in Nat /\ cmd.lines \in Seq(Command) \ {<<>>}
    BY <1>4, <2>1, SessionAssumption
  <2> QED BY <1>2, <2>1, <2>2
<1> QED BY <1>3, <1>4

LEMMA Awaits ==
    ASSUME OneAtATime, SessionInv, NEW l \in Lines, NEW stage \in Stages, NEW data,
           pc[l] # "idle", Await(l, stage, data), typed' = typed
    PROVE  /\ LineType' /\ \A k \in Lines : k = l /\ LineInv(k)'
           /\ pc'[l] = stage /\ local'[l] = data /\ Cmd(l)' = Cmd(l)
<1>1. /\ pc' = [pc EXCEPT ![l] = stage] /\ local' = [local EXCEPT ![l] = data]
      /\ UNCHANGED <<todo, loop>>
  BY DEF Await
<1>2. LineType /\ LineInv(l) /\ \A k \in Lines : k = l
  BY DEF SessionInv, OneAtATime
<1>3. stage # "idle" /\ stage # "ready"
  BY DEF Stages, Calling
<1>4. pc'[l] = stage /\ local'[l] = data /\ Cmd(l)' = Cmd(l)
  BY <1>1, <1>2 DEF LineType, Cmd
<1>5. LineType'
  BY <1>1, <1>2, <1>3, <1>4 DEF LineType
<1>6. LineInv(l)'
  BY <1>1, <1>2, <1>3, <1>4 DEF LineInv
<1> QED BY <1>2, <1>4, <1>5, <1>6

LEMMA Finishes ==
    ASSUME OneAtATime, SessionInv, NEW l \in Lines, NEW ok \in BOOLEAN, pc[l] # "idle", Finish(l, ok), typed' = typed
    PROVE  /\ LineType' /\ \A k \in Lines : k = l /\ LineInv(k)' /\ LocalInv(k)'
           /\ pc'[l] \in {"idle", "ready"}
<1>4. LineType /\ LineInv(l) /\ \A k \in Lines : k = l
  BY DEF SessionInv, OneAtATime
<1>5. /\ todo[l] \in Seq(Commands \cup Command) /\ Len(todo[l]) > 0
      /\ loop[l] = None => Len(todo[l]) < 2
      /\ loop[l] # None => loop[l] \in Loop /\ todo[l] \in Seq(Command)
  BY CmdIsOne, <1>4 DEF LineInv
<1>6. CASE ok /\ Len(todo[l]) > 1
  <2>0. /\ todo' = [todo EXCEPT ![l] = Tail(todo[l])] /\ loop' = [loop EXCEPT ![l] = loop[l]]
        /\ pc' = [pc EXCEPT ![l] = "ready"] /\ local' = [local EXCEPT ![l] = None]
    BY <1>6 DEF Finish
  <2>1. /\ todo'[l] = Tail(todo[l]) /\ loop'[l] = loop[l] /\ pc'[l] = "ready"
    BY <2>0, <1>4, <1>6 DEF LineType
  <2>2. Len(todo[l]) > 1 /\ loop[l] # None
    <3>1. Len(todo[l]) > 1
      BY <1>6, Zenon
    <3>2. loop[l] = None => Len(todo[l]) < 2
      BY <1>5, Zenon
    <3> QED BY <1>5, <3>1
  <2>3. todo'[l] \in Seq(Command) /\ todo'[l] # <<>>
    <3>1. todo[l] \in Seq(Command) /\ todo[l] # <<>>
      BY <1>5, <2>2
    <3>2. Tail(todo[l]) \in Seq(Command) /\ Len(Tail(todo[l])) = Len(todo[l]) - 1
      BY <3>1
    <3>3. Len(Tail(todo[l])) > 0
      BY <1>5, <2>2, <3>2
    <3>4. PICK rest : rest = Tail(todo[l])
      OBVIOUS
    <3>5. rest \in Seq(Command) /\ Len(rest) > 0
      BY <3>2, <3>3, <3>4
    <3>6. rest # <<>>
      BY <3>5
    <3> QED BY <2>1, <3>4, <3>5, <3>6, Zenon
  <2>4. todo'[l] \in Seq(Commands \cup Command)
    BY <1>5, <2>1, <2>2
  <2>5. LineType'
    BY <2>0, <1>4, <2>1, <2>3, <2>4 DEF LineType
  <2>6. LineInv(l)' /\ LocalInv(l)'
    BY <2>1, <2>2, <2>3 DEF LineInv, LocalInv, InScript, Calling
  <2> QED BY <1>4, <2>1, <2>5, <2>6
<1>7. CASE ok /\ ~(Len(todo[l]) > 1) /\ InScript(l) /\ loop[l].left > 1
  <2>0. /\ todo' = [todo EXCEPT ![l] = loop[l].lines]
        /\ loop' = [loop EXCEPT ![l] = [lines |-> loop[l].lines, left |-> loop[l].left - 1]]
        /\ pc' = [pc EXCEPT ![l] = "ready"] /\ local' = [local EXCEPT ![l] = None]
    <3>1. (IF ok /\ Len(todo[l]) > 1 THEN Tail(todo[l])
           ELSE IF ok /\ ~(ok /\ Len(todo[l]) > 1) /\ InScript(l) /\ loop[l].left > 1
                THEN loop[l].lines ELSE <<>>) = loop[l].lines
      BY <1>7
    <3>2. (IF ok /\ Len(todo[l]) > 1 THEN loop[l]
           ELSE IF ok /\ ~(ok /\ Len(todo[l]) > 1) /\ InScript(l) /\ loop[l].left > 1
                THEN [lines |-> loop[l].lines, left |-> loop[l].left - 1] ELSE None)
          = [lines |-> loop[l].lines, left |-> loop[l].left - 1]
      BY <1>7
    <3>3. todo' = [todo EXCEPT ![l] = loop[l].lines]
      BY <3>1 DEF Finish
    <3>4. loop' = [loop EXCEPT ![l] = [lines |-> loop[l].lines, left |-> loop[l].left - 1]]
      BY <3>2 DEF Finish
    <3>5. pc' = [pc EXCEPT ![l] = "ready"] /\ local' = [local EXCEPT ![l] = None]
      BY <1>7 DEF Finish
    <3> QED BY <3>3, <3>4, <3>5
  <2>1. loop[l] # None /\ loop[l].left > 1 /\ loop[l] \in Loop
    BY <1>5, <1>7 DEF InScript
  <2>2. /\ todo'[l] = loop[l].lines /\ loop'[l] = [lines |-> loop[l].lines, left |-> loop[l].left - 1]
        /\ pc'[l] = "ready"
    BY <2>0, <1>4, <1>7 DEF LineType
  <2>3. loop'[l] \in Loop /\ todo'[l] \in Seq(Command) \ {<<>>}
    BY <2>1, <2>2 DEF Loop
  <2>4. todo'[l] \in Seq(Commands \cup Command) /\ loop'[l] # None
    <3>1. Len(todo'[l]) \in Nat /\ \A i \in 1 .. Len(todo'[l]) : todo'[l][i] \in Commands \cup Command
      BY <2>3
    <3> QED BY <2>3, <3>1, NoneAssumption
  <2>5. LineType'
    BY <2>0, <1>4, <2>2, <2>3, <2>4 DEF LineType
  <2>6. LineInv(l)' /\ LocalInv(l)'
    BY <2>2, <2>3, <2>4 DEF LineInv, LocalInv, InScript, Calling
  <2> QED BY <1>4, <2>2, <2>5, <2>6
<1>8. CASE ~(ok /\ (Len(todo[l]) > 1 \/ (InScript(l) /\ loop[l].left > 1)))
  <2>0. /\ todo' = [todo EXCEPT ![l] = <<>>] /\ loop' = [loop EXCEPT ![l] = None]
        /\ pc' = [pc EXCEPT ![l] = "idle"] /\ local' = [local EXCEPT ![l] = None]
    BY <1>8 DEF Finish
  <2>1. todo'[l] = <<>> /\ loop'[l] = None /\ pc'[l] = "idle"
    BY <2>0, <1>4, <1>8 DEF LineType
  <2>2. LineType'
    BY <2>0, <1>4, <2>1 DEF LineType
  <2>3. LineInv(l)' /\ LocalInv(l)'
    BY <2>1 DEF LineInv, LocalInv, Calling
  <2> QED BY <1>4, <2>1, <2>2, <2>3
<1> QED BY <1>6, <1>7, <1>8

\* Only while the wallet of a private key is opened are key and address of two wallets.
LEMMA InForce ==
    ASSUME OneAtATime, SessionInv, NEW l \in Lines, pc[l] # "wallet" PROVE privKey = user
BY DEF SessionInv, OneAtATime

LEMMA NodeStays == ASSUME SessionInv, UNCHANGED <<mined, pool, snaps, nextId, taken, typed>> PROVE NodeType'
BY DEF SessionInv, NodeType

\* A step after which the prompt, or the next command of the script, comes.
LEMMA Ends ==
    ASSUME OneAtATime, SessionInv, NEW l \in Lines, NEW ok \in BOOLEAN, pc[l] # "idle",
           Finish(l, ok), typed' = typed, NodeType', SettingType', StoreType', privKey' = user'
    PROVE  SessionInv'
<1>1. LineType' /\ \A k \in Lines : k = l /\ LineInv(k)' /\ LocalInv(k)'
  BY Finishes
<1> QED BY <1>1 DEF SessionInv

LEMMA Fails ==
    ASSUME OneAtATime, SessionInv, NEW l \in Lines, pc[l] # "idle",
           Fail(l), typed' = typed, NodeType', SettingType', StoreType', privKey' = user'
    PROVE  SessionInv'
<1>1. Caught(l) \in BOOLEAN
  BY DEF Caught
<1>2. PICK ok \in BOOLEAN : Finish(l, ok)
  BY <1>1 DEF Fail
<1> QED BY <1>2, Ends

\* A step to the next await.
LEMMA GoesOn ==
    ASSUME OneAtATime, SessionInv, NEW l \in Lines, NEW stage \in Stages, NEW data,
           pc[l] # "idle", Await(l, stage, data), typed' = typed,
           NodeType', SettingType', StoreType', stage # "wallet" => privKey' = user',
           pc'[l] = stage /\ local'[l] = data /\ Cmd(l)' = Cmd(l) => LocalInv(l)'
    PROVE  SessionInv'
<1>1. /\ LineType' /\ \A k \in Lines : k = l /\ LineInv(k)'
      /\ pc'[l] = stage /\ local'[l] = data /\ Cmd(l)' = Cmd(l)
  BY Awaits
<1>2. LocalInv(l)'
  BY <1>1
<1>3. \A k \in Lines : LineInv(k)' /\ LocalInv(k)'
  BY <1>1, <1>2
<1>4. (\A k \in Lines : pc'[k] # "wallet") => privKey' = user'
  BY <1>1
<1> QED BY <1>1, <1>3, <1>4 DEF SessionInv
-----------------------------------------------------------------------------
(***************************************************************************)
(* The actions.                                                            *)
(***************************************************************************)
LEMMA KeepsSession == ASSUME SessionInv, UNCHANGED vars PROVE SessionInv'
<1>1. UNCHANGED <<mined, pool, snaps, nextId, taken, rpcUrl, privKey, user, varStore, snapshot, typed,
                  pc, todo, loop, local>>
  BY DEF vars, nodeVars, settingVars, storeVars, lineVars
<1>2. NodeType' /\ SettingType' /\ StoreType' /\ LineType'
  BY <1>1, NodeStays DEF SessionInv, SettingType, StoreType, LineType
<1>3. \A l \in Lines : LineInv(l)' /\ LocalInv(l)'
  <2> SUFFICES ASSUME NEW l \in Lines PROVE LineInv(l)' /\ LocalInv(l)'
    OBVIOUS
  <2>1. Cmd(l)' = Cmd(l) /\ LineInv(l) /\ LocalInv(l)
    BY <1>1 DEF Cmd, SessionInv
  <2> QED BY <1>1, <2>1 DEF LineInv, LocalInv, InScript
<1> QED BY <1>1, <1>2, <1>3 DEF SessionInv

LEMMA Types == ASSUME OneAtATime, SessionInv, NEW l \in Lines, Type(l) PROVE SessionInv'
<1>1. /\ pc[l] = "idle" /\ typed < MaxLines /\ typed' = typed + 1
      /\ pc' = [pc EXCEPT ![l] = "ready"]
      /\ UNCHANGED <<mined, pool, snaps, nextId, taken, rpcUrl, privKey, user, varStore, snapshot, loop, local>>
  BY DEF Type, At, nodeVars, settingVars, storeVars
<1>2. PICK cmd \in Commands : todo' = [todo EXCEPT ![l] = <<cmd>>]
  BY DEF Type
<1>3. SessionInv /\ LineType /\ LineInv(l) /\ typed \in Nat /\ \A k \in Lines : k = l
  BY DEF SessionInv, LineType, OneAtATime
<1>4. NodeType'
  <2>1. \A c \in Chains : nextId[c] \in Nat /\ nextId[c] <= typed + 1
    BY SessionAssumption DEF SessionInv, NodeType
  <2>2. \A c \in Chains : nextId[c] <= typed' + 1
    BY <1>1, <1>3, <2>1
  <2> QED BY <1>1, <2>2 DEF SessionInv, NodeType
<1>5. SettingType' /\ StoreType'
  BY <1>1 DEF SessionInv, SettingType, StoreType
<1>6. pc'[l] = "ready" /\ todo'[l] = <<cmd>> /\ loop'[l] = None
  BY <1>1, <1>2, <1>3 DEF LineType, LineInv
<1>7. todo'[l] \in Seq(Commands) /\ Len(todo'[l]) < 2 /\ todo'[l] # <<>> /\ todo'[l] \in Seq(Commands \cup Command)
  BY <1>6
<1>8. LineType'
  <2>1. typed' \in 0 .. MaxLines
    BY <1>1, SessionAssumption DEF SessionInv, LineType
  <2> QED BY <1>1, <1>2, <1>3, <1>6, <1>7, <2>1 DEF LineType
<1>9. \A c \in Chains : nextId'[c] <= typed'
  BY <1>1, <1>3 DEF SessionInv, NodeType
<1>10. LineInv(l)' /\ LocalInv(l)'
  BY <1>6, <1>7, <1>9 DEF LineInv, LocalInv, Calling
<1>11. privKey' = user'
  BY <1>1, InForce
<1> QED BY <1>3, <1>4, <1>5, <1>8, <1>10, <1>11 DEF SessionInv

LEMMA RunsScript == ASSUME OneAtATime, SessionInv, NEW l \in Lines, RunScript(l) PROVE SessionInv'
<1>1. /\ pc[l] = "ready" /\ Cmd(l).op = "sh"
      /\ todo' = [todo EXCEPT ![l] = Cmd(l).lines]
      /\ UNCHANGED <<mined, pool, snaps, nextId, taken, rpcUrl, privKey, user, varStore, snapshot, typed, pc, local>>
  BY DEF RunScript, Starts, nodeVars, settingVars, storeVars
<1>2. Cmd(l).lines \in Seq(Command) \ {<<>>} /\ Cmd(l).repeat \in Nat
  BY <1>1, CommandFields
<1>3. PICK left : left = IF Cmd(l).repeat = 0 THEN 1 ELSE Cmd(l).repeat
  OBVIOUS
<1>4. PICK script : script = [lines |-> Cmd(l).lines, left |-> left]
  OBVIOUS
<1>5. script \in Loop /\ script # None
  <2>1. left \in Nat
    BY <1>2, <1>3
  <2> QED BY <1>2, <1>4, <2>1, NoneAssumption DEF Loop
<1>6. loop' = [loop EXCEPT ![l] = script]
  BY <1>3, <1>4 DEF RunScript
<1>7. LineType /\ \A k \in Lines : k = l
  BY DEF SessionInv, OneAtATime
<1>8. pc'[l] = "ready" /\ loop'[l] = script /\ todo'[l] = Cmd(l).lines
  BY <1>1, <1>6, <1>7 DEF LineType
<1>9. todo'[l] \in Seq(Command) /\ todo'[l] # <<>> /\ todo'[l] \in Seq(Commands \cup Command)
  <2>1. PICK lines : lines = Cmd(l).lines
    OBVIOUS
  <2>2. lines \in Seq(Command) /\ lines # <<>>
    BY <1>2, <2>1
  <2>3. lines \in Seq(Commands \cup Command)
    BY <2>2
  <2> QED BY <1>8, <2>1, <2>2, <2>3
<1>10. LineType'
  BY <1>1, <1>5, <1>6, <1>7, <1>8, <1>9 DEF LineType
<1>11. LineInv(l)' /\ LocalInv(l)'
  BY <1>5, <1>8, <1>9 DEF LineInv, LocalInv, InScript, Calling
<1>12. NodeType' /\ SettingType' /\ StoreType' /\ privKey' = user'
  BY <1>1, NodeStays, InForce DEF SessionInv, SettingType, StoreType
<1> QED BY <1>7, <1>10, <1>11, <1>12 DEF SessionInv

LEMMA ClearsMemory == ASSUME OneAtATime, SessionInv, NEW l \in Lines, ClearMemory(l) PROVE SessionInv'
<1>1. /\ pc[l] = "ready" /\ varStore' = EmptyStore /\ Finish(l, TRUE)
      /\ UNCHANGED <<mined, pool, snaps, nextId, taken, rpcUrl, privKey, user, snapshot, typed>>
  BY DEF ClearMemory, Starts, nodeVars, settingVars
<1>2. NodeType' /\ SettingType' /\ StoreType' /\ privKey' = user'
  BY <1>1, NodeStays, InForce DEF SessionInv, SettingType, StoreType, Store, EmptyStore
<1> QED BY <1>1, <1>2, Ends

LEMMA SnapshotsInScript == ASSUME OneAtATime, SessionInv, NEW l \in Lines, SnapshotInScript(l) PROVE SessionInv'
<1>1. /\ pc[l] = "ready" /\ Finish(l, FALSE)
      /\ UNCHANGED <<mined, pool, snaps, nextId, taken, rpcUrl, privKey, user, varStore, snapshot, typed>>
  BY DEF SnapshotInScript, Starts, nodeVars, settingVars, storeVars
<1>2. NodeType' /\ SettingType' /\ StoreType' /\ privKey' = user'
  BY <1>1, NodeStays, InForce DEF SessionInv, SettingType, StoreType
<1> QED BY <1>1, <1>2, Ends

LEMMA AsksSnapshot == ASSUME OneAtATime, SessionInv, NEW l \in Lines, AskSnapshot(l) PROVE SessionInv'
<1>1. PICK id : id = nextId[rpcUrl]
  OBVIOUS
<1>2. PICK data : data = [id |-> id]
  OBVIOUS
<1>3. /\ pc[l] = "ready" /\ Cmd(l).op = "snapshot" /\ ~InScript(l)
      /\ snaps' = [snaps EXCEPT ![rpcUrl][id] = mined[rpcUrl]]
      /\ taken' = [taken EXCEPT ![rpcUrl][id] = varStore]
      /\ nextId' = [nextId EXCEPT ![rpcUrl] = id + 1]
      /\ Await(l, "snapshot", data)
      /\ UNCHANGED <<mined, pool, rpcUrl, privKey, user, varStore, snapshot, typed>>
  BY <1>1, <1>2 DEF AskSnapshot, Starts, settingVars, storeVars
<1>4. NodeType /\ SettingType /\ StoreType /\ LineType /\ LineInv(l)
  BY DEF SessionInv
<1>5. id \in Ids /\ id <= typed
  <2>1. id \in 1 .. MaxLines + 1 /\ id <= typed /\ typed \in 0 .. MaxLines
    BY <1>1, <1>3, <1>4 DEF NodeType, SettingType, LineType, LineInv
  <2> QED BY <2>1, SessionAssumption DEF Ids
<1>6. NodeType'
  <2>1. snaps' \in [Chains -> [Ids -> {None} \cup SUBSET Receipt]]
    BY <1>3, <1>4 DEF NodeType, SettingType
  <2>2. taken' \in [Chains -> [Ids -> Store \cup {None}]]
    BY <1>3, <1>4 DEF NodeType, SettingType, StoreType
  <2>3. id + 1 \in 1 .. MaxLines + 1 /\ id + 1 <= typed + 1
    <3>1. id \in Nat /\ id >= 1 /\ id <= MaxLines /\ typed \in Nat /\ MaxLines \in Nat
      BY <1>4, <1>5, SessionAssumption DEF Ids, LineType
    <3> QED BY <1>5, <3>1
  <2>4. nextId' \in [Chains -> 1 .. MaxLines + 1] /\ \A c \in Chains : nextId'[c] <= typed' + 1
    BY <1>3, <1>4, <2>3 DEF NodeType
  <2>5. \A c \in Chains, i \in Ids : snaps'[c][i] = snaps[c][i] \/ snaps'[c][i] = mined[c]
    BY <1>3, <1>4 DEF NodeType
  <2> QED BY <1>3, <1>4, <2>1, <2>2, <2>4, <2>5 DEF NodeType
<1>7. SettingType' /\ StoreType' /\ privKey' = user'
  BY <1>3, <1>4, InForce DEF SettingType, StoreType
<1>8. ASSUME pc'[l] = "snapshot", local'[l] = data, Cmd(l)' = Cmd(l) PROVE LocalInv(l)'
  <2>1. Cmd(l).name \in Names
    BY <1>3, CommandFields
  <2> QED BY <1>2, <1>3, <1>5, <1>8, <2>1 DEF LocalInv, Calling
<1>9. "snapshot" \in Stages
  BY DEF Stages
<1> QED BY <1>3, <1>6, <1>7, <1>8, <1>9, GoesOn

LEMMA KeepsSnapshot == ASSUME OneAtATime, SessionInv, NEW l \in Lines, KeepSnapshot(l) PROVE SessionInv'
<1>1. PICK copy : copy = [id |-> local[l].id, vars |-> varStore]
  OBVIOUS
<1>2. /\ pc[l] = "snapshot" /\ snapshot' = [snapshot EXCEPT ![Cmd(l).name] = copy] /\ Finish(l, TRUE)
      /\ UNCHANGED <<mined, pool, snaps, nextId, taken, rpcUrl, privKey, user, varStore, typed>>
  BY <1>1 DEF KeepSnapshot, At, nodeVars, settingVars
<1>3. copy \in Snapshot
  BY <1>1, <1>2 DEF SessionInv, LocalInv, StoreType, Snapshot
<1>4. StoreType'
  BY <1>2, <1>3 DEF SessionInv, StoreType
<1>5. NodeType' /\ SettingType' /\ privKey' = user'
  BY <1>2, NodeStays, InForce DEF SessionInv, SettingType
<1> QED BY <1>2, <1>4, <1>5, Ends


LEMMA AsksRevert == ASSUME OneAtATime, SessionInv, NEW l \in Lines, AskRevert(l) PROVE SessionInv'
<1>1. PICK target, name, id :
         /\ target = Cmd(l).target
         /\ name = IF NamesOf(target) = {} THEN None ELSE CHOOSE n \in NamesOf(target) : TRUE
         /\ id = IF name = None THEN target ELSE snapshot[name].id
  OBVIOUS
<1>2. PICK known \in BOOLEAN : known = (id \in Ids /\ snaps[rpcUrl][id] # None)
  OBVIOUS
<1>3. PICK data : data = [chain |-> rpcUrl, id |-> id, name |-> name, done |-> known]
  OBVIOUS
<1>4. /\ pc[l] = "ready"
      /\ IF known
         THEN /\ mined' = [mined EXCEPT ![rpcUrl] = snaps[rpcUrl][id]]
              /\ snaps' = [snaps EXCEPT ![rpcUrl] = [i \in Ids |-> IF i < id THEN snaps[rpcUrl][i] ELSE None]]
              /\ \E left \in {pool[rpcUrl], {}} : pool' = [pool EXCEPT ![rpcUrl] = left]
         ELSE UNCHANGED <<mined, snaps, pool>>
      /\ Await(l, "reverted", data)
      /\ UNCHANGED <<nextId, taken, rpcUrl, privKey, user, varStore, snapshot, typed>>
  <2>1. /\ pc[l] = "ready"
        /\ UNCHANGED <<nextId, taken, rpcUrl, privKey, user, varStore, snapshot, typed>>
    BY DEF AskRevert, Starts, settingVars, storeVars
  <2>2. Await(l, "reverted", [chain |-> rpcUrl, id |-> id, name |-> name,
                              done |-> id \in Ids /\ snaps[rpcUrl][id] # None])
    BY <1>1 DEF AskRevert
  <2>3. Await(l, "reverted", data)
    BY <1>2, <1>3, <2>2
  <2>4. IF id \in Ids /\ snaps[rpcUrl][id] # None
        THEN /\ mined' = [mined EXCEPT ![rpcUrl] = snaps[rpcUrl][id]]
             /\ snaps' = [snaps EXCEPT ![rpcUrl] = [i \in Ids |-> IF i < id THEN snaps[rpcUrl][i] ELSE None]]
             /\ \E left \in {pool[rpcUrl], {}} : pool' = [pool EXCEPT ![rpcUrl] = left]
        ELSE UNCHANGED <<mined, snaps, pool>>
    BY <1>1 DEF AskRevert
  <2> QED BY <1>2, <2>1, <2>3, <2>4
<1>5. name \in Names \cup {None} /\ (name # None => snapshot[name] # None)
  <2>1. \A n \in NamesOf(target) : n \in Names /\ snapshot[n] # None
    BY DEF NamesOf
  <2> QED BY <1>1, <2>1
<1>6. NodeType /\ SettingType /\ StoreType
  BY DEF SessionInv
<1>7. NodeType'
  <2>1. CASE known
    <3>1. id \in Ids /\ snaps[rpcUrl][id] # None /\ rpcUrl \in Chains
      BY <1>2, <1>6, <2>1 DEF SettingType
    <3>2. snaps[rpcUrl][id] \in SUBSET Receipt /\ IsFiniteSet(snaps[rpcUrl][id])
      BY <1>6, <3>1 DEF NodeType
    <3>3. PICK left \in {pool[rpcUrl], {}} : pool' = [pool EXCEPT ![rpcUrl] = left]
      BY <1>4, <2>1
    <3>4. pool' \in [Chains -> SUBSET Tx] /\ \A c \in Chains : IsFiniteSet(pool'[c])
      BY <1>6, <3>3, FS_EmptySet DEF NodeType
    <3>5. mined' \in [Chains -> SUBSET Receipt] /\ \A c \in Chains : IsFiniteSet(mined'[c])
      BY <1>4, <1>6, <2>1, <3>2 DEF NodeType
    <3>6. snaps' \in [Chains -> [Ids -> {None} \cup SUBSET Receipt]]
      BY <1>4, <1>6, <2>1, <3>1 DEF NodeType
    <3>7. \A c \in Chains, i \in Ids : snaps'[c][i] = None \/ snaps'[c][i] = snaps[c][i]
      BY <1>4, <1>6, <2>1, <3>1 DEF NodeType
    <3> QED BY <1>4, <1>6, <3>4, <3>5, <3>6, <3>7 DEF NodeType
  <2>2. CASE ~known
    BY <1>4, <2>2, NodeStays
  <2> QED BY <2>1, <2>2
<1>8. SettingType' /\ StoreType' /\ privKey' = user'
  BY <1>4, <1>6, InForce DEF SettingType, StoreType
<1>9. ASSUME pc'[l] = "reverted", local'[l] = data, Cmd(l)' = Cmd(l) PROVE LocalInv(l)'
  BY <1>3, <1>4, <1>5, <1>9 DEF LocalInv, Calling
<1>10. "reverted" \in Stages
  BY DEF Stages
<1> QED BY <1>4, <1>7, <1>8, <1>9, <1>10, GoesOn

LEMMA FinishesRevert == ASSUME OneAtATime, SessionInv, NEW l \in Lines, FinishRevert(l) PROVE SessionInv'
<1>1. /\ pc[l] = "reverted" /\ Finish(l, local[l].done)
      /\ varStore' = IF local[l].done /\ local[l].name # None
                     THEN snapshot[local[l].name].vars ELSE varStore
      /\ UNCHANGED <<mined, pool, snaps, nextId, taken, rpcUrl, privKey, user, snapshot, typed>>
  BY DEF FinishRevert, At, nodeVars, settingVars
<1>2. /\ local[l].done \in BOOLEAN /\ local[l].name \in Names \cup {None}
      /\ local[l].name # None => snapshot[local[l].name] # None
  BY <1>1 DEF SessionInv, LocalInv
<1>3. StoreType'
  <2>1. StoreType
    BY DEF SessionInv
  <2>2. local[l].name # None => snapshot[local[l].name] \in Snapshot
    BY <1>2, <2>1 DEF StoreType
  <2> QED BY <1>1, <2>1, <2>2 DEF StoreType, Snapshot
<1>4. NodeType' /\ SettingType' /\ privKey' = user'
  BY <1>1, NodeStays, InForce DEF SessionInv, SettingType
<1> QED BY <1>1, <1>2, <1>3, <1>4, Ends

LEMMA UsesUnknown == ASSUME OneAtATime, SessionInv, NEW l \in Lines, UseUnknown(l) PROVE SessionInv'
<1>1. /\ pc[l] = "ready" /\ Finish(l, FALSE)
      /\ rpcUrl' \in {rpcUrl} \cup Chains
      /\ UNCHANGED <<mined, pool, snaps, nextId, taken, privKey, user, varStore, snapshot, typed>>
  BY DEF UseUnknown, Starts, nodeVars, storeVars
<1>2. NodeType' /\ SettingType' /\ StoreType' /\ privKey' = user'
  BY <1>1, NodeStays, InForce DEF SessionInv, SettingType, StoreType
<1> QED BY <1>1, <1>2, Ends

LEMMA UsesPrivateKey == ASSUME OneAtATime, SessionInv, NEW l \in Lines, UsePrivateKey(l) PROVE SessionInv'
<1>1. PICK wallet : wallet = NewSet(l).wallet
  OBVIOUS
<1>2. /\ pc[l] = "ready" /\ Await(l, "wallet", wallet) /\ wallet \in Wallets
      /\ rpcUrl' \in Chains /\ privKey' = wallet
      /\ UNCHANGED <<mined, pool, snaps, nextId, taken, user, varStore, snapshot, typed>>
  BY <1>1 DEF UsePrivateKey, Starts, Known, nodeVars, storeVars
<1>3. NodeType' /\ SettingType' /\ StoreType'
  BY <1>2, NodeStays DEF SessionInv, SettingType, StoreType
<1>4. ASSUME pc'[l] = "wallet", local'[l] = wallet PROVE LocalInv(l)'
  BY <1>2, <1>4 DEF LocalInv, Calling
<1>5. "wallet" \in Stages
  BY DEF Stages
<1> QED BY <1>2, <1>3, <1>4, <1>5, GoesOn

LEMMA OpensWallet == ASSUME OneAtATime, SessionInv, NEW l \in Lines, OpenWallet(l) PROVE SessionInv'
<1>1. /\ pc[l] = "wallet" /\ user' = local[l] /\ Finish(l, TRUE)
      /\ UNCHANGED <<mined, pool, snaps, nextId, taken, rpcUrl, privKey, varStore, snapshot, typed>>
  BY DEF OpenWallet, At, nodeVars, storeVars
<1>2. local[l] = privKey
  BY <1>1 DEF SessionInv, LocalInv
<1>3. NodeType' /\ SettingType' /\ StoreType' /\ privKey' = user'
  BY <1>1, <1>2, NodeStays DEF SessionInv, SettingType, StoreType
<1> QED BY <1>1, <1>3, Ends

LEMMA UsesKeyStore == ASSUME OneAtATime, SessionInv, NEW l \in Lines, UseKeyStore(l) PROVE SessionInv'
<1>1. PICK right \in BOOLEAN : Await(l, "keystore", [wallet |-> NewSet(l).wallet, right |-> right])
  BY DEF UseKeyStore
<1>2. PICK data : data = [wallet |-> NewSet(l).wallet, right |-> right]
  OBVIOUS
<1>3. /\ pc[l] = "ready" /\ Await(l, "keystore", data) /\ NewSet(l).wallet \in Wallets
      /\ rpcUrl' \in Chains
      /\ UNCHANGED <<mined, pool, snaps, nextId, taken, privKey, user, varStore, snapshot, typed>>
  BY <1>1, <1>2 DEF UseKeyStore, Starts, Known, nodeVars, storeVars
<1>4. NodeType' /\ SettingType' /\ StoreType' /\ privKey' = user'
  BY <1>3, NodeStays, InForce DEF SessionInv, SettingType, StoreType
<1>5. data.wallet \in Wallets /\ data.right \in BOOLEAN
  BY <1>2, <1>3
<1>6. ASSUME pc'[l] = "keystore", local'[l] = data PROVE LocalInv(l)'
  BY <1>5, <1>6 DEF LocalInv, Calling
<1>7. "keystore" \in Stages
  BY DEF Stages
<1> QED BY <1>3, <1>4, <1>6, <1>7, GoesOn

LEMMA OpensKeyStore == ASSUME OneAtATime, SessionInv, NEW l \in Lines, OpenKeyStore(l) PROVE SessionInv'
<1>1. /\ pc[l] = "keystore" /\ Finish(l, local[l].right)
      /\ privKey' = IF local[l].right THEN local[l].wallet ELSE privKey
      /\ user' = IF local[l].right THEN local[l].wallet ELSE user
      /\ UNCHANGED <<mined, pool, snaps, nextId, taken, rpcUrl, varStore, snapshot, typed>>
  BY DEF OpenKeyStore, At, nodeVars, storeVars
<1>2. local[l].wallet \in Wallets /\ local[l].right \in BOOLEAN
  BY <1>1 DEF SessionInv, LocalInv
<1>3. SettingType' /\ privKey' = user'
  BY <1>1, <1>2, InForce DEF SessionInv, SettingType
<1>4. NodeType' /\ StoreType'
  BY <1>1, NodeStays DEF SessionInv, StoreType
<1> QED BY <1>1, <1>2, <1>3, <1>4, Ends


\* Among one number more than there are transactions in the pool, one is free.
LEMMA SomeNonceIsFree ==
    ASSUME NEW T, IsFiniteSet(T), NEW base \in Nat,
           \A n \in base .. base + Cardinality(T) : \E t \in T : t.nonce = n
    PROVE  FALSE
<1>1. Cardinality(T) \in Nat
  BY FS_CardinalityType
<1>2. PICK top \in Nat : top = base + Cardinality(T)
  BY <1>1
<1>3. IsFiniteSet(base .. top) /\ Cardinality(base .. top) = Cardinality(T) + 1
  <2>1. base \in Int /\ top \in Int /\ ~(base > top) /\ top - base + 1 = Cardinality(T) + 1
    BY <1>1, <1>2
  <2> QED BY <2>1, FS_Interval
<1>4. PICK f : f = [n \in base .. top |-> CHOOSE t \in T : t.nonce = n]
  OBVIOUS
<1>5. f \in [base .. top -> T] /\ \A n \in base .. top : f[n].nonce = n
  BY <1>2, <1>4
<1>6. Cardinality(T) < Cardinality(base .. top)
  BY <1>1, <1>3
<1>7. PICK n, m \in base .. top : n # m /\ f[n] = f[m]
  <2>1. IsFiniteSet(base .. top) /\ IsFiniteSet(T)
    BY <1>3
  <2> QED BY <1>5, <1>6, <2>1, FS_PigeonHole
<1> QED BY <1>5, <1>7

\* The pending nonce is there: it is one that no transaction has.
LEMMA PendingIsFree ==
    ASSUME SessionInv, NEW c \in Chains, NEW w
    PROVE  /\ PendingNonce(c, w) \in Nat /\ PendingNonce(c, w) >= MinedNonce(c, w)
           /\ \A t \in pool[c] : t.from = w => t.nonce # PendingNonce(c, w)
<1>1. PICK used, base :
         used = {tx.nonce : tx \in {t \in pool[c] : t.from = w}} /\ base = MinedNonce(c, w)
  OBVIOUS
<1>2. IsFiniteSet(pool[c]) /\ base \in Nat /\ Cardinality(pool[c]) \in Nat
  <2>1. IsFiniteSet(pool[c]) /\ IsFiniteSet(mined[c])
    BY DEF SessionInv, NodeType
  <2>2. IsFiniteSet({r \in mined[c] : r.from = w})
    BY <2>1, FS_Subset
  <2> QED BY <1>1, <2>1, <2>2, FS_CardinalityType DEF MinedNonce
<1>3. PICK free : free = {n \in base .. base + Cardinality(pool[c]) : n \notin used}
  OBVIOUS
<1>4. free # {}
  <2>1. ASSUME free = {} PROVE FALSE
    <3>1. \A n \in base .. base + Cardinality(pool[c]) : \E t \in pool[c] : t.nonce = n
      BY <1>1, <1>3, <2>1
    <3> QED BY <1>2, <3>1, SomeNonceIsFree
  <2> QED BY <2>1
<1>5. free \subseteq Nat
  BY <1>2, <1>3
<1>6. PICK n \in free : \A m \in free : n <= m
  BY <1>4, <1>5, Least
<1>7. n \notin used /\ \A m \in base .. n - 1 : m \in used
  <2>1. ASSUME NEW m \in base .. n - 1, m \notin used PROVE FALSE
    <3>1. m \in base .. base + Cardinality(pool[c]) /\ ~(n <= m)
      BY <1>2, <1>3
    <3>2. m \in free
      BY <1>3, <2>1, <3>1
    <3> QED BY <1>6, <3>1, <3>2
  <2> QED BY <1>3, <2>1
<1>8. PICK k : k = PendingNonce(c, w)
  OBVIOUS
<1>9. k = CHOOSE m \in base .. base + Cardinality(pool[c]) :
             m \notin used /\ \A i \in base .. m - 1 : i \in used
  BY <1>1, <1>8 DEF PendingNonce
<1>10. k \in base .. base + Cardinality(pool[c]) /\ k \notin used
  <2>1. n \in base .. base + Cardinality(pool[c])
    BY <1>3
  <2> QED BY <1>7, <1>9, <2>1
<1>11. \A t \in pool[c] : t.from = w => t.nonce # k
  BY <1>1, <1>10
<1> QED BY <1>1, <1>2, <1>8, <1>10, <1>11

LEMMA Tokenizes == ASSUME OneAtATime, SessionInv, NEW l \in Lines, Tokenize(l) PROVE SessionInv'
<1>1. PICK data : data = [who |-> user]
  OBVIOUS
<1>2. /\ pc[l] = "ready" /\ Cmd(l).op = "call" /\ Await(l, "tokenized", data)
      /\ UNCHANGED <<mined, pool, snaps, nextId, taken, rpcUrl, privKey, user, varStore, snapshot, typed>>
  BY <1>1 DEF Tokenize, Starts, nodeVars, settingVars, storeVars
<1>3. NodeType' /\ SettingType' /\ StoreType' /\ privKey' = user'
  BY <1>2, NodeStays, InForce DEF SessionInv, SettingType, StoreType
<1>4. ASSUME pc'[l] = "tokenized", local'[l] = data, Cmd(l)' = Cmd(l) PROVE LocalInv(l)'
  <2>1. Cmd(l).var \in Vars
    BY <1>2, CommandFields
  <2> QED BY <1>1, <1>2, <1>4, <2>1 DEF LocalInv, Calling
<1>5. "tokenized" \in Stages
  BY DEF Stages, Calling
<1> QED BY <1>2, <1>3, <1>4, <1>5, GoesOn

LEMMA OpensSigner == ASSUME OneAtATime, SessionInv, NEW l \in Lines, OpenSigner(l) PROVE SessionInv'
<1>1. PICK data : data = [who |-> local[l].who, key |-> privKey]
  OBVIOUS
<1>2. /\ pc[l] = "tokenized" /\ Await(l, "opened", data)
      /\ UNCHANGED <<mined, pool, snaps, nextId, taken, rpcUrl, privKey, user, varStore, snapshot, typed>>
  BY <1>1 DEF OpenSigner, At, nodeVars, settingVars, storeVars
<1>3. NodeType' /\ SettingType' /\ StoreType' /\ privKey' = user' /\ privKey = user
  BY <1>2, NodeStays, InForce DEF SessionInv, SettingType, StoreType
<1>4. ASSUME pc'[l] = "opened", local'[l] = data, Cmd(l)' = Cmd(l) PROVE LocalInv(l)'
  <2>1. Cmd(l).op = "call" /\ Cmd(l).var \in Vars /\ local[l].who = user
    BY <1>2 DEF SessionInv, LocalInv, Calling
  <2> QED BY <1>1, <1>2, <1>3, <1>4, <2>1 DEF LocalInv, Calling
<1>5. "opened" \in Stages
  BY DEF Stages, Calling
<1> QED BY <1>2, <1>3, <1>4, <1>5, GoesOn

LEMMA AsksNonce == ASSUME OneAtATime, SessionInv, NEW l \in Lines, AskNonce(l) PROVE SessionInv'
<1>1. PICK nonce \in {PendingNonce(rpcUrl, local[l].key), 0} :
         Await(l, "submit",
               [who |-> local[l].who, key |-> local[l].key, url |-> rpcUrl, polls |-> 0,
                tx |-> [from |-> local[l].key, nonce |-> nonce, call |-> Cmd(l).var]])
  BY DEF AskNonce
<1>2. PICK tx : tx = [from |-> local[l].key, nonce |-> nonce, call |-> Cmd(l).var]
  OBVIOUS
<1>3. PICK data : data = [who |-> local[l].who, key |-> local[l].key, url |-> rpcUrl, polls |-> 0, tx |-> tx]
  OBVIOUS
<1>4. /\ pc[l] = "opened" /\ Await(l, "submit", data)
      /\ UNCHANGED <<mined, pool, snaps, nextId, taken, rpcUrl, privKey, user, varStore, snapshot, typed>>
  BY <1>1, <1>2, <1>3 DEF AskNonce, At, nodeVars, settingVars, storeVars
<1>5. NodeType' /\ SettingType' /\ StoreType' /\ privKey' = user'
  BY <1>4, NodeStays, InForce DEF SessionInv, SettingType, StoreType
<1>6. /\ Cmd(l).op = "call" /\ Cmd(l).var \in Vars
      /\ local[l].who = user /\ local[l].key = user /\ user \in Wallets /\ rpcUrl \in Chains
  BY <1>4 DEF SessionInv, LocalInv, Calling, SettingType
<1>7. nonce \in Nat
  BY <1>6, PendingIsFree
<1>8. tx \in Tx
  BY <1>2, <1>6, <1>7 DEF Tx
<1>9. ASSUME pc'[l] = "submit", local'[l] = data, Cmd(l)' = Cmd(l) PROVE LocalInv(l)'
  BY <1>3, <1>4, <1>6, <1>8, <1>9 DEF LocalInv, Calling
<1>10. "submit" \in Stages
  BY DEF Stages, Calling
<1> QED BY <1>4, <1>5, <1>9, <1>10, GoesOn

LEMMA Submits == ASSUME OneAtATime, SessionInv, NEW l \in Lines, Submit(l) PROVE SessionInv'
<1>1. PICK c, tx : c = local[l].url /\ tx = local[l].tx
  OBVIOUS
<1>2. /\ pc[l] = "submit"
      /\ UNCHANGED <<mined, snaps, nextId, taken, rpcUrl, privKey, user, varStore, snapshot, typed>>
      /\ \/ Await(l, "poll", local[l]) /\ pool' \in {pool, [pool EXCEPT ![c] = (pool[c] \ Rivals(c, tx)) \cup {tx}]}
         \/ Fail(l) /\ pool' = pool
  BY <1>1 DEF Submit, At, settingVars, storeVars
<1>3. LocalInv(l) /\ c \in Chains /\ tx \in Tx /\ NodeType
  BY <1>1, <1>2 DEF SessionInv, LocalInv
<1>4. NodeType'
  <2>1. CASE pool' = pool
    BY <1>2, <2>1, NodeStays
  <2>2. CASE pool' = [pool EXCEPT ![c] = (pool[c] \ Rivals(c, tx)) \cup {tx}]
    <3>1. pool[c] \in SUBSET Tx /\ IsFiniteSet(pool[c])
      BY <1>3 DEF NodeType
    <3>2. IsFiniteSet(pool[c] \ Rivals(c, tx))
      BY <3>1, FS_Subset
    <3>3. IsFiniteSet((pool[c] \ Rivals(c, tx)) \cup {tx})
      BY <3>2, FS_AddElement
    <3>4. pool' \in [Chains -> SUBSET Tx] /\ \A d \in Chains : IsFiniteSet(pool'[d])
      BY <1>3, <2>2, <3>1, <3>3 DEF NodeType
    <3> QED BY <1>2, <1>3, <3>4 DEF NodeType
  <2> QED BY <1>2, <2>1, <2>2, NodeStays
<1>5. SettingType' /\ StoreType' /\ privKey' = user'
  BY <1>2, InForce DEF SessionInv, SettingType, StoreType
<1>6. CASE Fail(l)
  BY <1>2, <1>4, <1>5, <1>6, Fails
<1>7. CASE Await(l, "poll", local[l])
  <2>1. ASSUME pc'[l] = "poll", local'[l] = local[l], Cmd(l)' = Cmd(l) PROVE LocalInv(l)'
    BY <1>2, <1>3, <2>1 DEF LocalInv, Calling
  <2>2. "poll" \in Stages
    BY DEF Stages, Calling
  <2> QED BY <1>2, <1>4, <1>5, <1>7, <2>1, <2>2, GoesOn
<1> QED BY <1>2, <1>6, <1>7

LEMMA Polls == ASSUME OneAtATime, SessionInv, NEW l \in Lines, Poll(l) PROVE SessionInv'
<1>1. PICK found : found = Receipts(local[l].url, local[l].tx)
  OBVIOUS
<1>2. /\ pc[l] = "poll"
      /\ UNCHANGED <<mined, pool, snaps, nextId, taken, rpcUrl, privKey, user, varStore, snapshot, typed>>
      /\ \/ \E r \in found : Await(l, "receipt", [who |-> local[l].who, key |-> local[l].key,
                                                  chain |-> local[l].url, receipt |-> r])
         \/ Await(l, "poll", [local[l] EXCEPT !.polls = local[l].polls + 1])
         \/ Fail(l)
  BY <1>1 DEF Poll, At, nodeVars, settingVars, storeVars
<1>3. LocalInv(l) /\ NodeType
  BY DEF SessionInv
<1>4. NodeType' /\ SettingType' /\ StoreType' /\ privKey' = user'
  BY <1>2, NodeStays, InForce DEF SessionInv, SettingType, StoreType
<1>5. /\ Cmd(l).op = "call" /\ Cmd(l).var \in Vars /\ local[l].who = user /\ local[l].key = user
      /\ local[l].url \in Chains /\ local[l].tx \in Tx
  BY <1>2, <1>3 DEF LocalInv, Calling
<1>6. "poll" \in Stages /\ "receipt" \in Stages
  BY DEF Stages, Calling
<1>7. CASE \E r \in found : Await(l, "receipt", [who |-> local[l].who, key |-> local[l].key,
                                                 chain |-> local[l].url, receipt |-> r])
  <2>0. PICK r \in found : Await(l, "receipt", [who |-> local[l].who, key |-> local[l].key,
                                               chain |-> local[l].url, receipt |-> r])
    BY <1>7
  <2>1. PICK data :
           /\ data = [who |-> local[l].who, key |-> local[l].key, chain |-> local[l].url, receipt |-> r]
           /\ Await(l, "receipt", data)
    BY <2>0
  <2>2. r \in Receipt
    BY <1>1, <1>3, <1>5 DEF Receipts, NodeType
  <2>3. ASSUME pc'[l] = "receipt", local'[l] = data, Cmd(l)' = Cmd(l) PROVE LocalInv(l)'
    BY <1>2, <1>5, <2>1, <2>2, <2>3 DEF LocalInv, Calling
  <2> QED BY <1>2, <1>4, <1>6, <2>1, <2>3, GoesOn
<1>8. CASE Await(l, "poll", [local[l] EXCEPT !.polls = local[l].polls + 1])
  <2>1. PICK data : data = [local[l] EXCEPT !.polls = local[l].polls + 1]
    OBVIOUS
  <2>2. /\ data.who = local[l].who /\ data.key = local[l].key
        /\ data.url = local[l].url /\ data.tx = local[l].tx
    BY <2>1
  <2>3. ASSUME pc'[l] = "poll", local'[l] = data, Cmd(l)' = Cmd(l) PROVE LocalInv(l)'
    BY <1>2, <1>5, <2>2, <2>3 DEF LocalInv, Calling
  <2> QED BY <1>2, <1>4, <1>6, <1>8, <2>1, <2>3, GoesOn
<1>9. CASE Fail(l)
  BY <1>2, <1>4, <1>9, Fails
<1> QED BY <1>2, <1>7, <1>8, <1>9

LEMMA Thens == ASSUME OneAtATime, SessionInv, NEW l \in Lines, Then(l) PROVE SessionInv'
<1>1. PICK held : held = [chain |-> local[l].chain, receipt |-> local[l].receipt]
  OBVIOUS
<1>2. /\ pc[l] = "receipt" /\ varStore' = [varStore EXCEPT ![Cmd(l).var] = held]
      /\ Finish(l, TRUE) \/ Fail(l)
      /\ UNCHANGED <<mined, pool, snaps, nextId, taken, rpcUrl, privKey, user, snapshot, typed>>
  BY <1>1 DEF Then, At, nodeVars, settingVars
<1>3. held \in [chain : Chains, receipt : Receipt]
  BY <1>1, <1>2 DEF SessionInv, LocalInv
<1>4. StoreType'
  BY <1>2, <1>3 DEF SessionInv, StoreType, Store
<1>5. NodeType' /\ SettingType' /\ privKey' = user'
  BY <1>2, NodeStays, InForce DEF SessionInv, SettingType
<1> QED BY <1>2, <1>4, <1>5, Ends, Fails

LEMMA RequestsFail == ASSUME OneAtATime, SessionInv, NEW l \in Lines, RequestFails(l) PROVE SessionInv'
<1>1. /\ pc[l] \in {"ready", "opened", "submit", "poll"} /\ Fail(l)
      /\ UNCHANGED <<mined, pool, snaps, nextId, taken, rpcUrl, privKey, user, varStore, snapshot, typed>>
  BY DEF RequestFails, Starts, nodeVars, settingVars, storeVars
<1>2. NodeType' /\ SettingType' /\ StoreType' /\ privKey' = user'
  BY <1>1, NodeStays, InForce DEF SessionInv, SettingType, StoreType
<1> QED BY <1>1, <1>2, Fails

LEMMA Mines == ASSUME SessionInv, NEW c \in Chains, Mine(c) PROVE SessionInv' /\ mined[c] \subseteq mined'[c]
<1>0. PICK tx \in pool[c], ok \in BOOLEAN :
         /\ mined' = [mined EXCEPT ![c] = mined[c] \cup {[from |-> tx.from, nonce |-> tx.nonce,
                                                          call |-> tx.call, ok |-> ok]}]
         /\ pool' = [pool EXCEPT ![c] = pool[c] \ {tx}]
  BY DEF Mine
<1>1. PICK r :
         /\ r = [from |-> tx.from, nonce |-> tx.nonce, call |-> tx.call, ok |-> ok]
         /\ mined' = [mined EXCEPT ![c] = mined[c] \cup {r}]
         /\ pool' = [pool EXCEPT ![c] = pool[c] \ {tx}]
  BY <1>0
<1>2. UNCHANGED <<snaps, nextId, taken, rpcUrl, privKey, user, varStore, snapshot, typed, pc, todo, loop, local>>
  BY DEF Mine, settingVars, storeVars, lineVars
<1>3. NodeType /\ tx \in Tx
  BY DEF SessionInv, NodeType
<1>4. r \in Receipt
  BY <1>1, <1>3 DEF Tx, Receipt
<1>5. NodeType'
  <2>1. mined[c] \in SUBSET Receipt /\ pool[c] \in SUBSET Tx /\ IsFiniteSet(mined[c]) /\ IsFiniteSet(pool[c])
    BY <1>3 DEF NodeType
  <2>2. IsFiniteSet(mined[c] \cup {r}) /\ IsFiniteSet(pool[c] \ {tx})
    BY <2>1, FS_AddElement, FS_RemoveElement
  <2>3. /\ mined' \in [Chains -> SUBSET Receipt] /\ pool' \in [Chains -> SUBSET Tx]
        /\ \A d \in Chains : IsFiniteSet(mined'[d]) /\ IsFiniteSet(pool'[d])
    BY <1>1, <1>3, <1>4, <2>1, <2>2 DEF NodeType
  <2> QED BY <1>2, <1>3, <2>3 DEF NodeType
<1>6. SettingType' /\ StoreType' /\ LineType' /\ ((\A l \in Lines : pc'[l] # "wallet") => privKey' = user')
  BY <1>2 DEF SessionInv, SettingType, StoreType, LineType
<1>7. \A l \in Lines : LineInv(l)' /\ LocalInv(l)'
  <2> SUFFICES ASSUME NEW l \in Lines PROVE LineInv(l)' /\ LocalInv(l)'
    OBVIOUS
  <2>1. Cmd(l)' = Cmd(l) /\ LineInv(l) /\ LocalInv(l)
    BY <1>2 DEF Cmd, SessionInv
  <2> QED BY <1>2, <2>1 DEF LineInv, LocalInv, InScript
<1>8. mined[c] \subseteq mined'[c]
  BY <1>1, <1>3 DEF NodeType
<1> QED BY <1>5, <1>6, <1>7, <1>8 DEF SessionInv


\* Waiting for the prompt is enough for the types and for what is in force.
THEOREM SessionInvariance == OneAtATime => (Spec => []SessionInv)
<1> SUFFICES ASSUME OneAtATime PROVE Spec => []SessionInv
  OBVIOUS
<1>1. Init => SessionInv
  BY InitSession
<1>2. ASSUME SessionInv, [Next]_vars PROVE SessionInv'
  <2>1. CASE \E l \in Lines : Type(l) \/ RequestFails(l)
    BY <1>2, <2>1, Types, RequestsFail
  <2>2. CASE \E l \in Lines : Proceed(l)
    BY <1>2, <2>2, RunsScript, ClearsMemory, SnapshotsInScript, AsksSnapshot, KeepsSnapshot,
       AsksRevert, FinishesRevert, UsesUnknown, UsesPrivateKey, OpensWallet, UsesKeyStore,
       OpensKeyStore, Tokenizes, OpensSigner, AsksNonce, Submits, Polls, Thens DEF Proceed
  <2>3. CASE \E c \in Chains : Mine(c)
    BY <1>2, <2>3, Mines
  <2>4. CASE UNCHANGED vars
    BY <1>2, <2>4, KeepsSession
  <2> QED BY <1>2, <2>1, <2>2, <2>3, <2>4 DEF Next, Step
<1> QED BY <1>1, <1>2, PTL DEF Spec

\* The key that signs a call is that of the address its arguments were written with, on
\* whatever chains and through whatever `use` that failed half-way.
THEOREM SignerAgrees == OneAtATime => (Spec => []SignerIsUser)
<1> SUFFICES ASSUME OneAtATime PROVE Spec => []SignerIsUser
  OBVIOUS
<1>1. SessionInv => SignerIsUser
  BY DEF SessionInv, LocalInv, SignerIsUser, Calling
<1> QED BY <1>1, SessionInvariance, PTL
-----------------------------------------------------------------------------
(***************************************************************************)
(* Snapshots.                                                              *)
(***************************************************************************)
OnChain(store, receipts) == \A v \in Vars : store[v] # None => store[v].receipt \in receipts

\* Snapshots are nested, and what the varStore held when one was taken was on the chain.
SnapsInv ==
    \A c \in Chains, i \in Ids :
       /\ i >= nextId[c] => snaps[c][i] = None
       /\ snaps[c][i] # None =>
             /\ snaps[c][i] \subseteq mined[c]
             /\ \A j \in Ids : j > i /\ snaps[c][j] # None => snaps[c][i] \subseteq snaps[c][j]
             /\ taken[c][i] \in Store /\ OnChain(taken[c][i], snaps[c][i])

\* The copy a name stands for is the varStore of when the node took the snapshot.
NamesInv ==
    \A c \in Chains, n \in Names :
       snapshot[n] # None => snapshot[n].id < nextId[c] /\ snapshot[n].vars = taken[c][snapshot[n].id]

Reverted(l) == pc[l] = "reverted" /\ local[l].done

\* The varStore is on the chain but between the node's going back and the command's, and
\* then the copy is.
StoreInv(l) ==
    /\ \A c \in Chains : ~Reverted(l) => OnChain(varStore, mined[c])
    /\ Reverted(l) =>
          /\ local[l].name # None /\ local[l].chain \in Chains
          /\ snapshot[local[l].name].id = local[l].id
          /\ \A c \in Chains : OnChain(taken[c][local[l].id], mined[c])
    /\ pc[l] = "snapshot" =>
          \A c \in Chains : local[l].id < nextId[c] /\ varStore = taken[c][local[l].id]
    /\ pc[l] = "receipt" => local[l].receipt \in mined[local[l].chain]

KeptInv ==
    /\ SnapsInv /\ NamesInv
    /\ \A l \in Lines : StoreInv(l)

LEMMA InitKept == ASSUME Init PROVE KeptInv
<1>1. /\ \A c \in Chains, i \in Ids : snaps[c][i] = None
      /\ \A n \in Names : snapshot[n] = None
      /\ \A v \in Vars : varStore[v] = None
      /\ \A l \in Lines : pc[l] = "idle"
  BY DEF Init, EmptyStore
<1> QED BY <1>1 DEF KeptInv, SnapsInv, NamesInv, StoreInv, Reverted, OnChain

\* A step that leaves the chain, the snapshots and the varStore alone.
LEMMA Quiet ==
    ASSUME OneNamedChain, SessionInv, KeptInv, NEW l \in Lines, pc[l] # "reverted",
           UNCHANGED <<mined, snaps, nextId, taken, varStore, snapshot>>,
           pc'[l] \notin {"snapshot", "reverted", "receipt"}
    PROVE  KeptInv'
<1>1. \A k \in Lines : k = l
  BY DEF OneNamedChain, OneAtATime
<1>2. SnapsInv' /\ NamesInv'
  BY DEF KeptInv, SnapsInv, NamesInv
<1>3. \A c \in Chains : OnChain(varStore', mined'[c])
  BY DEF KeptInv, StoreInv, Reverted
<1>4. StoreInv(l)'
  BY <1>3 DEF StoreInv, Reverted
<1> QED BY <1>1, <1>2, <1>4 DEF KeptInv

\* So is one that changes the varStore only, and keeps it on the chain.
LEMMA StoreChanges ==
    ASSUME OneNamedChain, SessionInv, KeptInv, NEW l \in Lines,
           UNCHANGED <<mined, snaps, nextId, taken, snapshot>>,
           pc'[l] \in {"idle", "ready"}, \A c \in Chains : OnChain(varStore', mined[c])
    PROVE  KeptInv'
<1>1. \A k \in Lines : k = l
  BY DEF OneNamedChain, OneAtATime
<1>2. SnapsInv' /\ NamesInv'
  BY DEF KeptInv, SnapsInv, NamesInv
<1>3. StoreInv(l)'
  BY DEF StoreInv, Reverted
<1> QED BY <1>1, <1>2, <1>3 DEF KeptInv

\* The prompt, or the next command, comes after a failure too.
LEMMA FailEnds ==
    ASSUME OneAtATime, SessionInv, NEW l \in Lines, pc[l] # "idle", Fail(l), typed' = typed
    PROVE  pc'[l] \in {"idle", "ready"}
<1>1. Caught(l) \in BOOLEAN
  BY DEF Caught
<1>2. PICK ok \in BOOLEAN : Finish(l, ok)
  BY <1>1 DEF Fail
<1> QED BY <1>2, Finishes

\* The actions that have nothing to do with snapshots or what a call leaves behind.
LEMMA QuietSteps ==
    ASSUME OneNamedChain, SessionInv, KeptInv, NEW l \in Lines,
           \/ Type(l) \/ RunScript(l) \/ SnapshotInScript(l) \/ UseUnknown(l) \/ UsePrivateKey(l)
           \/ OpenWallet(l) \/ UseKeyStore(l) \/ OpenKeyStore(l) \/ Tokenize(l) \/ OpenSigner(l)
           \/ AskNonce(l) \/ Submit(l) \/ RequestFails(l)
    PROVE  KeptInv'
<1>1. UNCHANGED <<mined, snaps, nextId, taken, varStore, snapshot>>
  BY DEF Type, RunScript, SnapshotInScript, UseUnknown, UsePrivateKey, OpenWallet, UseKeyStore, OpenKeyStore,
         Tokenize, OpenSigner, AskNonce, Submit, RequestFails, nodeVars, storeVars
<1>2. pc[l] # "reverted"
  BY DEF Type, RunScript, SnapshotInScript, UseUnknown, UsePrivateKey, OpenWallet, UseKeyStore, OpenKeyStore,
         Tokenize, OpenSigner, AskNonce, Submit, RequestFails, Starts, At
<1>3. OneAtATime /\ LineType /\ DOMAIN pc = Lines
  BY DEF OneNamedChain, SessionInv, LineType
<1>4. ASSUME NEW ok \in BOOLEAN, Finish(l, ok), pc[l] # "idle", typed' = typed PROVE pc'[l] \in {"idle", "ready"}
  BY <1>3, <1>4, Finishes
<1>5. ASSUME NEW stage, NEW data, Await(l, stage, data) PROVE pc'[l] = stage
  BY <1>3, <1>5 DEF Await
<1>6. pc'[l] \in {"idle", "ready", "wallet", "keystore", "tokenized", "opened", "submit", "poll"}
  <2>1. CASE Type(l) \/ RunScript(l)
    BY <1>3, <2>1 DEF Type, RunScript, Starts
  <2>2. CASE SnapshotInScript(l) \/ UseUnknown(l)
    BY <1>4, <2>2 DEF SnapshotInScript, UseUnknown, Starts
  <2>3. CASE OpenWallet(l)
    BY <1>4, <2>3 DEF OpenWallet, At
  <2>4. CASE OpenKeyStore(l)
    <3>1. pc[l] = "keystore" /\ Finish(l, local[l].right) /\ typed' = typed
      BY <2>4 DEF OpenKeyStore, At
    <3>2. local[l].right \in BOOLEAN
      BY <3>1 DEF SessionInv, LocalInv
    <3> QED BY <1>4, <3>1, <3>2
  <2>5. CASE UsePrivateKey(l) \/ UseKeyStore(l) \/ Tokenize(l) \/ OpenSigner(l) \/ AskNonce(l)
    <3>1. \E stage \in {"wallet", "keystore", "tokenized", "opened", "submit"} : \E data : Await(l, stage, data)
      BY <2>5 DEF UsePrivateKey, UseKeyStore, Tokenize, OpenSigner, AskNonce
    <3> QED BY <1>5, <3>1
  <2>6. CASE Submit(l)
    <3>1. pc[l] = "submit" /\ typed' = typed /\ (Await(l, "poll", local[l]) \/ Fail(l))
      BY <2>6 DEF Submit, At
    <3> QED BY <1>3, <1>5, <3>1, FailEnds
  <2>7. CASE RequestFails(l)
    <3>1. pc[l] # "idle" /\ typed' = typed /\ Fail(l)
      BY <2>7 DEF RequestFails, Starts
    <3> QED BY <1>3, <3>1, FailEnds
  <2> QED BY <2>1, <2>2, <2>3, <2>4, <2>5, <2>6, <2>7
<1> QED BY <1>1, <1>2, <1>6, Quiet


\* A step that adds to the chain what is mined keeps everything.
LEMMA MineKeeps ==
    ASSUME OneNamedChain, SessionInv, KeptInv, NEW c \in Chains, Mine(c) PROVE KeptInv'
<1>1. UNCHANGED <<snaps, nextId, taken, varStore, snapshot, pc, local>>
  BY DEF Mine, storeVars, lineVars
<1>2. \A d \in Chains : d = c
  BY DEF OneNamedChain
<1>3. \A d \in Chains : mined[d] \subseteq mined'[d]
  BY <1>2, Mines
<1>4. SnapsInv' /\ NamesInv'
  BY <1>1, <1>3 DEF KeptInv, SnapsInv, NamesInv
<1>5. \A l \in Lines : StoreInv(l)'
  <2> SUFFICES ASSUME NEW l \in Lines PROVE StoreInv(l)'
    OBVIOUS
  <2>1. StoreInv(l) /\ (pc[l] = "receipt" => local[l].chain \in Chains)
    BY DEF KeptInv, SessionInv, LocalInv
  <2>2. \A d \in Chains : ~Reverted(l) => OnChain(varStore', mined'[d])
    BY <1>1, <1>3, <2>1 DEF StoreInv, OnChain
  <2>3. Reverted(l) => \A d \in Chains : OnChain(taken'[d][local[l].id], mined'[d])
    BY <1>1, <1>3, <2>1 DEF StoreInv, OnChain
  <2>4. Reverted(l)' = Reverted(l)
    BY <1>1 DEF Reverted
  <2> QED BY <1>1, <1>3, <2>1, <2>2, <2>3, <2>4 DEF StoreInv
<1> QED BY <1>4, <1>5 DEF KeptInv

LEMMA ClearKeeps ==
    ASSUME OneNamedChain, SessionInv, KeptInv, NEW l \in Lines, ClearMemory(l) PROVE KeptInv'
<1>1. /\ pc[l] = "ready" /\ Finish(l, TRUE) /\ typed' = typed /\ varStore' = EmptyStore
      /\ UNCHANGED <<mined, snaps, nextId, taken, snapshot>>
  BY DEF ClearMemory, Starts, nodeVars
<1>2. pc'[l] \in {"idle", "ready"}
  BY <1>1, Finishes DEF OneNamedChain
<1>3. \A c \in Chains : OnChain(varStore', mined[c])
  BY <1>1 DEF OnChain, EmptyStore
<1> QED BY <1>1, <1>2, <1>3, StoreChanges

\* The varStore, which is on the chain, is what the node's new snapshot goes with.
LEMMA AskSnapshotKeeps ==
    ASSUME OneNamedChain, SessionInv, KeptInv, NEW l \in Lines, AskSnapshot(l) PROVE KeptInv'
<1>1. PICK id : id = nextId[rpcUrl]
  OBVIOUS
<1>2. /\ pc[l] = "ready" /\ ~InScript(l) /\ Await(l, "snapshot", [id |-> id])
      /\ snaps' = [snaps EXCEPT ![rpcUrl][id] = mined[rpcUrl]]
      /\ taken' = [taken EXCEPT ![rpcUrl][id] = varStore]
      /\ nextId' = [nextId EXCEPT ![rpcUrl] = id + 1]
      /\ UNCHANGED <<mined, rpcUrl, varStore, snapshot>>
  BY <1>1 DEF AskSnapshot, Starts, settingVars, storeVars
<1>3. NodeType /\ SettingType /\ StoreType /\ LineType /\ LineInv(l)
  BY DEF SessionInv
<1>4. \A k \in Lines : k = l
  BY DEF OneNamedChain, OneAtATime
<1>5. rpcUrl \in Chains /\ \A c \in Chains : c = rpcUrl
  BY <1>3 DEF OneNamedChain, SettingType
<1>6. id \in Ids /\ id \in Nat
  <2>1. id \in 1 .. MaxLines + 1 /\ id <= typed /\ typed \in 0 .. MaxLines
    BY <1>1, <1>2, <1>3 DEF NodeType, SettingType, LineType, LineInv
  <2> QED BY <2>1, SessionAssumption DEF Ids
<1>7. ASSUME NEW c \in Chains
      PROVE  /\ nextId[c] = id /\ nextId'[c] = id + 1
             /\ snaps'[c][id] = mined[c] /\ taken'[c][id] = varStore
             /\ \A i \in Ids : i # id => snaps'[c][i] = snaps[c][i] /\ taken'[c][i] = taken[c][i]
  BY <1>1, <1>2, <1>3, <1>5, <1>6 DEF NodeType
<1>8. varStore \in Store /\ \A c \in Chains : OnChain(varStore, mined[c])
  BY <1>2, <1>3 DEF KeptInv, StoreInv, Reverted, StoreType
<1>9. SnapsInv'
  <2> SUFFICES ASSUME NEW c \in Chains, NEW i \in Ids
      PROVE  /\ i >= nextId'[c] => snaps'[c][i] = None
             /\ snaps'[c][i] # None =>
                   /\ snaps'[c][i] \subseteq mined'[c]
                   /\ \A j \in Ids : j > i /\ snaps'[c][j] # None => snaps'[c][i] \subseteq snaps'[c][j]
                   /\ taken'[c][i] \in Store /\ OnChain(taken'[c][i], snaps'[c][i])
    BY DEF SnapsInv
  <2>1. SnapsInv /\ \A j \in Ids : j \in Nat
    BY DEF KeptInv, Ids
  <2>2. i >= nextId'[c] => snaps'[c][i] = None
    <3>1. i >= id + 1 => i # id /\ i >= id
      BY <1>6, <2>1
    <3> QED BY <1>7, <2>1, <3>1 DEF SnapsInv
  <2>3. CASE i = id
    <3>1. \A j \in Ids : j > id => snaps'[c][j] = None
      <4>1. \A j \in Ids : j > id => j >= id /\ j # id
        BY <1>6, <2>1
      <4> QED BY <1>7, <2>1, <4>1 DEF SnapsInv
    <3> QED BY <1>2, <1>7, <1>8, <2>2, <2>3, <3>1
  <2>4. CASE i # id
    <3>1. /\ snaps[c][i] # None =>
                /\ snaps[c][i] \subseteq mined[c]
                /\ \A j \in Ids : j > i /\ snaps[c][j] # None => snaps[c][i] \subseteq snaps[c][j]
                /\ taken[c][i] \in Store /\ OnChain(taken[c][i], snaps[c][i])
      BY <2>1 DEF SnapsInv
    <3>2. snaps'[c][i] = snaps[c][i] /\ taken'[c][i] = taken[c][i] /\ mined'[c] = mined[c]
      BY <1>2, <1>7, <2>4
    <3>3. \A j \in Ids : snaps'[c][j] = snaps[c][j] \/ snaps'[c][j] = mined[c]
      BY <1>7
    <3> QED BY <2>2, <3>1, <3>2, <3>3
  <2> QED BY <2>3, <2>4
<1>10. NamesInv'
  <2> SUFFICES ASSUME NEW c \in Chains, NEW n \in Names, snapshot[n] # None
      PROVE  snapshot[n].id < nextId'[c] /\ snapshot[n].vars = taken'[c][snapshot[n].id]
    BY <1>2 DEF NamesInv
  <2>1. snapshot[n].id < id /\ snapshot[n].vars = taken[c][snapshot[n].id]
    BY <1>7 DEF KeptInv, NamesInv
  <2>2. snapshot[n].id \in Ids
    BY <1>3 DEF StoreType, Snapshot
  <2>3. snapshot[n].id # id /\ snapshot[n].id < id + 1
    BY <1>6, <2>1, <2>2 DEF Ids
  <2> QED BY <1>7, <2>1, <2>2, <2>3
<1>11. pc'[l] = "snapshot" /\ local'[l] = [id |-> id]
  BY <1>2, <1>3 DEF Await, LineType
<1>12. StoreInv(l)'
  <2>1. \A c \in Chains : OnChain(varStore', mined'[c])
    BY <1>2, <1>8
  <2>2. \A c \in Chains : local'[l].id < nextId'[c] /\ varStore' = taken'[c][local'[l].id]
    BY <1>2, <1>6, <1>7, <1>11
  <2> QED BY <1>11, <2>1, <2>2 DEF StoreInv, Reverted
<1> QED BY <1>4, <1>9, <1>10, <1>12 DEF KeptInv

LEMMA KeepSnapshotKeeps ==
    ASSUME OneNamedChain, SessionInv, KeptInv, NEW l \in Lines, KeepSnapshot(l) PROVE KeptInv'
<1>1. PICK copy : copy = [id |-> local[l].id, vars |-> varStore]
  OBVIOUS
<1>2. /\ pc[l] = "snapshot" /\ snapshot' = [snapshot EXCEPT ![Cmd(l).name] = copy]
      /\ Finish(l, TRUE) /\ typed' = typed
      /\ UNCHANGED <<mined, snaps, nextId, taken, varStore>>
  BY <1>1 DEF KeepSnapshot, At, nodeVars
<1>3. pc'[l] \in {"idle", "ready"}
  BY <1>2, Finishes DEF OneNamedChain
<1>4. \A k \in Lines : k = l
  BY DEF OneNamedChain, OneAtATime
<1>5. StoreInv(l) /\ StoreType
  BY DEF KeptInv, SessionInv
<1>6. \A c \in Chains : copy.id < nextId[c] /\ copy.vars = taken[c][copy.id]
  BY <1>1, <1>2, <1>5 DEF StoreInv
<1>7. SnapsInv'
  BY <1>2 DEF KeptInv, SnapsInv
<1>8. NamesInv'
  <2>1. \A n \in Names : snapshot'[n] = snapshot[n] \/ snapshot'[n] = copy
    BY <1>2, <1>5 DEF StoreType
  <2> QED BY <1>2, <1>6, <2>1 DEF KeptInv, NamesInv
<1>9. StoreInv(l)'
  BY <1>2, <1>3, <1>5 DEF StoreInv, Reverted
<1> QED BY <1>4, <1>7, <1>8, <1>9 DEF KeptInv

\* A name's snapshot, once forgotten, is not known again: the ids are new ones.
LEMMA AskRevertKeeps ==
    ASSUME OneNamedChain, SessionInv, KeptInv, NEW l \in Lines, AskRevert(l) PROVE KeptInv'
<1>1. PICK target, name, id :
         /\ target = Cmd(l).target
         /\ name = IF NamesOf(target) = {} THEN None ELSE CHOOSE n \in NamesOf(target) : TRUE
         /\ id = IF name = None THEN target ELSE snapshot[name].id
  OBVIOUS
<1>2. PICK known \in BOOLEAN : known = (id \in Ids /\ snaps[rpcUrl][id] # None)
  OBVIOUS
<1>3. PICK data : data = [chain |-> rpcUrl, id |-> id, name |-> name, done |-> known]
  OBVIOUS
<1>4. /\ pc[l] = "ready" /\ ~InScript(l) /\ Cmd(l).op = "revert" /\ Await(l, "reverted", data)
      /\ UNCHANGED <<nextId, taken, rpcUrl, varStore, snapshot>>
  <2>1. Await(l, "reverted", [chain |-> rpcUrl, id |-> id, name |-> name,
                              done |-> id \in Ids /\ snaps[rpcUrl][id] # None])
    BY <1>1 DEF AskRevert
  <2> QED BY <1>2, <1>3, <2>1 DEF AskRevert, Starts, settingVars, storeVars
<1>5. IF known
      THEN /\ mined' = [mined EXCEPT ![rpcUrl] = snaps[rpcUrl][id]]
           /\ snaps' = [snaps EXCEPT ![rpcUrl] = [i \in Ids |-> IF i < id THEN snaps[rpcUrl][i] ELSE None]]
      ELSE UNCHANGED <<mined, snaps>>
  <2>1. IF id \in Ids /\ snaps[rpcUrl][id] # None
        THEN /\ mined' = [mined EXCEPT ![rpcUrl] = snaps[rpcUrl][id]]
             /\ snaps' = [snaps EXCEPT ![rpcUrl] = [i \in Ids |-> IF i < id THEN snaps[rpcUrl][i] ELSE None]]
             /\ \E left \in {pool[rpcUrl], {}} : pool' = [pool EXCEPT ![rpcUrl] = left]
        ELSE UNCHANGED <<mined, snaps, pool>>
    BY <1>1 DEF AskRevert
  <2> QED BY <1>2, <2>1
<1>7. NodeType /\ SettingType /\ StoreType /\ LineType /\ LineInv(l) /\ StoreInv(l) /\ SnapsInv /\ NamesInv
  BY DEF SessionInv, KeptInv
<1>8. rpcUrl \in Chains /\ (\A c \in Chains : c = rpcUrl) /\ (\A k \in Lines : k = l)
  BY <1>7 DEF OneNamedChain, OneAtATime, SettingType
<1>9. target \in Names \ Nat
  <2>1. Cmd(l) \in Commands
    BY <1>4, CmdIsOne DEF InScript
  <2> QED BY <1>1, <1>4, <2>1 DEF OneNamedChain
<1>10. known => name = target /\ name # None /\ snapshot[name] # None /\ id = snapshot[name].id
  <2>1. CASE snapshot[target] # None
    <3>1. NamesOf(target) = {target}
      BY <1>9, <2>1 DEF NamesOf
    <3>2. name = target /\ name # None
      BY <1>1, <1>9, <3>1, SessionAssumption
    <3> QED BY <1>1, <2>1, <3>2
  <2>2. CASE snapshot[target] = None
    <3>1. \A n \in Names : snapshot[n] # None => snapshot[n].id # target
      BY <1>7, <1>9 DEF StoreType, Snapshot, Ids
    <3>2. NamesOf(target) = {}
      BY <1>9, <2>2, <3>1 DEF NamesOf
    <3>3. id = target
      BY <1>1, <3>2
    <3>4. id \notin Ids
      BY <1>9, <3>3, SessionAssumption DEF Ids
    <3> QED BY <1>2, <3>4
  <2> QED BY <2>1, <2>2
<1>11. pc'[l] = "reverted" /\ local'[l] = data
  BY <1>4, <1>7 DEF Await, LineType
<1>12. NamesInv'
  BY <1>4, <1>7 DEF NamesInv
<1>13. CASE known
  <2>1. id \in Ids /\ snaps[rpcUrl][id] # None /\ \A i \in Ids : i \in Nat
    <3>1. id \in Ids /\ snaps[rpcUrl][id] # None
      BY <1>2, <1>13
    <3>2. \A i \in Ids : i \in Nat
      BY SessionAssumption DEF Ids
    <3> QED BY <3>1, <3>2
  <2>2. ASSUME NEW c \in Chains
        PROVE  /\ mined'[c] = snaps[c][id] /\ snaps[c][id] # None
               /\ \A i \in Ids : snaps'[c][i] = IF i < id THEN snaps[c][i] ELSE None
    BY <1>5, <1>7, <1>8, <1>13, <2>1 DEF NodeType
  <2>3. SnapsInv'
    <3> SUFFICES ASSUME NEW c \in Chains, NEW i \in Ids
        PROVE  /\ i >= nextId'[c] => snaps'[c][i] = None
               /\ snaps'[c][i] # None =>
                     /\ snaps'[c][i] \subseteq mined'[c]
                     /\ \A j \in Ids : j > i /\ snaps'[c][j] # None => snaps'[c][i] \subseteq snaps'[c][j]
                     /\ taken'[c][i] \in Store /\ OnChain(taken'[c][i], snaps'[c][i])
      BY DEF SnapsInv
    <3>1. \A j \in Ids : snaps'[c][j] # None => j < id /\ snaps'[c][j] = snaps[c][j]
      BY <2>2
    <3>2. i < id => id > i
      BY <2>1
    <3>3. snaps[c][i] # None =>
             /\ \A j \in Ids : j > i /\ snaps[c][j] # None => snaps[c][i] \subseteq snaps[c][j]
             /\ taken[c][i] \in Store /\ OnChain(taken[c][i], snaps[c][i])
      BY <1>7 DEF SnapsInv
    <3>4. i >= nextId[c] => snaps[c][i] = None
      BY <1>7 DEF SnapsInv
    <3> QED BY <1>4, <2>1, <2>2, <3>1, <3>2, <3>3, <3>4
  <2>4. \A c \in Chains : OnChain(taken[c][id], mined'[c])
    BY <1>7, <2>1, <2>2 DEF SnapsInv
  <2>5. StoreInv(l)'
    <3>1. /\ local'[l].done /\ local'[l].name = name /\ local'[l].id = id /\ local'[l].chain = rpcUrl
      BY <1>3, <1>11, <1>13
    <3>2. Reverted(l)'
      BY <1>11, <3>1 DEF Reverted
    <3> QED BY <1>4, <1>8, <1>10, <1>11, <1>13, <2>4, <3>1, <3>2 DEF StoreInv
  <2> QED BY <1>8, <1>12, <2>3, <2>5 DEF KeptInv
<1>14. CASE ~known
  <2>1. UNCHANGED <<mined, snaps>> /\ ~local'[l].done
    BY <1>3, <1>5, <1>11, <1>14
  <2>2. SnapsInv'
    BY <1>4, <1>7, <2>1 DEF SnapsInv
  <2>3. StoreInv(l)'
    BY <1>4, <1>7, <1>11, <2>1 DEF StoreInv, Reverted
  <2> QED BY <1>8, <1>12, <2>2, <2>3 DEF KeptInv
<1> QED BY <1>13, <1>14

LEMMA FinishRevertKeeps ==
    ASSUME OneNamedChain, SessionInv, KeptInv, NEW l \in Lines, FinishRevert(l)
    PROVE  KeptInv' /\ varStore' = IF local[l].done THEN taken[local[l].chain][local[l].id] ELSE varStore
<1>1. /\ pc[l] = "reverted" /\ Finish(l, local[l].done) /\ typed' = typed
      /\ varStore' = IF local[l].done /\ local[l].name # None
                     THEN snapshot[local[l].name].vars ELSE varStore
      /\ UNCHANGED <<mined, snaps, nextId, taken, snapshot>>
  BY DEF FinishRevert, At, nodeVars
<1>2. LocalInv(l) /\ StoreInv(l) /\ NamesInv
  BY DEF SessionInv, KeptInv
<1>3. local[l].done \in BOOLEAN
  BY <1>1, <1>2 DEF LocalInv
<1>4. pc'[l] \in {"idle", "ready"}
  BY <1>1, <1>3, Finishes DEF OneNamedChain
<1>5. CASE local[l].done
  <2>1. /\ local[l].name \in Names /\ local[l].name # None /\ snapshot[local[l].name] # None
        /\ local[l].chain \in Chains /\ snapshot[local[l].name].id = local[l].id
        /\ \A c \in Chains : OnChain(taken[c][local[l].id], mined[c])
    BY <1>1, <1>2, <1>5 DEF LocalInv, StoreInv, Reverted
  <2>2. \A c \in Chains : varStore' = taken[c][local[l].id]
    BY <1>1, <1>2, <1>5, <2>1 DEF NamesInv
  <2>3. \A c \in Chains : OnChain(varStore', mined[c])
    BY <2>1, <2>2
  <2>4. KeptInv'
    BY <1>1, <1>4, <2>3, StoreChanges
  <2> QED BY <1>5, <2>1, <2>2, <2>4
<1>6. CASE ~local[l].done
  <2>1. varStore' = varStore /\ \A c \in Chains : OnChain(varStore', mined[c])
    BY <1>1, <1>2, <1>6 DEF StoreInv, Reverted
  <2> QED BY <1>1, <1>4, <1>6, <2>1, StoreChanges
<1> QED BY <1>3, <1>5, <1>6

\* A receipt that has been found is on the chain.
LEMMA PollKeeps ==
    ASSUME OneNamedChain, SessionInv, KeptInv, NEW l \in Lines, Poll(l) PROVE KeptInv'
<1>1. PICK found : found = Receipts(local[l].url, local[l].tx)
  OBVIOUS
<1>2. /\ pc[l] = "poll" /\ typed' = typed
      /\ UNCHANGED <<mined, snaps, nextId, taken, varStore, snapshot>>
      /\ \/ \E r \in found : Await(l, "receipt", [who |-> local[l].who, key |-> local[l].key,
                                                  chain |-> local[l].url, receipt |-> r])
         \/ Await(l, "poll", [local[l] EXCEPT !.polls = local[l].polls + 1])
         \/ Fail(l)
  BY <1>1 DEF Poll, At, nodeVars, storeVars
<1>3. OneAtATime /\ LineType /\ StoreInv(l) /\ \A k \in Lines : k = l
  BY DEF OneNamedChain, OneAtATime, SessionInv, KeptInv
<1>4. CASE Await(l, "poll", [local[l] EXCEPT !.polls = local[l].polls + 1])
  <2>1. pc'[l] = "poll"
    BY <1>3, <1>4 DEF Await, LineType
  <2> QED BY <1>2, <2>1, Quiet
<1>5. CASE Fail(l)
  <2>1. pc'[l] \in {"idle", "ready"}
    BY <1>2, <1>3, <1>5, FailEnds
  <2> QED BY <1>2, <2>1, Quiet
<1>6. CASE \E r \in found : Await(l, "receipt", [who |-> local[l].who, key |-> local[l].key,
                                                 chain |-> local[l].url, receipt |-> r])
  <2>1. PICK r \in found : Await(l, "receipt", [who |-> local[l].who, key |-> local[l].key,
                                               chain |-> local[l].url, receipt |-> r])
    BY <1>6
  <2>2. pc'[l] = "receipt" /\ local'[l].chain = local[l].url /\ local'[l].receipt = r
    BY <1>3, <2>1 DEF Await, LineType
  <2>3. r \in mined[local[l].url]
    BY <1>1 DEF Receipts
  <2>4. StoreInv(l)'
    BY <1>2, <1>3, <2>2, <2>3 DEF StoreInv, Reverted
  <2>5. SnapsInv' /\ NamesInv'
    BY <1>2 DEF KeptInv, SnapsInv, NamesInv
  <2> QED BY <1>3, <2>4, <2>5 DEF KeptInv
<1> QED BY <1>2, <1>4, <1>5, <1>6

LEMMA ThenKeeps ==
    ASSUME OneNamedChain, SessionInv, KeptInv, NEW l \in Lines, Then(l) PROVE KeptInv'
<1>1. PICK held : held = [chain |-> local[l].chain, receipt |-> local[l].receipt]
  OBVIOUS
<1>2. /\ pc[l] = "receipt" /\ varStore' = [varStore EXCEPT ![Cmd(l).var] = held] /\ typed' = typed
      /\ Finish(l, TRUE) \/ Fail(l)
      /\ UNCHANGED <<mined, snaps, nextId, taken, snapshot>>
  BY <1>1 DEF Then, At, nodeVars
<1>3. OneAtATime /\ StoreType /\ StoreInv(l) /\ LocalInv(l)
  BY DEF OneNamedChain, SessionInv, KeptInv
<1>4. pc'[l] \in {"idle", "ready"}
  BY <1>2, <1>3, Finishes, FailEnds
<1>5. \A c \in Chains : local[l].receipt \in mined[c]
  BY <1>2, <1>3 DEF StoreInv, LocalInv, OneNamedChain
<1>6. \A v \in Vars : varStore'[v] = varStore[v] \/ varStore'[v] = held
  BY <1>2, <1>3 DEF StoreType, Store
<1>7. \A c \in Chains : OnChain(varStore, mined[c])
  BY <1>2, <1>3 DEF StoreInv, Reverted
<1>8. \A c \in Chains : OnChain(varStore', mined[c])
  BY <1>1, <1>5, <1>6, <1>7 DEF OnChain
<1> QED BY <1>2, <1>4, <1>8, StoreChanges

LEMMA StutterKeeps == ASSUME KeptInv, UNCHANGED vars PROVE KeptInv'
<1>1. UNCHANGED <<mined, snaps, nextId, taken, varStore, snapshot, pc, local>>
  BY DEF vars, nodeVars, storeVars, lineVars
<1>2. SnapsInv' /\ NamesInv'
  BY <1>1 DEF KeptInv, SnapsInv, NamesInv
<1>3. \A l \in Lines : StoreInv(l)'
  BY <1>1 DEF KeptInv, StoreInv, Reverted
<1> QED BY <1>2, <1>3 DEF KeptInv
-----------------------------------------------------------------------------
(***************************************************************************)
(* The theorems.                                                           *)
(***************************************************************************)
\* The invariant of snapshots: what the node, the variables and the names have of a moment agree.
THEOREM KeptInvariance == OneNamedChain => (Spec => []KeptInv)
<1> SUFFICES ASSUME OneNamedChain PROVE Spec => []KeptInv
  OBVIOUS
<1>1. Init => KeptInv
  BY InitKept
<1>2. ASSUME SessionInv, KeptInv, [Next]_vars PROVE KeptInv'
  <2>1. CASE \E l \in Lines : Type(l) \/ RequestFails(l)
    BY <1>2, <2>1, QuietSteps
  <2>2. CASE \E l \in Lines : Proceed(l)
    BY <1>2, <2>2, QuietSteps, ClearKeeps, AskSnapshotKeeps, KeepSnapshotKeeps, AskRevertKeeps,
       FinishRevertKeeps, PollKeeps, ThenKeeps DEF Proceed
  <2>3. CASE \E c \in Chains : Mine(c)
    BY <1>2, <2>3, MineKeeps
  <2>4. CASE UNCHANGED vars
    BY <1>2, <2>4, StutterKeeps
  <2> QED BY <1>2, <2>1, <2>2, <2>3, <2>4 DEF Next, Step
<1>3. Spec => []SessionInv
  BY SessionInvariance DEF OneNamedChain
<1> QED BY <1>1, <1>2, <1>3, PTL DEF Spec

\* What the variables hold is on the chain, through any sequence of calls, snapshots and
\* reverts to names, also to names whose snapshot an earlier revert has forgotten.
THEOREM HeldIsOnChain == OneNamedChain => (Spec => []VarsOnChain)
<1> SUFFICES ASSUME OneNamedChain PROVE Spec => []VarsOnChain
  OBVIOUS
<1>1. ASSUME SessionInv, KeptInv, \A l \in Lines : ~At(l, "reverted"),
             NEW v \in Vars, varStore[v] # None
      PROVE  varStore[v].receipt \in mined[varStore[v].chain]
  <2>1. varStore[v].chain \in Chains
    BY <1>1 DEF SessionInv, StoreType, Store
  <2>2. PICK l \in Lines : TRUE
    BY SessionAssumption
  <2>3. StoreInv(l) /\ ~Reverted(l)
    BY <1>1 DEF KeptInv, Reverted, At
  <2> QED BY <1>1, <2>1, <2>3 DEF StoreInv, OnChain
<1>2. SessionInv /\ KeptInv => VarsOnChain
  BY <1>1, TypeFollows DEF VarsOnChain
<1>3. Spec => []SessionInv
  BY SessionInvariance DEF OneNamedChain
<1> QED BY <1>2, <1>3, KeptInvariance, PTL

\* From a revert only the command's own next step leads on.
LEMMA OnlyFinishes ==
    ASSUME OneAtATime, NEW l \in Lines, pc[l] = "reverted", [Next]_vars, ~(pc'[l] = "reverted")
    PROVE  FinishRevert(l)
<1>1. \A k \in Lines : k = l
  BY DEF OneAtATime
<1>2. CASE Type(l) \/ RequestFails(l)
  BY <1>2 DEF Type, RequestFails, At, Starts
<1>3. CASE Proceed(l)
  <2>1. ~RunScript(l) /\ ~ClearMemory(l) /\ ~SnapshotInScript(l) /\ ~AskSnapshot(l) /\ ~KeepSnapshot(l)
    BY DEF RunScript, ClearMemory, SnapshotInScript, AskSnapshot, KeepSnapshot, At, Starts
  <2>2. ~AskRevert(l) /\ ~UseUnknown(l) /\ ~UsePrivateKey(l) /\ ~OpenWallet(l) /\ ~UseKeyStore(l) /\ ~OpenKeyStore(l)
    BY DEF AskRevert, UseUnknown, UsePrivateKey, OpenWallet, UseKeyStore, OpenKeyStore, At, Starts
  <2>3. ~Tokenize(l) /\ ~OpenSigner(l) /\ ~AskNonce(l) /\ ~Submit(l) /\ ~Poll(l) /\ ~Then(l)
    BY DEF Tokenize, OpenSigner, AskNonce, Submit, Poll, Then, At, Starts
  <2> QED BY <1>3, <2>1, <2>2, <2>3 DEF Proceed
<1>4. CASE \E c \in Chains : Mine(c)
  BY <1>4 DEF Mine, lineVars
<1>5. CASE UNCHANGED vars
  BY <1>5 DEF vars, lineVars
<1> QED BY <1>1, <1>2, <1>3, <1>4, <1>5 DEF Next, Step

\* A revert that succeeds brings back the varStore of when the node took the snapshot, and
\* one that fails leaves it alone.
THEOREM RevertRestores == OneNamedChain => (Spec => RevertRestoresVars)
<1> SUFFICES ASSUME OneNamedChain PROVE Spec => RevertRestoresVars
  OBVIOUS
<1>1. ASSUME SessionInv, KeptInv, [Next]_vars
      PROVE  [\A l \in Lines :
                At(l, "reverted") /\ ~At(l, "reverted")' =>
                   varStore' = IF local[l].done THEN taken[local[l].chain][local[l].id]
                               ELSE varStore]_vars
  <2> SUFFICES ASSUME NEW l \in Lines, At(l, "reverted"), ~At(l, "reverted")'
               PROVE  varStore' = IF local[l].done THEN taken[local[l].chain][local[l].id] ELSE varStore
    OBVIOUS
  <2>1. FinishRevert(l)
    BY <1>1, OnlyFinishes DEF At, OneNamedChain
  <2> QED BY <1>1, <2>1, FinishRevertKeeps
<1>2. Spec => []SessionInv
  BY SessionInvariance DEF OneNamedChain
<1> QED BY <1>1, <1>2, KeptInvariance, PTL DEF Spec, RevertRestoresVars

=============================================================================
