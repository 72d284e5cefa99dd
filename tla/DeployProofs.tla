---------------------------- MODULE DeployProofs ----------------------------
(***************************************************************************)
(* What holds of deployments for all compose files, commands, variables    *)
(* and prices, whatever else uses the account.  That the addresses in      *)
(* varStore are the contracts' own is proved for lines that overlap; that  *)
(* collections are whole and contracts know each other for a user who      *)
(* waits for the prompt.                                                   *)
(*                                                                         *)
(* AddressInv is about what a deployment keeps across an await, LoopInv    *)
(* about its place in the manifest and the names it has gathered, WiredInv *)
(* about the contracts it has passed.                                      *)
(***************************************************************************)
EXTENDS Deploy, LeastNumber, SequenceTheorems

Working == {"estimate", "poll", "receipt"}
Entered == {"manifest", "sleep"} \cup Working

Item == UNION {ToSet(Entries(Manifests[f])) : f \in Files}
Name == {e.name : e \in Entry}
Request == [nonce : Nat, entry : Entry, arg : Address \cup {None}]
Kept(tx) == [left : Seq(Item), tries : Nat, temp : SUBSET Name, tx : tx]

\* What a line keeps across an await.
LineInv(l) ==
    /\ pc[l] # "idle" => cmd[l] \in Commands
    /\ pc[l] \in Entered \cup {"wallet"} => cmd[l].op = "deploy"
    /\ pc[l] = "manifest" => local[l] \in [left : Seq(Item), temp : SUBSET Name]
    /\ pc[l] = "estimate" => local[l] \in Kept(Request)
    /\ pc[l] \in {"poll", "receipt", "sleep"} => local[l] \in Kept(Transaction)
    /\ pc[l] = "receipt" => HasReceipt(local[l].tx)

\* The parts of the type invariant.
FileType ==
    /\ registered \subseteq Files
    /\ \A c \in Collections : manifest[c] # None => \E f \in Files : manifest[c] = Manifests[f]
    /\ DOMAIN manifest = Collections
    /\ deployLog \subseteq Nat
MemoryType ==
    /\ currentCollection \in Collections \cup {None}
    /\ varStore \in [Vars -> Address \cup {None}]
    /\ DOMAIN deployedContract = Collections
NodeType ==
    /\ mined \in Seq(Transaction \cup {None}) /\ pool \subseteq Transaction
    /\ \A t, u \in pool : t.nonce = u.nonce => t = u
    /\ foreign \in 0 .. MaxForeign
    /\ reverted \subseteq Nat
LineType ==
    /\ typed \in 0 .. MaxLines
    /\ pc \in [Lines -> {"idle", "ready", "wallet"} \cup Entered]
    /\ DOMAIN cmd = Lines /\ DOMAIN local = Lines

\* An address in varStore is that of a creation for its variable.
Own(v) ==
    varStore[v] # None =>
       /\ varStore[v] < Len(mined)
       /\ mined[varStore[v] + 1] # None
       /\ mined[varStore[v] + 1].entry.returns = v
       /\ Stands(varStore[v])

AddressInv ==
    /\ FileType /\ MemoryType /\ NodeType /\ LineType
    /\ \A v \in Vars : Own(v)
    /\ \A l \in Lines : LineInv(l)
-----------------------------------------------------------------------------
\* What a line deploys, and how many entries of it lie behind.
Collection(l) == ComposeFiles[cmd[l].file].collection
List(l) == Entries(manifest[Collection(l)])
Done(l) == Len(List(l)) - Len(local[l].left)

\* The names that the first k entries give a collection.
NamesTo(l, k) ==
    {List(l)[j].val.name : j \in {i \in 1 .. k : AbiOnly(List(l)[i]) \/ Chosen(l, List(l)[i])}}

\* A line's place in the manifest, and the names gathered so far.
PlaceInv(l) ==
    /\ Done(l) \in 0 .. Len(List(l))
    /\ \A i \in 1 .. Len(local[l].left) : local[l].left[i] = List(l)[Done(l) + i]
    /\ InLoop(l) => local[l].temp = NamesTo(l, Done(l))
    /\ pc[l] \in Working =>
          /\ Done(l) \in Deployable(List(l)) /\ Chosen(l, List(l)[Done(l)])
          /\ local[l].tx.entry = List(l)[Done(l)].val
          /\ local[l].temp = NamesTo(l, Done(l) - 1)

LoopInv ==
    \A l \in Lines :
       /\ pc[l] \in Entered \cup {"wallet"} => currentCollection = Collection(l)
       /\ pc[l] \in Entered => manifest[Collection(l)] # None /\ PlaceInv(l)

\* An entry's contract is on the chain, or in the log as missing, and knows the address
\* of the one it needs.
Wired(e) ==
    \E n \in 1 .. Len(mined) :
       /\ mined[n] # None /\ mined[n].entry = e
       /\ e.input # None => mined[n].arg = varStore[e.input]
       /\ e.returns # None => varStore[e.returns] = n - 1
       /\ Stands(n - 1)

\* What has been created is not undone by a step.
NothingUndone ==
    \A n \in 1 .. Len(mined) :
       n \in 1 .. Len(mined') /\ mined'[n] = mined[n] /\ (Stands(n - 1) => Stands(n - 1)')

WiredInv ==
    \A l \in Lines :
       /\ pc[l] \in Working =>
             LET tx == local[l].tx
             IN  tx.entry.input # None => tx.arg = varStore[tx.entry.input]
       /\ pc[l] \in Entered /\ cmd[l].only = {} =>
             \A i \in Deployable(List(l)) :
                i <= Done(l) /\ (pc[l] \in Working => i # Done(l)) => Wired(List(l)[i].val)
-----------------------------------------------------------------------------
(***************************************************************************)
(* What composing writes: the form of a manifest follows from the form of  *)
(* the compose file, by induction over its packages, their source files,   *)
(* their contracts and the entries of the manifest.                        *)
(***************************************************************************)
Form == [name : Names, input : Vars \cup {None}, returns : Vars \cup {None}, abiOnly : BOOLEAN]
Pairs(K, V) == Seq([key : K, val : V])
Part == Pairs(Names, Form)
Object == Pairs(SourceFiles, Part)

\* A key is put into an object.
LEMMA PutType ==
    ASSUME NEW K, NEW V, NEW obj \in Pairs(K, V), NEW k \in K, NEW v \in V
    PROVE  Put(obj, k, v) \in Pairs(K, V)
<1> DEFINE P == [key : K, val : V]
           new == [key |-> k, val |-> v]
           put == [i \in DOMAIN obj |-> IF obj[i].key = k THEN new ELSE obj[i]]
<1>1. new \in P /\ obj \in Seq(P)
  BY DEF Pairs
<1> HIDE DEF P, new
<1>2. DOMAIN obj = 1 .. Len(obj) /\ Len(obj) \in Nat /\ \A i \in 1 .. Len(obj) : obj[i] \in P
  BY <1>1, LenProperties, ElementOfSeq
<1>3. put \in Seq(P)
  <2>1. put \in [1 .. Len(obj) -> P]
    BY <1>1, <1>2
  <2> HIDE DEF put
  <2> QED
    BY <1>2, <2>1, IsASeq
<1>4. Append(obj, new) \in Seq(P)
  BY <1>1, AppendProperties
<1> QED
  BY <1>3, <1>4 DEF Put, Pairs, P, new

\* What a key stands for.
LEMMA ValueType ==
    ASSUME NEW K, NEW V, NEW obj \in Pairs(K, V), NEW k \in Keys(obj)
    PROVE  ValueOf(obj, k) \in V
<1>1. PICK j \in DOMAIN obj : obj[j].key = k
  BY DEF Keys
<1> DEFINE i == CHOOSE j1 \in DOMAIN obj : obj[j1].key = k
<1>2. i \in DOMAIN obj
  BY <1>1
<1> HIDE DEF i
<1>3. obj[i] \in [key : K, val : V]
  BY <1>2, LenProperties, ElementOfSeq DEF Pairs
<1>4. obj[i].val \in V
  BY <1>3
<1> QED
  BY <1>4 DEF ValueOf, i

\* A contract is put into the part of a source file.
LEMMA PutInType ==
    ASSUME NEW obj \in Object, NEW file \in SourceFiles, NEW k \in Names, NEW v \in Form
    PROVE  PutIn(obj, file, k, v) \in Object
<1> DEFINE part == IF file \in Keys(obj) THEN ValueOf(obj, file) ELSE <<>>
<1>1. part \in Part
  <2>1. <<>> \in Part
    BY EmptySeq DEF Part, Pairs
  <2>2. file \in Keys(obj) => ValueOf(obj, file) \in Part
    BY ValueType DEF Object
  <2> QED
    BY <2>1, <2>2
<1> HIDE DEF part
<1>2. Put(part, k, v) \in Part
  BY <1>1, PutType DEF Part
<1>3. Put(obj, file, Put(part, k, v)) \in Object
  BY <1>2, PutType DEF Object
<1> QED
  BY <1>3 DEF PutIn, part

\* A contract with `deploy`, and one that is imported.
LEMMA PutCompiledType ==
    ASSUME NEW obj \in Object, NEW file \in SourceFiles, NEW c \in Contracts
    PROVE  PutCompiled(obj, file, c) \in Object
<1>1. Key(c) \in Names
  BY DEF Key, Contracts
<1>2. DeployedAs(c) \in Form
  BY DEF DeployedAs, Form, Contracts
<1> QED
  BY <1>1, <1>2, PutInType DEF PutCompiled

LEMMA PutImportedType ==
    ASSUME NEW obj \in Object, NEW c \in [file : SourceFiles, name : Names]
    PROVE  PutImported(obj, c) \in Object
<1>1. ImportedAs(c) \in Form
  BY DEF ImportedAs, Form
<1> QED
  BY <1>1, PutInType DEF PutImported

\* The pairs of an object.
LEMMA PairOf ==
    ASSUME NEW K, NEW V, NEW obj \in Pairs(K, V)
    PROVE  Len(obj) \in Nat /\ \A n \in 1 .. Len(obj) : obj[n].key \in K /\ obj[n].val \in V
<1>1. Len(obj) \in Nat /\ \A n \in 1 .. Len(obj) : obj[n] \in [key : K, val : V]
  BY LenProperties, ElementOfSeq DEF Pairs
<1> QED
  BY <1>1

\* The entries so far and those of one more source file.
Joined(entries, part) == entries \o part

LEMMA JoinedType == \A entries, part \in Part : Joined(entries, part) \in Part
BY ConcatProperties DEF Joined, Part, Pairs

\* Nothing yet.
LEMMA NothingType == <<>> \in Object /\ <<>> \in Part
BY EmptySeq DEF Object, Part, Pairs

\* The contracts of a source file, one after the other.
LEMMA PutAllType ==
    ASSUME NEW obj \in Object, NEW file \in SourceFiles, NEW contracts \in Seq(Contracts)
    PROVE  PutAll(obj, file, contracts) \in Object
<1> DEFINE k == Len(contracts)
           step == [n \in 1 .. k |-> [x \in Object |-> PutCompiled(x, file, contracts[n])]]
           Is(h) == h = [n \in 0 .. k |-> IF n = 0 THEN obj ELSE PutCompiled(h[n - 1], file, contracts[n])]
           at == CHOOSE h : Is(h)
<1>1. k \in Nat /\ \A n \in 1 .. k : contracts[n] \in Contracts
  BY LenProperties, ElementOfSeq
<1>2. obj \in Object /\ \A n \in 1 .. k : \A x \in Object : PutCompiled(x, file, contracts[n]) \in Object
  BY <1>1, PutCompiledType
<1>3. step \in [1 .. k -> [Object -> Object]]
  BY <1>2
<1>4. PICK run \in [0 .. k -> Object] :
           run[0] = obj /\ \A n \in 1 .. k : run[n] = step[n][run[n - 1]]
  <2> HIDE DEF step, k
  <2>1. Runs(Object, obj, step, k) # {}
    BY <1>1, <1>2, <1>3, RunExists
  <2> QED
    BY <2>1 DEF Runs
<1>5. \A n \in 1 .. k : run[n] = PutCompiled(run[n - 1], file, contracts[n])
  <2> SUFFICES ASSUME NEW n \in 1 .. k PROVE run[n] = PutCompiled(run[n - 1], file, contracts[n])
    OBVIOUS
  <2>1. run[n - 1] \in Object
    BY <1>1, <1>4
  <2>2. step[n][run[n - 1]] = PutCompiled(run[n - 1], file, contracts[n])
    BY <2>1
  <2> HIDE DEF step
  <2> QED
    BY <1>4, <2>2
<1>6. Is(run)
  <2> HIDE DEF step, k
  <2>1. \A n \in 0 .. k : run[n] = IF n = 0 THEN obj ELSE PutCompiled(run[n - 1], file, contracts[n])
    BY <1>1, <1>4, <1>5
  <2> QED
    BY <1>4, <2>1
<1>7. Is(at)
  <2> HIDE DEF Is
  <2> QED
    BY <1>6, Zenon
<1>8. at[k] \in Object
  <2> DEFINE Good == {n \in 0 .. k : at[n] \in Object}
  <2>1. at[0] = obj /\ \A n \in 1 .. k : at[n] = PutCompiled(at[n - 1], file, contracts[n])
    <3> HIDE DEF at, k
    <3> QED
      BY <1>1, <1>7
  <2> HIDE DEF at, step, k
  <2>2. 0 \in Good
    BY <1>1, <1>2, <2>1
  <2>3. \A n \in 1 .. k : n - 1 \in Good => n \in Good
    BY <1>1, <1>2, <2>1
  <2> HIDE DEF Good
  <2>4. k \in Nat
    BY <1>1
  <2>5. \A n \in 0 .. k : n \in Good
    BY ONLY <2>2, <2>3, <2>4, NumbersUpTo
  <2> QED
    BY <2>4, <2>5 DEF Good
<1>9. PutAll(obj, file, contracts) = at[k]
  BY DEF PutAll
<1> QED
  BY <1>8, <1>9

\* The source files of a package.
LEMMA CompilingType ==
    ASSUME NEW package \in Packages
    PROVE  Compiling(package) \in Object
<1> DEFINE k == Len(package.sources)
           step == [n \in 1 .. k |-> [x \in Object |-> PutAll(x, package.sources[n], package.contracts)]]
           Is(h) == h = [n \in 0 .. k |-> IF n = 0 THEN <<>> ELSE PutAll(h[n - 1], package.sources[n], package.contracts)]
           at == CHOOSE h : Is(h)
<1>1. k \in Nat /\ \A n \in 1 .. k : package.sources[n] \in SourceFiles /\ package.contracts \in Seq(Contracts)
  BY LenProperties, ElementOfSeq DEF Packages
<1>2. <<>> \in Object /\ \A n \in 1 .. k : \A x \in Object : PutAll(x, package.sources[n], package.contracts) \in Object
  BY <1>1, NothingType, PutAllType
<1>3. step \in [1 .. k -> [Object -> Object]]
  BY <1>2
<1>4. PICK run \in [0 .. k -> Object] :
           run[0] = <<>> /\ \A n \in 1 .. k : run[n] = step[n][run[n - 1]]
  <2> HIDE DEF step, k
  <2>1. Runs(Object, <<>>, step, k) # {}
    BY <1>1, <1>2, <1>3, RunExists
  <2> QED
    BY <2>1 DEF Runs
<1>5. \A n \in 1 .. k : run[n] = PutAll(run[n - 1], package.sources[n], package.contracts)
  <2> SUFFICES ASSUME NEW n \in 1 .. k PROVE run[n] = PutAll(run[n - 1], package.sources[n], package.contracts)
    OBVIOUS
  <2>1. run[n - 1] \in Object
    BY <1>1, <1>4
  <2>2. step[n][run[n - 1]] = PutAll(run[n - 1], package.sources[n], package.contracts)
    BY <2>1
  <2> HIDE DEF step
  <2> QED
    BY <1>4, <2>2
<1>6. Is(run)
  <2> HIDE DEF step, k
  <2>1. \A n \in 0 .. k : run[n] = IF n = 0 THEN <<>> ELSE PutAll(run[n - 1], package.sources[n], package.contracts)
    BY <1>1, <1>4, <1>5
  <2> QED
    BY <1>4, <2>1
<1>7. Is(at)
  <2> HIDE DEF Is
  <2> QED
    BY <1>6, Zenon
<1>8. at[k] \in Object
  <2> DEFINE Good == {n \in 0 .. k : at[n] \in Object}
  <2>1. at[0] = <<>> /\ \A n \in 1 .. k : at[n] = PutAll(at[n - 1], package.sources[n], package.contracts)
    <3> HIDE DEF at, k
    <3> QED
      BY <1>1, <1>7
  <2> HIDE DEF at, step, k
  <2>2. 0 \in Good
    BY <1>1, <1>2, <2>1
  <2>3. \A n \in 1 .. k : n - 1 \in Good => n \in Good
    BY <1>1, <1>2, <2>1
  <2> HIDE DEF Good
  <2>4. k \in Nat
    BY <1>1
  <2>5. \A n \in 0 .. k : n \in Good
    BY ONLY <2>2, <2>3, <2>4, NumbersUpTo
  <2> QED
    BY <2>4, <2>5 DEF Good
<1>9. Compiling(package) = at[k]
  BY DEF Compiling
<1> QED
  BY <1>8, <1>9

\* What a package imports.
LEMMA ImportingType ==
    ASSUME NEW package \in Packages, NEW compiled \in Object
    PROVE  Importing(package, compiled) \in Object
<1> DEFINE k == Len(package.imports)
           step == [n \in 1 .. k |-> [x \in Object |-> PutImported(x, package.imports[n])]]
           Is(h) == h = [n \in 0 .. k |-> IF n = 0 THEN compiled ELSE PutImported(h[n - 1], package.imports[n])]
           at == CHOOSE h : Is(h)
<1>1. k \in Nat /\ \A n \in 1 .. k : package.imports[n] \in [file : SourceFiles, name : Names]
  BY LenProperties, ElementOfSeq DEF Packages
<1>2. compiled \in Object /\ \A n \in 1 .. k : \A x \in Object : PutImported(x, package.imports[n]) \in Object
  BY <1>1, PutImportedType
<1>3. step \in [1 .. k -> [Object -> Object]]
  BY <1>2
<1>4. PICK run \in [0 .. k -> Object] :
           run[0] = compiled /\ \A n \in 1 .. k : run[n] = step[n][run[n - 1]]
  <2> HIDE DEF step, k
  <2>1. Runs(Object, compiled, step, k) # {}
    BY <1>1, <1>2, <1>3, RunExists
  <2> QED
    BY <2>1 DEF Runs
<1>5. \A n \in 1 .. k : run[n] = PutImported(run[n - 1], package.imports[n])
  <2> SUFFICES ASSUME NEW n \in 1 .. k PROVE run[n] = PutImported(run[n - 1], package.imports[n])
    OBVIOUS
  <2>1. run[n - 1] \in Object
    BY <1>1, <1>4
  <2>2. step[n][run[n - 1]] = PutImported(run[n - 1], package.imports[n])
    BY <2>1
  <2> HIDE DEF step
  <2> QED
    BY <1>4, <2>2
<1>6. Is(run)
  <2> HIDE DEF step, k
  <2>1. \A n \in 0 .. k : run[n] = IF n = 0 THEN compiled ELSE PutImported(run[n - 1], package.imports[n])
    BY <1>1, <1>4, <1>5
  <2> QED
    BY <1>4, <2>1
<1>7. Is(at)
  <2> HIDE DEF Is
  <2> QED
    BY <1>6, Zenon
<1>8. at[k] \in Object
  <2> DEFINE Good == {n \in 0 .. k : at[n] \in Object}
  <2>1. at[0] = compiled /\ \A n \in 1 .. k : at[n] = PutImported(at[n - 1], package.imports[n])
    <3> HIDE DEF at, k
    <3> QED
      BY <1>1, <1>7
  <2> HIDE DEF at, step, k
  <2>2. 0 \in Good
    BY <1>1, <1>2, <2>1
  <2>3. \A n \in 1 .. k : n - 1 \in Good => n \in Good
    BY <1>1, <1>2, <2>1
  <2> HIDE DEF Good
  <2>4. k \in Nat
    BY <1>1
  <2>5. \A n \in 0 .. k : n \in Good
    BY ONLY <2>2, <2>3, <2>4, NumbersUpTo
  <2> QED
    BY <2>4, <2>5 DEF Good
<1>9. Importing(package, compiled) = at[k]
  BY DEF Importing
<1> QED
  BY <1>8, <1>9

\* The entries of one object over those of another.
LEMMA SpreadType ==
    ASSUME NEW obj \in Object, NEW more \in Object
    PROVE  Spread(obj, more) \in Object
<1> DEFINE k == Len(more)
           step == [n \in 1 .. k |-> [x \in Object |-> Put(x, more[n].key, more[n].val)]]
           Is(h) == h = [n \in 0 .. k |-> IF n = 0 THEN obj ELSE Put(h[n - 1], more[n].key, more[n].val)]
           at == CHOOSE h : Is(h)
<1>1. k \in Nat /\ \A n \in 1 .. k : more[n].key \in SourceFiles /\ more[n].val \in Part
  BY PairOf DEF Object
<1>2. obj \in Object /\ \A n \in 1 .. k : \A x \in Object : Put(x, more[n].key, more[n].val) \in Object
  BY <1>1, PutType DEF Object
<1>3. step \in [1 .. k -> [Object -> Object]]
  BY <1>2
<1>4. PICK run \in [0 .. k -> Object] :
           run[0] = obj /\ \A n \in 1 .. k : run[n] = step[n][run[n - 1]]
  <2> HIDE DEF step, k
  <2>1. Runs(Object, obj, step, k) # {}
    BY <1>1, <1>2, <1>3, RunExists
  <2> QED
    BY <2>1 DEF Runs
<1>5. \A n \in 1 .. k : run[n] = Put(run[n - 1], more[n].key, more[n].val)
  <2> SUFFICES ASSUME NEW n \in 1 .. k PROVE run[n] = Put(run[n - 1], more[n].key, more[n].val)
    OBVIOUS
  <2>1. run[n - 1] \in Object
    BY <1>1, <1>4
  <2>2. step[n][run[n - 1]] = Put(run[n - 1], more[n].key, more[n].val)
    BY <2>1
  <2> HIDE DEF step
  <2> QED
    BY <1>4, <2>2
<1>6. Is(run)
  <2> HIDE DEF step, k
  <2>1. \A n \in 0 .. k : run[n] = IF n = 0 THEN obj ELSE Put(run[n - 1], more[n].key, more[n].val)
    BY <1>1, <1>4, <1>5
  <2> QED
    BY <1>4, <2>1
<1>7. Is(at)
  <2> HIDE DEF Is
  <2> QED
    BY <1>6, Zenon
<1>8. at[k] \in Object
  <2> DEFINE Good == {n \in 0 .. k : at[n] \in Object}
  <2>1. at[0] = obj /\ \A n \in 1 .. k : at[n] = Put(at[n - 1], more[n].key, more[n].val)
    <3> HIDE DEF at, k
    <3> QED
      BY <1>1, <1>7
  <2> HIDE DEF at, step, k
  <2>2. 0 \in Good
    BY <1>1, <1>2, <2>1
  <2>3. \A n \in 1 .. k : n - 1 \in Good => n \in Good
    BY <1>1, <1>2, <2>1
  <2> HIDE DEF Good
  <2>4. k \in Nat
    BY <1>1
  <2>5. \A n \in 0 .. k : n \in Good
    BY ONLY <2>2, <2>3, <2>4, NumbersUpTo
  <2> QED
    BY <2>4, <2>5 DEF Good
<1>9. Spread(obj, more) = at[k]
  BY DEF Spread
<1> QED
  BY <1>8, <1>9

\* One more package.
LEMMA WithPackageType ==
    ASSUME NEW output \in Object, NEW package \in Packages
    PROVE  WithPackage(output, package) \in Object
<1>1. Importing(package, Compiling(package)) \in Object
  BY CompilingType, ImportingType
<1> QED
  BY <1>1, SpreadType DEF WithPackage

\* The packages of a compose file.
LEMMA ManifestType ==
    ASSUME NEW f \in Files
    PROVE  ManifestOf(f) \in Object
<1> DEFINE k == Len(ComposeFiles[f].packages)
           step == [n \in 1 .. k |-> [x \in Object |-> WithPackage(x, ComposeFiles[f].packages[n])]]
           Is(h) == h = [n \in 0 .. k |-> IF n = 0 THEN <<>> ELSE WithPackage(h[n - 1], ComposeFiles[f].packages[n])]
           at == CHOOSE h : Is(h)
<1>1. k \in Nat /\ \A n \in 1 .. k : ComposeFiles[f].packages[n] \in Packages
  BY ComposeAssumption, LenProperties, ElementOfSeq
<1>2. <<>> \in Object /\ \A n \in 1 .. k : \A x \in Object : WithPackage(x, ComposeFiles[f].packages[n]) \in Object
  BY <1>1, NothingType, WithPackageType
<1>3. step \in [1 .. k -> [Object -> Object]]
  BY <1>2
<1>4. PICK run \in [0 .. k -> Object] :
           run[0] = <<>> /\ \A n \in 1 .. k : run[n] = step[n][run[n - 1]]
  <2> HIDE DEF step, k
  <2>1. Runs(Object, <<>>, step, k) # {}
    BY <1>1, <1>2, <1>3, RunExists
  <2> QED
    BY <2>1 DEF Runs
<1>5. \A n \in 1 .. k : run[n] = WithPackage(run[n - 1], ComposeFiles[f].packages[n])
  <2> SUFFICES ASSUME NEW n \in 1 .. k PROVE run[n] = WithPackage(run[n - 1], ComposeFiles[f].packages[n])
    OBVIOUS
  <2>1. run[n - 1] \in Object
    BY <1>1, <1>4
  <2>2. step[n][run[n - 1]] = WithPackage(run[n - 1], ComposeFiles[f].packages[n])
    BY <2>1
  <2> HIDE DEF step
  <2> QED
    BY <1>4, <2>2
<1>6. Is(run)
  <2> HIDE DEF step, k
  <2>1. \A n \in 0 .. k : run[n] = IF n = 0 THEN <<>> ELSE WithPackage(run[n - 1], ComposeFiles[f].packages[n])
    BY <1>1, <1>4, <1>5
  <2> QED
    BY <1>4, <2>1
<1>7. Is(at)
  <2> HIDE DEF Is
  <2> QED
    BY <1>6, Zenon
<1>8. at[k] \in Object
  <2> DEFINE Good == {n \in 0 .. k : at[n] \in Object}
  <2>1. at[0] = <<>> /\ \A n \in 1 .. k : at[n] = WithPackage(at[n - 1], ComposeFiles[f].packages[n])
    <3> HIDE DEF at, k
    <3> QED
      BY <1>1, <1>7
  <2> HIDE DEF at, step, k
  <2>2. 0 \in Good
    BY <1>1, <1>2, <2>1
  <2>3. \A n \in 1 .. k : n - 1 \in Good => n \in Good
    BY <1>1, <1>2, <2>1
  <2> HIDE DEF Good
  <2>4. k \in Nat
    BY <1>1
  <2>5. \A n \in 0 .. k : n \in Good
    BY ONLY <2>2, <2>3, <2>4, NumbersUpTo
  <2> QED
    BY <2>4, <2>5 DEF Good
<1>9. ManifestOf(f) = at[k]
  BY DEF ManifestOf
<1> QED
  BY <1>8, <1>9

\* The entries of an object, one source file after the other.
LEMMA EntriesType ==
    ASSUME NEW obj \in Object
    PROVE  Entries(obj) \in Part
<1> DEFINE k == Len(obj)
           step == [n \in 1 .. k |-> [x \in Part |-> Joined(x, obj[n].val)]]
           Is(h) == h = [n \in 0 .. k |-> IF n = 0 THEN <<>> ELSE Joined(h[n - 1], obj[n].val)]
           at == CHOOSE h : Is(h)
<1>1. k \in Nat /\ \A n \in 1 .. k : obj[n].val \in Part
  BY PairOf DEF Object
<1>2. <<>> \in Part /\ \A n \in 1 .. k : \A x \in Part : Joined(x, obj[n].val) \in Part
  BY <1>1, NothingType, JoinedType
<1>3. step \in [1 .. k -> [Part -> Part]]
  BY <1>2
<1>4. PICK run \in [0 .. k -> Part] :
           run[0] = <<>> /\ \A n \in 1 .. k : run[n] = step[n][run[n - 1]]
  <2> HIDE DEF step, k
  <2>1. Runs(Part, <<>>, step, k) # {}
    BY <1>1, <1>2, <1>3, RunExists
  <2> QED
    BY <2>1 DEF Runs
<1>5. \A n \in 1 .. k : run[n] = Joined(run[n - 1], obj[n].val)
  <2> SUFFICES ASSUME NEW n \in 1 .. k PROVE run[n] = Joined(run[n - 1], obj[n].val)
    OBVIOUS
  <2>1. run[n - 1] \in Part
    BY <1>1, <1>4
  <2>2. step[n][run[n - 1]] = Joined(run[n - 1], obj[n].val)
    BY <2>1
  <2> HIDE DEF step
  <2> QED
    BY <1>4, <2>2
<1>6. Is(run)
  <2> HIDE DEF step, k
  <2>1. \A n \in 0 .. k : run[n] = IF n = 0 THEN <<>> ELSE Joined(run[n - 1], obj[n].val)
    BY <1>1, <1>4, <1>5
  <2> QED
    BY <1>4, <2>1
<1>7. Is(at)
  <2> HIDE DEF Is
  <2> QED
    BY <1>6, Zenon
<1>8. at[k] \in Part
  <2> DEFINE Good == {n \in 0 .. k : at[n] \in Part}
  <2>1. at[0] = <<>> /\ \A n \in 1 .. k : at[n] = Joined(at[n - 1], obj[n].val)
    <3> HIDE DEF at, k
    <3> QED
      BY <1>1, <1>7
  <2> HIDE DEF at, step, k
  <2>2. 0 \in Good
    BY <1>1, <1>2, <2>1
  <2>3. \A n \in 1 .. k : n - 1 \in Good => n \in Good
    BY <1>1, <1>2, <2>1
  <2> HIDE DEF Good
  <2>4. k \in Nat
    BY <1>1
  <2>5. \A n \in 0 .. k : n \in Good
    BY ONLY <2>2, <2>3, <2>4, NumbersUpTo
  <2> QED
    BY <2>4, <2>5 DEF Good
<1>9. Entries(obj) = at[k]
  BY DEF Entries, Joined
<1> QED
  BY <1>8, <1>9
-----------------------------------------------------------------------------
(***************************************************************************)
(* What a deployment keeps, and the addresses.                             *)
(***************************************************************************)
\* What the entries of manifests are.
LEMMA Items ==
    /\ \A f \in Files : Entries(Manifests[f]) \in Seq(Item)
    /\ \A e \in Item : e.val \in Entry /\ e.val.name \in Name
    /\ \A e \in Entry : e.input \in Vars \cup {None} /\ e.returns \in Vars \cup {None}
<1>1. \A f \in Files : Entries(Manifests[f]) \in Part
  BY ManifestType, EntriesType DEF Manifests
<1>2. ASSUME NEW f \in Files PROVE Entries(Manifests[f]) \in Seq(Item)
  <2> DEFINE s == Entries(Manifests[f])
  <2>1. Len(s) \in Nat /\ s \in [1 .. Len(s) -> ToSet(s)]
    <3>1. s \in Seq([key : Names, val : Form])
      BY <1>1 DEF Part, Pairs
    <3> HIDE DEF s
    <3> QED
      BY <3>1, LenProperties DEF ToSet
  <2>2. ToSet(s) \subseteq Item
    BY DEF Item
  <2> HIDE DEF s, Item
  <2>3. s \in [1 .. Len(s) -> Item]
    BY <2>1, <2>2
  <2>4. s \in Seq(Item)
    BY <2>1, <2>3, IsASeq
  <2> QED
    BY <2>4 DEF s
<1>3. \A e \in Item : e.val \in Entry
  BY DEF Item, Entry
<1>4. \A e \in Item : e.val.name \in Name
  BY <1>3 DEF Name
<1>5. ASSUME NEW e \in Entry PROVE e.input \in Vars \cup {None} /\ e.returns \in Vars \cup {None}
  <2>1. PICK f \in Files : \E i \in ToSet(Entries(Manifests[f])) : e = i.val
    BY DEF Entry
  <2>2. PICK i \in ToSet(Entries(Manifests[f])) : e = i.val
    BY <2>1
  <2>3. i \in [key : Names, val : Form]
    <3>1. Entries(Manifests[f]) \in Seq([key : Names, val : Form])
      BY <1>1 DEF Part, Pairs
    <3>2. PICK j \in DOMAIN Entries(Manifests[f]) : i = Entries(Manifests[f])[j]
      BY <2>2 DEF ToSet
    <3> QED
      BY <3>1, <3>2, LenProperties, ElementOfSeq
  <2> QED
    BY <2>2, <2>3 DEF Form
<1> QED
  BY <1>2, <1>3, <1>4, <1>5

\* The next contract to create is the first that is left.
LEMMA FirstLeft ==
    ASSUME NEW l \in Lines, local[l].left \in Seq(Item), ToDeploy(l) # {}
    PROVE  /\ NextOne(l) \in ToDeploy(l) /\ NextOne(l) \in 1 .. Len(local[l].left)
           /\ \A j \in ToDeploy(l) : NextOne(l) <= j
<1>1. ToDeploy(l) \subseteq 1 .. Len(local[l].left)
  BY DEF ToDeploy
<1>2. \E i \in ToDeploy(l) : \A j \in ToDeploy(l) : i <= j
  <2>1. ToDeploy(l) \subseteq Nat
    BY <1>1
  <2> QED
    BY <2>1, Least
<1> QED
  BY <1>1, <1>2 DEF NextOne

\* The names of entries are names.
LEMMA NamesAreNames ==
    ASSUME NEW s \in Seq(Item)
    PROVE  NamesOf(s) \subseteq Name
BY Items DEF NamesOf

\* A line that goes on: the other lines keep what they kept.
LEMMA AwaitKeeps ==
    ASSUME AddressInv, NEW l \in Lines, NEW stage, NEW data, Await(l, stage, data),
           stage \in Entered \cup {"wallet"}, UNCHANGED mined
    PROVE  /\ LineType' /\ \A k \in Lines \ {l} : LineInv(k)'
           /\ pc'[l] = stage /\ local'[l] = data /\ cmd'[l] = cmd[l]
<1>1. LineType' /\ pc'[l] = stage /\ local'[l] = data /\ cmd'[l] = cmd[l]
  BY DEF AddressInv, LineType, Await
<1>2. \A k \in Lines \ {l} : pc'[k] = pc[k] /\ cmd'[k] = cmd[k] /\ local'[k] = local[k] /\ LineInv(k)
  BY DEF AddressInv, LineType, Await
<1>3. \A k \in Lines \ {l} : LineInv(k)'
  BY <1>2 DEF LineInv, HasReceipt
<1> QED
  BY <1>1, <1>3

\* A line that ends.
LEMMA FinishKeeps ==
    ASSUME AddressInv, NEW l \in Lines, Finish(l), UNCHANGED mined
    PROVE  LineType' /\ (\A k \in Lines : LineInv(k)') /\ pc'[l] = "idle"
<1>1. LineType' /\ pc'[l] = "idle"
  BY DEF AddressInv, LineType, Finish
<1>2. \A k \in Lines \ {l} : pc'[k] = pc[k] /\ cmd'[k] = cmd[k] /\ local'[k] = local[k] /\ LineInv(k)
  BY DEF AddressInv, LineType, Finish
<1>3. \A k \in Lines \ {l} : LineInv(k)'
  BY <1>2 DEF LineInv, HasReceipt
<1>4. LineInv(l)'
  BY <1>1 DEF LineInv, Entered, Working
<1> QED
  BY <1>1, <1>3, <1>4

\* What belongs to no line.
Settled == FileType /\ MemoryType /\ NodeType /\ \A v \in Vars : Own(v)

LEMMA SettledKeeps ==
    ASSUME AddressInv, UNCHANGED <<fileVars, memoryVars, nodeVars>>
    PROVE  Settled'
BY DEF AddressInv, Settled, FileType, MemoryType, NodeType, Own, Stands, fileVars, memoryVars, nodeVars

LEMMA AddressInit == Init => AddressInv
<1> SUFFICES ASSUME Init PROVE AddressInv
  OBVIOUS
<1>1. FileType /\ MemoryType /\ (\A v \in Vars : Own(v))
  BY DEF Init, FileType, MemoryType, Own
<1>2. NodeType
  BY DeployAssumption DEF Init, NodeType
<1>3. LineType
  BY DeployAssumption DEF Init, LineType
<1>4. \A l \in Lines : LineInv(l)
  BY DEF Init, LineInv, Entered, Working
<1> QED
  BY <1>1, <1>2, <1>3, <1>4 DEF AddressInv

\* A line is typed.
LEMMA TypeKeeps ==
    ASSUME AddressInv, NEW l \in Lines, Type(l)
    PROVE  AddressInv' /\ pc'[l] = "ready"
<1>1. Settled'
  BY SettledKeeps DEF Type
<1>2. LineType' /\ pc'[l] = "ready" /\ cmd'[l] \in Commands
  BY DeployAssumption DEF AddressInv, LineType, Type
<1>3. \A k \in Lines \ {l} : pc'[k] = pc[k] /\ cmd'[k] = cmd[k] /\ local'[k] = local[k] /\ LineInv(k)
  BY DEF AddressInv, LineType, Type
<1>4. mined' = mined
  BY DEF Type, nodeVars
<1>5. \A k \in Lines \ {l} : LineInv(k)'
  BY <1>3, <1>4 DEF LineInv, HasReceipt
<1>6. LineInv(l)'
  BY <1>2 DEF LineInv, Entered, Working
<1> QED
  BY <1>1, <1>2, <1>5, <1>6 DEF AddressInv, Settled

\* The commands that are over at once.
LEMMA OtherCommandsKeep ==
    ASSUME AddressInv, NEW l \in Lines, SetCollection(l) \/ Compose(l) \/ Import(l)
    PROVE  AddressInv' /\ pc'[l] = "idle"
<1>1. mined' = mined /\ Finish(l)
  BY DEF SetCollection, Compose, Import, nodeVars
<1>2. LineType' /\ (\A k \in Lines : LineInv(k)') /\ pc'[l] = "idle"
  BY <1>1, FinishKeeps
<1>3. cmd[l] \in Commands /\ pc[l] = "ready"
  BY DEF AddressInv, LineInv, SetCollection, Compose, Import, Starts
<1>4. NodeType' /\ (\A v \in Vars : Own(v)')
  BY DEF AddressInv, NodeType, Own, Stands, SetCollection, Compose, Import, nodeVars, fileVars
<1>5. FileType'
  <2>1. CASE SetCollection(l) \/ Import(l)
    BY <2>1 DEF AddressInv, FileType, SetCollection, Import, fileVars
  <2>2. CASE Compose(l)
    <3>1. cmd[l].file \in Files /\ ComposeFiles[cmd[l].file].collection \in Collections
      BY <1>3, <2>2, DeployAssumption DEF Compose, Starts
    <3> QED
      BY <2>2, <3>1 DEF AddressInv, FileType, Compose
  <2> QED
    BY <2>1, <2>2
<1>6. MemoryType'
  <2>1. CASE SetCollection(l)
    <3>1. cmd[l].collection \in Collections
      BY <1>3, <2>1, DeployAssumption DEF SetCollection, Starts
    <3> QED
      BY <2>1, <3>1 DEF AddressInv, MemoryType, SetCollection
  <2>2. CASE Import(l)
    BY <2>2 DEF AddressInv, MemoryType, Import
  <2>3. CASE Compose(l)
    <3>1. ComposeFiles[cmd[l].file].collection \in Collections
      BY <1>3, <2>3, DeployAssumption DEF Compose, Starts
    <3> QED
      BY <2>3, <3>1 DEF AddressInv, MemoryType, Compose
  <2> QED
    BY <2>1, <2>2, <2>3
<1> QED
  BY <1>2, <1>4, <1>5, <1>6 DEF AddressInv

LEMMA StartKeeps ==
    ASSUME AddressInv, NEW l \in Lines, StartDeploy(l)
    PROVE  AddressInv' /\ pc'[l] = "wallet" /\ cmd'[l] = cmd[l]
<1>1. mined' = mined /\ Await(l, "wallet", None)
  BY DEF StartDeploy, nodeVars
<1>2. /\ LineType' /\ \A k \in Lines \ {l} : LineInv(k)'
      /\ pc'[l] = "wallet" /\ local'[l] = None /\ cmd'[l] = cmd[l]
  BY <1>1, AwaitKeeps, Zenon
<1>3. cmd[l] \in Commands /\ cmd[l].op = "deploy"
  BY DEF AddressInv, LineInv, StartDeploy, Starts
<1>4. FileType' /\ NodeType' /\ (\A v \in Vars : Own(v)')
  BY DEF AddressInv, FileType, NodeType, Own, Stands, StartDeploy, fileVars, nodeVars
<1>5. MemoryType'
  BY <1>3, DeployAssumption DEF AddressInv, MemoryType, StartDeploy
<1>6. LineInv(l)'
  BY <1>2, <1>3 DEF LineInv, Entered, Working
<1> QED
  BY <1>2, <1>4, <1>5, <1>6 DEF AddressInv

\* The manifest that is read is one of those composed.
LEMMA ManifestRead ==
    ASSUME AddressInv, NEW c \in Collections, manifest[c] # None
    PROVE  Entries(manifest[c]) \in Seq(Item)
<1>1. PICK f \in Files : manifest[c] = Manifests[f]
  BY DEF AddressInv, FileType
<1> QED
  BY <1>1, Items

LEMMA ReadKeeps ==
    ASSUME AddressInv, NEW l \in Lines, ReadManifest(l)
    PROVE  /\ AddressInv'
           /\ \/ pc'[l] = "idle"
              \/ /\ pc'[l] = "manifest" /\ cmd'[l] = cmd[l] /\ manifest[Collection(l)] # None
                 /\ local'[l] = [left |-> List(l), temp |-> {}] /\ List(l) \in Seq(Item)
<1>1. mined' = mined /\ Settled'
  BY SettledKeeps DEF ReadManifest, nodeVars
<1>2. CASE NoManifest(l)
  <2>1. Finish(l)
    BY <1>2 DEF ReadManifest
  <2> QED
    BY <1>1, <2>1, FinishKeeps DEF AddressInv, Settled
<1>3. CASE ~NoManifest(l)
  <2>1. Await(l, "manifest", [left |-> List(l), temp |-> {}])
    BY <1>3 DEF ReadManifest, List, Collection
  <2>2. /\ LineType' /\ \A k \in Lines \ {l} : LineInv(k)'
        /\ pc'[l] = "manifest" /\ local'[l] = [left |-> List(l), temp |-> {}] /\ cmd'[l] = cmd[l]
    <3> DEFINE data == [left |-> List(l), temp |-> {}]
    <3>1. Await(l, "manifest", data) /\ "manifest" \in Entered \cup {"wallet"}
      BY <2>1 DEF Entered
    <3> HIDE DEF data
    <3>2. /\ LineType' /\ \A k \in Lines \ {l} : LineInv(k)'
          /\ pc'[l] = "manifest" /\ local'[l] = data /\ cmd'[l] = cmd[l]
      BY <1>1, <3>1, AwaitKeeps, Zenon
    <3> QED
      BY <3>2 DEF data
  <2>3. cmd[l] \in Commands /\ cmd[l].op = "deploy"
    BY DEF AddressInv, LineInv, ReadManifest
  <2>4. Collection(l) \in Collections /\ manifest[Collection(l)] # None
    BY <1>3, <2>3, DeployAssumption DEF Collection, NoManifest
  <2>5. List(l) \in Seq(Item)
    BY <2>4, ManifestRead DEF List
  <2>6. LineInv(l)'
    <3>1. local'[l] \in [left : Seq(Item), temp : SUBSET Name]
      BY <2>2, <2>5
    <3> QED
      BY <2>2, <2>3, <3>1 DEF LineInv, Entered, Working
  <2> QED
    BY <1>1, <2>2, <2>4, <2>5, <2>6 DEF AddressInv, Settled
<1> QED
  BY <1>2, <1>3

\* On to the next contract.
LEMMA AskNonceKeeps ==
    ASSUME AddressInv, NEW l \in Lines, AskNonce(l)
    PROVE  /\ AddressInv'
           /\ \/ pc'[l] = "idle"
              \/ /\ pc'[l] = "estimate" /\ cmd'[l] = cmd[l] /\ local[l].left \in Seq(Item)
                 /\ local'[l].left = SubSeq(local[l].left, NextOne(l) + 1, Len(local[l].left))
                 /\ local'[l].temp = local[l].temp \cup NamesOf(SubSeq(local[l].left, 1, NextOne(l) - 1))
                 /\ local'[l].tx.entry = local[l].left[NextOne(l)].val
                 /\ LET input == local[l].left[NextOne(l)].val.input
                    IN  local'[l].tx.arg = IF input = None THEN None ELSE varStore[input]
<1>1. mined' = mined /\ Settled'
  BY SettledKeeps DEF AskNonce, nodeVars
<1>2. /\ InLoop(l) /\ ToDeploy(l) # {} /\ pc[l] \in {"manifest", "sleep"}
      /\ local[l].left \in Seq(Item) /\ local[l].temp \in SUBSET Name
      /\ cmd[l] \in Commands /\ cmd[l].op = "deploy"
  BY DEF AskNonce, InLoop, AddressInv, LineInv, Entered, Kept
<1>3. PICK left : left = local[l].left
  OBVIOUS
<1>4. PICK i : i = NextOne(l)
  OBVIOUS
<1>5. i \in 1 .. Len(left) /\ left \in Seq(Item)
  BY <1>2, <1>3, <1>4, FirstLeft
<1>6. PICK e : e = left[i].val
  OBVIOUS
<1>7. e \in Entry /\ e.input \in Vars \cup {None}
  <2>1. left[i] \in Item
    BY <1>5
  <2> QED
    BY <1>6, <2>1, Items
<1>8. PICK arg : arg = IF e.input = None THEN None ELSE varStore[e.input]
  OBVIOUS
<1>9. arg \in Address \cup {None}
  BY <1>7, <1>8 DEF AddressInv, MemoryType
<1>10. IF e.input # None /\ arg = None THEN Finish(l)
       ELSE \E n \in {Len(mined), 0} :
              Await(l, "estimate",
                    [left |-> SubSeq(left, i + 1, Len(left)), tries |-> 0,
                     temp |-> local[l].temp \cup NamesOf(SubSeq(left, 1, i - 1)),
                     tx |-> [nonce |-> n, entry |-> e, arg |-> arg]])
  BY <1>3, <1>4, <1>6, <1>8 DEF AskNonce
<1>11. CASE e.input # None /\ arg = None
  <2>1. Finish(l)
    BY <1>10, <1>11
  <2> QED
    BY <1>1, <2>1, FinishKeeps DEF AddressInv, Settled
<1>12. CASE ~(e.input # None /\ arg = None)
  <2>1. PICK n \in {Len(mined), 0} :
              Await(l, "estimate",
                    [left |-> SubSeq(left, i + 1, Len(left)), tries |-> 0,
                     temp |-> local[l].temp \cup NamesOf(SubSeq(left, 1, i - 1)),
                     tx |-> [nonce |-> n, entry |-> e, arg |-> arg]])
    BY <1>10, <1>12
  <2>2. n \in Nat
    BY LenProperties DEF AddressInv, NodeType
  <2>3. PICK data : data = [left |-> SubSeq(left, i + 1, Len(left)), tries |-> 0,
                            temp |-> local[l].temp \cup NamesOf(SubSeq(left, 1, i - 1)),
                            tx |-> [nonce |-> n, entry |-> e, arg |-> arg]]
    OBVIOUS
  <2>4. Await(l, "estimate", data) /\ "estimate" \in Entered \cup {"wallet"}
    BY <2>1, <2>3 DEF Entered, Working
  <2>5. /\ LineType' /\ \A k \in Lines \ {l} : LineInv(k)'
        /\ pc'[l] = "estimate" /\ local'[l] = data /\ cmd'[l] = cmd[l]
    BY <1>1, <2>4, AwaitKeeps, Zenon
  <2>6. data \in Kept(Request)
    <3>1. SubSeq(left, i + 1, Len(left)) \in Seq(Item) /\ SubSeq(left, 1, i - 1) \in Seq(Item)
      <4>1. 1 .. Len(left) = DOMAIN left
        BY <1>5
      <4>2. \A m, n1 \in Nat : m >= 1 /\ n1 <= Len(left) => SubSeq(left, m, n1) \in Seq(Item)
        BY <1>5, <4>1
      <4> QED
        BY <1>5, <4>2
    <3>2. local[l].temp \cup NamesOf(SubSeq(left, 1, i - 1)) \in SUBSET Name
      BY <1>2, <3>1, NamesAreNames
    <3>3. [nonce |-> n, entry |-> e, arg |-> arg] \in Request
      BY <1>7, <1>9, <2>2 DEF Request
    <3> QED
      BY <2>3, <3>1, <3>2, <3>3 DEF Kept
  <2>7. LineInv(l)'
    BY <1>2, <2>5, <2>6 DEF LineInv, Entered, Working
  <2>8. AddressInv'
    BY <1>1, <2>5, <2>7 DEF AddressInv, Settled
  <2>9. /\ data.left = SubSeq(left, i + 1, Len(left))
        /\ data.temp = local[l].temp \cup NamesOf(SubSeq(left, 1, i - 1))
        /\ data.tx.entry = e /\ data.tx.arg = arg
    BY <2>3
  <2>10. arg = IF left[i].val.input = None THEN None ELSE varStore[left[i].val.input]
    BY <1>6, <1>8
  <2> QED
    BY <1>2, <1>3, <1>4, <1>6, <2>5, <2>8, <2>9, <2>10, Zenon
<1> QED
  BY <1>11, <1>12

LEMMA RequestFailsKeeps ==
    ASSUME AddressInv, NEW l \in Lines, RequestFails(l)
    PROVE  AddressInv' /\ pc'[l] = "idle"
<1>1. mined' = mined /\ Settled' /\ Finish(l)
  BY SettledKeeps DEF RequestFails, nodeVars
<1> QED
  BY <1>1, FinishKeeps DEF AddressInv, Settled

\* A receipt is found by the transaction itself, and what is mined stays.
LEMMA MinedStays ==
    ASSUME AddressInv, NEW t \in Transaction \cup {None}, mined' = Append(mined, t)
    PROVE  /\ mined' \in Seq(Transaction \cup {None}) /\ Len(mined') = Len(mined) + 1
           /\ \A n \in Nat : n < Len(mined) => n < Len(mined') /\ mined'[n + 1] = mined[n + 1]
           /\ mined'[Len(mined) + 1] = t
<1>1. mined \in Seq(Transaction \cup {None})
  BY DEF AddressInv, NodeType
<1> QED
  BY <1>1

LEMMA SubmitKeeps ==
    ASSUME AddressInv, NEW l \in Lines, Submit(l)
    PROVE  /\ AddressInv'
           /\ \/ pc'[l] = "idle"
              \/ /\ pc'[l] = "poll" /\ cmd'[l] = cmd[l] /\ pc[l] = "estimate"
                 /\ local'[l].left = local[l].left /\ local'[l].temp = local[l].temp
                 /\ local'[l].tx.entry = local[l].tx.entry /\ local'[l].tx.arg = local[l].tx.arg
<1>1. /\ pc[l] = "estimate" /\ local[l] \in Kept(Request)
      /\ cmd[l] \in Commands /\ cmd[l].op = "deploy"
  BY DEF Submit, AddressInv, LineInv, Entered, Working
<1>2. PICK price \in Prices :
        LET r == local[l].tx
            tx == [nonce |-> r.nonce, entry |-> r.entry, arg |-> r.arg, price |-> price]
            rivals == {t \in pool : t.nonce = tx.nonce}
            known == tx.nonce < Len(mined) \/ tx \in pool
            refused == ~known /\ \E t \in rivals : t.price >= price
        IN  /\ pool' = IF known \/ refused THEN pool ELSE (pool \ rivals) \cup {tx}
            /\ IF refused THEN Finish(l)
               ELSE Await(l, "poll", [local[l] EXCEPT !.tx = tx])
  BY DEF Submit
<1>3. PICK tx : tx = [nonce |-> local[l].tx.nonce, entry |-> local[l].tx.entry,
                      arg |-> local[l].tx.arg, price |-> price]
  OBVIOUS
<1>4. PICK rivals : rivals = {t \in pool : t.nonce = tx.nonce}
  OBVIOUS
<1>5. PICK known \in BOOLEAN : known = (tx.nonce < Len(mined) \/ tx \in pool)
  OBVIOUS
<1>6. PICK refused \in BOOLEAN : refused = (~known /\ \E t \in rivals : t.price >= price)
  OBVIOUS
<1>7. PICK data : data = [local[l] EXCEPT !.tx = tx]
  OBVIOUS
<1>8. /\ pool' = IF known \/ refused THEN pool ELSE (pool \ rivals) \cup {tx}
      /\ IF refused THEN Finish(l) ELSE Await(l, "poll", data)
  BY <1>2, <1>3, <1>4, <1>5, <1>6, <1>7
<1>9. tx \in Transaction /\ tx.entry = local[l].tx.entry /\ tx.arg = local[l].tx.arg
  <2>1. PICK r \in Request : r = local[l].tx
    BY <1>1 DEF Kept
  <2>2. tx = [nonce |-> r.nonce, entry |-> r.entry, arg |-> r.arg, price |-> price]
    BY <1>3, <2>1
  <2> QED
    BY <2>1, <2>2 DEF Request, Transaction
<1>10. NodeType'
  <2>1. pool' \subseteq Transaction /\ \A t, u \in pool' : t.nonce = u.nonce => t = u
    BY <1>4, <1>8, <1>9 DEF AddressInv, NodeType
  <2> QED
    BY <2>1 DEF AddressInv, NodeType, Submit
<1>11. FileType' /\ MemoryType' /\ (\A v \in Vars : Own(v)') /\ mined' = mined
  BY DEF AddressInv, FileType, MemoryType, Own, Stands, Submit, fileVars, memoryVars
<1>12. CASE refused
  <2>1. Finish(l)
    BY <1>8, <1>12
  <2> QED
    BY <1>10, <1>11, <2>1, FinishKeeps DEF AddressInv
<1>13. CASE ~refused
  <2>1. Await(l, "poll", data) /\ "poll" \in Entered \cup {"wallet"}
    BY <1>8, <1>13 DEF Entered, Working
  <2>2. /\ LineType' /\ \A k \in Lines \ {l} : LineInv(k)'
        /\ pc'[l] = "poll" /\ local'[l] = data /\ cmd'[l] = cmd[l]
    BY <1>11, <2>1, AwaitKeeps, Zenon
  <2>3. /\ data \in Kept(Transaction) /\ data.tx = tx
        /\ data.left = local[l].left /\ data.temp = local[l].temp
    BY <1>1, <1>7, <1>9 DEF Kept
  <2>4. LineInv(l)'
    BY <1>1, <2>2, <2>3 DEF LineInv, Entered, Working
  <2>5. AddressInv'
    BY <1>10, <1>11, <2>2, <2>4 DEF AddressInv
  <2> QED
    BY <1>1, <1>9, <2>2, <2>3, <2>5, Zenon
<1> QED
  BY <1>12, <1>13

LEMMA PollKeeps ==
    ASSUME AddressInv, NEW l \in Lines, Poll(l)
    PROVE  /\ AddressInv'
           /\ \/ pc'[l] = "idle"
              \/ /\ pc'[l] \in {"poll", "receipt"} /\ cmd'[l] = cmd[l] /\ pc[l] = "poll"
                 /\ local'[l].left = local[l].left /\ local'[l].temp = local[l].temp
                 /\ local'[l].tx = local[l].tx
<1>1. mined' = mined /\ Settled'
  BY SettledKeeps DEF Poll, nodeVars
<1>2. /\ pc[l] = "poll" /\ local[l] \in Kept(Transaction)
      /\ cmd[l] \in Commands /\ cmd[l].op = "deploy"
  BY DEF Poll, AddressInv, LineInv, Entered, Working
<1>3. PICK data : data = [local[l] EXCEPT !.tries = @ + 1]
  OBVIOUS
<1>4. /\ data \in Kept(Transaction) /\ data.left = local[l].left
      /\ data.temp = local[l].temp /\ data.tx = local[l].tx
  BY <1>2, <1>3 DEF Kept
<1>5. IF HasReceipt(data.tx) THEN Await(l, "receipt", data)
      ELSE IF data.tries < MaxPolls THEN Await(l, "poll", data)
      ELSE Finish(l)
  BY <1>3 DEF Poll
<1>6. CASE Finish(l)
  BY <1>1, <1>6, FinishKeeps DEF AddressInv, Settled
<1>7. ASSUME NEW stage \in {"poll", "receipt"}, Await(l, stage, data),
             stage = "receipt" => HasReceipt(data.tx)
      PROVE  AddressInv' /\ pc'[l] = stage /\ local'[l] = data /\ cmd'[l] = cmd[l]
  <2>1. /\ LineType' /\ \A k \in Lines \ {l} : LineInv(k)'
        /\ pc'[l] = stage /\ local'[l] = data /\ cmd'[l] = cmd[l]
    <3>1. stage \in Entered \cup {"wallet"}
      BY DEF Entered, Working
    <3> QED
      BY <1>1, <1>7, <3>1, AwaitKeeps, Zenon
  <2>2. LineInv(l)'
    BY <1>1, <1>2, <1>4, <1>7, <2>1 DEF LineInv, Entered, Working, HasReceipt
  <2> QED
    BY <1>1, <2>1, <2>2 DEF AddressInv, Settled
<1>8. CASE ~Finish(l)
  <2>1. \E stage \in {"poll", "receipt"} :
           Await(l, stage, data) /\ (stage = "receipt" => HasReceipt(data.tx))
    BY <1>5, <1>8
  <2> QED
    BY <1>2, <1>4, <1>7, <2>1
<1> QED
  BY <1>6, <1>8

\* The address that is stored is the one the transaction is mined with.
LEMMA StoreKeeps ==
    ASSUME AddressInv, NEW l \in Lines, Store(l)
    PROVE  /\ AddressInv'
           /\ pc[l] = "receipt" /\ pc'[l] = "sleep" /\ cmd'[l] = cmd[l]
           /\ local[l] \in Kept(Transaction)
           /\ local'[l].left = local[l].left
           /\ local'[l].temp = local[l].temp \cup {local[l].tx.entry.name}
           /\ NothingUndone /\ \A n : n = local[l].tx.nonce => Stands(n)'
<1>1. /\ pc[l] = "receipt" /\ local[l] \in Kept(Transaction) /\ HasReceipt(local[l].tx)
      /\ cmd[l] \in Commands /\ cmd[l].op = "deploy"
  BY DEF Store, AddressInv, LineInv, Entered, Working
<1>2. PICK tx \in Transaction : tx = local[l].tx
  BY <1>1 DEF Kept
<1>3. PICK data : data = [local[l] EXCEPT !.temp = @ \cup {tx.entry.name}]
  OBVIOUS
<1>4. /\ varStore' = IF tx.entry.returns = None THEN varStore
                     ELSE [varStore EXCEPT ![tx.entry.returns] = tx.nonce]
      /\ Await(l, "sleep", data) /\ mined' = mined /\ reverted' = reverted
      /\ deployLog' = deployLog \cup ({tx.nonce} \cap reverted)
  BY <1>2, <1>3 DEF Store, nodeVars
<1>5. tx.entry.name \in Name /\ tx.nonce \in Nat
  BY DEF Transaction, Name
<1>6. /\ data \in Kept(Transaction) /\ data.left = local[l].left
      /\ data.temp = local[l].temp \cup {tx.entry.name}
  BY <1>1, <1>3, <1>5 DEF Kept
<1>7. /\ LineType' /\ \A k \in Lines \ {l} : LineInv(k)'
      /\ pc'[l] = "sleep" /\ local'[l] = data /\ cmd'[l] = cmd[l]
  <2>1. "sleep" \in Entered \cup {"wallet"}
    BY DEF Entered
  <2> QED
    BY <1>4, <2>1, AwaitKeeps, Zenon
<1>8. LineInv(l)'
  BY <1>1, <1>6, <1>7 DEF LineInv, Entered, Working
<1>9. FileType' /\ NodeType'
  BY <1>4, <1>5 DEF AddressInv, FileType, NodeType, Store, nodeVars
<1>10. MemoryType'
  <2>1. varStore' \in [Vars -> Address \cup {None}]
    BY <1>4, <1>5 DEF AddressInv, MemoryType, Address
  <2> QED
    BY <2>1 DEF AddressInv, MemoryType, Store
<1>11. ASSUME NEW v \in Vars PROVE Own(v)'
  <2>1. CASE tx.entry.returns = v /\ v # None
    <3>1. varStore'[v] = tx.nonce
      BY <1>4, <2>1 DEF AddressInv, MemoryType
    <3>2. tx.nonce < Len(mined) /\ mined[tx.nonce + 1] = tx /\ tx # None
      BY <1>1, <1>2, NoneAssumption DEF HasReceipt
    <3>3. Stands(tx.nonce)'
      BY <1>4 DEF Stands
    <3> QED
      BY <1>4, <2>1, <3>1, <3>2, <3>3 DEF Own, Stands
  <2>2. CASE ~(tx.entry.returns = v /\ v # None)
    <3>1. varStore'[v] = varStore[v]
      BY <1>4, <2>2 DEF AddressInv, MemoryType
    <3> QED
      BY <1>4, <3>1 DEF AddressInv, Own, Stands
  <2> QED
    BY <2>1, <2>2
<1>12. NothingUndone /\ \A n : n = local[l].tx.nonce => Stands(n)'
  <2>1. \A n : Stands(n) => Stands(n)'
    BY <1>4 DEF Stands
  <2>2. \A n : n = tx.nonce => Stands(n)'
    BY <1>4 DEF Stands
  <2> QED
    BY <1>2, <1>4, <2>1, <2>2 DEF NothingUndone
<1> QED
  BY <1>1, <1>2, <1>6, <1>7, <1>8, <1>9, <1>10, <1>11, <1>12 DEF AddressInv

LEMMA CompleteKeeps ==
    ASSUME AddressInv, NEW l \in Lines, Complete(l)
    PROVE  AddressInv' /\ pc'[l] = "idle"
<1>1. mined' = mined /\ Finish(l)
  BY DEF Complete, nodeVars
<1>2. FileType' /\ NodeType' /\ (\A v \in Vars : Own(v)')
  BY DEF AddressInv, FileType, NodeType, Own, Stands, Complete, fileVars, nodeVars
<1>3. MemoryType'
  BY DEF AddressInv, MemoryType, Complete
<1> QED
  BY <1>1, <1>2, <1>3, FinishKeeps DEF AddressInv

\* The node, and other programs that use the account.
LEMMA MineKeeps ==
    ASSUME AddressInv, Mine \/ MineForeign
    PROVE  AddressInv' /\ UNCHANGED <<fileVars, memoryVars, lineVars>> /\ NothingUndone
<1>1. UNCHANGED <<fileVars, memoryVars, lineVars, typed>>
  BY DEF Mine, MineForeign
<1>2. PICK t \in Transaction \cup {None} :
           /\ mined' = Append(mined, t) /\ pool' \subseteq pool
           /\ reverted' \subseteq reverted \cup {Len(mined)}
  <2>1. CASE Mine
    BY <2>1 DEF Mine, AddressInv, NodeType
  <2>2. CASE MineForeign
    BY <2>2 DEF MineForeign
  <2> QED
    BY <2>1, <2>2
<1>3. /\ mined' \in Seq(Transaction \cup {None}) /\ Len(mined') = Len(mined) + 1
      /\ \A n \in Nat : n < Len(mined) => n < Len(mined') /\ mined'[n + 1] = mined[n + 1]
  BY <1>2, MinedStays
<1>4. FileType' /\ MemoryType' /\ LineType'
  BY <1>1 DEF AddressInv, FileType, MemoryType, LineType, fileVars, memoryVars, lineVars
<1>5. NodeType'
  <2>1. foreign' \in 0 .. MaxForeign
    BY DeployAssumption DEF AddressInv, NodeType, Mine, MineForeign
  <2> QED
    BY <1>2, <1>3, <2>1, LenProperties DEF AddressInv, NodeType
<1>6. \A n \in Nat : n < Len(mined) /\ Stands(n) => Stands(n)'
  BY <1>1, <1>2 DEF Stands, fileVars
<1>7. ASSUME NEW v \in Vars PROVE Own(v)'
  <2>1. Own(v) /\ varStore'[v] = varStore[v] /\ varStore[v] \in Address \cup {None}
    BY <1>1 DEF AddressInv, MemoryType, memoryVars
  <2>2. CASE varStore[v] = None
    BY <2>1, <2>2 DEF Own
  <2>3. CASE varStore[v] # None
    <3>1. PICK n \in Nat : n = varStore[v]
      BY <2>1, <2>3 DEF Address
    <3>2. n < Len(mined) /\ Stands(n) /\ mined[n + 1] # None /\ mined[n + 1].entry.returns = v
      BY <2>1, <2>3, <3>1 DEF Own
    <3>3. Stands(n)' /\ n < Len(mined') /\ mined'[n + 1] = mined[n + 1]
      BY <1>3, <1>6, <3>2
    <3>4. varStore'[v] = n
      BY <2>1, <3>1
    <3> QED
      BY <3>2, <3>3, <3>4 DEF Own, Stands
  <2> QED
    BY <2>2, <2>3
<1>8. ASSUME NEW l \in Lines PROVE LineInv(l)'
  <2>1. pc'[l] = pc[l] /\ cmd'[l] = cmd[l] /\ local'[l] = local[l] /\ LineInv(l)
    BY <1>1 DEF AddressInv, lineVars
  <2>2. ASSUME pc[l] = "receipt" PROVE HasReceipt(local[l].tx)'
    <3>1. local[l].tx.nonce \in Nat /\ HasReceipt(local[l].tx)
      BY <2>1, <2>2 DEF LineInv, Kept, Transaction
    <3> QED
      BY <1>3, <2>1, <3>1 DEF HasReceipt
  <2> QED
    BY <2>1, <2>2 DEF LineInv
<1>9. NothingUndone
  <2>1. ASSUME NEW n \in 1 .. Len(mined)
        PROVE  n \in 1 .. Len(mined') /\ mined'[n] = mined[n] /\ (Stands(n - 1) => Stands(n - 1)')
    <3>1. Len(mined) \in Nat
      BY LenProperties DEF AddressInv, NodeType
    <3>2. n - 1 \in Nat /\ n - 1 < Len(mined) /\ (n - 1) + 1 = n
      BY <3>1
    <3> QED
      BY <1>3, <1>6, <3>1, <3>2
  <2> QED
    BY <2>1 DEF NothingUndone
<1> QED
  BY <1>1, <1>4, <1>5, <1>7, <1>8, <1>9 DEF AddressInv

LEMMA AddressStep == AddressInv /\ [Next]_vars => AddressInv'
<1> SUFFICES ASSUME AddressInv, [Next]_vars PROVE AddressInv'
  OBVIOUS
<1>1. ASSUME NEW l \in Lines, Type(l) \/ Proceed(l) \/ RequestFails(l) PROVE AddressInv'
  <2>1. CASE Type(l)
    BY <2>1, TypeKeeps
  <2>2. CASE SetCollection(l) \/ Compose(l) \/ Import(l)
    BY <2>2, OtherCommandsKeep
  <2>3. CASE StartDeploy(l)
    BY <2>3, StartKeeps
  <2>4. CASE ReadManifest(l)
    BY <2>4, ReadKeeps
  <2>5. CASE AskNonce(l)
    BY <2>5, AskNonceKeeps
  <2>6. CASE Submit(l)
    BY <2>6, SubmitKeeps
  <2>7. CASE Poll(l)
    BY <2>7, PollKeeps
  <2>8. CASE Store(l)
    BY <2>8, StoreKeeps
  <2>9. CASE Complete(l)
    BY <2>9, CompleteKeeps
  <2>10. CASE RequestFails(l)
    BY <2>10, RequestFailsKeeps
  <2> QED
    BY <1>1, <2>1, <2>2, <2>3, <2>4, <2>5, <2>6, <2>7, <2>8, <2>9, <2>10 DEF Proceed
<1>2. CASE Mine \/ MineForeign
  BY <1>2, MineKeeps
<1>3. CASE UNCHANGED vars
  <2>1. UNCHANGED <<fileVars, memoryVars, nodeVars, typed, lineVars>>
    BY <1>3 DEF vars
  <2>2. Settled' /\ LineType'
    BY <2>1, SettledKeeps DEF AddressInv, LineType, lineVars
  <2>3. \A l \in Lines : LineInv(l)'
    BY <2>1 DEF AddressInv, LineInv, HasReceipt, nodeVars, lineVars
  <2> QED
    BY <2>2, <2>3 DEF AddressInv, Settled
<1> QED
  BY <1>1, <1>2, <1>3 DEF Next

LEMMA AddressTypes == AddressInv => AddressIsOwn
<1> SUFFICES ASSUME AddressInv PROVE AddressIsOwn
  OBVIOUS
<1>1. ASSUME NEW t \in pool \cup ToSet(mined) PROVE t = None \/ t \in Transaction
  BY DEF AddressInv, NodeType, ToSet
<1>2. DeployTypeOK
  BY <1>1 DEF AddressInv, FileType, MemoryType, NodeType, LineType, DeployTypeOK, Entered, Working
<1> QED
  BY <1>2 DEF AddressInv, Own, AddressIsOwn

\* The invariant of what deployments keep and store, for lines that overlap.
THEOREM AddressInvariance == Spec => []AddressInv
<1>1. AddressInv /\ [Next]_vars => AddressInv'
  BY AddressStep
<1> QED
  BY <1>1, AddressInit, PTL DEF Spec

\* Whatever becomes of its nonce, an address in varStore is that of a creation for an entry
\* with this variable, and the log tells if it was reverted (lib/deploy.js, sendtx.js,
\* deploy/deploy.js:155-165), for all lines that overlap.
THEOREM OwnAddresses == Spec => []AddressIsOwn
<1>1. Spec => []AddressInv
  BY AddressInvariance
<1> QED
  BY <1>1, AddressTypes, PTL
-----------------------------------------------------------------------------
(***************************************************************************)
(* A deployment's place in the manifest, for a user who waits.             *)
(***************************************************************************)
\* The line at work, its manifest and what is left of it.
LEMMA AtWork ==
    ASSUME AddressInv, LoopInv, NEW l \in Lines, pc[l] \in Entered
    PROVE  /\ cmd[l] \in Commands /\ cmd[l].op = "deploy" /\ Collection(l) \in Collections
           /\ currentCollection = Collection(l)
           /\ manifest[Collection(l)] # None /\ PlaceInv(l)
           /\ List(l) \in Seq(Item) /\ local[l].left \in Seq(Item)
           /\ Len(List(l)) \in Nat /\ Len(local[l].left) \in Nat
           /\ Done(l) \in 0 .. Len(List(l)) /\ Len(List(l)) = Done(l) + Len(local[l].left)
<1>1. cmd[l] \in Commands /\ cmd[l].op = "deploy" /\ local[l].left \in Seq(Item)
  BY DEF AddressInv, LineInv, Entered, Working, Kept
<1>2. Collection(l) \in Collections
  BY <1>1, DeployAssumption DEF Collection
<1>3. currentCollection = Collection(l) /\ manifest[Collection(l)] # None /\ PlaceInv(l)
  BY DEF LoopInv
<1>4. List(l) \in Seq(Item)
  BY <1>2, <1>3, ManifestRead DEF List
<1>5. Len(List(l)) \in Nat /\ Len(local[l].left) \in Nat
  BY <1>1, <1>4, LenProperties
<1>6. Done(l) \in 0 .. Len(List(l)) /\ Len(List(l)) = Done(l) + Len(local[l].left)
  BY <1>3, <1>5 DEF PlaceInv, Done
<1> QED
  BY <1>1, <1>2, <1>3, <1>4, <1>5, <1>6

\* What a line deploys does not change while it waits.
LEMMA SameList ==
    ASSUME NEW l \in Lines, manifest' = manifest, cmd'[l] = cmd[l]
    PROVE  /\ Collection(l)' = Collection(l) /\ List(l)' = List(l)
           /\ \A e : Chosen(l, e)' = Chosen(l, e)
           /\ \A k : NamesTo(l, k)' = NamesTo(l, k)
<1>1. Collection(l)' = Collection(l)
  BY DEF Collection
<1>2. List(l)' = List(l)
  BY <1>1 DEF List
<1>3. \A e : Chosen(l, e)' = Chosen(l, e)
  BY DEF Chosen
<1>4. \A k : NamesTo(l, k)' = NamesTo(l, k)
  BY <1>2, <1>3, Zenon DEF NamesTo, AbiOnly
<1> QED
  BY <1>1, <1>2, <1>3, <1>4

\* What is wired stays so while varStore does.
LEMMA WiredStays ==
    ASSUME NothingUndone, varStore' = varStore
    PROVE  \A e : Wired(e) => Wired(e)'
<1> SUFFICES ASSUME NEW e, Wired(e) PROVE Wired(e)'
  OBVIOUS
<1>1. PICK n \in 1 .. Len(mined) :
           /\ mined[n] # None /\ mined[n].entry = e
           /\ e.input # None => mined[n].arg = varStore[e.input]
           /\ e.returns # None => varStore[e.returns] = n - 1
           /\ Stands(n - 1)
  BY DEF Wired
<1>2. n \in 1 .. Len(mined') /\ mined'[n] = mined[n] /\ Stands(n - 1)'
  BY <1>1 DEF NothingUndone
<1> QED
  BY <1>1, <1>2 DEF Wired

\* Nothing is created and nothing is logged.
LEMMA NothingNew ==
    ASSUME mined' = mined, reverted' = reverted, deployLog' = deployLog
    PROVE  NothingUndone
BY DEF NothingUndone, Stands

\* Nothing is promised of a line that does not deploy.
LEMMA AtRest ==
    ASSUME OneAtATime, NEW l \in Lines, pc'[l] \in {"idle", "ready"}
    PROVE  LoopInv' /\ WiredInv'
<1>1. \A k \in Lines : k = l
  BY DEF OneAtATime
<1>2. pc'[l] \notin Entered \cup {"wallet"} /\ pc'[l] \notin Working
  BY DEF Entered, Working
<1> QED
  BY <1>1, <1>2 DEF LoopInv, WiredInv

\* The names of one entry more.
LEMMA OneNameMore ==
    ASSUME NEW l \in Lines, NEW k \in Nat \ {0}
    PROVE  NamesTo(l, k) =
              NamesTo(l, k - 1) \cup (IF AbiOnly(List(l)[k]) \/ Chosen(l, List(l)[k])
                                      THEN {List(l)[k].val.name} ELSE {})
<1>1. 1 .. k = (1 .. k - 1) \cup {k}
  OBVIOUS
<1> QED
  BY <1>1, Zenon DEF NamesTo

\* The names of the entries that are passed over until the next contract.
LEMMA NamesPassed ==
    ASSUME AddressInv, LoopInv, NEW l \in Lines, InLoop(l),
           NEW n \in 0 .. Len(local[l].left), \A j \in 1 .. n : j \notin ToDeploy(l)
    PROVE  NamesTo(l, Done(l) + n) = local[l].temp \cup NamesOf(SubSeq(local[l].left, 1, n))
<1>1. pc[l] \in Entered
  BY DEF InLoop, Entered
<1>2. /\ PlaceInv(l) /\ local[l].left \in Seq(Item) /\ Len(local[l].left) \in Nat /\ Done(l) \in Nat
  BY <1>1, AtWork
<1>3. PICK left : left = local[l].left
  OBVIOUS
<1>4. PICK s : s = SubSeq(left, 1, n)
  OBVIOUS
<1>5. DOMAIN s = 1 .. n /\ \A j \in 1 .. n : s[j] = left[j]
  BY <1>2, <1>3, <1>4
<1>6. \A j \in 1 .. n : left[j] = List(l)[Done(l) + j]
  BY <1>2, <1>3 DEF PlaceInv
<1>7. \A j \in 1 .. n : AbiOnly(left[j]) \/ ~Chosen(l, left[j])
  BY <1>2, <1>3 DEF ToDeploy
<1>8. local[l].temp = NamesTo(l, Done(l))
  BY <1>2 DEF PlaceInv
<1>9. ASSUME NEW x \in NamesTo(l, Done(l) + n) PROVE x \in NamesTo(l, Done(l)) \cup NamesOf(s)
  <2>1. PICK i \in 1 .. Done(l) + n :
              /\ AbiOnly(List(l)[i]) \/ Chosen(l, List(l)[i])
              /\ x = List(l)[i].val.name
    BY <1>9 DEF NamesTo
  <2>2. CASE i <= Done(l)
    <3>1. i \in 1 .. Done(l)
      BY <1>2, <2>2
    <3> QED
      BY <2>1, <3>1 DEF NamesTo
  <2>3. CASE ~(i <= Done(l))
    <3>1. PICK j \in 1 .. n : i = Done(l) + j
      <4>1. i - Done(l) \in 1 .. n /\ i = Done(l) + (i - Done(l))
        BY <1>2, <2>3
      <4> QED
        BY <4>1
    <3>2. AbiOnly(s[j]) /\ s[j] = List(l)[i] /\ j \in DOMAIN s
      BY <1>5, <1>6, <1>7, <2>1, <3>1
    <3> QED
      BY <2>1, <3>2 DEF NamesOf
  <2> QED
    BY <2>2, <2>3
<1>10. ASSUME NEW x \in NamesTo(l, Done(l)) PROVE x \in NamesTo(l, Done(l) + n)
  <2>1. 1 .. Done(l) \subseteq 1 .. Done(l) + n
    BY <1>2
  <2> QED
    BY <1>10, <2>1 DEF NamesTo
<1>11. ASSUME NEW x \in NamesOf(s) PROVE x \in NamesTo(l, Done(l) + n)
  <2>1. PICK j \in DOMAIN s : AbiOnly(s[j]) /\ x = s[j].val.name
    BY <1>11 DEF NamesOf
  <2>2. j \in 1 .. n /\ s[j] = List(l)[Done(l) + j]
    BY <1>5, <1>6, <2>1
  <2>3. Done(l) + j \in 1 .. Done(l) + n
    BY <1>2, <2>2
  <2> QED
    BY <2>1, <2>2, <2>3 DEF NamesTo
<1> QED
  BY <1>3, <1>4, <1>8, <1>9, <1>10, <1>11

LEMMA StartLoop ==
    ASSUME AddressInv, OneAtATime, NEW l \in Lines, StartDeploy(l)
    PROVE  LoopInv' /\ WiredInv'
<1>1. pc'[l] = "wallet" /\ cmd'[l] = cmd[l]
  BY StartKeeps
<1>2. \A k \in Lines : k = l
  BY DEF OneAtATime
<1>3. currentCollection' = Collection(l)'
  BY <1>1 DEF StartDeploy, Collection
<1> QED
  BY <1>1, <1>2, <1>3 DEF LoopInv, WiredInv, Entered, Working

LEMMA ReadLoop ==
    ASSUME AddressInv, OneAtATime, LoopInv, NEW l \in Lines, ReadManifest(l)
    PROVE  LoopInv' /\ WiredInv'
<1>1. \/ pc'[l] = "idle"
      \/ /\ pc'[l] = "manifest" /\ cmd'[l] = cmd[l] /\ manifest[Collection(l)] # None
         /\ local'[l] = [left |-> List(l), temp |-> {}] /\ List(l) \in Seq(Item)
  BY ReadKeeps
<1>2. CASE pc'[l] = "idle"
  BY <1>2, AtRest
<1>3. CASE pc'[l] # "idle"
  <2>1. /\ pc'[l] = "manifest" /\ cmd'[l] = cmd[l] /\ manifest[Collection(l)] # None
        /\ local'[l].left = List(l) /\ local'[l].temp = {} /\ List(l) \in Seq(Item)
    BY <1>1, <1>3
  <2>2. UNCHANGED fileVars /\ UNCHANGED memoryVars
    BY DEF ReadManifest
  <2>3. Collection(l)' = Collection(l) /\ List(l)' = List(l) /\ NamesTo(l, 0)' = NamesTo(l, 0)
    BY <2>1, <2>2, SameList DEF fileVars
  <2>4. Len(List(l)) \in Nat
    BY <2>1, LenProperties
  <2>5. Done(l)' = 0
    BY <2>1, <2>3, <2>4 DEF Done
  <2>6. NamesTo(l, 0) = {}
    BY DEF NamesTo
  <2>7. PlaceInv(l)'
    <3>1. \A i \in 1 .. Len(List(l)) : 0 + i = i
      BY <2>4
    <3> QED
      BY <2>1, <2>3, <2>4, <2>5, <2>6, <3>1 DEF PlaceInv, Working
  <2>8. currentCollection' = Collection(l)' /\ manifest'[Collection(l)'] # None
    <3>1. pc[l] = "wallet"
      BY DEF ReadManifest
    <3> QED
      BY <2>1, <2>2, <2>3, <3>1 DEF LoopInv, fileVars, memoryVars
  <2>9. \A k \in Lines : k = l
    BY DEF OneAtATime
  <2>10. LoopInv'
    BY <2>7, <2>8, <2>9 DEF LoopInv
  <2>11. \A i \in Deployable(List(l)) : ~(i <= 0)
    BY <2>1 DEF Deployable
  <2>12. WiredInv'
    <3>1. \A i \in Deployable(List(l))' : ~(i <= Done(l)')
      BY <2>3, <2>5, <2>11 DEF Deployable, AbiOnly
    <3> QED
      BY <2>1, <2>9, <3>1 DEF WiredInv, Working
  <2> QED
    BY <2>10, <2>12
<1> QED
  BY <1>2, <1>3

\* The steps of one contract leave what is left and what is gathered alone.
LEMMA SamePlace ==
    ASSUME AddressInv, OneAtATime, LoopInv, NEW l \in Lines,
           pc[l] \in Working, pc'[l] \in Working, cmd'[l] = cmd[l],
           UNCHANGED fileVars, UNCHANGED memoryVars,
           local'[l].left = local[l].left, local'[l].temp = local[l].temp,
           local'[l].tx.entry = local[l].tx.entry, local'[l].tx.arg = local[l].tx.arg,
           NothingUndone
    PROVE  LoopInv' /\ (WiredInv => WiredInv')
<1>1. /\ Collection(l)' = Collection(l) /\ List(l)' = List(l)
      /\ \A e : Chosen(l, e)' = Chosen(l, e)
      /\ \A k : NamesTo(l, k)' = NamesTo(l, k)
  BY SameList DEF fileVars
<1>2. Done(l)' = Done(l)
  BY <1>1 DEF Done
<1>3. pc[l] \in Entered /\ pc'[l] \in Entered /\ ~InLoop(l) /\ ~InLoop(l)'
  BY DEF Entered, Working, InLoop
<1>4. PlaceInv(l) /\ currentCollection = Collection(l) /\ manifest[Collection(l)] # None
  BY <1>3 DEF LoopInv
<1>5. PlaceInv(l)'
  BY <1>1, <1>2, <1>3, <1>4 DEF PlaceInv, Deployable, AbiOnly
<1>6. \A k \in Lines : k = l
  BY DEF OneAtATime
<1>7. LoopInv'
  BY <1>1, <1>4, <1>5, <1>6 DEF LoopInv, fileVars, memoryVars
<1>8. ASSUME WiredInv PROVE WiredInv'
  <2>1. \A e : Wired(e) => Wired(e)'
    BY WiredStays DEF memoryVars
  <2>2. Deployable(List(l))' = Deployable(List(l))
    BY <1>1 DEF Deployable, AbiOnly
  <2>3. varStore' = varStore
    BY DEF memoryVars
  <2> QED
    BY <1>1, <1>2, <1>3, <1>6, <1>8, <2>1, <2>2, <2>3 DEF WiredInv
<1> QED
  BY <1>7, <1>8

\* On to the next contract: the entries passed over are none to deploy.
LEMMA AskLoop ==
    ASSUME AddressInv, OneAtATime, LoopInv, NEW l \in Lines, AskNonce(l)
    PROVE  LoopInv' /\ (WiredInv => WiredInv')
<1>1. \/ pc'[l] = "idle"
      \/ /\ pc'[l] = "estimate" /\ cmd'[l] = cmd[l] /\ local[l].left \in Seq(Item)
         /\ local'[l].left = SubSeq(local[l].left, NextOne(l) + 1, Len(local[l].left))
         /\ local'[l].temp = local[l].temp \cup NamesOf(SubSeq(local[l].left, 1, NextOne(l) - 1))
         /\ local'[l].tx.entry = local[l].left[NextOne(l)].val
         /\ LET input == local[l].left[NextOne(l)].val.input
            IN  local'[l].tx.arg = IF input = None THEN None ELSE varStore[input]
  BY AskNonceKeeps
<1>2. CASE pc'[l] = "idle"
  BY <1>2, AtRest
<1>3. CASE pc'[l] # "idle"
  <2>1. InLoop(l) /\ ToDeploy(l) # {} /\ pc[l] \in Entered
    BY DEF AskNonce, InLoop, Entered
  <2>2. /\ cmd[l] \in Commands /\ currentCollection = Collection(l)
        /\ manifest[Collection(l)] # None /\ PlaceInv(l) /\ List(l) \in Seq(Item)
        /\ Len(List(l)) \in Nat /\ Len(local[l].left) \in Nat
        /\ Done(l) \in 0 .. Len(List(l)) /\ Len(List(l)) = Done(l) + Len(local[l].left)
    BY <2>1, AtWork
  <2>3. PICK left \in Seq(Item) : left = local[l].left
    BY <1>1, <1>3
  <2>4. PICK i \in 1 .. Len(left) : i = NextOne(l) /\ i \in ToDeploy(l) /\ \A j \in ToDeploy(l) : i <= j
    BY <2>1, <2>3, FirstLeft
  <2>5. PICK done \in Nat : done = Done(l)
    BY <2>2
  <2>6. /\ pc'[l] = "estimate" /\ cmd'[l] = cmd[l]
        /\ local'[l].left = SubSeq(left, i + 1, Len(left))
        /\ local'[l].temp = local[l].temp \cup NamesOf(SubSeq(left, 1, i - 1))
        /\ local'[l].tx.entry = left[i].val
        /\ local'[l].tx.arg = IF left[i].val.input = None THEN None ELSE varStore[left[i].val.input]
    BY <1>1, <1>3, <2>3, <2>4
  <2>7. UNCHANGED fileVars /\ UNCHANGED memoryVars /\ UNCHANGED nodeVars
    BY DEF AskNonce
  <2>8. /\ Collection(l)' = Collection(l) /\ List(l)' = List(l)
        /\ \A e : Chosen(l, e)' = Chosen(l, e)
        /\ \A k : NamesTo(l, k)' = NamesTo(l, k)
    BY <2>6, <2>7, SameList DEF fileVars
  <2>9. /\ Len(SubSeq(left, i + 1, Len(left))) = Len(left) - i
        /\ \A j \in 1 .. Len(left) - i : SubSeq(left, i + 1, Len(left))[j] = left[i + j]
    BY <2>4
  <2>10. Done(l)' = done + i
    <3>1. Done(l)' = Len(List(l)) - (Len(left) - i)
      BY <2>6, <2>8, <2>9 DEF Done
    <3> QED
      BY <2>2, <2>3, <2>5, <3>1
  <2>11. \A j \in 1 .. Len(left) : left[j] = List(l)[done + j]
    BY <2>2, <2>3, <2>5 DEF PlaceInv
  <2>12. done + i \in 1 .. Len(List(l)) /\ DOMAIN List(l) = 1 .. Len(List(l))
    BY <2>2, <2>3, <2>4, <2>5
  <2>13. ~AbiOnly(List(l)[done + i]) /\ Chosen(l, List(l)[done + i])
    BY <2>3, <2>4, <2>11 DEF ToDeploy
  <2>14. \A j \in 1 .. i - 1 : j \notin ToDeploy(l)
    BY <2>4
  <2>15. local'[l].temp = NamesTo(l, done + (i - 1))
    <3>1. i - 1 \in 0 .. Len(local[l].left)
      BY <2>3, <2>4
    <3> QED
      BY <2>1, <2>3, <2>5, <2>6, <2>14, <3>1, NamesPassed
  <2>16. PlaceInv(l)'
    <3>1. Done(l)' \in 0 .. Len(List(l)') /\ Done(l)' - 1 = done + (i - 1)
      BY <2>8, <2>10, <2>12
    <3>2. \A j \in 1 .. Len(local'[l].left) : local'[l].left[j] = List(l)[(done + i) + j]
      <4>1. ASSUME NEW j \in 1 .. Len(left) - i PROVE left[i + j] = List(l)[(done + i) + j]
        <5>1. i + j \in 1 .. Len(left) /\ done + (i + j) = (done + i) + j
          BY <2>3, <2>4
        <5> QED
          BY <2>11, <5>1
      <4> QED
        BY <2>6, <2>9, <4>1
    <3>3. Done(l)' \in Deployable(List(l))'
      BY <2>8, <2>10, <2>12, <2>13 DEF Deployable, AbiOnly
    <3>4. Chosen(l, List(l)[done + i])' /\ List(l)'[Done(l)'] = List(l)[done + i]
      BY <2>8, <2>10, <2>13
    <3>5. local'[l].tx.entry = List(l)[done + i].val
      BY <2>6, <2>11, <2>4
    <3>6. local'[l].temp = NamesTo(l, Done(l) - 1)'
      BY <2>8, <2>15, <3>1
    <3>7. Chosen(l, List(l)[Done(l)])'
      BY <2>8, <2>10, <2>13
    <3> QED
      BY <2>6, <2>8, <2>10, <3>1, <3>2, <3>3, <3>4, <3>5, <3>6, <3>7 DEF PlaceInv, InLoop, Working
  <2>17. \A k \in Lines : k = l
    BY DEF OneAtATime
  <2>18. LoopInv'
    BY <2>2, <2>7, <2>8, <2>16, <2>17 DEF LoopInv, fileVars, memoryVars
  <2>19. ASSUME WiredInv PROVE WiredInv'
    <3>1. LET tx == local'[l].tx
          IN  tx.entry.input # None => tx.arg = varStore'[tx.entry.input]
      BY <2>6, <2>7 DEF memoryVars
    <3>2. ASSUME cmd[l].only = {}, NEW k \in Deployable(List(l)), k <= done + i, k # done + i
          PROVE  Wired(List(l)[k].val)
      <4>1. k \in 1 .. Len(List(l)) /\ ~AbiOnly(List(l)[k])
        BY <2>2 DEF Deployable
      <4>2. CASE k <= done
        BY <2>1, <2>5, <3>2, <4>2, <2>19 DEF WiredInv, Working, InLoop
      <4>3. CASE ~(k <= done)
        <5>1. k - done \in 1 .. i - 1 /\ k - done \in 1 .. Len(left) /\ done + (k - done) = k
          BY <2>4, <2>5, <3>2, <4>1, <4>3
        <5>2. left[k - done] = List(l)[k]
          BY <2>11, <5>1
        <5>3. k - done \in ToDeploy(l)
          BY <2>3, <3>2, <4>1, <5>1, <5>2 DEF ToDeploy, Chosen
        <5> QED
          BY <2>14, <5>1, <5>3
      <4> QED
        BY <4>2, <4>3
    <3>3. \A e : Wired(e) => Wired(e)'
      BY <2>7, NothingNew, WiredStays DEF memoryVars, nodeVars, fileVars
    <3>4. Deployable(List(l))' = Deployable(List(l))
      BY <2>8 DEF Deployable, AbiOnly
    <3>5. pc'[l] \in Working
      BY <2>6 DEF Working
    <3>6. ASSUME cmd'[l].only = {}, NEW k \in Deployable(List(l))', k <= Done(l)', k # Done(l)'
          PROVE  Wired(List(l)[k].val)'
      BY <2>6, <2>8, <2>10, <3>2, <3>3, <3>4, <3>6
    <3> QED
      BY <2>17, <3>1, <3>5, <3>6 DEF WiredInv
  <2> QED
    BY <2>18, <2>19
<1> QED
  BY <1>2, <1>3

\* A contract is stored: its name is the entry's, and no contract before it is undone.
LEMMA StoreLoop ==
    ASSUME AddressInv, OneAtATime, LoopInv, NEW l \in Lines, Store(l)
    PROVE  LoopInv' /\ (ContractsInOrder /\ WiredInv => WiredInv')
<1>1. /\ pc[l] = "receipt" /\ pc'[l] = "sleep" /\ cmd'[l] = cmd[l]
      /\ local[l] \in Kept(Transaction) /\ HasReceipt(local[l].tx)
      /\ local'[l].left = local[l].left
      /\ local'[l].temp = local[l].temp \cup {local[l].tx.entry.name}
      /\ NothingUndone /\ \A n : n = local[l].tx.nonce => Stands(n)'
  BY StoreKeeps DEF AddressInv, LineInv
<1>2. pc[l] \in Entered /\ pc[l] \in Working /\ pc'[l] \in Entered /\ pc'[l] \notin Working /\ InLoop(l)'
  BY <1>1 DEF Entered, Working, InLoop
<1>3. /\ cmd[l] \in Commands /\ Collection(l) \in Collections /\ currentCollection = Collection(l)
      /\ manifest[Collection(l)] # None /\ PlaceInv(l) /\ List(l) \in Seq(Item)
      /\ Len(List(l)) \in Nat /\ Done(l) \in 0 .. Len(List(l))
  BY <1>2, AtWork
<1>4. manifest' = manifest /\ UNCHANGED nodeVars /\ currentCollection' = currentCollection
  BY DEF Store
<1>5. /\ Collection(l)' = Collection(l) /\ List(l)' = List(l)
      /\ \A e : Chosen(l, e)' = Chosen(l, e)
      /\ \A k : NamesTo(l, k)' = NamesTo(l, k)
  BY <1>1, <1>4, SameList
<1>6. PICK done \in Nat : done = Done(l)
  BY <1>3
<1>7. Done(l)' = done
  BY <1>1, <1>5, <1>6 DEF Done
<1>8. PICK tx \in Transaction : tx = local[l].tx
  BY <1>1 DEF Kept
<1>9. /\ done \in Deployable(List(l)) /\ Chosen(l, List(l)[done]) /\ tx.entry = List(l)[done].val
      /\ local[l].temp = NamesTo(l, done - 1) /\ done \in Nat \ {0}
  BY <1>2, <1>3, <1>6, <1>8 DEF PlaceInv, Deployable
<1>10. local'[l].temp = NamesTo(l, done)
  <2>1. NamesTo(l, done) = NamesTo(l, done - 1) \cup {List(l)[done].val.name}
    BY <1>9, OneNameMore
  <2> QED
    BY <1>1, <1>8, <1>9, <2>1
<1>11. PlaceInv(l)'
  BY <1>1, <1>2, <1>3, <1>5, <1>6, <1>7, <1>10 DEF PlaceInv
<1>12. \A k \in Lines : k = l
  BY DEF OneAtATime
<1>13. LoopInv'
  BY <1>3, <1>4, <1>5, <1>11, <1>12 DEF LoopInv
<1>14. ASSUME ContractsInOrder, WiredInv PROVE WiredInv'
  <2>1. PICK e \in Entry : e = tx.entry
    BY DEF Transaction
  <2>2. e.input \in Vars \cup {None} /\ e.returns \in Vars \cup {None}
    BY Items
  <2>3. varStore' = IF e.returns = None THEN varStore ELSE [varStore EXCEPT ![e.returns] = tx.nonce]
    BY <1>8, <2>1 DEF Store
  <2>4. /\ e.returns # None => varStore'[e.returns] = tx.nonce
        /\ \A v \in Vars : (e.returns # None => v # e.returns) => varStore'[v] = varStore[v]
    BY <2>2, <2>3 DEF AddressInv, MemoryType
  <2>5. PICK f \in Files : List(l) = Entries(Manifests[f])
    BY <1>3 DEF AddressInv, FileType, List
  <2>6. \A i, j \in Deployable(List(l)) : List(l)[j].val.returns # None =>
              /\ i <= j => List(l)[i].val.input # List(l)[j].val.returns
              /\ i # j => List(l)[i].val.returns # List(l)[j].val.returns
    BY <1>14, <2>5 DEF ContractsInOrder
  <2>7. e = List(l)[done].val
    BY <1>9, <2>1
  <2>8. ASSUME cmd[l].only = {}, NEW i \in Deployable(List(l)), i <= done
        PROVE  Wired(List(l)[i].val)'
    <3>1. PICK g \in Entry : g = List(l)[i].val
      <4>1. List(l)[i] \in Item
        BY <1>3 DEF Deployable
      <4> QED
        BY <4>1, Items
    <3>2. g.input \in Vars \cup {None} /\ g.returns \in Vars \cup {None}
      BY Items
    <3>3. g.input # None => varStore'[g.input] = varStore[g.input]
      BY <1>9, <2>4, <2>6, <2>7, <2>8, <3>1, <3>2
    <3>4. CASE i = done
      <4>1. tx.nonce \in Nat /\ tx.nonce < Len(mined) /\ mined[tx.nonce + 1] = tx
        BY <1>1, <1>8 DEF HasReceipt, Transaction
      <4>2. tx.nonce + 1 \in 1 .. Len(mined) /\ tx # None /\ (tx.nonce + 1) - 1 = tx.nonce
        BY <4>1, NoneAssumption, LenProperties DEF AddressInv, NodeType
      <4>3. g.input # None => tx.arg = varStore[g.input]
        BY <1>2, <1>8, <1>14, <2>1, <2>7, <3>1, <3>4 DEF WiredInv
      <4>4. mined' = mined /\ \A n : n = tx.nonce => Stands(n)'
        BY <1>1, <1>4, <1>8 DEF nodeVars
      <4>5. g = e
        BY <2>7, <3>1, <3>4
      <4>6. PICK n : n = tx.nonce + 1
        OBVIOUS
      <4>7. n \in 1 .. Len(mined') /\ mined'[n] = tx /\ n - 1 = tx.nonce /\ Stands(n - 1)'
        BY <4>1, <4>2, <4>4, <4>6
      <4>8. Wired(g)'
        BY <2>1, <2>4, <3>3, <4>2, <4>3, <4>5, <4>7 DEF Wired
      <4> QED
        BY <1>5, <3>1, <4>8
    <3>5. CASE i # done
      <4>1. Wired(g)
        BY <1>2, <1>6, <1>14, <2>8, <3>1, <3>5 DEF WiredInv
      <4>2. g.returns # None => varStore'[g.returns] = varStore[g.returns]
        BY <1>9, <2>4, <2>6, <2>7, <3>1, <3>2, <3>5
      <4>3. PICK n \in 1 .. Len(mined) :
                  /\ mined[n] # None /\ mined[n].entry = g
                  /\ g.input # None => mined[n].arg = varStore[g.input]
                  /\ g.returns # None => varStore[g.returns] = n - 1
                  /\ Stands(n - 1)
        BY <4>1 DEF Wired
      <4>4. n \in 1 .. Len(mined') /\ mined'[n] = mined[n] /\ Stands(n - 1)'
        BY <1>1, <4>3 DEF NothingUndone
      <4>5. Wired(g)'
        BY <3>3, <4>2, <4>3, <4>4 DEF Wired
      <4> QED
        BY <1>5, <3>1, <4>5
    <3> QED
      BY <3>4, <3>5
  <2>9. Deployable(List(l))' = Deployable(List(l))
    BY <1>5 DEF Deployable, AbiOnly
  <2>10. ASSUME cmd'[l].only = {}, NEW k \in Deployable(List(l))', k <= Done(l)'
         PROVE  Wired(List(l)[k].val)'
    BY <1>1, <1>7, <2>8, <2>9, <2>10
  <2> QED
    BY <1>2, <1>12, <2>10 DEF WiredInv
<1> QED
  BY <1>13, <1>14

\* A step that changes no line, manifest or variable.
LEMMA NodeLoop ==
    ASSUME LoopInv, UNCHANGED <<fileVars, memoryVars, lineVars>>, NothingUndone
    PROVE  LoopInv' /\ (WiredInv => WiredInv')
<1>1. /\ manifest' = manifest /\ currentCollection' = currentCollection /\ varStore' = varStore
      /\ pc' = pc /\ cmd' = cmd /\ local' = local
  BY DEF fileVars, memoryVars, lineVars
<1>2. LoopInv'
  <2> SUFFICES ASSUME NEW l \in Lines
               PROVE  /\ pc'[l] \in Entered \cup {"wallet"} => currentCollection' = Collection(l)'
                      /\ pc'[l] \in Entered => manifest'[Collection(l)'] # None /\ PlaceInv(l)'
    BY DEF LoopInv
  <2>1. /\ Collection(l)' = Collection(l) /\ List(l)' = List(l)
        /\ \A e : Chosen(l, e)' = Chosen(l, e)
        /\ \A k : NamesTo(l, k)' = NamesTo(l, k)
    BY <1>1, SameList
  <2>2. Done(l)' = Done(l) /\ InLoop(l)' = InLoop(l)
    BY <1>1, <2>1 DEF Done, InLoop
  <2>3. PlaceInv(l) => PlaceInv(l)'
    BY <1>1, <2>1, <2>2 DEF PlaceInv, Deployable, AbiOnly
  <2> QED
    BY <1>1, <2>1, <2>3 DEF LoopInv
<1>3. ASSUME WiredInv PROVE WiredInv'
  <2>1. \A e : Wired(e) => Wired(e)'
    BY <1>1, WiredStays
  <2> QED
    BY <1>1, <1>3, <2>1 DEF WiredInv, Done, List, Collection, Deployable, AbiOnly
<1> QED
  BY <1>2, <1>3

LEMMA LoopStep ==
    ASSUME AddressInv, OneAtATime, LoopInv, [Next]_vars
    PROVE  LoopInv' /\ (ContractsInOrder /\ WiredInv => WiredInv')
<1>1. ASSUME NEW l \in Lines, Type(l) \/ Proceed(l) \/ RequestFails(l)
      PROVE  LoopInv' /\ (ContractsInOrder /\ WiredInv => WiredInv')
  <2>1. CASE Type(l)
    BY <2>1, TypeKeeps, AtRest
  <2>2. CASE SetCollection(l) \/ Compose(l) \/ Import(l)
    BY <2>2, OtherCommandsKeep, AtRest
  <2>3. CASE StartDeploy(l)
    BY <2>3, StartLoop
  <2>4. CASE ReadManifest(l)
    BY <2>4, ReadLoop
  <2>5. CASE AskNonce(l)
    BY <2>5, AskLoop
  <2>6. CASE Submit(l) \/ Poll(l)
    <3>1. UNCHANGED fileVars /\ UNCHANGED memoryVars /\ mined' = mined /\ reverted' = reverted
      BY <2>6 DEF Submit, Poll, nodeVars
    <3>2. NothingUndone
      BY <3>1, NothingNew DEF fileVars
    <3>3. CASE pc'[l] = "idle"
      BY <3>3, AtRest
    <3>4. CASE pc'[l] # "idle"
      <4>1. /\ pc[l] \in Working /\ pc'[l] \in Working /\ cmd'[l] = cmd[l]
            /\ local'[l].left = local[l].left /\ local'[l].temp = local[l].temp
            /\ local'[l].tx.entry = local[l].tx.entry /\ local'[l].tx.arg = local[l].tx.arg
        <5>1. CASE Submit(l)
          BY <3>4, <5>1, SubmitKeeps DEF Working
        <5>2. CASE Poll(l)
          BY <3>4, <5>2, PollKeeps DEF Working
        <5> QED
          BY <2>6, <5>1, <5>2
      <4> QED
        BY <3>1, <3>2, <4>1, SamePlace
    <3> QED
      BY <3>3, <3>4
  <2>7. CASE Store(l)
    BY <2>7, StoreLoop
  <2>8. CASE Complete(l)
    BY <2>8, CompleteKeeps, AtRest
  <2>9. CASE RequestFails(l)
    BY <2>9, RequestFailsKeeps, AtRest
  <2> QED
    BY <1>1, <2>1, <2>2, <2>3, <2>4, <2>5, <2>6, <2>7, <2>8, <2>9 DEF Proceed
<1>2. CASE Mine \/ MineForeign
  BY <1>2, MineKeeps, NodeLoop
<1>3. CASE UNCHANGED vars
  <2>1. UNCHANGED <<fileVars, memoryVars, lineVars>> /\ mined' = mined /\ reverted' = reverted
    BY <1>3 DEF vars, nodeVars
  <2>2. NothingUndone
    BY <2>1, NothingNew DEF fileVars
  <2> QED
    BY <2>1, <2>2, NodeLoop
<1> QED
  BY <1>1, <1>2, <1>3 DEF Next

LEMMA LoopInit == Init => LoopInv /\ WiredInv
BY DEF Init, LoopInv, WiredInv, Entered, Working

\* The invariant of a deployment's place in the manifest.
THEOREM LoopInvariance == OneAtATime => (Spec => []LoopInv)
<1> SUFFICES ASSUME OneAtATime PROVE Spec => []LoopInv
  OBVIOUS
<1>1. Init => LoopInv
  BY LoopInit
<1>2. AddressInv /\ LoopInv /\ [Next]_vars => LoopInv'
  BY LoopStep
<1>3. Spec => []AddressInv
  BY AddressInvariance
<1> QED
  BY <1>1, <1>2, <1>3, PTL DEF Spec

\* The invariant of the contracts a deployment has passed.
THEOREM WiredInvariance ==
    OneAtATime /\ ContractsInOrder => (Spec => []WiredInv)
<1> SUFFICES ASSUME OneAtATime, ContractsInOrder PROVE Spec => []WiredInv
  OBVIOUS
<1>1. Init => WiredInv
  BY LoopInit
<1>2. AddressInv /\ LoopInv /\ WiredInv /\ [Next]_vars => WiredInv'
  BY LoopStep
<1>3. Spec => []AddressInv
  BY AddressInvariance
<1>4. Spec => []LoopInv
  BY LoopInvariance
<1> QED
  BY <1>1, <1>2, <1>3, <1>4, PTL DEF Spec

\* What is left when a deployment completes is nothing to deploy.
LEMMA NothingLeft ==
    ASSUME AddressInv, LoopInv, NEW l \in Lines, Complete(l)
    PROVE  /\ InLoop(l) /\ List(l) \in Seq(Item) /\ Collection(l) \in Collections
           /\ currentCollection = Collection(l) /\ cmd[l].op = "deploy"
           /\ local[l].temp \cup NamesOf(local[l].left) = NamesTo(l, Len(List(l)))
           /\ cmd[l].only = {} => \A i \in Deployable(List(l)) : i <= Done(l)
<1>1. InLoop(l) /\ ToDeploy(l) = {} /\ pc[l] \in Entered
  BY DEF Complete, InLoop, Entered
<1>2. /\ cmd[l].op = "deploy" /\ Collection(l) \in Collections /\ currentCollection = Collection(l)
      /\ PlaceInv(l) /\ List(l) \in Seq(Item) /\ local[l].left \in Seq(Item)
      /\ Len(local[l].left) \in Nat /\ Len(List(l)) \in Nat
      /\ Done(l) \in 0 .. Len(List(l)) /\ Len(List(l)) = Done(l) + Len(local[l].left)
  BY <1>1, AtWork
<1>3. PICK left \in Seq(Item) : left = local[l].left
  BY <1>2
<1>4. SubSeq(left, 1, Len(left)) = left
  BY <1>3
<1>5. local[l].temp \cup NamesOf(left) = NamesTo(l, Len(List(l)))
  <2>1. Len(left) \in 0 .. Len(local[l].left) /\ \A j \in 1 .. Len(left) : j \notin ToDeploy(l)
    BY <1>1, <1>2, <1>3
  <2>2. NamesTo(l, Done(l) + Len(left)) = local[l].temp \cup NamesOf(SubSeq(local[l].left, 1, Len(left)))
    BY <1>1, <2>1, NamesPassed
  <2> QED
    BY <1>2, <1>3, <1>4, <2>2
<1>6. ASSUME cmd[l].only = {}, NEW i \in Deployable(List(l)), ~(i <= Done(l)) PROVE FALSE
  <2>1. i \in 1 .. Len(List(l)) /\ ~AbiOnly(List(l)[i])
    BY <1>2 DEF Deployable
  <2>2. i - Done(l) \in 1 .. Len(left) /\ Done(l) + (i - Done(l)) = i
    BY <1>2, <1>3, <1>6, <2>1
  <2>3. left[i - Done(l)] = List(l)[i]
    BY <1>2, <1>3, <2>2 DEF PlaceInv
  <2>4. i - Done(l) \in ToDeploy(l)
    BY <1>3, <1>6, <2>1, <2>2, <2>3 DEF ToDeploy, Chosen
  <2> QED
    BY <1>1, <2>4
<1> QED
  BY <1>1, <1>2, <1>3, <1>5, <1>6

\* deployedContract goes from one whole to another: only an import changes it, or a deployment
\* that has been through all of the manifest it was asked for (deploy/deploy.js:175).
THEOREM WholeCollections == OneAtATime => (Spec => NoHalfCollection)
<1> SUFFICES ASSUME OneAtATime PROVE Spec => NoHalfCollection
  OBVIOUS
<1> DEFINE
      Whole(c) ==
         \E l \in Lines :
            \/ Starts(l, "import") /\ cmd[l].collection = c
            \/ LET f == cmd[l].file  entries == Entries(manifest[c])
               IN  /\ pc[l] # "idle" /\ cmd[l].op = "deploy"
                   /\ c = ComposeFiles[f].collection
                   /\ deployedContract[c]' =
                        {entries[i].val.name :
                            i \in {j \in DOMAIN entries : AbiOnly(entries[j]) \/ Chosen(l, entries[j])}}
<1>1. ASSUME AddressInv, LoopInv, [Next]_vars,
             NEW c \in Collections, deployedContract'[c] # deployedContract[c]
      PROVE  Whole(c)
  <2>1. PICK l \in Lines : Import(l) \/ Complete(l)
    BY <1>1 DEF Next, Proceed, Type, SetCollection, Compose, StartDeploy, ReadManifest, AskNonce,
       Submit, Poll, Store, RequestFails, Mine, MineForeign, memoryVars, vars
  <2>2. CASE Import(l)
    <3>1. Starts(l, "import")
      BY <2>2 DEF Import
    <3>2. cmd[l].collection = c
      BY <1>1, <2>2 DEF Import, AddressInv, MemoryType
    <3> QED
      BY <3>1, <3>2
  <2>3. CASE Complete(l)
    <3>1. /\ InLoop(l) /\ List(l) \in Seq(Item) /\ Collection(l) \in Collections
          /\ currentCollection = Collection(l) /\ cmd[l].op = "deploy"
          /\ local[l].temp \cup NamesOf(local[l].left) = NamesTo(l, Len(List(l)))
      BY <1>1, <2>3, NothingLeft
    <3>2. deployedContract' = [deployedContract EXCEPT ![Collection(l)] = NamesTo(l, Len(List(l)))]
      BY <2>3, <3>1 DEF Complete
    <3>3. c = Collection(l) /\ deployedContract'[c] = NamesTo(l, Len(List(l)))
      BY <1>1, <3>1, <3>2 DEF AddressInv, MemoryType
    <3>4. List(l) = Entries(manifest[c]) /\ c = ComposeFiles[cmd[l].file].collection
      BY <3>3 DEF List, Collection
    <3>5. DOMAIN List(l) = 1 .. Len(List(l))
      BY <3>1
    <3>6. deployedContract'[c] =
             {List(l)[i].val.name :
                 i \in {j \in DOMAIN List(l) : AbiOnly(List(l)[j]) \/ Chosen(l, List(l)[j])}}
      BY <3>3, <3>5 DEF NamesTo
    <3>7. pc[l] # "idle"
      BY <3>1 DEF InLoop
    <3>8. /\ pc[l] # "idle" /\ cmd[l].op = "deploy" /\ c = ComposeFiles[cmd[l].file].collection
          /\ deployedContract[c]' =
                {Entries(manifest[c])[i].val.name :
                    i \in {j \in DOMAIN Entries(manifest[c]) :
                             AbiOnly(Entries(manifest[c])[j]) \/ Chosen(l, Entries(manifest[c])[j])}}
      BY <3>1, <3>4, <3>6, <3>7
    <3> QED
      BY <3>8, Zenon
  <2> QED
    BY <2>1, <2>2, <2>3
<1>2. ASSUME AddressInv, LoopInv, [Next]_vars
      PROVE  [\A c \in Collections : deployedContract[c]' # deployedContract[c] => Whole(c)]_vars
  <2>1. \A c \in Collections : deployedContract'[c] # deployedContract[c] => Whole(c)
    BY <1>1, <1>2
  <2> HIDE DEF Whole
  <2> QED
    BY <2>1
<1>3. Spec => []AddressInv
  BY AddressInvariance
<1>4. Spec => []LoopInv
  BY LoopInvariance
<1> QED
  BY <1>2, <1>3, <1>4, PTL DEF Spec, NoHalfCollection

\* A deployment of everything ends with contracts that know each other, though it may
\* follow attempts that failed half-way, but for those whose creation was reverted,
\* which the log tells and the deployment does not look at (deploy/deploy.js:99-178).
THEOREM CompletedAreWired ==
    OneAtATime /\ ContractsInOrder => (Spec => CompleteIsWired)
<1> SUFFICES ASSUME OneAtATime, ContractsInOrder PROVE Spec => CompleteIsWired
  OBVIOUS
<1>1. ASSUME AddressInv, LoopInv, WiredInv, NEW l \in Lines, Complete(l), cmd[l].only = {}
      PROVE  WiredTogether(List(l))
  <2>1. InLoop(l) /\ \A i \in Deployable(List(l)) : i <= Done(l)
    BY <1>1, NothingLeft
  <2>2. pc[l] \in Entered /\ pc[l] \notin Working
    BY <2>1 DEF InLoop, Entered, Working
  <2>3. \A i \in Deployable(List(l)) : Wired(List(l)[i].val)
    BY <1>1, <2>1, <2>2 DEF WiredInv
  <2> QED
    BY <2>3 DEF WiredTogether, Wired
<1>2. ASSUME AddressInv, LoopInv, WiredInv
      PROVE  [\A l \in Lines :
                 Complete(l) /\ cmd[l].only = {} =>
                    WiredTogether(Entries(manifest[ComposeFiles[cmd[l].file].collection]))]_vars
  BY <1>1, <1>2 DEF List, Collection
<1>3. Spec => []AddressInv
  BY AddressInvariance
<1>4. Spec => []LoopInv
  BY LoopInvariance
<1>5. Spec => []WiredInv
  BY WiredInvariance
<1> QED
  BY <1>2, <1>3, <1>4, <1>5, PTL DEF Spec, CompleteIsWired
=============================================================================
