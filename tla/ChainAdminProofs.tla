-------------------------- MODULE ChainAdminProofs --------------------------
(***************************************************************************)
(* Whatever is asked of the API, the list of chains and the registry agree *)
(* and a live chain is left alone, for every configuration, every number   *)
(* of requests at a time and of workers.                                   *)
(***************************************************************************)
EXTENDS ChainAdmin, LeastNumber, FiniteSetTheorems

\* A request names a chain until it is answered; the one that holds the lock found
\* the registry as it needs it, and no other request changes it meanwhile.
HandlerInv(k) ==
    /\ cpc[k] # "idle" => alias[k] \in Chains
    /\ cpc[k] \in {"adding", "updating", "removing"} <=> lockMutex = k
    /\ cpc[k] = "adding" => ~Registered(alias[k])
    /\ cpc[k] \in {"updating", "removing"} => Registered(alias[k])

WorkerInv(w) == wpc[w] # "unused" => wchain[w] \in Chains

\* Only while the process starts may the list name more than the registry has.
ListInv ==
    /\ {c \in Chains : Registered(c)} \subseteq ToSet(chains)
    /\ fate = "up" => ToSet(chains) = {c \in Chains : Registered(c)}
    /\ IsInjective(chains)

RegistryInv ==
    /\ AdminTypeOK
    /\ ListInv
    /\ \A k \in Clients : HandlerInv(k)
    /\ \A w \in Workers : WorkerInv(w)

\* The context in the table for a chain is that of a worker of the chain.
CancelsInv(c) ==
    chainCancels[c] # Nobody =>
       wpc[chainCancels[c]] # "unused" /\ wchain[chainCancels[c]] = c

\* A live chain is as the configuration has it, no request gets further with it
\* than looking it up, and its one worker is never behind its cursor.
LiveInv(c) ==
    /\ eventLogger[c] = Boot[c]
    /\ \A k \in Clients : alias[k] = c => cpc[k] \in {"put", "delete"}
    /\ \A v, w \in Workers : wchain[v] = c /\ wchain[w] = c => v = w
    /\ \A w \in Workers : wchain[w] = c =>
          /\ w \notin cancelled
          /\ wpc[w] \in {"collect", "write"} => meta[c] <= latest[w]

UntouchedInv ==
    /\ RegistryInv
    /\ \A c \in Chains : CancelsInv(c)
    /\ \A c \in Live : LiveInv(c)
-----------------------------------------------------------------------------
(***************************************************************************)
(* The list of chains.                                                     *)
(***************************************************************************)
\* A name that is not in a list is in it once when it is appended.
LEMMA Appended ==
    ASSUME NEW names \in Seq(Chains), IsInjective(names), NEW c \in Chains, c \notin ToSet(names)
    PROVE  /\ Append(names, c) \in Seq(Chains)
           /\ IsInjective(Append(names, c))
           /\ ToSet(Append(names, c)) = ToSet(names) \cup {c}
<1> DEFINE k == Len(names)
           q == Append(names, c)
<1>1. /\ k \in Nat /\ DOMAIN names = 1 .. k /\ q \in Seq(Chains)
      /\ DOMAIN q = 1 .. k + 1 /\ q[k + 1] = c
      /\ \A i \in 1 .. k : q[i] = names[i]
  OBVIOUS
<1> HIDE DEF k, q
<1>2. \A i : i \in 1 .. k + 1 <=> i \in 1 .. k \/ i = k + 1
  BY <1>1
<1>3. \A i \in 1 .. k : names[i] # c
  BY <1>1 DEF ToSet
<1>4. IsInjective(q)
  BY <1>1, <1>2, <1>3 DEF IsInjective
<1>5. ToSet(q) = ToSet(names) \cup {c}
  BY <1>1, <1>2 DEF ToSet
<1> QED
  BY <1>1, <1>4, <1>5 DEF q

\* A list without a chain: the other names, once each.
LEMMA WithoutNames ==
    ASSUME NEW names \in Seq(Chains), IsInjective(names), NEW c
    PROVE  /\ Without(names, c) \in Seq(Chains)
           /\ ToSet(Without(names, c)) = ToSet(names) \ {c}
           /\ IsInjective(Without(names, c))
<1> DEFINE k == Len(names)
           Step(g, n) == IF n = 0 THEN <<>>
                         ELSE IF names[n] = c THEN g[n - 1]
                         ELSE Append(g[n - 1], names[n])
           list == CHOOSE g : g = [n \in 0 .. k |-> Step(g, n)]
<1>1. k \in Nat /\ (\A n \in 1 .. k : names[n] \in Chains) /\ DOMAIN names = 1 .. k
  OBVIOUS
<1>2. Without(names, c) = list[k]
  BY DEF Without
<1> HIDE DEF k
<1>3. \E g : g = [n \in 0 .. k |-> Step(g, n)]
  <2> DEFINE step == [n \in 1 .. k |-> [p \in Seq(Chains) |->
                        IF names[n] = c THEN p ELSE Append(p, names[n])]]
  <2>1. step \in [1 .. k -> [Seq(Chains) -> Seq(Chains)]]
    <3>1. \A n \in 1 .. k : \A p \in Seq(Chains) :
             (IF names[n] = c THEN p ELSE Append(p, names[n])) \in Seq(Chains)
      BY <1>1
    <3> QED
      BY <3>1
  <2>2. \A n \in 1 .. k : \A p \in Seq(Chains) :
           step[n][p] = IF names[n] = c THEN p ELSE Append(p, names[n])
    OBVIOUS
  <2> HIDE DEF step
  <2>3. PICK g \in [0 .. k -> Seq(Chains)] :
           g[0] = <<>> /\ \A n \in 1 .. k : g[n] = step[n][g[n - 1]]
    <3>1. PICK S, init : S = Seq(Chains) /\ init = <<>>
      OBVIOUS
    <3>2. k \in Nat /\ init \in S /\ step \in [1 .. k -> [S -> S]]
      BY <1>1, <2>1, <3>1
    <3>3. \E g \in [0 .. k -> S] :
             g[0] = init /\ \A n \in 1 .. k : g[n] = step[n][g[n - 1]]
      BY ONLY <3>2, StepsExist
    <3> QED
      BY <3>1, <3>3
  <2>4. ASSUME NEW n \in 0 .. k PROVE g[n] = Step(g, n)
    <3>1. CASE n = 0
      BY <2>3, <3>1
    <3>2. CASE n # 0
      <4>1. n \in 1 .. k /\ n - 1 \in 0 .. k
        BY <1>1, <3>2
      <4>2. g[n - 1] \in Seq(Chains)
        BY <2>3, <4>1
      <4> QED
        BY <2>2, <2>3, <3>2, <4>1, <4>2
    <3> QED
      BY <3>1, <3>2
  <2>5. g = [n \in 0 .. k |-> g[n]]
    BY <2>3
  <2>6. g = [n \in 0 .. k |-> Step(g, n)]
    <3> HIDE DEF Step
    <3> QED
      BY <2>4, <2>5
  <2> QED
    BY <2>6
<1>4. list = [n \in 0 .. k |-> Step(list, n)]
  <2> HIDE DEF Step
  <2> QED
    BY <1>3
<1> HIDE DEF list
<1>5. list[0] = <<>>
  BY <1>1, <1>4
<1>6. \A n \in 1 .. k :
         list[n] = IF names[n] = c THEN list[n - 1] ELSE Append(list[n - 1], names[n])
  <2> SUFFICES ASSUME NEW n \in 1 .. k
               PROVE  list[n] = IF names[n] = c THEN list[n - 1]
                                ELSE Append(list[n - 1], names[n])
    OBVIOUS
  <2>1. n \in 0 .. k /\ n # 0
    BY <1>1
  <2>2. list[n] = Step(list, n)
    <3> HIDE DEF Step
    <3> QED
      BY <1>4, <2>1
  <2> QED
    BY <2>1, <2>2
<1> HIDE DEF Step
<1> DEFINE Good(n) == /\ list[n] \in Seq(Chains)
                      /\ ToSet(list[n]) = {names[i] : i \in 1 .. n} \ {c}
                      /\ IsInjective(list[n])
           T == {n \in 0 .. k : ~Good(n)}
<1>7. T = {}
  <2> SUFFICES ASSUME T # {} PROVE FALSE
    OBVIOUS
  <2>1. T \subseteq Nat
    BY <1>1
  <2>2. PICK n \in T : \A m \in T : n <= m
    BY <2>1, Least
  <2>3. n \in 0 .. k /\ ~Good(n)
    OBVIOUS
  <2>4. n # 0
    <3>1. Good(0)
      BY <1>5 DEF ToSet, IsInjective
    <3> QED
      BY <2>3, <3>1
  <2>5. n \in 1 .. k /\ n - 1 \in 0 .. k /\ Good(n - 1)
    <3> HIDE DEF Good
    <3>1. n \in 1 .. k /\ n - 1 \in 0 .. k /\ ~(n <= n - 1)
      BY <1>1, <2>3, <2>4
    <3> QED
      BY <2>2, <3>1
  <2> DEFINE p == list[n - 1]
             q == list[n]
  <2>6. /\ p \in Seq(Chains) /\ IsInjective(p)
        /\ ToSet(p) = {names[i] : i \in 1 .. n - 1} \ {c}
    BY <2>5
  <2>7. q = IF names[n] = c THEN p ELSE Append(p, names[n])
    BY <1>6, <2>5
  <2>8. {names[i] : i \in 1 .. n} = {names[i] : i \in 1 .. n - 1} \cup {names[n]}
    <3>1. \A i : i \in 1 .. n <=> i \in 1 .. n - 1 \/ i = n
      BY <2>5
    <3> QED
      BY <3>1
  <2>9. names[n] \notin {names[i] : i \in 1 .. n - 1}
    <3>1. \A i \in 1 .. n - 1 : i \in 1 .. k /\ i # n
      BY <1>1, <2>5
    <3> QED
      BY <1>1, <2>5, <3>1 DEF IsInjective
  <2> HIDE DEF p, q
  <2>10. Good(n)
    <3>1. CASE names[n] = c
      <4>1. q = p
        BY <2>7, <3>1
      <4>2. ToSet(q) = {names[i] : i \in 1 .. n} \ {c}
        BY <2>6, <2>8, <3>1, <4>1
      <4> QED
        BY <2>6, <4>1, <4>2 DEF q
    <3>2. CASE names[n] # c
      <4>1. q = Append(p, names[n]) /\ names[n] \notin ToSet(p) /\ names[n] \in Chains
        BY <1>1, <2>5, <2>6, <2>7, <2>9, <3>2
      <4>2. q \in Seq(Chains) /\ IsInjective(q) /\ ToSet(q) = ToSet(p) \cup {names[n]}
        BY <2>6, <4>1, Appended
      <4>3. ToSet(q) = {names[i] : i \in 1 .. n} \ {c}
        BY <2>6, <2>8, <3>2, <4>2
      <4> QED
        BY <4>2, <4>3 DEF q
    <3> QED
      BY <3>1, <3>2
  <2> QED
    BY <2>3, <2>10
<1>8. Good(k)
  <2> HIDE DEF Good
  <2>1. k \in 0 .. k
    BY <1>1
  <2> QED
    BY <1>7, <2>1
<1>9. ToSet(names) = {names[i] : i \in 1 .. k}
  BY <1>1 DEF ToSet
<1> QED
  BY <1>2, <1>8, <1>9

\* The list as the configuration file gives it: every chain of a finite set, once.
LEMMA FirstList ==
    ASSUME NEW S, S \subseteq Chains, IsFiniteSet(S), NEW names \in SetToSeqs(S)
    PROVE  names \in Seq(Chains) /\ ToSet(names) = S /\ IsInjective(names)
<1> DEFINE n == Cardinality(S)
<1>1. n \in Nat
  BY FS_CardinalityType
<1>2. names \in [1 .. n -> S] /\ \A i, j \in 1 .. n : i # j => names[i] # names[j]
  BY DEF SetToSeqs
<1>3. IsFiniteSet(1 .. n) /\ Cardinality(1 .. n) = n
  BY <1>1, FS_Interval
<1>4. names \in Injection(1 .. n, S)
  BY <1>2 DEF Injection, IsInjective
<1>5. names \in Surjection(1 .. n, S)
  BY <1>3, <1>4, FS_Injection
<1> HIDE DEF n
<1>6. DOMAIN names = 1 .. n /\ \A c \in S : \E i \in 1 .. n : names[i] = c
  BY <1>2, <1>5 DEF Surjection
<1>7. names \in Seq(Chains)
  <2>1. names \in [1 .. n -> Chains]
    BY <1>2
  <2> QED
    BY <1>1, <2>1
<1>8. ToSet(names) = S
  BY <1>2, <1>6 DEF ToSet
<1> QED
  BY <1>2, <1>6, <1>7, <1>8 DEF IsInjective
-----------------------------------------------------------------------------
(***************************************************************************)
(* The requests.                                                           *)
(***************************************************************************)
LEMMA InitRegistry == ASSUME Init PROVE RegistryInv
<1> USE AdminAssumption
<1>1. chains \in Seq(Chains) /\ ListInv
  <2>1. PICK S \in SUBSET Chains : /\ IsFiniteSet(S) /\ {c \in Chains : Boot[c] # Absent} \subseteq S
                                    /\ chains \in SetToSeqs(S)
    BY DEF Init
  <2>2. chains \in Seq(Chains) /\ ToSet(chains) = S /\ IsInjective(chains)
    BY <2>1, FirstList
  <2>3. fate # "up" /\ eventLogger = Boot
    BY DEF Init
  <2> QED
    BY <2>1, <2>2, <2>3 DEF ListInv, Registered
<1>2. AdminTypeOK
  BY <1>1 DEF Init, AdminTypeOK, RequestStages, WorkerStages
<1> QED
  BY <1>1, <1>2 DEF Init, RegistryInv, HandlerInv, WorkerInv

\* A request that goes on, or is answered, leaves the other requests where they are.
LEMMA RequestMoves ==
    ASSUME AdminTypeOK, NEW k \in Clients,
           Respond(k) \/ \E s \in RequestStages : Proceed(k, s)
    PROVE  /\ cpc' \in [Clients -> RequestStages]
           /\ alias' \in [Clients -> Chains \cup {Nobody}]
           /\ start' \in [Clients -> Nat]
           /\ \A j \in Clients : j # k => cpc'[j] = cpc[j] /\ alias'[j] = alias[j]
           /\ Respond(k) => cpc'[k] = "idle" /\ alias'[k] = Nobody
           /\ \A s : Proceed(k, s) => cpc'[k] = s /\ alias'[k] = alias[k]
<1>1. /\ cpc \in [Clients -> RequestStages]
      /\ alias \in [Clients -> Chains \cup {Nobody}]
      /\ start \in [Clients -> Nat]
  BY DEF AdminTypeOK
<1>2. /\ Respond(k) => cpc'[k] = "idle" /\ alias'[k] = Nobody
      /\ \A s : Proceed(k, s) => cpc'[k] = s /\ alias'[k] = alias[k]
  BY <1>1 DEF Respond, Proceed, Goto
<1>3. CASE Respond(k)
  <2>1. "idle" \in RequestStages
    BY DEF RequestStages
  <2> QED
    BY <1>1, <1>2, <1>3, <2>1 DEF Respond, Goto
<1>4. ASSUME NEW s \in RequestStages, Proceed(k, s)
      PROVE  /\ cpc' \in [Clients -> RequestStages]
             /\ alias' \in [Clients -> Chains \cup {Nobody}]
             /\ start' \in [Clients -> Nat]
             /\ \A j \in Clients : j # k => cpc'[j] = cpc[j] /\ alias'[j] = alias[j]
  BY <1>1, <1>4 DEF Proceed, Goto
<1> QED
  BY <1>2, <1>3, <1>4

\* While one request changes the registry under the lock, or none does, what the
\* others count on stays.
LEMMA OthersKeep ==
    ASSUME RegistryInv, NEW k \in Clients, NEW j \in Clients, j # k,
           cpc'[j] = cpc[j], alias'[j] = alias[j],
           \/ UNCHANGED <<eventLogger, lockMutex>>
           \/ lockMutex \in {Nobody, k} /\ lockMutex' \in {Nobody, k}
    PROVE  HandlerInv(j)'
<1>1. HandlerInv(j) /\ j # Nobody
  BY AdminAssumption DEF RegistryInv
<1> QED
  BY <1>1 DEF HandlerInv, Registered

\* A request that goes on without the lock, or is answered.
LEMMA QuietRequest ==
    ASSUME RegistryInv, NEW k \in Clients, UNCHANGED <<fate, eventLogger, chains, lockMutex>>,
           cpc[k] \notin {"idle", "adding", "updating", "removing"},
           Respond(k) \/ \E s \in {"add", "initialize", "run", "meta", "update", "stop", "remove"} :
                            Proceed(k, s)
    PROVE  ListInv' /\ \A j \in Clients : HandlerInv(j)'
<1>1. AdminTypeOK /\ ListInv /\ HandlerInv(k)
  BY DEF RegistryInv
<1>2. ListInv'
  BY <1>1 DEF ListInv, Registered
<1>3. HandlerInv(k)'
  BY <1>1, RequestMoves DEF HandlerInv, Registered, RequestStages
<1>4. ASSUME NEW j \in Clients, j # k PROVE HandlerInv(j)'
  BY <1>1, <1>4, RequestMoves, OthersKeep DEF RequestStages
<1> QED
  BY <1>2, <1>3, <1>4

LEMMA NewRequestStep ==
    ASSUME RegistryInv, NEW k \in Clients, Put(k) \/ Delete(k) PROVE RegistryInv'
<1>1. /\ cpc[k] = "idle"
      /\ \E s \in {"put", "delete"} : cpc' = [cpc EXCEPT ![k] = s]
      /\ \E c \in Chains : alias' = [alias EXCEPT ![k] = c]
      /\ \E s \in Nat : start' = [start EXCEPT ![k] = s]
      /\ UNCHANGED <<fate, eventLogger, chains, lockMutex, chainCancels, meta, wpc, wchain,
                     cancelled, startSeen, latest>>
  <2>1. CASE Put(k)
    BY <2>1, AdminAssumption DEF Put, At, Goto, registryVars, workerVars
  <2>2. CASE Delete(k)
    <3>1. start[k] \in Nat /\ start' = [start EXCEPT ![k] = start[k]]
      BY <2>2 DEF Delete, RegistryInv, AdminTypeOK
    <3> QED
      BY <2>2, <3>1 DEF Delete, At, Goto, registryVars, workerVars
  <2> QED
    BY <2>1, <2>2
<1>2. AdminTypeOK /\ HandlerInv(k) /\ ListInv
  BY DEF RegistryInv
<1>3. AdminTypeOK'
  BY <1>1, <1>2 DEF AdminTypeOK, RequestStages
<1>4. HandlerInv(k)'
  BY <1>1, <1>2 DEF HandlerInv, AdminTypeOK
<1>5. ASSUME NEW j \in Clients, j # k PROVE HandlerInv(j)'
  <2>1. cpc'[j] = cpc[j] /\ alias'[j] = alias[j]
    BY <1>1, <1>2, <1>5 DEF AdminTypeOK
  <2> QED
    BY <1>1, <1>5, <2>1, OthersKeep
<1> QED
  BY <1>1, <1>2, <1>3, <1>4, <1>5 DEF RegistryInv, ListInv, WorkerInv, Registered

LEMMA LookupStep ==
    ASSUME RegistryInv, NEW k \in Clients,
           PutLookup(k) \/ InitializeChain(k) \/ DeleteLookup(k)
    PROVE  RegistryInv'
<1>1. /\ cpc[k] \in {"put", "initialize", "delete"}
      /\ \/ Respond(k)
         \/ \E s \in {"add", "update", "run", "stop"} : Proceed(k, s)
      /\ UNCHANGED <<fate, eventLogger, chains, lockMutex, chainCancels, meta, wpc, wchain,
                     cancelled, startSeen, latest>>
  BY DEF PutLookup, InitializeChain, DeleteLookup, At, registryVars, workerVars
<1>2. ListInv' /\ \A j \in Clients : HandlerInv(j)'
  BY <1>1, QuietRequest
<1>3. AdminTypeOK' /\ \A w \in Workers : WorkerInv(w)'
  BY <1>1, RequestMoves DEF RegistryInv, AdminTypeOK, WorkerInv, RequestStages
<1> QED
  BY <1>2, <1>3 DEF RegistryInv

LEMMA RunChainStep == ASSUME RegistryInv, NEW k \in Clients, RunChain(k) PROVE RegistryInv'
<1>1. /\ cpc[k] = "run" /\ Proceed(k, "meta")
      /\ UNCHANGED <<fate, eventLogger, chains, lockMutex, chainCancels, meta, cancelled,
                     startSeen, latest>>
      /\ \E w \in Workers : /\ wpc' = [wpc EXCEPT ![w] = "register"]
                            /\ wchain' = [wchain EXCEPT ![w] = alias[k]]
  BY DEF RunChain, At, registryVars
<1>2. alias[k] \in Chains
  BY <1>1 DEF RegistryInv, HandlerInv
<1>3. ListInv' /\ \A j \in Clients : HandlerInv(j)'
  BY <1>1, QuietRequest
<1>4. AdminTypeOK'
  BY <1>1, <1>2, RequestMoves DEF RegistryInv, AdminTypeOK, RequestStages, WorkerStages
<1>5. \A w \in Workers : WorkerInv(w)'
  BY <1>1, <1>2 DEF RegistryInv, AdminTypeOK, WorkerInv
<1> QED
  BY <1>3, <1>4, <1>5 DEF RegistryInv

LEMMA UpdateMetaStep == ASSUME RegistryInv, NEW k \in Clients, UpdateMeta(k) PROVE RegistryInv'
<1>1. /\ cpc[k] = "meta" /\ Respond(k)
      /\ UNCHANGED <<fate, eventLogger, chains, lockMutex, chainCancels, wpc, wchain, cancelled,
                     startSeen, latest>>
      /\ meta' = meta \/ meta' = [meta EXCEPT ![alias[k]] = start[k]]
  BY DEF UpdateMeta, At, registryVars, workerVars
<1>2. ListInv' /\ \A j \in Clients : HandlerInv(j)'
  BY <1>1, QuietRequest
<1>3. AdminTypeOK' /\ \A w \in Workers : WorkerInv(w)'
  BY <1>1, RequestMoves DEF RegistryInv, AdminTypeOK, WorkerInv
<1> QED
  BY <1>2, <1>3 DEF RegistryInv

LEMMA StopChainStep == ASSUME RegistryInv, NEW k \in Clients, StopChain(k) PROVE RegistryInv'
<1>1. /\ cpc[k] = "stop" /\ Proceed(k, "remove")
      /\ UNCHANGED <<fate, eventLogger, chains, lockMutex, meta, wpc, wchain, startSeen, latest>>
      /\ cancelled' = cancelled \cup ({chainCancels[alias[k]]} \ {Nobody})
      /\ chainCancels' = [chainCancels EXCEPT ![alias[k]] = Nobody]
  BY DEF StopChain, At, registryVars
<1>2. alias[k] \in Chains
  BY <1>1 DEF RegistryInv, HandlerInv
<1>3. ListInv' /\ \A j \in Clients : HandlerInv(j)'
  BY <1>1, QuietRequest
<1>4. cancelled' \subseteq Workers /\ chainCancels' \in [Chains -> Workers \cup {Nobody}]
  BY <1>1, <1>2 DEF RegistryInv, AdminTypeOK
<1>5. AdminTypeOK' /\ \A w \in Workers : WorkerInv(w)'
  BY <1>1, <1>4, RequestMoves DEF RegistryInv, AdminTypeOK, WorkerInv, RequestStages
<1> QED
  BY <1>3, <1>5 DEF RegistryInv

\* The lock is taken only when what the change needs is found again under it.
LEMMA TakeLockStep ==
    ASSUME RegistryInv, NEW k \in Clients, AddLock(k) \/ DeleteLock(k) PROVE RegistryInv'
<1>1. /\ cpc[k] \in {"add", "remove"} /\ lockMutex = Nobody
      /\ UNCHANGED <<fate, eventLogger, chains, chainCancels, meta, wpc, wchain, cancelled,
                     startSeen, latest>>
      /\ \/ Respond(k) /\ lockMutex' = lockMutex
         \/ ~Registered(alias[k]) /\ lockMutex' = k /\ Proceed(k, "adding")
         \/ Registered(alias[k]) /\ lockMutex' = k /\ Proceed(k, "removing")
  BY DEF AddLock, DeleteLock, At, Lock, workerVars
<1>2. AdminTypeOK /\ HandlerInv(k) /\ ListInv /\ k # Nobody
  BY AdminAssumption DEF RegistryInv
<1>3. AdminTypeOK' /\ \A w \in Workers : WorkerInv(w)'
  BY <1>1, <1>2, RequestMoves DEF RegistryInv, AdminTypeOK, WorkerInv, RequestStages
<1>4. HandlerInv(k)'
  BY <1>1, <1>2, RequestMoves DEF HandlerInv, Registered, RequestStages
<1>5. ASSUME NEW j \in Clients, j # k PROVE HandlerInv(j)'
  <2>1. cpc'[j] = cpc[j] /\ alias'[j] = alias[j]
    BY <1>1, <1>2, <1>5, RequestMoves DEF RequestStages
  <2> QED
    BY <1>1, <1>5, <2>1, OthersKeep
<1> QED
  BY <1>1, <1>2, <1>3, <1>4, <1>5 DEF RegistryInv, ListInv, Registered

\* An update replaces the entry in two steps; the chain stays registered.
LEMMA UpdateStep ==
    ASSUME RegistryInv, NEW k \in Clients, UpdateLock(k) \/ UpdateChain(k) PROVE RegistryInv'
<1>1. AdminTypeOK /\ HandlerInv(k) /\ ListInv /\ k # Nobody
  BY AdminAssumption DEF RegistryInv
<1>2. /\ cpc[k] \in {"update", "updating"}
      /\ lockMutex \in {Nobody, k} /\ lockMutex' \in {Nobody, k}
      /\ UNCHANGED <<fate, chains, chainCancels, meta, wpc, wchain, cancelled, startSeen, latest>>
      /\ \/ Respond(k) /\ lockMutex' = Nobody
         \/ Registered(alias[k]) /\ lockMutex' = k /\ Proceed(k, "updating")
         \/ lockMutex' = Nobody /\ Proceed(k, "meta")
      /\ \/ eventLogger' = eventLogger
         \/ /\ Registered(alias[k])
            /\ \E s \in Nat : eventLogger' = [eventLogger EXCEPT ![alias[k]].start = s]
  <2>1. CASE UpdateLock(k)
    BY <1>1, <2>1 DEF UpdateLock, At, Lock, workerVars
  <2>2. CASE UpdateChain(k)
    <3>1. start[k] \in Nat /\ lockMutex = k /\ Registered(alias[k])
      BY <1>1, <2>2 DEF UpdateChain, At, HandlerInv, AdminTypeOK
    <3> QED
      BY <1>1, <2>2, <3>1 DEF UpdateChain, At, workerVars
  <2> QED
    BY <2>1, <2>2
<1>3. alias[k] \in Chains
  BY <1>1, <1>2 DEF HandlerInv
<1>4. /\ eventLogger' \in [Chains -> Entry \cup {Absent}]
      /\ \A c \in Chains : Registered(c)' <=> Registered(c)
  <2>1. CASE eventLogger' = eventLogger
    BY <1>1, <2>1 DEF AdminTypeOK, Registered
  <2>2. ASSUME Registered(alias[k]), NEW s \in Nat,
               eventLogger' = [eventLogger EXCEPT ![alias[k]].start = s]
        PROVE  /\ eventLogger' \in [Chains -> Entry \cup {Absent}]
               /\ \A c \in Chains : Registered(c)' <=> Registered(c)
    <3> DEFINE e == [eventLogger[alias[k]] EXCEPT !.start = s]
    <3>1. eventLogger[alias[k]] \in Entry
      BY <1>1, <1>3, <2>2 DEF AdminTypeOK, Registered
    <3>2. e \in Entry
      BY <3>1 DEF Entry
    <3>3. e # Absent
      BY <3>2, AdminAssumption
    <3>4. eventLogger' = [eventLogger EXCEPT ![alias[k]] = e]
      BY <2>2
    <3> HIDE DEF e
    <3> QED
      BY <1>1, <1>3, <2>2, <3>2, <3>3, <3>4 DEF AdminTypeOK, Registered
  <2> QED
    BY <1>2, <2>1, <2>2
<1>5. AdminTypeOK' /\ \A w \in Workers : WorkerInv(w)'
  BY <1>1, <1>2, <1>4, RequestMoves DEF RegistryInv, AdminTypeOK, WorkerInv, RequestStages
<1>6. HandlerInv(k)'
  BY <1>1, <1>2, <1>3, <1>4, RequestMoves DEF HandlerInv, RequestStages, Registered
<1>7. ASSUME NEW j \in Clients, j # k PROVE HandlerInv(j)'
  <2>1. cpc'[j] = cpc[j] /\ alias'[j] = alias[j]
    BY <1>1, <1>2, <1>7, RequestMoves DEF RequestStages
  <2> QED
    BY <1>2, <1>7, <2>1, OthersKeep
<1>8. ListInv'
  <2>1. {c \in Chains : Registered(c)}' = {c \in Chains : Registered(c)}
    BY <1>4
  <2> QED
    BY <1>1, <1>2, <2>1 DEF ListInv
<1> QED
  BY <1>5, <1>6, <1>7, <1>8 DEF RegistryInv

\* An entry and its name in the list come together ...
LEMMA AddChainStep == ASSUME RegistryInv, NEW k \in Clients, AddChain(k) PROVE RegistryInv'
<1>0. PICK a : a = alias[k]
  OBVIOUS
<1>1. /\ cpc[k] = "adding" /\ fate = "up" /\ Proceed(k, "initialize") /\ lockMutex' = Nobody
      /\ eventLogger' = [eventLogger EXCEPT ![a] = [mode |-> "dev", start |-> start[k]]]
      /\ chains' = Append(chains, a)
      /\ UNCHANGED <<fate, chainCancels, meta, wpc, wchain, cancelled, startSeen, latest>>
  BY <1>0 DEF AddChain, At, workerVars
<1>2. AdminTypeOK /\ HandlerInv(k) /\ ListInv /\ k # Nobody
  BY AdminAssumption DEF RegistryInv
<1>3. a \in Chains /\ ~Registered(a) /\ lockMutex = k
  BY <1>0, <1>1, <1>2 DEF HandlerInv
<1>4. [mode |-> "dev", start |-> start[k]] \in Entry
  BY <1>2 DEF AdminTypeOK, Entry
<1>5. /\ eventLogger' \in [Chains -> Entry \cup {Absent}]
      /\ \A c \in Chains : Registered(c)' <=> Registered(c) \/ c = a
  <2>1. PICK e \in Entry : eventLogger' = [eventLogger EXCEPT ![a] = e]
    BY <1>1, <1>4
  <2> QED
    BY <1>2, <1>3, <2>1, AdminAssumption DEF AdminTypeOK, Registered
<1>6. chains' \in Seq(Chains) /\ ListInv'
  <2>1. chains \in Seq(Chains) /\ IsInjective(chains) /\ a \notin ToSet(chains)
    BY <1>1, <1>2, <1>3 DEF AdminTypeOK, ListInv
  <2>2. /\ chains' \in Seq(Chains) /\ IsInjective(chains')
        /\ ToSet(chains') = ToSet(chains) \cup {a}
    BY <1>1, <1>3, <2>1, Appended
  <2> QED
    BY <1>1, <1>2, <1>3, <1>5, <2>2 DEF ListInv
<1>7. AdminTypeOK' /\ \A w \in Workers : WorkerInv(w)'
  BY <1>1, <1>2, <1>5, <1>6, RequestMoves DEF RegistryInv, AdminTypeOK, WorkerInv, RequestStages
<1>8. HandlerInv(k)'
  BY <1>0, <1>1, <1>2, <1>3, RequestMoves DEF HandlerInv, RequestStages
<1>9. ASSUME NEW j \in Clients, j # k PROVE HandlerInv(j)'
  <2>1. cpc'[j] = cpc[j] /\ alias'[j] = alias[j]
    BY <1>1, <1>2, <1>9, RequestMoves DEF RequestStages
  <2> QED
    BY <1>1, <1>3, <1>9, <2>1, OthersKeep
<1> QED
  BY <1>6, <1>7, <1>8, <1>9 DEF RegistryInv

\* ... and go together.
LEMMA DeleteChainStep == ASSUME RegistryInv, NEW k \in Clients, DeleteChain(k) PROVE RegistryInv'
<1>0. PICK a : a = alias[k]
  OBVIOUS
<1>1. /\ cpc[k] = "removing" /\ fate = "up" /\ Respond(k) /\ lockMutex' = Nobody
      /\ eventLogger' = [eventLogger EXCEPT ![a] = Absent]
      /\ chains' = Without(chains, a)
      /\ UNCHANGED <<fate, chainCancels, meta, wpc, wchain, cancelled, startSeen, latest>>
  BY <1>0 DEF DeleteChain, At, workerVars
<1>2. AdminTypeOK /\ HandlerInv(k) /\ ListInv /\ k # Nobody
  BY AdminAssumption DEF RegistryInv
<1>3. a \in Chains /\ lockMutex = k
  BY <1>0, <1>1, <1>2 DEF HandlerInv
<1>4. /\ eventLogger' \in [Chains -> Entry \cup {Absent}]
      /\ \A c \in Chains : Registered(c)' <=> Registered(c) /\ c # a
  BY <1>1, <1>2, <1>3 DEF AdminTypeOK, Registered
<1>5. chains' \in Seq(Chains) /\ ListInv'
  <2>1. chains \in Seq(Chains) /\ IsInjective(chains)
    BY <1>2 DEF AdminTypeOK, ListInv
  <2>2. /\ chains' \in Seq(Chains) /\ IsInjective(chains')
        /\ ToSet(chains') = ToSet(chains) \ {a}
    BY <1>1, <2>1, WithoutNames
  <2> QED
    BY <1>1, <1>2, <1>4, <2>2 DEF ListInv
<1>6. AdminTypeOK' /\ \A w \in Workers : WorkerInv(w)'
  BY <1>1, <1>2, <1>4, <1>5, RequestMoves DEF RegistryInv, AdminTypeOK, WorkerInv
<1>7. HandlerInv(k)'
  BY <1>1, <1>2, RequestMoves DEF HandlerInv
<1>8. ASSUME NEW j \in Clients, j # k PROVE HandlerInv(j)'
  <2>1. cpc'[j] = cpc[j] /\ alias'[j] = alias[j]
    BY <1>1, <1>2, <1>8, RequestMoves
  <2> QED
    BY <1>1, <1>3, <1>8, <2>1, OthersKeep
<1> QED
  BY <1>5, <1>6, <1>7, <1>8 DEF RegistryInv
-----------------------------------------------------------------------------
\* No worker changes the registry, nor what a request is at.
LEMMA WorkerStep ==
    ASSUME RegistryInv, NEW w \in Workers, Loop(w) PROVE RegistryInv'
<1>1. UNCHANGED <<eventLogger, chains, lockMutex, cpc, alias, start, wchain, cancelled>>
  BY DEF Loop, Register, LoadChain, CheckContext, ReadStart, ReadMeta, Collect, WriteMeta, Wait,
     registryVars, clientVars
<1>2. /\ AdminTypeOK /\ ListInv /\ (\A k \in Clients : HandlerInv(k))
      /\ \A v \in Workers : WorkerInv(v)
  BY DEF RegistryInv
<1>3. /\ wpc[w] # "unused" /\ wpc \in [Workers -> WorkerStages]
      /\ fate' \in {fate, "nil dereference"}
      /\ wpc' = wpc \/ \E s \in WorkerStages \ {"unused"} : wpc' = [wpc EXCEPT ![w] = s]
  BY <1>2 DEF Loop, Register, LoadChain, CheckContext, ReadStart, ReadMeta, Collect, WriteMeta,
     Wait, Working, Running, Become, WorkerStages, AdminTypeOK
<1>4. wpc' \in [Workers -> WorkerStages] /\ \A v \in Workers : wpc'[v] # "unused" => wpc[v] # "unused"
  BY <1>3
<1>5. wchain[w] \in Chains
  BY <1>2, <1>3 DEF WorkerInv
<1>6. chainCancels' \in [Chains -> Workers \cup {Nobody}]
  BY <1>2, <1>5 DEF Loop, Register, LoadChain, CheckContext, ReadStart, ReadMeta, Collect,
     WriteMeta, Wait, AdminTypeOK
<1>7. startSeen' \in [Workers -> Nat]
  <2>1. Registered(wchain[w]) => eventLogger[wchain[w]].start \in Nat
    BY <1>2, <1>5 DEF AdminTypeOK, Registered, Entry
  <2>2. startSeen \in [Workers -> Nat]
    BY <1>2 DEF AdminTypeOK
  <2>3. startSeen' = startSeen \/ \E n \in Nat : startSeen' = [startSeen EXCEPT ![w] = n]
    <3>1. CASE ReadStart(w)
      BY <2>1, <3>1 DEF ReadStart
    <3>2. CASE ~ReadStart(w)
      BY <3>2 DEF Loop, Register, LoadChain, CheckContext, ReadMeta, Collect, WriteMeta, Wait
    <3> QED
      BY <3>1, <3>2
  <2> QED
    BY <2>2, <2>3
<1>8. meta' \in [Chains -> Nat] /\ latest' \in [Workers -> Nat]
  <2>1. meta \in [Chains -> Nat] /\ latest \in [Workers -> Nat] /\ startSeen \in [Workers -> Nat]
    BY <1>2 DEF AdminTypeOK
  <2>2. Larger(meta[wchain[w]], startSeen[w]) \in Nat
    BY <1>5, <2>1 DEF Larger
  <2>3. \A n \in 1 .. LogRange : latest[w] + n \in Nat
    BY <2>1, AdminAssumption
  <2>4. latest' = latest \/ \E n \in Nat : latest' = [latest EXCEPT ![w] = n]
    <3>1. CASE ReadMeta(w)
      BY <2>2, <3>1 DEF ReadMeta
    <3>2. CASE Collect(w)
      BY <2>3, <3>2 DEF Collect
    <3>3. CASE ~ReadMeta(w) /\ ~Collect(w)
      BY <3>3 DEF Loop, Register, LoadChain, CheckContext, ReadStart, WriteMeta, Wait
    <3> QED
      BY <3>1, <3>2, <3>3
  <2>5. meta' = meta \/ meta' = [meta EXCEPT ![wchain[w]] = latest[w]]
    BY DEF Loop, Register, LoadChain, CheckContext, ReadStart, ReadMeta, Collect, WriteMeta, Wait
  <2> QED
    BY <1>5, <2>1, <2>4, <2>5
<1>9. AdminTypeOK'
  BY <1>1, <1>2, <1>3, <1>4, <1>6, <1>7, <1>8 DEF AdminTypeOK
<1>10. ListInv'
  BY <1>1, <1>2, <1>3 DEF ListInv, Registered
<1> QED
  BY <1>1, <1>2, <1>4, <1>9, <1>10 DEF RegistryInv, HandlerInv, WorkerInv, Registered

LEMMA NextRegistry == ASSUME RegistryInv, [Next]_vars PROVE RegistryInv'
<1>1. ASSUME NEW k \in Clients, Put(k) \/ Delete(k) \/ Handler(k) PROVE RegistryInv'
  BY <1>1, NewRequestStep, LookupStep, RunChainStep, UpdateMetaStep, StopChainStep, TakeLockStep,
     UpdateStep, AddChainStep, DeleteChainStep DEF Handler
<1>2. CASE \E w \in Workers : Loop(w)
  BY <1>2, WorkerStep
<1>3. CASE MapRace \/ UNCHANGED vars
  BY <1>3 DEF MapRace, vars, registryVars, clientVars, workerVars, RegistryInv, AdminTypeOK,
     ListInv, HandlerInv, WorkerInv, Registered
<1>4. CASE Start
  <2>1. /\ UNCHANGED <<registryVars, chainCancels, meta, clientVars, workerVars>>
        /\ fate' = "up" => \A c \in ToSet(chains) : Registered(c)
        /\ fate' \in {"up", "nil dereference"}
    BY <1>4 DEF Start
  <2>2. ToSet(chains) \subseteq Chains
    <3>1. chains \in Seq(Chains)
      BY DEF RegistryInv, AdminTypeOK
    <3>2. \A i \in DOMAIN chains : chains[i] \in Chains
      BY <3>1
    <3> QED
      BY <3>2, Zenon DEF ToSet
  <2>3. ListInv'
    BY <2>1, <2>2 DEF RegistryInv, ListInv, Registered, registryVars
  <2> QED
    BY <2>1, <2>3 DEF registryVars, clientVars, workerVars, RegistryInv, AdminTypeOK, HandlerInv,
       WorkerInv, Registered
<1> QED
  BY <1>1, <1>2, <1>3, <1>4 DEF Next

\* The inductive invariant of the registry always holds.
THEOREM RegistryInvariance == Spec => []RegistryInv
<1>1. Init => RegistryInv
  BY InitRegistry
<1>2. RegistryInv /\ [Next]_vars => RegistryInv'
  BY NextRegistry
<1> QED
  BY <1>1, <1>2, PTL DEF Spec

\* While the API is served, the list of chains names every entry of the registry and no other,
\* once, however requests for the same alias interleave: not only while nobody holds the lock,
\* since an entry and its name come and go together.
THEOREM ListIsRegistry == Spec => []ListMatchesRegistry
<1>1. RegistryInv => ListMatchesRegistry
  BY DEF RegistryInv, ListInv, ListMatchesRegistry
<1> QED
  BY <1>1, RegistryInvariance, PTL
-----------------------------------------------------------------------------
(***************************************************************************)
(* Live chains.                                                            *)
(***************************************************************************)
LEMMA LiveType ==
    ASSUME NEW c \in Live PROVE c \in Chains /\ Boot[c] # Absent /\ Boot[c].mode = "live"
  BY DEF Live

LEMMA InitUntouched == ASSUME Init PROVE UntouchedInv
<1>1. RegistryInv
  BY InitRegistry
<1>2. /\ eventLogger = Boot /\ cancelled = {}
      /\ chainCancels = [c \in Chains |-> Nobody] /\ alias = [k \in Clients |-> Nobody]
      /\ wpc = [w \in Workers |-> IF wchain[w] = Nobody THEN "unused" ELSE "register"]
      /\ \A c \in Chains : Cardinality({w \in Workers : wchain[w] = c}) =
                             IF c \in ToSet(chains) THEN 1 ELSE 0
  <2>1. PICK S \in SUBSET Chains : /\ IsFiniteSet(S) /\ chains \in SetToSeqs(S)
                                    /\ \A c \in Chains : Cardinality({w \in Workers : wchain[w] = c}) =
                                                          IF c \in S THEN 1 ELSE 0
    BY DEF Init
  <2>2. ToSet(chains) = S
    BY <2>1, FirstList
  <2> QED
    BY <2>1, <2>2 DEF Init
<1>3. ASSUME NEW c \in Live PROVE LiveInv(c)
  <2>1. c \in Chains /\ Boot[c] # Absent /\ c # Nobody
    BY LiveType, AdminAssumption
  <2>2. PICK W : W = {w \in Workers : wchain[w] = c}
    OBVIOUS
  <2>3. IsFiniteSet(W)
    <3>1. W \subseteq Workers /\ IsFiniteSet(Workers)
      BY <2>2, AdminAssumption
    <3> QED
      BY <3>1, FS_Subset
  <2>4. Cardinality(W) = 1
    <3>1. c \in ToSet(chains)
      BY <1>1, <1>2, <2>1 DEF RegistryInv, ListInv, Registered
    <3> QED
      BY <1>2, <2>1, <2>2, <3>1
  <2>5. \E v : W = {v}
    BY <2>3, <2>4, FS_Singleton
  <2>6. \A v, w \in Workers : wchain[v] = c /\ wchain[w] = c => v = w
    BY <2>2, <2>5
  <2> QED
    BY <1>2, <2>1, <2>6 DEF LiveInv
<1>4. \A c \in Chains : CancelsInv(c)
  BY <1>2 DEF CancelsInv
<1> QED
  BY <1>1, <1>3, <1>4 DEF UntouchedInv

\* What a request may do to a live chain: name it, and look it up.
LEMMA RequestSpares ==
    ASSUME UntouchedInv, NEW k \in Clients, Put(k) \/ Delete(k) \/ Handler(k), NEW c \in Live
    PROVE  /\ eventLogger'[c] = eventLogger[c] /\ meta'[c] = meta[c] /\ latest' = latest
           /\ \A j \in Clients : alias'[j] = c => cpc'[j] \in {"put", "delete"}
           /\ \A w \in Workers : wchain'[w] = c =>
                 wchain[w] = c /\ wpc'[w] = wpc[w] /\ w \notin cancelled'
<1>1. /\ RegistryInv /\ AdminTypeOK /\ HandlerInv(k)
      /\ LiveInv(c) /\ \A d \in Chains : CancelsInv(d)
  BY DEF UntouchedInv, RegistryInv
<1>2. c \in Chains /\ Registered(c) /\ eventLogger[c].mode = "live" /\ c # Nobody
  BY <1>1, LiveType, AdminAssumption DEF LiveInv, Registered
<1>3. PICK a : a = alias[k]
  OBVIOUS
<1>4. CASE Put(k) \/ Delete(k)
  <2>1. /\ \E s \in {"put", "delete"} : cpc' = [cpc EXCEPT ![k] = s]
        /\ \E d : alias' = [alias EXCEPT ![k] = d]
        /\ UNCHANGED <<eventLogger, meta, wpc, wchain, cancelled, latest>>
    BY <1>4 DEF Put, Delete, Goto, registryVars, workerVars
  <2> QED
    BY <1>1, <2>1 DEF AdminTypeOK, LiveInv
<1>5. CASE a = c /\ Handler(k)
  <2>1. cpc[k] \in {"put", "delete"}
    BY <1>1, <1>3, <1>5 DEF LiveInv
  <2>2. PutLookup(k) \/ DeleteLookup(k)
    BY <1>5, <2>1 DEF Handler, AddLock, AddChain, InitializeChain, RunChain, UpdateMeta,
       UpdateLock, UpdateChain, StopChain, DeleteLock, DeleteChain, At
  <2>3. /\ Respond(k)
        /\ UNCHANGED <<eventLogger, meta, wpc, wchain, cancelled, latest>>
    BY <1>2, <1>3, <1>5, <2>2 DEF PutLookup, DeleteLookup, registryVars, workerVars
  <2> QED
    BY <1>1, <1>2, <2>3, RequestMoves DEF LiveInv
<1>6. CASE a # c /\ Handler(k)
  <2>1. Respond(k) \/ \E s \in RequestStages : Proceed(k, s)
    BY <1>6 DEF Handler, PutLookup, AddLock, AddChain, InitializeChain, RunChain, UpdateMeta,
       UpdateLock, UpdateChain, DeleteLookup, StopChain, DeleteLock, DeleteChain, RequestStages
  <2>2. alias'[k] # c /\ \A j \in Clients : j # k => cpc'[j] = cpc[j] /\ alias'[j] = alias[j]
    BY <1>1, <1>2, <1>3, <1>6, <2>1, RequestMoves
  <2>3. \A j \in Clients : alias'[j] = c => cpc'[j] \in {"put", "delete"}
    BY <1>1, <2>2 DEF LiveInv
  <2>4. eventLogger'[c] = eventLogger[c]
    <3>1. \/ UNCHANGED eventLogger
          \/ \E e : eventLogger' = [eventLogger EXCEPT ![a] = e]
      BY <1>3, <1>6 DEF Handler, PutLookup, AddLock, AddChain, InitializeChain, RunChain,
         UpdateMeta, UpdateLock, UpdateChain, DeleteLookup, StopChain, DeleteLock, DeleteChain,
         registryVars
    <3> QED
      BY <1>1, <1>2, <1>6, <3>1 DEF AdminTypeOK
  <2>5. meta'[c] = meta[c] /\ latest' = latest
    <3>1. \/ UNCHANGED meta
          \/ \E n : meta' = [meta EXCEPT ![a] = n]
      BY <1>3, <1>6 DEF Handler, PutLookup, AddLock, AddChain, InitializeChain, RunChain,
         UpdateMeta, UpdateLock, UpdateChain, DeleteLookup, StopChain, DeleteLock, DeleteChain
    <3>2. latest' = latest
      BY <1>6 DEF Handler, PutLookup, AddLock, AddChain, InitializeChain, RunChain,
         UpdateMeta, UpdateLock, UpdateChain, DeleteLookup, StopChain, DeleteLock, DeleteChain,
         workerVars
    <3> QED
      BY <1>1, <1>2, <1>6, <3>1, <3>2 DEF AdminTypeOK
  <2>6. \A w \in Workers : wchain'[w] = c =>
           wchain[w] = c /\ wpc'[w] = wpc[w] /\ w \notin cancelled'
    <3>1. CASE RunChain(k)
      <4>1. /\ \E w \in Workers : /\ wpc' = [wpc EXCEPT ![w] = "register"]
                                  /\ wchain' = [wchain EXCEPT ![w] = a]
            /\ cancelled' = cancelled
        BY <1>3, <3>1 DEF RunChain
      <4> QED
        BY <1>1, <1>6, <4>1 DEF AdminTypeOK, LiveInv
    <3>2. CASE StopChain(k)
      <4>1. /\ UNCHANGED <<wpc, wchain>> /\ cpc[k] = "stop"
            /\ cancelled' = cancelled \cup ({chainCancels[a]} \ {Nobody})
        BY <1>3, <3>2 DEF StopChain, At
      <4>2. a \in Chains
        BY <1>1, <1>3, <4>1 DEF HandlerInv
      <4>3. chainCancels[a] # Nobody => wchain[chainCancels[a]] = a
        BY <1>1, <4>2 DEF CancelsInv
      <4> QED
        BY <1>1, <1>6, <4>1, <4>3 DEF LiveInv
    <3>3. CASE UNCHANGED <<wpc, wchain, cancelled>>
      BY <1>1, <3>3 DEF LiveInv
    <3>4. RunChain(k) \/ StopChain(k) \/ UNCHANGED <<wpc, wchain, cancelled>>
      BY <1>6 DEF Handler, PutLookup, AddLock, AddChain, InitializeChain, UpdateMeta,
         UpdateLock, UpdateChain, DeleteLookup, DeleteLock, DeleteChain, workerVars
    <3> QED
      BY <3>1, <3>2, <3>3, <3>4
  <2> QED
    BY <2>3, <2>4, <2>5, <2>6
<1> QED
  BY <1>4, <1>5, <1>6

\* A request's part in the table of contexts.
LEMMA RequestCancels ==
    ASSUME UntouchedInv, NEW k \in Clients, Put(k) \/ Delete(k) \/ Handler(k), NEW c \in Chains
    PROVE  CancelsInv(c)'
<1>1. AdminTypeOK /\ CancelsInv(c)
  BY DEF UntouchedInv, RegistryInv
<1>2. chainCancels'[c] \in {chainCancels[c], Nobody}
  <2>1. UNCHANGED chainCancels \/ \E d : chainCancels' = [chainCancels EXCEPT ![d] = Nobody]
    BY DEF Put, Delete, Handler, PutLookup, AddLock, AddChain, InitializeChain, RunChain,
       UpdateMeta, UpdateLock, UpdateChain, DeleteLookup, StopChain, DeleteLock, DeleteChain
  <2> QED
    BY <1>1, <2>1 DEF AdminTypeOK
<1>3. \A w \in Workers : wpc[w] # "unused" => wpc'[w] = wpc[w] /\ wchain'[w] = wchain[w]
  <2>1. CASE RunChain(k)
    BY <1>1, <2>1 DEF RunChain, AdminTypeOK
  <2>2. CASE ~RunChain(k)
    BY <2>2 DEF Put, Delete, Handler, PutLookup, AddLock, AddChain, InitializeChain,
       UpdateMeta, UpdateLock, UpdateChain, DeleteLookup, StopChain, DeleteLock, DeleteChain,
       workerVars
  <2> QED
    BY <2>1, <2>2
<1>4. chainCancels[c] \in Workers \cup {Nobody}
  BY <1>1 DEF AdminTypeOK
<1> QED
  BY <1>1, <1>2, <1>3, <1>4 DEF CancelsInv
\* A worker leaves the registry and the requests alone, moves a cursor only of its
\* own chain, and never back from what it has read.
LEMMA WorkerSpares ==
    ASSUME UntouchedInv, NEW w \in Workers, Loop(w), NEW c \in Live
    PROVE  LiveInv(c)' /\ meta'[c] >= meta[c]
<1>1. /\ AdminTypeOK /\ LiveInv(c) /\ WorkerInv(w) /\ c \in Chains
  BY LiveType DEF UntouchedInv, RegistryInv
<1>2. UNCHANGED <<eventLogger, cpc, alias, wchain, cancelled>>
  BY DEF Loop, Register, LoadChain, CheckContext, ReadStart, ReadMeta, Collect, WriteMeta, Wait,
     registryVars, clientVars
<1>3. /\ meta \in [Chains -> Nat] /\ latest \in [Workers -> Nat] /\ startSeen \in [Workers -> Nat]
      /\ wpc \in [Workers -> WorkerStages]
  BY <1>1 DEF AdminTypeOK
<1>4. wchain[w] \in Chains
  BY <1>1 DEF WorkerInv, Loop, Register, LoadChain, CheckContext, ReadStart, ReadMeta, Collect,
     WriteMeta, Wait, Working
<1>5. /\ \A v \in Workers : v # w => wpc'[v] = wpc[v] /\ latest'[v] = latest[v]
      /\ wchain[w] # c => meta'[c] = meta[c]
  <2>1. /\ wpc' = wpc \/ \E s : wpc' = [wpc EXCEPT ![w] = s]
        /\ latest' = latest \/ \E n : latest' = [latest EXCEPT ![w] = n]
        /\ meta' = meta \/ \E n : meta' = [meta EXCEPT ![wchain[w]] = n]
    BY DEF Loop, Register, LoadChain, CheckContext, ReadStart, ReadMeta, Collect, WriteMeta,
       Wait, Become
  <2> QED
    BY <1>1, <1>3, <1>4, <2>1
<1>6. wchain[w] = c =>
         /\ meta'[c] >= meta[c]
         /\ wpc'[w] \in {"collect", "write"} => meta'[c] <= latest'[w]
  <2> SUFFICES ASSUME wchain[w] = c
               PROVE  /\ meta'[c] >= meta[c]
                      /\ wpc'[w] \in {"collect", "write"} => meta'[c] <= latest'[w]
    OBVIOUS
  <2>1. wpc[w] \in {"collect", "write"} => meta[c] <= latest[w]
    BY <1>1 DEF LiveInv
  <2>2. meta[c] \in Nat /\ latest[w] \in Nat /\ startSeen[w] \in Nat
    BY <1>1, <1>3
  <2>3. CASE ReadMeta(w)
    <3>1. meta' = meta /\ wpc[w] = "meta"
      BY <2>3 DEF ReadMeta, Working
    <3>2. CASE Registered(wchain[w])
      <4>1. latest'[w] = Larger(meta[c], startSeen[w])
        BY <1>3, <2>3, <3>2 DEF ReadMeta
      <4> QED
        BY <2>2, <3>1, <4>1 DEF Larger
    <3>3. CASE ~Registered(wchain[w])
      <4>1. wpc' = wpc
        BY <2>3, <3>3 DEF ReadMeta
      <4> QED
        BY <2>2, <3>1, <4>1
    <3> QED
      BY <3>2, <3>3
  <2>4. CASE Collect(w)
    <3>1. meta' = meta /\ wpc[w] = "collect"
      BY <2>4 DEF Collect, Working
    <3>2. \/ wpc'[w] = "wait"
          \/ \E n \in 1 .. LogRange : latest'[w] = latest[w] + n
      BY <1>3, <2>4 DEF Collect, Become
    <3> QED
      BY <2>1, <2>2, <3>1, <3>2, AdminAssumption
  <2>5. CASE WriteMeta(w)
    <3>1. wpc[w] = "write" /\ wpc'[w] = "wait"
      BY <1>3, <2>5 DEF WriteMeta, Working, Become
    <3>2. meta'[c] \in {meta[c], latest[w]}
      BY <1>1, <1>3, <2>5 DEF WriteMeta
    <3> QED
      BY <2>1, <2>2, <3>1, <3>2
  <2>6. CASE ~ReadMeta(w) /\ ~Collect(w) /\ ~WriteMeta(w)
    <3>1. /\ UNCHANGED <<meta, latest>>
          /\ \/ wpc' = wpc
             \/ \E s \in {"load", "check", "stopped", "read", "meta"} :
                   wpc' = [wpc EXCEPT ![w] = s]
      BY <2>6 DEF Loop, Register, LoadChain, CheckContext, ReadStart, Wait, Become
    <3> QED
      BY <1>3, <2>1, <2>2, <3>1
  <2> QED
    BY <2>3, <2>4, <2>5, <2>6
<1>7. meta'[c] >= meta[c]
  BY <1>1, <1>3, <1>5, <1>6
<1>8. \A v \in Workers : wchain[v] = c =>
         /\ v \notin cancelled
         /\ wpc'[v] \in {"collect", "write"} => meta'[c] <= latest'[v]
  <2> SUFFICES ASSUME NEW v \in Workers, wchain[v] = c
               PROVE  /\ v \notin cancelled
                      /\ wpc'[v] \in {"collect", "write"} => meta'[c] <= latest'[v]
    OBVIOUS
  <2>1. CASE v = w
    BY <1>1, <1>6, <2>1 DEF LiveInv
  <2>2. CASE v # w
    <3>1. wchain[w] # c
      BY <1>1, <2>2 DEF LiveInv
    <3> QED
      BY <1>1, <1>5, <2>2, <3>1 DEF LiveInv
  <2> QED
    BY <2>1, <2>2
<1> QED
  BY <1>1, <1>2, <1>7, <1>8 DEF LiveInv

LEMMA WorkerCancels ==
    ASSUME UntouchedInv, NEW w \in Workers, Loop(w), NEW c \in Chains PROVE CancelsInv(c)'
<1>1. AdminTypeOK /\ CancelsInv(c) /\ wchain' = wchain
  BY DEF UntouchedInv, RegistryInv, Loop, Register, LoadChain, CheckContext, ReadStart, ReadMeta,
     Collect, WriteMeta, Wait
<1>2. /\ wpc \in [Workers -> WorkerStages]
      /\ chainCancels \in [Chains -> Workers \cup {Nobody}]
  BY <1>1 DEF AdminTypeOK
<1>3. /\ wpc' = wpc \/ \E s \in WorkerStages \ {"unused"} : wpc' = [wpc EXCEPT ![w] = s]
      /\ \/ chainCancels' = chainCancels
         \/ chainCancels' = [chainCancels EXCEPT ![wchain[w]] = w] /\ wpc[w] = "register"
  BY DEF Loop, Register, LoadChain, CheckContext, ReadStart, ReadMeta, Collect, WriteMeta, Wait,
     Working, Running, Become, WorkerStages
<1>4. \A v \in Workers : wpc[v] # "unused" => wpc'[v] # "unused"
  BY <1>2, <1>3
<1>5. chainCancels[c] \in Workers \cup {Nobody}
  BY <1>2
<1>6. \/ chainCancels'[c] = chainCancels[c]
      \/ chainCancels'[c] = w /\ wchain[w] = c /\ wpc[w] = "register"
  BY <1>2, <1>3
<1> QED
  BY <1>1, <1>4, <1>5, <1>6 DEF CancelsInv

\* What a step may never do to a live chain.
LEMMA NextUntouched ==
    ASSUME UntouchedInv, [Next]_vars
    PROVE  /\ UntouchedInv'
           /\ \A c \in Live : /\ eventLogger'[c] = Boot[c]
                              /\ \A w \in cancelled' : wchain'[w] # c
                              /\ meta'[c] >= meta[c]
<1>1. RegistryInv /\ RegistryInv' /\ \A c \in Live : meta[c] \in Nat
  BY NextRegistry, LiveType DEF UntouchedInv, RegistryInv, AdminTypeOK
<1>2. ASSUME NEW k \in Clients, Put(k) \/ Delete(k) \/ Handler(k), NEW c \in Live
      PROVE  LiveInv(c)' /\ meta'[c] >= meta[c]
  <2>1. LiveInv(c) /\ meta[c] \in Nat
    BY <1>1 DEF UntouchedInv
  <2>2. /\ eventLogger'[c] = eventLogger[c] /\ meta'[c] = meta[c] /\ latest' = latest
        /\ \A j \in Clients : alias'[j] = c => cpc'[j] \in {"put", "delete"}
        /\ \A w \in Workers : wchain'[w] = c =>
              wchain[w] = c /\ wpc'[w] = wpc[w] /\ w \notin cancelled'
    BY <1>2, RequestSpares
  <2> QED
    BY <2>1, <2>2 DEF LiveInv
<1>3. ASSUME NEW w \in Workers, Loop(w), NEW c \in Live
      PROVE  LiveInv(c)' /\ meta'[c] >= meta[c]
  BY <1>3, WorkerSpares
<1>4. ASSUME MapRace \/ Start \/ UNCHANGED vars, NEW c \in Live
      PROVE  LiveInv(c)' /\ meta'[c] >= meta[c]
  <2>1. UNCHANGED <<eventLogger, meta, cpc, alias, wpc, wchain, cancelled, latest>>
    BY <1>4 DEF MapRace, Start, vars, registryVars, clientVars, workerVars
  <2> QED
    BY <1>1, <2>1 DEF UntouchedInv, LiveInv
<1>5. \A c \in Live : LiveInv(c)' /\ meta'[c] >= meta[c]
  BY <1>2, <1>3, <1>4 DEF Next
<1>6. ASSUME NEW c \in Chains PROVE CancelsInv(c)'
  <2>1. CASE MapRace \/ Start \/ UNCHANGED vars
    BY <2>1 DEF MapRace, Start, vars, workerVars, UntouchedInv, CancelsInv
  <2> QED
    BY <2>1, RequestCancels, WorkerCancels DEF Next
<1>7. ASSUME NEW c \in Live, NEW w \in cancelled' PROVE wchain'[w] # c
  <2>1. w \in Workers
    BY <1>1 DEF RegistryInv, AdminTypeOK
  <2> QED
    BY <1>5, <2>1 DEF LiveInv
<1> QED
  BY <1>1, <1>5, <1>6, <1>7 DEF UntouchedInv, LiveInv

\* No request, however many interleave, changes the entry of a live chain, cancels a
\* worker of it or sets its cursor back: what was looked up before the lock was taken
\* still holds when it is used, for a live chain.
THEOREM LiveIsUntouched == Spec => LiveChainUntouched
<1>1. Init => UntouchedInv
  BY InitUntouched
<1>2. UntouchedInv /\ [Next]_vars => UntouchedInv'
  BY NextUntouched
<1>3. UntouchedInv /\ [Next]_vars =>
         [\A c \in Live :
             /\ eventLogger[c]' = Boot[c]
             /\ \A w \in cancelled' : wchain[w]' # c
             /\ meta[c]' >= meta[c]]_vars
  BY NextUntouched
<1> QED
  BY <1>1, <1>2, <1>3, PTL DEF Spec, LiveChainUntouched
=============================================================================
