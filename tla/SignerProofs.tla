---------------------------- MODULE SignerProofs ----------------------------
(***************************************************************************)
(* What holds of the signing backend for every number of requests, every   *)
(* set of bodies, accounts and key files and every width of a chain id.    *)
(*                                                                         *)
(* A request works on what it keeps for itself, its body and the           *)
(* signatures it has; what it shares is the table, whose invariant is that *)
(* each signer is where its chain and account say.                         *)
(***************************************************************************)
EXTENDS Signer, SequenceTheorems, TLAPS

\* Where a request is on its way to a signature.
Signing == {"lock", "lookup", "insert", "find", "sign"}

\* Signature s is the one that body b asks for of its i-th pair.
Asked(b, i, s) ==
    s.by = b.pairs[i].account /\ s.hash = HashOf(b) /\ s.v \in {27, 28}

\* The table finds each signer made, and under the account it is for.
TableInv ==
    /\ \A i \in 1 .. Len(signers) :
          mmKeyStore[Slot(signers[i].chainId, signers[i].address)] = i
    /\ \A s \in Slots : mmKeyStore[s] # None => signers[mmKeyStore[s]].address = s[2]

\* A request that signs has the signatures of the pairs before its turn, and from the
\* table the signer of the pair whose turn it is; and one that makes a signer has found
\* none, and the lock keeps others from making it.
WorkInv(r) ==
    /\ pc[r] \in Signing \cup {"parse"} => body[r] \in Bodies
    /\ pc[r] \in Signing =>
          /\ work[r] \in Work
          /\ Len(work[r].done) < Len(body[r].pairs)
          /\ \A i \in 1 .. Len(work[r].done) : Asked(body[r], i, work[r].done[i])
    /\ pc[r] = "insert" => mmKeyStore[SlotOf(r)] = None
    /\ pc[r] \in {"find", "sign"} =>
          /\ work[r].signer \in 1 .. Len(signers)
          /\ TheSigner(r).address = Pair(r).account

\* What a request was sent, and of what has been answered, what it asked for.
ReplyInv(r) ==
    /\ body[r] = None => pc[r] \in {"new", "done"} /\ ~(pc[r] = "done" /\ reply[r].ok)
    /\ body[r] # None => pc[r] # "new"
    /\ pc[r] = "recover" => body[r] \notin Bodies
    /\ pc[r] = "done" /\ body[r] \in Bodies /\ reply[r].ok =>
          /\ reply[r].signatures \in Seq(Signature)
          /\ Len(reply[r].signatures) = Len(body[r].pairs)
          /\ \A i \in 1 .. Len(body[r].pairs) : Asked(body[r], i, reply[r].signatures[i])
    /\ pc[r] = "done" /\ body[r] \notin Bodies /\ reply[r].ok => reply[r].signatures = <<>>
    /\ pc[r] = "done" /\ body[r] \notin Bodies /\ body[r] # None
          /\ body[r].signature.v \in {27, 28} =>
          reply[r].ok /\ reply[r].signer = body[r].signature.by

\* The inductive invariant.
SignerInv ==
    /\ SignerTypeOK
    /\ TableInv
    /\ \A r \in Requests : WorkInv(r) /\ ReplyInv(r)
-----------------------------------------------------------------------------
(***************************************************************************)
(* What is computed from a body.                                           *)
(***************************************************************************)
\* A slot of the table, whatever the chain id.
LEMMA SlotIsOne == ASSUME NEW c \in Nat, NEW a \in Accounts
                   PROVE  Slot(c, a) \in Slots /\ Slot(c, a)[2] = a
<1>1. Width \in Nat /\ Width > 0
  BY SignerAssumption
<1>2. c % Width \in 0 .. Width - 1
  BY <1>1
<1> QED BY <1>2 DEF Slot, Slots

\* What is hashed of a body is a hash.
LEMMA HashIsHash == ASSUME NEW b \in Bodies PROVE HashOf(b) \in Hash
<1>1. b.op \in {"eip712", "eip191"} /\ (b.op = "eip712" => b.domain \in Nat \cup {None})
      /\ b.fields \in Fields
  BY BodyAssumption
<1>2. ASSUME NEW f \in [type : STRING, kind : Kinds] PROVE Value(f) \in [type : STRING, kind : Kinds]
  <2>1. [f EXCEPT !.kind = "number"] \in [type : STRING, kind : Kinds]
    BY DEF Kinds
  <2> QED BY <2>1 DEF Value
<1>3. Values(b.fields) \in Fields
  <2>1. DOMAIN b.fields = 1 .. Len(b.fields) /\ Len(b.fields) \in Nat
    BY <1>1 DEF Fields
  <2>2. \A i \in 1 .. Len(b.fields) : Value(b.fields[i]) \in [type : STRING, kind : Kinds]
    <3> SUFFICES ASSUME NEW i \in 1 .. Len(b.fields)
                 PROVE  Value(b.fields[i]) \in [type : STRING, kind : Kinds]
      OBVIOUS
    <3>1. b.fields \in Seq([type : STRING, kind : Kinds])
      BY <1>1 DEF Fields
    <3>2. b.fields[i] \in [type : STRING, kind : Kinds]
      BY <3>1, ElementOfSeq
    <3> QED BY <3>2, <1>2
  <2> QED BY <2>1, <2>2 DEF Values, Fields
<1>4. b.op = "eip712" /\ 2 * b.domain < Width => b.domain \in Nat \cup {None}
  BY <1>1
<1>5. CASE b.op = "eip712"
  <2>1. b.domain \in Nat \cup {None}
    BY <1>1, <1>5
  <2> QED BY <1>5, <1>3, <2>1 DEF HashOf, Hash712, Hash
<1>6. CASE b.op # "eip712"
  BY <1>6, <1>3 DEF HashOf, Hash191, Hash
<1> QED BY <1>5, <1>6

LEMMA ChainIsNat == ASSUME NEW b \in Bodies PROVE ChainOf(b) \in Nat
<1>1. b.op \in {"eip712", "eip191"} /\ (b.op = "eip191" => b.chain \in Nat)
  BY BodyAssumption
<1> QED BY <1>1 DEF ChainOf

\* No request to recover a signature is among the bodies to sign, and none is None.
LEMMA BodiesApart ==
    /\ \A s \in Recovery : s \notin Bodies /\ s # None
    /\ None \notin Bodies
<1>1. \A s \in Recovery : s.op = "recover"
  BY DEF Recovery
<1>2. \A b \in Bodies : b.op # "recover"
  BY BodyAssumption
<1> QED BY <1>1, <1>2, SignerAssumption, BodyAssumption
-----------------------------------------------------------------------------
(***************************************************************************)
(* Requests that wait.                                                     *)
(***************************************************************************)
\* A request that signs has a pair whose turn it is, of a known account.
LEMMA PairIsOne ==
    ASSUME SignerInv, NEW r \in Requests, pc[r] \in Signing
    PROVE  /\ body[r] \in Bodies
           /\ Pair(r) \in [account : Accounts, phrase : Phrases]
           /\ SlotOf(r) \in Slots /\ SlotOf(r)[2] = Pair(r).account
           /\ Len(work[r].done) \in Nat /\ Len(body[r].pairs) \in Nat
           /\ Len(work[r].done) < Len(body[r].pairs)
<1>1. /\ body[r] \in Bodies
      /\ work[r].done \in Seq(Signature)
      /\ Len(work[r].done) < Len(body[r].pairs)
  BY DEF SignerInv, WorkInv, Work
<1>2. body[r].pairs \in Seq([account : Accounts, phrase : Phrases])
  BY <1>1, BodyAssumption
<1>3. Pair(r) \in [account : Accounts, phrase : Phrases]
  <2>1. Len(work[r].done) \in Nat /\ Len(body[r].pairs) \in Nat
    BY <1>1, <1>2
  <2>2. Len(work[r].done) + 1 \in 1 .. Len(body[r].pairs)
    BY <1>1, <2>1
  <2> QED BY <1>2, <2>2, ElementOfSeq DEF Pair
<1>4. ChainOf(body[r]) \in Nat
  BY <1>1, ChainIsNat
<1>5. SlotOf(r) \in Slots /\ SlotOf(r)[2] = Pair(r).account
  BY <1>3, <1>4, SlotIsOne DEF SlotOf
<1> QED BY <1>1, <1>2, <1>3, <1>5

\* A step that leaves a request alone and keeps the signers there are, and what the
\* request has found missing, leaves it as it was.
LEMMA OthersWait ==
    ASSUME SignerInv, NEW q \in Requests,
           pc'[q] = pc[q], body'[q] = body[q], work'[q] = work[q], reply'[q] = reply[q],
           Len(signers') \in Nat, Len(signers) <= Len(signers'),
           \A i \in 1 .. Len(signers) : signers'[i] = signers[i],
           pc[q] = "insert" => mmKeyStore'[SlotOf(q)] = mmKeyStore[SlotOf(q)]
    PROVE  WorkInv(q)' /\ ReplyInv(q)'
<1>1. WorkInv(q) /\ ReplyInv(q) /\ Len(signers) \in Nat
  BY DEF SignerInv, SignerTypeOK
<1>2. SlotOf(q)' = SlotOf(q) /\ Pair(q)' = Pair(q)
  BY DEF SlotOf, Pair
<1>3. WorkInv(q)'
  BY <1>1, <1>2 DEF WorkInv, TheSigner
<1>4. ReplyInv(q)'
  BY <1>1 DEF ReplyInv
<1> QED BY <1>3, <1>4
-----------------------------------------------------------------------------
(***************************************************************************)
(* The actions.                                                            *)
(***************************************************************************)
LEMMA InitSigner == Init => SignerInv
<1> SUFFICES ASSUME Init PROVE SignerInv
  OBVIOUS
<1>1. /\ signers = <<>> /\ mmKeyStore = [s \in Slots |-> None] /\ lockMutex = None
      /\ files = KeyFiles /\ changes = 0
      /\ \A r \in Requests : pc[r] = "new" /\ body[r] = None /\ work[r] = None /\ reply[r] = None
  BY DEF Init
<1>2. SignerTypeOK
  <2>1. \A r \in Requests : lockMutex # r
    BY <1>1, SignerAssumption DEF Requests
  <2> QED BY <1>1, <2>1, SignerAssumption DEF Init, SignerTypeOK
<1>3. TableInv
  BY <1>1 DEF TableInv
<1>4. \A r \in Requests : WorkInv(r) /\ ReplyInv(r)
  BY <1>1 DEF WorkInv, ReplyInv, Signing
<1> QED BY <1>2, <1>3, <1>4 DEF SignerInv

LEMMA KeepsAll == ASSUME SignerInv, UNCHANGED vars PROVE SignerInv'
<1>1. SignerTypeOK' /\ TableInv'
  BY DEF SignerInv, SignerTypeOK, TableInv, vars
<1>2. \A r \in Requests : WorkInv(r)' /\ ReplyInv(r)'
  BY OthersWait DEF SignerInv, SignerTypeOK, vars
<1> QED BY <1>1, <1>2 DEF SignerInv

LEMMA ChangesFile == ASSUME SignerInv, ChangeFile PROVE SignerInv'
<1>1. /\ UNCHANGED <<signers, mmKeyStore, lockMutex, pc, body, work, reply>>
      /\ changes < MaxChanges /\ changes' = changes + 1
      /\ \E a \in Accounts, p \in Phrases \cup {None} : files' = [files EXCEPT ![a] = p]
  BY DEF ChangeFile, sharedVars
<1>2. SignerTypeOK'
  <2>1. files' \in [Accounts -> Phrases \cup {None}]
    BY <1>1 DEF SignerInv, SignerTypeOK
  <2>2. changes' \in 0 .. MaxChanges
    BY <1>1, SignerAssumption DEF SignerInv, SignerTypeOK
  <2> QED BY <1>1, <2>1, <2>2 DEF SignerInv, SignerTypeOK
<1>3. TableInv'
  BY <1>1 DEF SignerInv, TableInv
<1>4. \A r \in Requests : WorkInv(r)' /\ ReplyInv(r)'
  BY <1>1, OthersWait DEF SignerInv, SignerTypeOK
<1> QED BY <1>2, <1>3, <1>4 DEF SignerInv

\* A step of r that leaves the table and the lock alone: what there is to show is of r.
LEMMA OwnStep ==
    ASSUME SignerInv, NEW r \in Requests,
           UNCHANGED <<signers, mmKeyStore, lockMutex, files, changes>>,
           NEW here, NEW sent, NEW has, NEW said,
           pc[r] \notin {"lookup", "insert"},
           here \in {"parse", "lock", "find", "sign", "recover", "done"},
           sent \in Bodies \cup Recovery \cup {None}, has \in Work \cup {None},
           said \in Response \cup {None}, (here = "done") = (said # None),
           pc' = [pc EXCEPT ![r] = here], body' = [body EXCEPT ![r] = sent],
           work' = [work EXCEPT ![r] = has], reply' = [reply EXCEPT ![r] = said],
           WorkInv(r)', ReplyInv(r)'
    PROVE  SignerInv'
<1>1. SignerTypeOK'
  <2>1. /\ pc' \in [Requests -> {"new", "parse", "lock", "lookup", "insert", "find", "sign", "recover", "done"}]
        /\ body' \in [Requests -> Bodies \cup Recovery \cup {None}]
        /\ work' \in [Requests -> Work \cup {None}]
        /\ reply' \in [Requests -> Response \cup {None}]
    BY DEF SignerInv, SignerTypeOK
  <2>2. \A q \in Requests : pc'[q] \in {"lookup", "insert"} <=> lockMutex' = q
    BY DEF SignerInv, SignerTypeOK
  <2>3. \A q \in Requests : (pc'[q] = "done") = (reply'[q] # None)
    BY DEF SignerInv, SignerTypeOK
  <2> QED BY <2>1, <2>2, <2>3 DEF SignerInv, SignerTypeOK
<1>2. TableInv'
  BY DEF SignerInv, TableInv
<1>3. ASSUME NEW q \in Requests, q # r PROVE WorkInv(q)' /\ ReplyInv(q)'
  <2>1. pc'[q] = pc[q] /\ body'[q] = body[q] /\ work'[q] = work[q] /\ reply'[q] = reply[q]
    BY <1>3 DEF SignerInv, SignerTypeOK
  <2> QED BY <2>1, OthersWait DEF SignerInv, SignerTypeOK
<1> QED BY <1>1, <1>2, <1>3 DEF SignerInv

\* What a client has seen, and sends to have its signer recovered, is a signature.
LEMMA RecoverableIsSignature == ASSUME SignerInv PROVE Recoverable \subseteq Signature
<1>1. ASSUME NEW s \in Seen PROVE s \in Signature /\ s.v \in {27, 28}
  <2>1. PICK r \in Requests : reply[r] # None /\ reply[r].ok /\ s \in ToSet(reply[r].signatures)
    BY DEF Seen
  <2>2. pc[r] = "done" /\ ReplyInv(r)
    BY <2>1 DEF SignerInv, SignerTypeOK
  <2>3. body[r] # None
    BY <2>1, <2>2 DEF ReplyInv
  <2>4. body[r] \in Bodies
    <3>1. ASSUME body[r] \notin Bodies PROVE FALSE
      <4>1. reply[r].signatures = <<>>
        BY <2>1, <2>2, <3>1 DEF ReplyInv
      <4> QED BY <2>1, <4>1 DEF ToSet
    <3> QED BY <3>1
  <2>5. /\ reply[r].signatures \in Seq(Signature)
        /\ Len(reply[r].signatures) = Len(body[r].pairs)
        /\ \A i \in 1 .. Len(body[r].pairs) : Asked(body[r], i, reply[r].signatures[i])
    BY <2>1, <2>2, <2>4 DEF ReplyInv
  <2>6. PICK i \in 1 .. Len(reply[r].signatures) : s = reply[r].signatures[i]
    BY <2>1, <2>5 DEF ToSet
  <2>7. s \in Signature
    BY <2>5, <2>6, ElementOfSeq
  <2>8. Asked(body[r], i, s)
    BY <2>5, <2>6
  <2> QED BY <2>7, <2>8 DEF Asked
<1>2. ASSUME NEW s \in Seen PROVE [s EXCEPT !.v = s.v - 27] \in Signature
  <2>1. s \in Signature /\ s.v - 27 \in 0 .. 255
    BY <1>1
  <2> QED BY <2>1 DEF Signature
<1> QED BY <1>1, <1>2 DEF Recoverable

LEMMA Arrives == ASSUME SignerInv, NEW r \in Requests, Arrive(r) PROVE SignerInv'
<1>1. /\ pc[r] = "new" /\ UNCHANGED <<signers, mmKeyStore, lockMutex, files, changes, work, reply>>
      /\ \/ \E b \in Bodies : body' = [body EXCEPT ![r] = b] /\ pc' = [pc EXCEPT ![r] = "parse"]
         \/ \E s \in Recoverable :
               /\ body' = [body EXCEPT ![r] = [op |-> "recover", signature |-> s]]
               /\ pc' = [pc EXCEPT ![r] = "recover"]
  BY DEF Arrive, sharedVars
<1>2. SignerTypeOK
  BY DEF SignerInv
<1>3. work[r] \in Work \cup {None} /\ reply[r] = None
  BY <1>1, <1>2 DEF SignerTypeOK
<1>4. work' = [work EXCEPT ![r] = work[r]] /\ reply' = [reply EXCEPT ![r] = None]
  BY <1>1, <1>2, <1>3 DEF SignerTypeOK
<1>5. CASE \E b \in Bodies : body' = [body EXCEPT ![r] = b] /\ pc' = [pc EXCEPT ![r] = "parse"]
  <2>1. PICK b \in Bodies : body' = [body EXCEPT ![r] = b] /\ pc' = [pc EXCEPT ![r] = "parse"]
    BY <1>5
  <2>2. pc'[r] = "parse" /\ body'[r] = b
    BY <1>2, <2>1 DEF SignerTypeOK
  <2>3. WorkInv(r)' /\ ReplyInv(r)'
    BY <2>2, BodiesApart DEF WorkInv, ReplyInv, Signing
  <2> QED BY <1>1, <1>3, <1>4, <2>1, <2>3, OwnStep
<1>6. CASE \E s \in Recoverable :
              /\ body' = [body EXCEPT ![r] = [op |-> "recover", signature |-> s]]
              /\ pc' = [pc EXCEPT ![r] = "recover"]
  <2>1. PICK s \in Recoverable :
              /\ body' = [body EXCEPT ![r] = [op |-> "recover", signature |-> s]]
              /\ pc' = [pc EXCEPT ![r] = "recover"]
    BY <1>6
  <2>2. PICK b : b = [op |-> "recover", signature |-> s]
    OBVIOUS
  <2>3. b \in Recovery
    BY <2>2, RecoverableIsSignature DEF Recovery
  <2>4. body' = [body EXCEPT ![r] = b] /\ pc' = [pc EXCEPT ![r] = "recover"]
    BY <2>1, <2>2
  <2>5. pc'[r] = "recover" /\ body'[r] = b
    BY <1>2, <2>4 DEF SignerTypeOK
  <2>6. WorkInv(r)' /\ ReplyInv(r)'
    BY <2>3, <2>5, BodiesApart DEF WorkInv, ReplyInv, Signing
  <2> QED BY <1>1, <1>3, <1>4, <2>3, <2>4, <2>6, OwnStep
<1> QED BY <1>1, <1>5, <1>6

\* An error reply of a request that has not been answered.
LEMMA Refuses ==
    ASSUME SignerInv, NEW r \in Requests, NEW said \in {Error, BareError}, Respond(r, said),
           pc[r] \in {"parse", "find", "sign"}, UNCHANGED <<signers, mmKeyStore, lockMutex, files, changes>>,
           body' = [body EXCEPT ![r] = None] \/ body' = body
    PROVE  SignerInv'
<1>1. SignerTypeOK /\ body[r] \in Bodies
  BY DEF SignerInv, WorkInv, Signing
<1>2. said \in Response /\ said.ok = FALSE /\ said # None
  <2>1. Error \in Response /\ Error.ok = FALSE
    BY DEF Error, Response
  <2>2. BareError \in Response /\ BareError.ok = FALSE
    BY DEF BareError, Response
  <2> QED BY <2>1, <2>2, BodyAssumption
<1>3. /\ pc' = [pc EXCEPT ![r] = "done"] /\ work' = [work EXCEPT ![r] = None]
      /\ reply' = [reply EXCEPT ![r] = said]
  BY DEF Respond
<1>4. PICK sent \in {None, body[r]} : body' = [body EXCEPT ![r] = sent]
  BY <1>1 DEF SignerTypeOK
<1>5. pc'[r] = "done" /\ reply'[r] = said /\ body'[r] = sent
  BY <1>1, <1>3, <1>4 DEF SignerTypeOK
<1>6. WorkInv(r)' /\ ReplyInv(r)'
  BY <1>1, <1>2, <1>5, BodiesApart DEF WorkInv, ReplyInv, Signing
<1> QED BY <1>1, <1>2, <1>3, <1>4, <1>6, OwnStep

LEMMA Parses == ASSUME SignerInv, NEW r \in Requests, Parse(r) PROVE SignerInv'
<1>1. pc[r] = "parse" /\ UNCHANGED <<signers, mmKeyStore, lockMutex, files, changes>>
  BY DEF Parse, sharedVars
<1>2. SignerTypeOK /\ body[r] \in Bodies /\ reply[r] = None
  BY <1>1 DEF SignerInv, WorkInv, SignerTypeOK
<1>3. CASE /\ \E said \in {Error, BareError} : Respond(r, said)
           /\ body' = [body EXCEPT ![r] = None]
  BY <1>1, <1>3, Refuses
<1>4. CASE /\ body[r].pairs # <<>>
           /\ pc' = [pc EXCEPT ![r] = "lock"]
           /\ work' = [work EXCEPT ![r] = [done |-> <<>>, signer |-> None]]
           /\ UNCHANGED <<body, reply>>
  <2>1. PICK has : has = [done |-> <<>>, signer |-> None]
    OBVIOUS
  <2>2. has \in Work /\ has.done = <<>>
    BY <2>1 DEF Work
  <2>3. work' = [work EXCEPT ![r] = has]
    BY <1>4, <2>1
  <2>4. body' = [body EXCEPT ![r] = body[r]] /\ reply' = [reply EXCEPT ![r] = None]
    BY <1>2, <1>4 DEF SignerTypeOK
  <2>5. pc'[r] = "lock" /\ work'[r] = has /\ body'[r] = body[r]
    BY <1>2, <1>4, <2>3 DEF SignerTypeOK
  <2>6. Len(body[r].pairs) > 0
    <3>1. body[r].pairs \in Seq([account : Accounts, phrase : Phrases])
      BY <1>2, BodyAssumption
    <3> QED BY <1>4, <3>1
  <2>7. WorkInv(r)' /\ ReplyInv(r)'
    BY <1>2, <2>2, <2>5, <2>6, BodiesApart DEF WorkInv, ReplyInv, Signing
  <2> QED BY <1>1, <1>2, <1>4, <2>2, <2>3, <2>4, <2>7, OwnStep
<1> QED BY <1>3, <1>4 DEF Parse

LEMMA LocksOne == ASSUME SignerInv, NEW r \in Requests, Lock(r) PROVE SignerInv'
<1>1. /\ pc[r] = "lock" /\ lockMutex = None /\ lockMutex' = r /\ pc' = [pc EXCEPT ![r] = "lookup"]
      /\ UNCHANGED <<signers, mmKeyStore, files, changes, body, work, reply>>
  BY DEF Lock
<1>2. SignerTypeOK
  BY DEF SignerInv
<1>3. \A q \in Requests : pc[q] \notin {"lookup", "insert"}
  <2>1. \A q \in Requests : lockMutex # q
    BY <1>1, SignerAssumption DEF Requests
  <2> QED BY <1>2, <2>1 DEF SignerTypeOK
<1>4. SignerTypeOK'
  <2>1. pc' \in [Requests -> {"new", "parse", "lock", "lookup", "insert", "find", "sign", "recover", "done"}]
    BY <1>1, <1>2 DEF SignerTypeOK
  <2>2. \A q \in Requests : pc'[q] \in {"lookup", "insert"} <=> lockMutex' = q
    BY <1>1, <1>2, <1>3 DEF SignerTypeOK
  <2>3. \A q \in Requests : (pc'[q] = "done") = (reply'[q] # None)
    BY <1>1, <1>2 DEF SignerTypeOK
  <2> QED BY <1>1, <1>2, <2>1, <2>2, <2>3 DEF SignerTypeOK
<1>5. TableInv'
  BY <1>1 DEF SignerInv, TableInv
<1>6. ASSUME NEW q \in Requests, q # r PROVE WorkInv(q)' /\ ReplyInv(q)'
  BY <1>1, <1>2, <1>6, OthersWait DEF SignerTypeOK
<1>7. pc'[r] = "lookup"
  BY <1>1, <1>2 DEF SignerTypeOK
<1>8. WorkInv(r)' /\ ReplyInv(r)'
  BY <1>1, <1>7 DEF SignerInv, WorkInv, ReplyInv, Signing
<1> QED BY <1>4, <1>5, <1>6, <1>8 DEF SignerInv

LEMMA LooksUp == ASSUME SignerInv, NEW r \in Requests, LookUp(r) PROVE SignerInv'
<1>1. PICK known : known = mmKeyStore[SlotOf(r)]
  OBVIOUS
<1>2. /\ pc[r] = "lookup"
      /\ pc' = [pc EXCEPT ![r] = IF known = None THEN "insert" ELSE "find"]
      /\ work' = [work EXCEPT ![r].signer = known]
      /\ lockMutex' = IF known = None THEN lockMutex ELSE None
      /\ UNCHANGED <<signers, mmKeyStore, files, changes, body, reply>>
  BY <1>1 DEF LookUp
<1>3. SignerTypeOK /\ WorkInv(r)
  BY DEF SignerInv
<1>4. /\ body[r] \in Bodies /\ Pair(r).account \in Accounts
      /\ SlotOf(r) \in Slots /\ SlotOf(r)[2] = Pair(r).account
  BY <1>2, PairIsOne DEF Signing
<1>5. known \in 1 .. Len(signers) \cup {None}
  BY <1>1, <1>3, <1>4 DEF SignerTypeOK
<1>6. known # None => signers[known].address = Pair(r).account
  BY <1>1, <1>4 DEF SignerInv, TableInv
<1>7. work[r] \in Work /\ lockMutex = r /\ r # None
  BY <1>2, <1>3, SignerAssumption DEF SignerTypeOK, WorkInv, Signing, Requests
<1>8. /\ pc'[r] = (IF known = None THEN "insert" ELSE "find")
      /\ work'[r] = [work[r] EXCEPT !.signer = known]
      /\ \A q \in Requests : q # r => pc'[q] = pc[q] /\ work'[q] = work[q]
  BY <1>2, <1>3 DEF SignerTypeOK
<1>9. work'[r] \in Work /\ work'[r].done = work[r].done /\ work'[r].signer = known
  <2>1. Len(signers) \in Nat
    BY <1>3 DEF SignerTypeOK
  <2> QED BY <1>5, <1>7, <1>8, <2>1 DEF Work
<1>10. SignerTypeOK'
  <2>1. pc' \in [Requests -> {"new", "parse", "lock", "lookup", "insert", "find", "sign", "recover", "done"}]
    BY <1>2, <1>3 DEF SignerTypeOK
  <2>2. work' \in [Requests -> Work \cup {None}]
    BY <1>2, <1>3, <1>8, <1>9 DEF SignerTypeOK
  <2>3. \A q \in Requests : pc'[q] \in {"lookup", "insert"} <=> lockMutex' = q
    <3>1. \A q \in Requests : q # None
      BY SignerAssumption DEF Requests
    <3> QED BY <1>2, <1>3, <1>7, <1>8, <3>1 DEF SignerTypeOK
  <2>4. \A q \in Requests : (pc'[q] = "done") = (reply'[q] # None)
    BY <1>2, <1>3, <1>8 DEF SignerTypeOK
  <2>5. lockMutex' \in Requests \cup {None}
    BY <1>2, <1>3 DEF SignerTypeOK
  <2> QED BY <1>2, <1>3, <2>1, <2>2, <2>3, <2>4, <2>5 DEF SignerTypeOK
<1>11. TableInv'
  BY <1>2 DEF SignerInv, TableInv
<1>12. ASSUME NEW q \in Requests, q # r PROVE WorkInv(q)' /\ ReplyInv(q)'
  BY <1>2, <1>3, <1>8, <1>12, OthersWait DEF SignerTypeOK
<1>13. WorkInv(r)'
  <2>1. SlotOf(r)' = SlotOf(r) /\ Pair(r)' = Pair(r)
    BY <1>2, <1>9 DEF SlotOf, Pair
  <2> QED BY <1>1, <1>2, <1>3, <1>5, <1>6, <1>8, <1>9, <2>1 DEF WorkInv, Signing, TheSigner
<1>14. ReplyInv(r)'
  BY <1>2, <1>8 DEF SignerInv, ReplyInv
<1> QED BY <1>10, <1>11, <1>12, <1>13, <1>14 DEF SignerInv

LEMMA Finds == ASSUME SignerInv, NEW r \in Requests, Find(r) PROVE SignerInv'
<1>1. pc[r] = "find" /\ UNCHANGED <<signers, mmKeyStore, lockMutex, files, changes, body>>
  BY DEF Find, sharedVars
<1>2. SignerTypeOK /\ WorkInv(r) /\ ReplyInv(r)
  BY DEF SignerInv
<1>3. CASE Fail(r)
  BY <1>1, <1>3, Refuses DEF Fail
<1>4. CASE pc' = [pc EXCEPT ![r] = "sign"] /\ UNCHANGED <<work, reply>>
  <2>1. work[r] \in Work /\ body[r] \in Bodies /\ reply[r] = None
    BY <1>1, <1>2 DEF WorkInv, Signing, SignerTypeOK
  <2>2. /\ work' = [work EXCEPT ![r] = work[r]] /\ body' = [body EXCEPT ![r] = body[r]]
        /\ reply' = [reply EXCEPT ![r] = None]
    BY <1>1, <1>2, <1>4, <2>1 DEF SignerTypeOK
  <2>3. pc'[r] = "sign"
    BY <1>2, <1>4 DEF SignerTypeOK
  <2>4. Pair(r)' = Pair(r) /\ TheSigner(r)' = TheSigner(r)
    BY <1>1, <1>4 DEF Pair, TheSigner
  <2>5. WorkInv(r)' /\ ReplyInv(r)'
    BY <1>1, <1>2, <1>4, <2>3, <2>4 DEF WorkInv, ReplyInv, Signing
  <2> QED BY <1>1, <1>4, <2>1, <2>2, <2>5, OwnStep
<1> QED BY <1>3, <1>4 DEF Find

\* A new signer takes a slot that was empty, and so no other's.
LEMMA Inserts == ASSUME SignerInv, NEW r \in Requests, Insert(r) PROVE SignerInv'
<1>1. PICK slot, account, chain :
         slot = SlotOf(r) /\ account = Pair(r).account /\ chain = ChainOf(body[r])
  OBVIOUS
<1>2. PICK n : n = Len(signers) + 1
  OBVIOUS
<1>3. SignerTypeOK /\ WorkInv(r) /\ TableInv /\ Len(signers) \in Nat /\ pc[r] = "insert"
  BY DEF SignerInv, SignerTypeOK, Insert
<1>4. /\ body[r] \in Bodies /\ account \in Accounts /\ chain \in Nat
      /\ slot \in Slots /\ slot = Slot(chain, account) /\ slot[2] = account
  <2>1. /\ body[r] \in Bodies /\ Pair(r) \in [account : Accounts, phrase : Phrases]
        /\ SlotOf(r) \in Slots /\ SlotOf(r)[2] = Pair(r).account
    BY <1>3, PairIsOne DEF Signing
  <2> QED BY <1>1, <2>1, ChainIsNat DEF SlotOf
<1>5. mmKeyStore[slot] = None
  BY <1>1, <1>3 DEF WorkInv
<1>6. /\ signers' \in Seq([address : Accounts, chainId : Nat]) /\ Len(signers') = n
      /\ signers'[n] = [address |-> account, chainId |-> chain]
      /\ \A i \in 1 .. Len(signers) : signers'[i] = signers[i]
  <2>1. signers' = Append(signers, [address |-> account, chainId |-> chain])
    BY <1>1 DEF Insert
  <2>2. [address |-> account, chainId |-> chain] \in [address : Accounts, chainId : Nat]
    BY <1>4
  <2> QED BY <1>2, <1>3, <2>1, <2>2 DEF SignerTypeOK
<1>7. /\ mmKeyStore' = [mmKeyStore EXCEPT ![slot] = n] /\ lockMutex' = None
      /\ work' = [work EXCEPT ![r].signer = n] /\ pc' = [pc EXCEPT ![r] = "find"]
      /\ UNCHANGED <<files, changes, body, reply>>
  BY <1>1, <1>6 DEF Insert
<1>8. /\ pc'[r] = "find" /\ work'[r] = [work[r] EXCEPT !.signer = n]
      /\ mmKeyStore'[slot] = n
      /\ \A t \in Slots : t # slot => mmKeyStore'[t] = mmKeyStore[t]
      /\ \A q \in Requests : q # r => pc'[q] = pc[q] /\ work'[q] = work[q]
  BY <1>3, <1>4, <1>7 DEF SignerTypeOK
<1>9. work'[r] \in Work /\ work'[r].done = work[r].done /\ work'[r].signer = n
  <2>1. work[r] \in Work
    BY <1>3 DEF WorkInv, Signing
  <2> QED BY <1>2, <1>3, <1>8, <2>1 DEF Work
<1>10. \A q \in Requests : q # None
  BY SignerAssumption DEF Requests
<1>11. \A q \in Requests : pc[q] = "insert" => q = r
  BY <1>3 DEF SignerTypeOK
<1>12. SignerTypeOK'
  <2>1. pc' \in [Requests -> {"new", "parse", "lock", "lookup", "insert", "find", "sign", "recover", "done"}]
    BY <1>3, <1>7 DEF SignerTypeOK
  <2>2. work' \in [Requests -> Work \cup {None}]
    BY <1>3, <1>7, <1>8, <1>9 DEF SignerTypeOK
  <2>3. \A q \in Requests : pc'[q] \in {"lookup", "insert"} <=> lockMutex' = q
    BY <1>3, <1>7, <1>8, <1>10 DEF SignerTypeOK
  <2>4. \A q \in Requests : (pc'[q] = "done") = (reply'[q] # None)
    BY <1>3, <1>7, <1>8 DEF SignerTypeOK
  <2>5. mmKeyStore' \in [Slots -> 1 .. Len(signers') \cup {None}]
    <3>1. 1 .. Len(signers) \subseteq 1 .. Len(signers') /\ n \in 1 .. Len(signers')
      BY <1>2, <1>3, <1>6
    <3>2. mmKeyStore \in [Slots -> 1 .. Len(signers) \cup {None}]
      BY <1>3 DEF SignerTypeOK
    <3> QED BY <1>4, <1>7, <3>1, <3>2
  <2> QED BY <1>3, <1>6, <1>7, <2>1, <2>2, <2>3, <2>4, <2>5 DEF SignerTypeOK
<1>13. TableInv'
  <2>1. ASSUME NEW i \in 1 .. Len(signers')
        PROVE  mmKeyStore'[Slot(signers'[i].chainId, signers'[i].address)] = i
    <3>1. CASE i = n
      BY <1>4, <1>6, <1>8, <3>1
    <3>2. CASE i # n
      <4>1. i \in 1 .. Len(signers) /\ i # None
        BY <1>2, <1>3, <1>6, <3>2, SignerAssumption
      <4>2. signers[i] \in [address : Accounts, chainId : Nat]
        BY <1>3, <4>1, ElementOfSeq DEF SignerTypeOK
      <4>3. PICK t : t = Slot(signers[i].chainId, signers[i].address)
        OBVIOUS
      <4>4. t \in Slots /\ mmKeyStore[t] = i
        BY <1>3, <4>1, <4>2, <4>3, SlotIsOne DEF TableInv
      <4>5. mmKeyStore'[t] = i
        BY <1>5, <1>8, <4>1, <4>4
      <4> QED BY <1>6, <4>1, <4>3, <4>5
    <3> QED BY <3>1, <3>2
  <2>2. ASSUME NEW t \in Slots, mmKeyStore'[t] # None
        PROVE  signers'[mmKeyStore'[t]].address = t[2]
    <3>1. CASE t = slot
      BY <1>4, <1>6, <1>8, <3>1
    <3>2. CASE t # slot
      <4>1. mmKeyStore'[t] = mmKeyStore[t] /\ mmKeyStore[t] \in 1 .. Len(signers)
        BY <1>3, <1>8, <2>2, <3>2 DEF SignerTypeOK
      <4> QED BY <1>3, <1>6, <2>2, <4>1 DEF TableInv
    <3> QED BY <3>1, <3>2
  <2> QED BY <2>1, <2>2 DEF TableInv
<1>14. ASSUME NEW q \in Requests, q # r PROVE WorkInv(q)' /\ ReplyInv(q)'
  BY <1>2, <1>3, <1>6, <1>7, <1>8, <1>11, <1>14, OthersWait
<1>15. WorkInv(r)'
  <2>1. Pair(r)' = Pair(r)
    BY <1>7, <1>9 DEF Pair
  <2>2. TheSigner(r)'.address = account
    BY <1>6, <1>9 DEF TheSigner
  <2>3. work'[r].signer \in 1 .. Len(signers')
    BY <1>2, <1>3, <1>6, <1>9
  <2> QED BY <1>1, <1>3, <1>7, <1>8, <1>9, <2>1, <2>2, <2>3 DEF WorkInv, Signing
<1>16. ReplyInv(r)'
  BY <1>3, <1>7, <1>8 DEF SignerInv, ReplyInv
<1> QED BY <1>12, <1>13, <1>14, <1>15, <1>16 DEF SignerInv

LEMMA Signs == ASSUME SignerInv, NEW r \in Requests, Sign(r) PROVE SignerInv'
<1>1. pc[r] = "sign" /\ UNCHANGED <<signers, mmKeyStore, lockMutex, files, changes, body>>
  BY DEF Sign, sharedVars
<1>2. SignerTypeOK /\ WorkInv(r) /\ ReplyInv(r)
  BY DEF SignerInv
<1>3. PICK parity \in {0, 1} :
         LET signed == Append(work[r].done, SignatureOf(r, parity))
         IN  IF files[TheSigner(r).address] # Pair(r).phrase THEN Fail(r)
             ELSE IF Len(signed) < Len(body[r].pairs)
             THEN /\ work' = [work EXCEPT ![r] = [done |-> signed, signer |-> None]]
                  /\ pc' = [pc EXCEPT ![r] = "lock"]
                  /\ UNCHANGED reply
             ELSE Respond(r, [ok |-> TRUE, code |-> 200, signatures |-> signed])
  BY DEF Sign
<1>4. PICK signed : signed = Append(work[r].done, SignatureOf(r, parity))
  OBVIOUS
<1>5. /\ body[r] \in Bodies /\ work[r] \in Work /\ reply[r] = None
      /\ work[r].done \in Seq(Signature) /\ Len(work[r].done) < Len(body[r].pairs)
      /\ Len(work[r].done) \in Nat /\ Len(body[r].pairs) \in Nat
      /\ Pair(r).account \in Accounts
      /\ TheSigner(r).address = Pair(r).account
      /\ \A i \in 1 .. Len(work[r].done) : Asked(body[r], i, work[r].done[i])
  <2>1. pc[r] \in Signing
    BY <1>1 DEF Signing
  <2>2. Pair(r).account \in Accounts /\ Len(body[r].pairs) \in Nat
    BY <2>1, PairIsOne
  <2> QED BY <1>1, <1>2, <2>1, <2>2 DEF WorkInv, SignerTypeOK, Work
<1>6. SignatureOf(r, parity) \in Signature /\ Asked(body[r], Len(work[r].done) + 1, SignatureOf(r, parity))
  <2>1. parity + 27 \in {27, 28} /\ parity + 27 \in 0 .. 255
    OBVIOUS
  <2> QED BY <1>5, <2>1, HashIsHash DEF SignatureOf, Signature, Asked, Pair
<1>7. /\ signed \in Seq(Signature) /\ Len(signed) = Len(work[r].done) + 1
      /\ \A i \in 1 .. Len(signed) : Asked(body[r], i, signed[i])
  <2>1. signed \in Seq(Signature) /\ Len(signed) = Len(work[r].done) + 1
    BY <1>4, <1>5, <1>6
  <2>2. /\ signed[Len(work[r].done) + 1] = SignatureOf(r, parity)
        /\ \A i \in 1 .. Len(work[r].done) : signed[i] = work[r].done[i]
    BY <1>4, <1>5, <1>6
  <2> QED BY <1>5, <1>6, <2>1, <2>2
<1>8. body' = [body EXCEPT ![r] = body[r]]
  BY <1>1, <1>2 DEF SignerTypeOK
<1>9. CASE Fail(r)
  BY <1>1, <1>9, Refuses DEF Fail
<1>10. CASE /\ Len(signed) < Len(body[r].pairs)
            /\ work' = [work EXCEPT ![r] = [done |-> signed, signer |-> None]]
            /\ pc' = [pc EXCEPT ![r] = "lock"]
            /\ UNCHANGED reply
  <2>1. PICK has : has = [done |-> signed, signer |-> None]
    OBVIOUS
  <2>2. has \in Work /\ has.done = signed
    BY <1>7, <2>1 DEF Work
  <2>3. work' = [work EXCEPT ![r] = has] /\ reply' = [reply EXCEPT ![r] = None]
    BY <1>2, <1>5, <1>10, <2>1 DEF SignerTypeOK
  <2>4. pc'[r] = "lock" /\ work'[r] = has
    BY <1>2, <1>10, <2>3 DEF SignerTypeOK
  <2>5. WorkInv(r)' /\ ReplyInv(r)'
    BY <1>1, <1>2, <1>5, <1>7, <1>10, <2>2, <2>4, BodiesApart DEF WorkInv, ReplyInv, Signing
  <2>6. UNCHANGED <<signers, mmKeyStore, lockMutex, files, changes>> /\ pc[r] \notin {"lookup", "insert"}
    BY <1>1
  <2>7. body[r] \in Bodies /\ pc' = [pc EXCEPT ![r] = "lock"]
    BY <1>5, <1>10
  <2> QED BY <1>8, <2>2, <2>3, <2>5, <2>6, <2>7, OwnStep
<1>11. CASE ~(Len(signed) < Len(body[r].pairs)) /\ Respond(r, [ok |-> TRUE, code |-> 200, signatures |-> signed])
  <2>1. PICK said : said = [ok |-> TRUE, code |-> 200, signatures |-> signed]
    OBVIOUS
  <2>2. said \in Response /\ said # None
    <3>1. said \in [ok : BOOLEAN, code : {200}, signatures : Seq(Signature)]
      BY <1>7, <2>1
    <3> QED BY <3>1, BodyAssumption DEF Response
  <2>3. /\ pc' = [pc EXCEPT ![r] = "done"] /\ work' = [work EXCEPT ![r] = None]
        /\ reply' = [reply EXCEPT ![r] = said]
    BY <1>11, <2>1 DEF Respond
  <2>4. pc'[r] = "done" /\ reply'[r] = said
    BY <1>2, <2>3 DEF SignerTypeOK
  <2>5. Len(signed) = Len(body[r].pairs)
    BY <1>5, <1>7, <1>11
  <2>6. WorkInv(r)'
    BY <2>4 DEF WorkInv, Signing
  <2>7. ReplyInv(r)'
    BY <1>1, <1>5, <1>7, <2>1, <2>4, <2>5, BodiesApart DEF ReplyInv
  <2> QED BY <1>1, <1>5, <1>8, <2>2, <2>3, <2>6, <2>7, OwnStep
<1> QED BY <1>3, <1>4, <1>9, <1>10, <1>11

LEMMA Recovers == ASSUME SignerInv, NEW r \in Requests, Recover(r) PROVE SignerInv'
<1>1. pc[r] = "recover" /\ UNCHANGED <<signers, mmKeyStore, lockMutex, files, changes, body>>
  BY DEF Recover, sharedVars
<1>2. SignerTypeOK /\ ReplyInv(r) /\ body[r] # None
  BY <1>1 DEF SignerInv, ReplyInv
<1>3. body[r] \in Recovery
  BY <1>1, <1>2 DEF ReplyInv, SignerTypeOK
<1>4. PICK s : s = body[r].signature
  OBVIOUS
<1>5. s \in Signature /\ s.by \in Accounts /\ s.v \in 0 .. 255
  BY <1>3, <1>4 DEF Recovery, Signature
<1>6. PICK said \in Response :
         /\ Respond(r, said)
         /\ said.ok => said.signatures = <<>>
         /\ s.v \in {27, 28} => said.ok /\ said.signer = s.by
  <2>1. CASE (s.v + 256 - 27) % 256 \in {0, 1}
    <3>1. PICK said : said = [ok |-> TRUE, code |-> 200, signatures |-> <<>>, signer |-> s.by]
      OBVIOUS
    <3>2. said \in [ok : BOOLEAN, code : {200}, signatures : Seq(Signature), signer : Accounts]
      BY <1>5, <3>1
    <3>3. Respond(r, said)
      BY <1>4, <2>1, <3>1 DEF Recover
    <3>4. said \in Response /\ said.ok /\ said.signatures = <<>> /\ said.signer = s.by
      BY <3>1, <3>2 DEF Response
    <3> QED BY <3>3, <3>4
  <2>2. CASE (s.v + 256 - 27) % 256 \notin {0, 1}
    <3>1. s.v \notin {27, 28}
      BY <1>5, <2>2
    <3>2. Respond(r, Error)
      BY <1>4, <2>2 DEF Recover, Fail
    <3>3. Error \in Response /\ Error.ok = FALSE
      BY DEF Error, Response
    <3> QED BY <3>1, <3>2, <3>3
  <2> QED BY <2>1, <2>2
<1>7. /\ pc' = [pc EXCEPT ![r] = "done"] /\ work' = [work EXCEPT ![r] = None]
      /\ reply' = [reply EXCEPT ![r] = said]
  BY <1>6 DEF Respond
<1>8. said # None
  BY BodyAssumption
<1>9. body' = [body EXCEPT ![r] = body[r]]
  BY <1>1, <1>2 DEF SignerTypeOK
<1>10. pc'[r] = "done" /\ reply'[r] = said
  BY <1>2, <1>7 DEF SignerTypeOK
<1>11. WorkInv(r)'
  BY <1>10 DEF WorkInv, Signing
<1>12. ReplyInv(r)'
  BY <1>1, <1>2, <1>3, <1>4, <1>6, <1>10, BodiesApart DEF ReplyInv
<1> QED BY <1>1, <1>3, <1>7, <1>8, <1>9, <1>11, <1>12, OwnStep
-----------------------------------------------------------------------------
(***************************************************************************)
(* The theorems.                                                           *)
(***************************************************************************)
\* Whatever requests come, in whatever order their goroutines run and whatever becomes of
\* the key files, each request works on what it was sent.
THEOREM SignerInvariance == Spec => []SignerInv
<1>1. Init => SignerInv
  BY InitSigner
<1>2. ASSUME SignerInv, [Next]_vars PROVE SignerInv'
  <2>1. CASE ChangeFile
    BY <1>2, <2>1, ChangesFile
  <2>2. CASE \E r \in Requests : Arrive(r) \/ Handle(r)
    BY <1>2, <2>2, Arrives, Parses, LocksOne, LooksUp, Inserts, Finds, Signs, Recovers DEF Handle
  <2>3. CASE UNCHANGED vars
    BY <1>2, <2>3, KeepsAll
  <2> QED BY <1>2, <2>1, <2>2, <2>3 DEF Next
<1> QED BY <1>1, <1>2, PTL DEF Spec

\* NewSigner makes no second signer of a chain and an account, however many requests look
\* for it at once: the lock is held from the look into the table to the entry.
THEOREM OneOfEach == Spec => []OneSigner
<1>1. ASSUME SignerInv PROVE OneSigner
  <2>1. DOMAIN signers = 1 .. Len(signers) /\ SignerTypeOK /\ TableInv
    BY <1>1 DEF SignerInv, SignerTypeOK
  <2> QED BY <2>1 DEF OneSigner, TableInv
<1> QED BY <1>1, SignerInvariance, PTL

\* A reply of dataSignBy or eip712DataSign has the signatures that were asked for and no others.
THEOREM AsAsked == Spec => []SignedAsAsked
<1>1. ASSUME SignerInv, NEW r \in Requests, Signed(r)
      PROVE  LET signatures == reply[r].signatures
             IN  /\ Len(signatures) = Len(body[r].pairs)
                 /\ \A i \in DOMAIN signatures :
                       /\ signatures[i].by = body[r].pairs[i].account
                       /\ signatures[i].hash = HashOf(body[r])
  <2>1. pc[r] = "done" /\ SignerTypeOK /\ ReplyInv(r) /\ reply[r].ok
    BY <1>1 DEF Signed, SignerInv, SignerTypeOK
  <2>2. body[r] \in Bodies
    BY <1>1, <2>1 DEF Signed, ReplyInv, SignerTypeOK, Recovery
  <2>3. /\ reply[r].signatures \in Seq(Signature)
        /\ Len(reply[r].signatures) = Len(body[r].pairs)
        /\ \A i \in 1 .. Len(body[r].pairs) : Asked(body[r], i, reply[r].signatures[i])
    BY <2>1, <2>2 DEF ReplyInv
  <2>4. DOMAIN reply[r].signatures = 1 .. Len(body[r].pairs)
    BY <2>3
  <2> QED BY <2>3, <2>4 DEF Asked
<1>2. SignerInv => SignedAsAsked
  BY <1>1 DEF SignedAsAsked
<1> QED BY <1>2, SignerInvariance, PTL

\* RecoverDataSigner answers every signature that the service gave with its signer: their v
\* is 27 or 28, which is what it subtracts from.
THEOREM OwnAreRecovered == Spec => []OwnSignaturesRecover
<1>1. ASSUME SignerInv, NEW r \in Requests, NEW q \in Requests,
             reply[r] # None, body[r] # None, body[r].op = "recover",
             Signed(q), body[r].signature \in ToSet(reply[q].signatures)
      PROVE  reply[r].ok /\ reply[r].signer = body[r].signature.by
  <2>1. /\ pc[r] = "done" /\ pc[q] = "done" /\ SignerTypeOK /\ ReplyInv(r) /\ ReplyInv(q)
        /\ reply[q].ok
    BY <1>1 DEF Signed, SignerInv, SignerTypeOK
  <2>2. body[r] \notin Bodies
    BY <1>1, BodyAssumption
  <2>3. body[q] \in Bodies
    BY <1>1, <2>1 DEF Signed, ReplyInv, SignerTypeOK, Recovery
  <2>4. /\ reply[q].signatures \in Seq(Signature)
        /\ Len(reply[q].signatures) = Len(body[q].pairs)
        /\ \A i \in 1 .. Len(body[q].pairs) : Asked(body[q], i, reply[q].signatures[i])
    BY <2>1, <2>3 DEF ReplyInv
  <2>5. PICK i \in 1 .. Len(reply[q].signatures) : body[r].signature = reply[q].signatures[i]
    BY <1>1, <2>4 DEF ToSet
  <2>6. body[r].signature.v \in {27, 28}
    BY <2>4, <2>5 DEF Asked
  <2> QED BY <1>1, <2>1, <2>2, <2>6 DEF ReplyInv
<1>2. SignerInv => OwnSignaturesRecover
  BY <1>1 DEF OwnSignaturesRecover
<1> QED BY <1>2, SignerInvariance, PTL

=============================================================================
