------------------------------- MODULE Signer -------------------------------
(***************************************************************************)
(* The signing backend (build/signer): EIP-191 and EIP-712 signatures with *)
(* keys of a key store, and the recovery of a signer.                      *)
(*                                                                         *)
(* Each request is handled in a goroutine of its own.  What requests share *)
(* is mmKeyStore, the table of signers, under lockMutex, and the directory *)
(* of key files, which its owner changes while the service runs.  A panic  *)
(* of a handler becomes an error reply (APIErrorHandler) or, before that   *)
(* is deferred, a bare 500 (gin.Recovery).                                 *)
(*                                                                         *)
(* Of the values in a request there remain their kinds; a hash is what was *)
(* hashed.  The cryptography is taken as ideal.                            *)
(***************************************************************************)
EXTENDS Naturals, FiniteSets, SequencesExt

CONSTANTS
    MaxRequests,    \* bound: requests, numbered as they come
    Bodies,         \* what clients may send
    Accounts, Phrases,
    KeyFiles,       \* [Accounts -> the phrase of its key file, or None]: at the start
    Width,          \* Uint64() of a chain id is modulo this: 2^64
    MaxChanges,     \* bound: changes of the directory of key files
    None

ASSUME SignerAssumption ==
    /\ KeyFiles \in [Accounts -> Phrases \cup {None}]
    /\ Width \in Nat \ {0, 1} /\ MaxRequests \in Nat /\ MaxChanges \in Nat
    /\ None \notin Nat \cup Accounts \cup Phrases \cup Bodies

Requests == 1 .. MaxRequests

VARIABLES
    signers,        \* the TSigner objects made so far
    mmKeyStore,     \* [chain id, account -> the object's number, or None]
    lockMutex,      \* the request that holds it, or None
    files,          \* the key files
    changes,        \* their changes
    pc, body, work, \* per request: where it is, what it was sent, what it has
    reply           \* per request: the response, or None

vars == <<signers, mmKeyStore, lockMutex, files, changes, pc, body, work, reply>>
-----------------------------------------------------------------------------
(***************************************************************************)
(* From the request to what is hashed.                                     *)
(***************************************************************************)
\* A value is a text, a number, a list of texts, or anything else.
Kinds == {"text", "notSuchText", "number", "wideNumber", "texts", "numbers", "other"}

\* convertValueToString and convertValueToStringArray
Single(kind) == kind \in {"text", "notSuchText", "number", "wideNumber"}
Listed(kind) == kind = "texts"

ArrayTypes == {"address[]", "uint256[]"}
NestedTypes == {"uint256[][2]"}
Types191 == {"address", "bool", "string", "bytes4", "bytes32", "bytes", "uint8", "uint256"} \cup ArrayTypes

Converts(field, arrays) == IF field.type \in arrays THEN Listed(field.kind) ELSE Single(field.kind)

\* eip191: makeData and makeArrayData know a few types only.
Accepts191(field) == field.type \in Types191 /\ Converts(field, ArrayTypes \cup NestedTypes)
Accepts712(field) == Converts(field, ArrayTypes)

\* A number has come as a float64, so that a wide one is another number by now.
Exact(field) == field.kind # "wideNumber"
Value(field) == IF Exact(field) THEN field ELSE [field EXCEPT !.kind = "number"]

\* What go-ethereum's typed data can encode (external).
Encodes(field) == field.kind # "notSuchText" /\ field.type \notin NestedTypes

Values(fields) == [i \in DOMAIN fields |-> Value(fields[i])]

\* EIP712DataSignature: an error of HashStruct is not looked at and leaves its hash
\* empty.  The chain id goes through int64 and is negative from 2^63 on, which cannot
\* be encoded.
Hash712(b) ==
    [domain |-> IF 2 * b.domain < Width THEN b.domain ELSE None,
     data |-> IF \A i \in DOMAIN b.fields : Encodes(b.fields[i]) THEN Values(b.fields) ELSE None]
Hash191(b) == [domain |-> None, data |-> Values(b.fields)]
HashOf(b) == IF b.op = "eip712" THEN Hash712(b) ELSE Hash191(b)

\* StringToUint64V2 panics beyond 64 bits; StringToBigInt takes any number.
BadChain(b) == b.op = "eip712" /\ (b.domain = None \/ b.domain >= Width)

BadFields(b) ==
    \/ b.op = "eip712" /\ (b.fields = <<>> \/ \E i \in DOMAIN b.fields : ~Accepts712(b.fields[i]))
    \/ b.op = "eip191" /\ \E i \in DOMAIN b.fields : ~Accepts191(b.fields[i])

\* The chain that signers are looked up for: eip712 always takes 0x1.
ChainOf(b) == IF b.op = "eip712" THEN 1 ELSE b.chain
Slot(chain, account) == <<chain % Width, account>>
-----------------------------------------------------------------------------
Slots == (0 .. Width - 1) \X Accounts
Fields == Seq([type : STRING, kind : Kinds])
Hash == [domain : Nat \cup {None}, data : Fields \cup {None}]
Signature == [by : Accounts, hash : Hash, v : 0 .. 255]
Response ==
    [ok : BOOLEAN, code : {200, 500}]
    \cup [ok : BOOLEAN, code : {200}, signatures : Seq(Signature)]
    \cup [ok : BOOLEAN, code : {200}, signatures : Seq(Signature), signer : Accounts]
Recovery == [op : {"recover"}, signature : Signature]
Work == [done : Seq(Signature), signer : Nat \cup {None}]

\* A body that is not JSON is a record here all the same; Parse looks no further.
ASSUME BodyAssumption ==
    /\ \A b \in Bodies :
          /\ b.op \in {"eip712", "eip191"}
          /\ b.op = "eip712" => b.domain \in Nat \cup {None}
          /\ b.op = "eip191" => b.chain \in Nat
          /\ b.fields \in Fields
          /\ b.pairs \in Seq([account : Accounts, phrase : Phrases])
    /\ None \notin Response \cup Recovery \cup Work

SignerTypeOK ==
    /\ signers \in Seq([address : Accounts, chainId : Nat])
    /\ mmKeyStore \in [Slots -> 1 .. Len(signers) \cup {None}]
    /\ lockMutex \in Requests \cup {None}
    /\ files \in [Accounts -> Phrases \cup {None}]
    /\ changes \in 0 .. MaxChanges
    /\ body \in [Requests -> Bodies \cup Recovery \cup {None}]
    /\ work \in [Requests -> Work \cup {None}]
    /\ reply \in [Requests -> Response \cup {None}]
    /\ pc \in [Requests -> {"new", "parse", "lock", "lookup", "insert", "find", "sign", "recover", "done"}]
    /\ \A r \in Requests : pc[r] \in {"lookup", "insert"} <=> lockMutex = r
    /\ \A r \in Requests : (pc[r] = "done") = (reply[r] # None)

Init ==
    /\ signers = <<>>
    /\ mmKeyStore = [s \in Slots |-> None]
    /\ lockMutex = None
    /\ files = KeyFiles
    /\ changes = 0
    /\ pc = [r \in Requests |-> "new"]
    /\ body = [r \in Requests |-> None]
    /\ work = [r \in Requests |-> None]
    /\ reply = [r \in Requests |-> None]

sharedVars == <<signers, mmKeyStore, lockMutex>>

\* The signatures that clients have seen.
Seen == UNION {ToSet(reply[r].signatures) : r \in {q \in Requests : reply[q] # None /\ reply[q].ok}}

\* What a client may ask a signer's recovery for: a signature it has seen, also one
\* whose v is in the other notation, 0 or 1.
Recoverable == Seen \cup {[s EXCEPT !.v = s.v - 27] : s \in Seen}

\* The client chooses; a signature has been seen before it is sent back.
Arrive(r) ==
    /\ pc[r] = "new" /\ \A q \in 1 .. r - 1 : pc[q] # "new"
    /\ \/ \E b \in Bodies : body' = [body EXCEPT ![r] = b] /\ pc' = [pc EXCEPT ![r] = "parse"]
       \/ \E s \in Recoverable :
             /\ body' = [body EXCEPT ![r] = [op |-> "recover", signature |-> s]]
             /\ pc' = [pc EXCEPT ![r] = "recover"]
    /\ UNCHANGED <<sharedVars, files, changes, work, reply>>

Respond(r, response) ==
    /\ reply' = [reply EXCEPT ![r] = response]
    /\ pc' = [pc EXCEPT ![r] = "done"]
    /\ work' = [work EXCEPT ![r] = None]

Error == [ok |-> FALSE, code |-> 200]
BareError == [ok |-> FALSE, code |-> 500]

\* A panic.
Fail(r) == Respond(r, Error)

\* The body, the fields and the list of key pairs, in this order.  An eip712 body that is
\* not JSON panics before the handler of errors is deferred; an eip191 body that is not
\* JSON is empty and lacks its key pairs.
Parse(r) ==
    /\ pc[r] = "parse"
    /\ LET b == body[r]
           refused == ~b.json \/ BadChain(b) \/ BadFields(b) \/ b.pairs = <<>>
       IN  IF refused
           THEN /\ Respond(r, IF ~b.json /\ b.op = "eip712" THEN BareError ELSE Error)
                /\ body' = [body EXCEPT ![r] = None]
           ELSE /\ pc' = [pc EXCEPT ![r] = "lock"]
                /\ work' = [work EXCEPT ![r] = [done |-> <<>>, signer |-> None]]
                /\ UNCHANGED <<body, reply>>
    /\ UNCHANGED <<sharedVars, files, changes>>

\* The pair that is the request's turn: dataSignBy and eip712DataSign go through them in order.
Pair(r) == body[r].pairs[Len(work[r].done) + 1]

SlotOf(r) == Slot(ChainOf(body[r]), Pair(r).account)

LockUnguarded(r) ==
    /\ pc[r] = "lock"
    /\ lockMutex' = r
    /\ pc' = [pc EXCEPT ![r] = "lookup"]
    /\ UNCHANGED <<signers, mmKeyStore, files, changes, body, work, reply>>

\* NewSigner takes the lock.
Lock(r) ==
    /\ pc[r] = "lock"
    /\ lockMutex = None
    /\ lockMutex' = r
    /\ pc' = [pc EXCEPT ![r] = "lookup"]
    /\ UNCHANGED <<signers, mmKeyStore, files, changes, body, work, reply>>

LookUpKeepsLock(r) ==
    /\ pc[r] = "lookup"
    /\ LET known == mmKeyStore[SlotOf(r)]
       IN  /\ pc' = [pc EXCEPT ![r] = IF known = None THEN "insert" ELSE "find"]
           /\ work' = [work EXCEPT ![r].signer = known]
    /\ UNCHANGED <<sharedVars, files, changes, body, reply>>

LookUpByChain(r) ==
    /\ pc[r] = "lookup"
    /\ LET all == {mmKeyStore[<<SlotOf(r)[1], a>>] : a \in Accounts} \ {None}
           known == IF all = {} THEN None ELSE CHOOSE k \in all : TRUE
       IN  /\ pc' = [pc EXCEPT ![r] = IF known = None THEN "insert" ELSE "find"]
           /\ work' = [work EXCEPT ![r].signer = known]
           /\ lockMutex' = IF known = None THEN lockMutex ELSE None
    /\ UNCHANGED <<signers, mmKeyStore, files, changes, body, reply>>

\* It looks for the signer, and if there is one returns it and lets go of the lock.
LookUp(r) ==
    /\ pc[r] = "lookup"
    /\ LET known == mmKeyStore[SlotOf(r)]
       IN  /\ pc' = [pc EXCEPT ![r] = IF known = None THEN "insert" ELSE "find"]
           /\ work' = [work EXCEPT ![r].signer = known]
           /\ lockMutex' = IF known = None THEN lockMutex ELSE None
    /\ UNCHANGED <<signers, mmKeyStore, files, changes, body, reply>>

\* If there is none it makes one and puts it into the table.
Insert(r) ==
    /\ pc[r] = "insert"
    /\ signers' = Append(signers, [address |-> Pair(r).account, chainId |-> ChainOf(body[r])])
    /\ mmKeyStore' = [mmKeyStore EXCEPT ![SlotOf(r)] = Len(signers')]
    /\ work' = [work EXCEPT ![r].signer = Len(signers')]
    /\ lockMutex' = None
    /\ pc' = [pc EXCEPT ![r] = "find"]
    /\ UNCHANGED <<files, changes, body, reply>>

TheSigner(r) == signers[work[r].signer]

\* SignHash looks for the account's key file.
Find(r) ==
    /\ pc[r] = "find"
    /\ IF files[TheSigner(r).address] = None THEN Fail(r)
       ELSE /\ pc' = [pc EXCEPT ![r] = "sign"]
            /\ UNCHANGED <<work, reply>>
    /\ UNCHANGED <<sharedVars, files, changes, body>>

SignatureOf(r, parity) ==
    [by |-> TheSigner(r).address, hash |-> HashOf(body[r]), v |-> parity + 27]

SignRaw(r) ==
    /\ pc[r] = "sign"
    /\ \E parity \in {0, 1} :
         LET signed == Append(work[r].done, [by |-> TheSigner(r).address, hash |-> HashOf(body[r]), v |-> parity])
         IN  IF files[TheSigner(r).address] # Pair(r).phrase THEN Fail(r)
             ELSE IF Len(signed) < Len(body[r].pairs)
             THEN /\ work' = [work EXCEPT ![r] = [done |-> signed, signer |-> None]]
                  /\ pc' = [pc EXCEPT ![r] = "lock"]
                  /\ UNCHANGED reply
             ELSE Respond(r, [ok |-> TRUE, code |-> 200, signatures |-> signed])
    /\ UNCHANGED <<sharedVars, files, changes, body>>

\* SignHashWithPassphrase decrypts the file, and v becomes 27 or 28.  Without a file or
\* with another phrase there is no signature to index: a panic, whatever the error was.
\* The next pair follows, or the reply with all signatures.
Sign(r) ==
    /\ pc[r] = "sign"
    /\ \E parity \in {0, 1} :
         LET signed == Append(work[r].done, SignatureOf(r, parity))
         IN  IF files[TheSigner(r).address] # Pair(r).phrase THEN Fail(r)
             ELSE IF Len(signed) < Len(body[r].pairs)
             THEN /\ work' = [work EXCEPT ![r] = [done |-> signed, signer |-> None]]
                  /\ pc' = [pc EXCEPT ![r] = "lock"]
                  /\ UNCHANGED reply
             ELSE Respond(r, [ok |-> TRUE, code |-> 200, signatures |-> signed])
    /\ UNCHANGED <<sharedVars, files, changes, body>>

\* RecoverDataSigner: v - 27 is a byte, and only 0 and 1 are a parity.
Recover(r) ==
    /\ pc[r] = "recover"
    /\ LET s == body[r].signature  parity == (s.v + 256 - 27) % 256
       IN  IF parity \in {0, 1}
           THEN Respond(r, [ok |-> TRUE, code |-> 200, signatures |-> <<>>, signer |-> s.by])
           ELSE Fail(r)
    /\ UNCHANGED <<sharedVars, files, changes, body>>

\* The owner adds, replaces or removes a key file.
ChangeFile ==
    /\ changes < MaxChanges
    /\ changes' = changes + 1
    /\ \E a \in Accounts, p \in Phrases \cup {None} : files' = [files EXCEPT ![a] = p]
    /\ UNCHANGED <<sharedVars, pc, body, work, reply>>

Handle(r) == Parse(r) \/ Lock(r) \/ LookUp(r) \/ Insert(r) \/ Find(r) \/ Sign(r) \/ Recover(r)

Next == ChangeFile \/ \E r \in Requests : Arrive(r) \/ Handle(r)

Spec == Init /\ [][Next]_vars
FairSpec == Spec /\ \A r \in Requests : WF_vars(Handle(r))
-----------------------------------------------------------------------------
Signed(r) == reply[r] # None /\ reply[r].ok /\ body[r].op # "recover"

\* A reply has one signature for each pair, of the account that this pair names, over one
\* hash, which is that of the request: requests that run at the same time and share
\* signers do not mix, and nothing is half signed (signer.go:72, dataSignBy).
SignedAsAsked ==
    \A r \in Requests : Signed(r) =>
        LET signatures == reply[r].signatures
        IN  /\ Len(signatures) = Len(body[r].pairs)
            /\ \A i \in DOMAIN signatures :
                  /\ signatures[i].by = body[r].pairs[i].account
                  /\ signatures[i].hash = HashOf(body[r])

\* There is one signer for a chain and an account, however many requests ask for it at once.
OneSigner ==
    /\ SignerTypeOK
    /\ \A i, j \in DOMAIN signers :
          signers[i].address = signers[j].address /\ signers[i].chainId = signers[j].chainId
             => i = j

\* A signature that the service gave is one that it recovers the signer from.
OwnSignaturesRecover ==
    \A r, q \in Requests :
        reply[r] # None /\ body[r] # None /\ body[r].op = "recover"
        /\ Signed(q) /\ body[r].signature \in ToSet(reply[q].signatures)
        => reply[r].ok /\ reply[r].signer = body[r].signature.by

\* Every request is answered, though requests queue for the lock.
EveryoneAnswered == \A r \in Requests : pc[r] # "new" ~> pc[r] = "done"
=============================================================================
