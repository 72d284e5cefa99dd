------------------------------ MODULE JsonMap ------------------------------
(***************************************************************************)
(* Paths into JSON documents: common/utils/json/mapper (Find, Insert and   *)
(* Remove of a TJsonMap).                                                  *)
(*                                                                         *)
(* A path is split at its dots, and a key of a document may hold dots of   *)
(* its own; so a string is the sequence of the tokens between its dots,    *)
(* and joining strings with dots is concatenation.  A document is a tree:  *)
(* a scalar (number, string, boolean), null, an object whose "at" maps     *)
(* keys to values, or an array whose "at" is a sequence.  Numbers,         *)
(* strings and booleans are treated alike by the code.                     *)
(***************************************************************************)
EXTENDS Naturals, SequencesExt, FiniteSetsExt

CONSTANTS
    Documents,  \* what NewBytes is given
    Paths,      \* the paths of the calls: sequences of tokens; <<"">> is the empty string
    Keys,       \* the keys given to Insert
    Inserts,    \* the values given to Insert
    Atoi,       \* the tokens that are numbers, with their value
    MaxOps      \* calls that change the document

VARIABLES doc, ops
jsonVars == <<doc, ops>>

Nil == [kind |-> "nil"]
Scalar(v) == [kind |-> "scalar", value |-> v]
Map(at) == [kind |-> "map", at |-> at]
Slice(at) == [kind |-> "slice", at |-> at]

\* strings.Split: a string is the sequence of its tokens, each of them a string.
Split(path) == [i \in DOMAIN path |-> <<path[i]>>]

\* The key that the first n strings of a path make when they are joined.
Joined(path, n) == FlattenSeq(SubSeq(path, 1, n))

\* The search in an object (finder_search_map_r and its two brothers): the key is lengthened by one
\* token after the other until it names a value; null counts as no value.
NoStep == [taken |-> 0]

MapStep(m, path) ==
    LET hits == {n \in 1 .. Len(path) :
                    LET key == Joined(path, n) IN key \in DOMAIN m.at /\ m.at[key] # Nil}
    IN  IF hits = {} THEN NoStep ELSE [taken |-> Min(hits), key |-> Joined(path, Min(hits))]

\* The search in an array (finder_search_slice_r): the token must be a number inside the array.
IsIndex(token) == Len(token) = 1 /\ token[1] \in DOMAIN Atoi
Position(token) == Atoi[token[1]] + 1

SliceStep(s, path) ==
    IF IsIndex(path[1]) /\ Position(path[1]) \in DOMAIN s.at /\ s.at[Position(path[1])] # Nil
    THEN [taken |-> 1, key |-> Position(path[1])]
    ELSE NoStep

Step(node, path) == IF node.kind = "map" THEN MapStep(node, path) ELSE SliceStep(node, path)

\* The search stops at a scalar, whatever is left of the path, and at the end of the path.
Stops(node, path, s) == s.taken = Len(path) \/ node.at[s.key].kind = "scalar"

Rest(path, s) == SubSeq(path, s.taken + 1, Len(path))

------------------------------------------------------------------------------
\* finder_search_root, _map_r and _slice_r
RECURSIVE Found(_, _)
Found(node, path) ==
    LET s == Step(node, path)
    IN  IF s = NoStep THEN Nil
        ELSE IF Stops(node, path, s) THEN node.at[s.key]
        ELSE Found(node.at[s.key], Rest(path, s))

Find(d, path) == IF path = <<"">> THEN d ELSE Found(d, Split(path))

\* delete on an object, removeSliceElement on an array
Without(node, key) ==
    IF node.kind = "map"
    THEN Map([k \in DOMAIN node.at \ {key} |-> node.at[k]])
    ELSE Slice(RemoveAt(node.at, key))

\* remover_search_root, _map_r and _slice_r
RECURSIVE Removed(_, _)
Removed(node, path) ==
    LET s == Step(node, path)
    IN  IF s = NoStep THEN node
        ELSE IF Stops(node, path, s) THEN Without(node, s.key)
        ELSE [node EXCEPT !.at[s.key] = Removed(@, Rest(path, s))]

\* Remove: the root is not removed.
RemoveOf(d, path) == IF path = <<"">> THEN d ELSE Removed(d, Split(path))

PutAlone(m, key, value) == Map(key :> value)

\* The assignment to a key of an object
Put(m, key, value) == Map((key :> value) @@ m.at)

\* adder_search_root, _map_r and _slice_r: where the search stops in an object, the value goes under
\* the key of the call, in that object; in an array it replaces the element, or is appended when the
\* index is out of range.
RECURSIVE Inserted(_, _, _, _)
Inserted(node, path, key, value) ==
    LET s == Step(node, path)
        deeper == s # NoStep /\ ~Stops(node, path, s)
    IN  IF deeper
        THEN [node EXCEPT !.at[s.key] = Inserted(@, Rest(path, s), key, value)]
        ELSE IF node.kind = "map" THEN Put(node, key, value)
        ELSE IF s # NoStep THEN [node EXCEPT !.at[s.key] = value]
        ELSE IF IsIndex(path[1]) /\ Position(path[1]) \notin DOMAIN node.at
        THEN Slice(Append(node.at, value))
        ELSE node

InsertOfBase(d, base, key, value) == Inserted(d, Split(base), key, value)

\* Insert: the key is one more string of the path, not split itself.
InsertOf(d, base, key, value) == Inserted(d, Append(Split(base), key), key, value)

------------------------------------------------------------------------------
JsonInit == doc = Nil /\ ops = 0

NewBytes == doc = Nil /\ doc' \in Documents /\ UNCHANGED ops

Change(d) ==
    /\ doc # Nil
    /\ ops < MaxOps
    /\ ops' = ops + 1
    /\ doc' = d

InsertCall == \E base \in Paths, key \in Keys, value \in Inserts :
    Change(InsertOf(doc, base, key, value))

RemoveCall == \E path \in Paths : Change(RemoveOf(doc, path))

JsonNext == NewBytes \/ InsertCall \/ RemoveCall

------------------------------------------------------------------------------
\* The path is used up exactly where its value is, instead of running on below a scalar.
Exact(d, path) ==
    /\ Find(d, path) # Nil
    /\ \A n \in 1 .. Len(path) - 1 : Find(d, SubSeq(path, 1, n)).kind # "scalar"

IsObject(d, base) == Exact(d, base) /\ Find(d, base).kind = "map"

\* The path of base.key
Below(base, key) == IF base = <<"">> THEN key ELSE base \o key

\* A value inserted into an object that exists is what is found there next, dots in the keys of the
\* objects on the way, nulls and arrays notwithstanding; a value that was found and is removed is
\* found no more, and in an array the next one takes its place (interface.go:38-86).
ChangeIsFound == doc # Nil =>
    /\ \A base \in {p \in Paths : IsObject(doc, p)} : \A key \in {k \in Keys : Len(k) = 1} :
         \A value \in Inserts \ {Nil} :
           Find(InsertOf(doc, base, key, value), Below(base, key)) = value
    /\ \A path \in {p \in Paths \ {<<"">>} : Exact(doc, p)} :
         LET parent == Find(doc, SubSeq(path, 1, Len(path) - 1))
             inArray == Len(path) > 1 /\ parent.kind = "slice"
             index == Atoi[path[Len(path)]] + 2
         IN  Find(RemoveOf(doc, path), path) =
                 IF inArray /\ index \in DOMAIN parent.at THEN parent.at[index] ELSE Nil

Apart(p, q) == ~IsPrefix(p, q) /\ ~IsPrefix(q, p)

\* Neither call changes what is found at a path beside its own: one that is no beginning of it and
\* does not continue it (elements of an array apart, which move up when one is removed).
OthersUntouched == doc # Nil =>
    /\ \A base \in {p \in Paths : IsObject(doc, p)} : \A key \in {k \in Keys : Len(k) = 1} :
         \A value \in Inserts :
           LET after == InsertOf(doc, base, key, value)
           IN  \A q \in Paths \ {<<"">>} :
                 Apart(Below(base, key), q) => Find(after, q) = Find(doc, q)
    /\ \A path \in {p \in Paths \ {<<"">>} : Exact(doc, p)} :
         Len(path) = 1 \/ Find(doc, SubSeq(path, 1, Len(path) - 1)).kind = "map" =>
           LET after == RemoveOf(doc, path)
           IN  \A q \in Paths \ {<<"">>} : Apart(path, q) => Find(after, q) = Find(doc, q)
=============================================================================
