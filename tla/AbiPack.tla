------------------------------- MODULE AbiPack -------------------------------
(***************************************************************************)
(* The arguments of a contract call from Go values (pack/pack.go,          *)
(* pack/to_xxx.go): PackAny walks over the inputs of the method, looks     *)
(* every argument up by name in a map or a struct and converts what it     *)
(* finds to the argument's type; go-ethereum then packs the arguments.     *)
(*                                                                         *)
(* Widths are scaled: the machine word of 64 bits has WordBits, and a type *)
(* of more bits is "wide".  A Go value is a record whose "go" says what it *)
(* is: "int", "uint", "float" (with or without a fraction), "big" and      *)
(* "text" hold a number n, "word" is another text.  The bytes of a text are *)
(* what its characters read as in hexadecimal: all of a "hex", which has   *)
(* its 0x, and the others up to the first that is no such digit.  The bits *)
(* of a float are what the machine makes of it when it converts one that   *)
(* the word cannot hold, which Go leaves to the implementation.            *)
(***************************************************************************)
EXTENDS Integers, Sequences, SequencesExt

CONSTANTS
    WordBits,     \* the bits of int64 and uint64
    WideBits,     \* the bits of a packed word
    AddressBytes, \* the bytes of an address
    ByteBits,     \* the bits of a byte
    Methods,      \* sequences of inputs [name, type]
    Names,        \* keys that a caller writes
    Camel,        \* ToCamelCase of a name: the field of a struct
    GoValues      \* what a caller gives for a key

VARIABLES method, input
packVars == <<method, input>>

Refused == [ok |-> FALSE]
Accept(arg) == [ok |-> TRUE, arg |-> arg]

FitsInt(n, bits) == n \in -(2 ^ (bits - 1)) .. 2 ^ (bits - 1) - 1
FitsUint(n, bits) == n \in 0 .. 2 ^ bits - 1

\* int64(y) and (*big.Int).Int64(), uint64(y) and (*big.Int).Uint64(): the low bits.
ToUnsigned(n, bits) == n % 2 ^ bits
ToSigned(n, bits) ==
    IF FitsInt(ToUnsigned(n, bits), bits) THEN ToUnsigned(n, bits) ELSE ToUnsigned(n, bits) - 2 ^ bits

HexNumber(bytes) == FoldLeft(LAMBDA n, b : n * 2 ^ ByteBits + b, 0, bytes)

IsString(x) == x.go \in {"text", "hex", "word"}

IsNumberText(x) == x.go = "text" \/ (x.go = "hex" /\ x.bytes # <<>>)
TextNumber(x) == IF x.go = "hex" THEN HexNumber(x.bytes) ELSE x.n

------------------------------------------------------------------------------
\* toInt64: a text has to fit the type; the others are cast, a float loses its fraction, and is
\* any number that the implementation likes when int64 or uint64 does not reach as far.
ToInt64(x, bits) ==
    CASE IsNumberText(x) -> IF FitsInt(TextNumber(x), bits) THEN Accept(TextNumber(x)) ELSE Refused
      [] x.go \in {"big", "uint"} -> Accept(ToSigned(x.n, WordBits))
      [] x.go = "float" ->
            Accept(IF FitsInt(x.n, WordBits) THEN x.n ELSE ToSigned(x.bits, WordBits))
      [] x.go = "int" -> Accept(x.n)
      [] OTHER -> Refused

ToUint64(x, bits) ==
    CASE IsNumberText(x) -> IF FitsUint(TextNumber(x), bits) THEN Accept(TextNumber(x)) ELSE Refused
      [] x.go \in {"big", "int"} -> IF x.n >= 0 THEN Accept(ToUnsigned(x.n, WordBits)) ELSE Refused
      [] x.go = "uint" -> Accept(x.n)
      [] x.go = "float" ->
            IF x.negative THEN Refused
            ELSE Accept(IF FitsUint(x.n, WordBits) THEN x.n ELSE x.bits)
      [] OTHER -> Refused

\* toBigInt: texts and big integers as they are, also when the type has no sign.
ToBigInt(x, signed) ==
    CASE x.go \in {"int", "uint", "float"} ->
            IF signed THEN ToInt64(x, WordBits) ELSE ToUint64(x, WordBits)
      [] IsNumberText(x) -> Accept(TextNumber(x))
      [] x.go = "big" -> Accept(x.n)
      [] OTHER -> Refused

\* toAbiInt and toAbiUint: the value has to fit the type after the cast to 64 bits.
ToAbiInt(x, bits) ==
    LET n == ToInt64(x, bits) IN IF n.ok /\ FitsInt(n.arg, bits) THEN n ELSE Refused

ToAbiUintExclusive(x, bits) ==
    LET n == ToUint64(x, bits) IN IF n.ok /\ n.arg < 2 ^ bits - 1 THEN n ELSE Refused

ToAbiUint(x, bits) ==
    LET n == ToUint64(x, bits) IN IF n.ok /\ FitsUint(n.arg, bits) THEN n ELSE Refused

\* common.HexToAddress and Hex2BytesFixed: the last bytes, or zeros in front.
LastBytes(bytes, size) ==
    IF Len(bytes) >= size THEN SubSeq(bytes, Len(bytes) - size + 1, Len(bytes))
    ELSE [i \in 1 .. size - Len(bytes) |-> 0] \o bytes

\* The field of the name in a struct or a map; a map that has no such key stands for the value
\* itself, as does anything that is neither.
LookupOrZero(name, x) ==
    IF x.go = "map" /\ name # ""
    THEN IF name \in DOMAIN x.fields THEN x.fields[name] ELSE [go |-> "int", n |-> 0]
    ELSE x

Lookup(name, x) ==
    IF name = "" THEN x
    ELSE CASE x.go = "struct" ->
                 IF Camel[name] \in DOMAIN x.fields THEN x.fields[Camel[name]] ELSE [go |-> "null"]
           [] x.go = "map" -> IF name \in DOMAIN x.fields THEN x.fields[name] ELSE x
           [] OTHER -> x

\* The value that toArg makes has the type go-ethereum has for it.  Bytes of a fixed length and
\* arrays come out as slices, and a tuple of such parts is another struct.
RECURSIVE OwnGoType(_)
OwnGoType(type) ==
    CASE type.t \in {"fixedBytes", "array"} -> FALSE
      [] type.t = "tuple" -> \A i \in DOMAIN type.elems : OwnGoType(type.elems[i].type)
      [] OTHER -> TRUE

\* One part that is refused refuses the whole.
All(args) ==
    IF \A i \in DOMAIN args : args[i].ok THEN Accept([i \in DOMAIN args |-> args[i].arg]) ELSE Refused

RECURSIVE ToArg(_, _, _)

ToTuple(type, v) ==
    All([i \in DOMAIN type.elems |-> ToArg(type.elems[i].name, type.elems[i].type, v)])

\* The items are put into a slice of the element's own Go type: slice.Index(i).Set panics for an item
\* of another, which is no packed call either.
ToSlice(type, v) ==
    IF v.go = "list" /\ (v.items = <<>> \/ OwnGoType(type.elem))
    THEN All([i \in DOMAIN v.items |-> ToArg("", type.elem, v.items[i])])
    ELSE Refused

\* toArg.  A null that was not looked up in a map is refused for every type.
ToArg(name, type, x) ==
    LET v == Lookup(name, x)
    IN  IF v.go = "null" /\ ~(x.go = "map" /\ name # "") THEN Refused
        ELSE CASE type.t = "int" ->
                    IF type.size > WordBits THEN ToBigInt(v, TRUE) ELSE ToAbiInt(v, type.size)
               [] type.t = "uint" ->
                    IF type.size > WordBits THEN ToBigInt(v, FALSE) ELSE ToAbiUint(v, type.size)
               [] type.t = "bool" ->
                    IF v.go = "bool" THEN Accept(v.b)
                    ELSE IF v.go = "word" /\ v.w \in {"true", "false"} THEN Accept(v.w = "true")
                    ELSE Refused
               [] type.t = "string" -> IF IsString(v) THEN Accept(v) ELSE Refused
               [] type.t = "address" ->
                    Accept(LastBytes(IF IsString(v) THEN v.bytes ELSE <<>>, AddressBytes))
               [] type.t = "bytes" -> IF v.go \in {"hex", "bytes"} THEN Accept(v.bytes) ELSE Refused
               [] type.t = "fixedBytes" ->
                    IF v.go \in {"hex", "bytes"} THEN Accept(LastBytes(v.bytes, type.size)) ELSE Refused
               [] type.t = "tuple" -> ToTuple(type, v)
               [] OTHER -> ToSlice(type, v)

\* abi.Pack of go-ethereum (external): a number is its low bits in a word; an array has its length;
\* a slice of bytes is no fixed array of bytes, so that such an argument is never packed.
RECURSIVE Packs(_, _)
Packs(type, arg) ==
    CASE type.t = "fixedBytes" -> FALSE
      [] type.t = "tuple" -> \A i \in DOMAIN arg : Packs(type.elems[i].type, arg[i])
      [] type.t \in {"slice", "array"} ->
            /\ type.t = "array" => Len(arg) = type.size
            /\ \A i \in DOMAIN arg : Packs(type.elem, arg[i])
      [] OTHER -> TRUE

RECURSIVE Packed(_, _)
Packed(type, arg) ==
    CASE type.t \in {"int", "uint"} -> ToUnsigned(arg, WideBits)
      [] type.t = "tuple" -> [i \in DOMAIN arg |-> Packed(type.elems[i].type, arg[i])]
      [] type.t \in {"slice", "array"} -> [i \in DOMAIN arg |-> Packed(type.elem, arg[i])]
      [] OTHER -> arg

\* PackAny: toArgs over the inputs of the method, then abi.Pack.
PackAny ==
    LET args == All([i \in DOMAIN method |-> ToArg(method[i].name, method[i].type, input)])
    IN  IF args.ok /\ \A i \in DOMAIN method : Packs(method[i].type, args.arg[i])
        THEN Accept([i \in DOMAIN method |-> Packed(method[i].type, args.arg[i])])
        ELSE Refused

------------------------------------------------------------------------------
Empty(kind) == [go |-> kind, fields |-> <<>>]

PackInit == method = <<>> /\ input = Empty("map")

\* The caller chooses a method of the contract, and gives the arguments in a map or a struct.
FindMethod ==
    /\ method = <<>>
    /\ method' \in Methods
    /\ input' \in {Empty("map"), Empty("struct")}

\* A caller fills in a key, with the name of the argument or another one.
SetField ==
    /\ method # <<>>
    /\ \E name \in Names :
         LET key == IF input.go = "struct" THEN Camel[name] ELSE name
         IN  /\ key \notin DOMAIN input.fields
             /\ \E value \in GoValues : input' = [input EXCEPT !.fields = (key :> value) @@ @]
    /\ UNCHANGED method

PackNext == FindMethod \/ SetField

------------------------------------------------------------------------------
\* Reference: the values that mean something for a type, and what.  A number has no fraction and
\* fits the type; for a wide type, which a text or a big integer reaches, a float fits the word as
\* well, and a uint for a signed one fits int64.  A tuple has all its parts by their names, a list
\* has its items in order and none that the code cannot put into a slice, an array as many as its
\* length.
NumberOf(v) == IF v.go = "hex" THEN HexNumber(v.bytes) ELSE v.n
Fits(type, n) == IF type.t = "int" THEN FitsInt(n, type.size) ELSE FitsUint(n, type.size)
IsNumber(v) ==
    \/ v.go \in {"int", "uint", "big"} \/ IsNumberText(v)
    \/ v.go = "float" /\ ~v.fraction
Part(name, v) == v.fields[IF v.go = "struct" THEN Camel[name] ELSE name]
HasPart(name, v) ==
    v.go \in {"map", "struct"} /\ (IF v.go = "struct" THEN Camel[name] ELSE name) \in DOMAIN v.fields

RECURSIVE Means(_, _)
Means(type, v) ==
    CASE type.t \in {"int", "uint"} ->
            /\ IsNumber(v) /\ Fits(type, NumberOf(v))
            /\ type.t = "int" /\ v.go \in {"uint", "float"} => FitsInt(v.n, WordBits)
            /\ type.t = "uint" /\ v.go = "float" => FitsUint(v.n, WordBits)
      [] type.t = "bool" -> v.go = "bool" \/ (v.go = "word" /\ v.w \in {"true", "false"})
      [] type.t = "string" -> IsString(v)
      [] type.t = "address" -> IsString(v) /\ Len(v.bytes) = AddressBytes
      [] type.t = "bytes" -> v.go \in {"hex", "bytes"}
      [] type.t = "fixedBytes" -> FALSE
      [] type.t = "tuple" ->
            \A i \in DOMAIN type.elems :
                HasPart(type.elems[i].name, v)
                /\ Means(type.elems[i].type, Part(type.elems[i].name, v))
      [] OTHER ->
            /\ v.go = "list" /\ (type.t = "array" => Len(v.items) = type.size)
            /\ \A i \in DOMAIN v.items : OwnGoType(type.elem) /\ Means(type.elem, v.items[i])

RECURSIVE Asked(_, _)
Asked(type, v) ==
    CASE type.t \in {"int", "uint"} -> NumberOf(v)
      [] type.t = "bool" -> IF v.go = "bool" THEN v.b ELSE v.w = "true"
      [] type.t = "string" -> v
      [] type.t = "tuple" -> [i \in DOMAIN type.elems |->
                                Asked(type.elems[i].type, Part(type.elems[i].name, v))]
      [] type.t \in {"slice", "array"} -> [i \in DOMAIN v.items |-> Asked(type.elem, v.items[i])]
      [] OTHER -> v.bytes

\* What the contract reads in a packed argument (the ABI of Solidity).
RECURSIVE Read(_, _)
Read(type, packed) ==
    CASE type.t = "int" -> ToSigned(packed, WideBits)
      [] type.t = "tuple" -> [i \in DOMAIN packed |-> Read(type.elems[i].type, packed[i])]
      [] type.t \in {"slice", "array"} -> [i \in DOMAIN packed |-> Read(type.elem, packed[i])]
      [] OTHER -> packed

\* A call whose keys all have a value that means something for their type is packed, and the
\* contract reads in each argument the number, the bytes, the parts and the items that were given
\* under its name - at the ends of every width, through nested tuples and lists, whatever other keys
\* the map has and in whatever order they came (to_xxx.go:38-408).
AskedIsPacked ==
    (\A i \in DOMAIN method :
        HasPart(method[i].name, input) /\ Means(method[i].type, Part(method[i].name, input))) =>
      /\ PackAny.ok
      /\ \A i \in DOMAIN method :
           Read(method[i].type, PackAny.arg[i]) = Asked(method[i].type, Part(method[i].name, input))

\* A call that lacks an argument is refused, unless it is an address (packed as zero) or a tuple
\* (looked up in the outer map); and so is a number that the type of up to 64 bits cannot hold, when
\* it is a text or an int (a big integer or a uint may come round to fit: to_xxx.go:259-305).
NothingIsMadeUp ==
    PackAny.ok => \A i \in DOMAIN method :
        LET type == method[i].type
            v == Part(method[i].name, input)
        IN  IF HasPart(method[i].name, input)
            THEN type.t \in {"int", "uint"} /\ type.size <= WordBits
                 /\ (v.go = "int" \/ IsNumberText(v)) => Fits(type, NumberOf(v))
            ELSE type.t \in {"address", "tuple"}
=============================================================================
