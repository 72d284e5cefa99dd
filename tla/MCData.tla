------------------------------- MODULE MCData -------------------------------
(***************************************************************************)
(* The three libraries for data, each in behaviours of its own: documents  *)
(* and paths (JsonMap), logs and events (EventDecode), calls and arguments *)
(* (AbiPack).                                                              *)
(***************************************************************************)
EXTENDS JsonMap, EventDecode, AbiPack

------------------------------------------------------------------------------
\* JsonMap
keyA == <<"a">>
keyB == <<"b">>
Leaf == Scalar(1)

\* An object, one with a null, one with an array of objects, and one whose key has a dot beside the
\* object that the dot could mean.
MCDocuments ==
    {Map(<<>>),
     Map(keyA :> Nil @@ keyB :> Map(keyA :> Leaf)),
     Map(keyA :> Slice(<<Map(keyB :> Leaf), Leaf>>)),
     Map(<<"a", "b">> :> Leaf @@ keyB :> Leaf)}

MCPaths == {<<"">>} \cup UNION {[1 .. n -> {"a", "b", "0"}] : n \in 1 .. 3}
MCKeys == {keyA, keyB, <<"0">>, <<"a", "b">>}
MCInserts == {Scalar(2), Map(<<>>), Slice(<<Leaf, Nil>>)}
MCAtoi == ("0" :> 0)

------------------------------------------------------------------------------
\* EventDecode
Input(type, indexed) == [type |-> type, indexed |-> indexed]
Ev(name, anonymous, inputs) == [name |-> name, anonymous |-> anonymous, inputs |-> inputs]
MCContract ==
    {Ev("Transfer", FALSE,
        <<Input("address", TRUE), Input("address", FALSE), Input("uint256", TRUE)>>),
     Ev("Transfer", FALSE,
        <<Input("address", TRUE), Input("address", FALSE), Input("uint256", FALSE)>>),
     Ev("Named", FALSE, <<Input("string", FALSE), Input("uint256", TRUE)>>),
     Ev("Named", FALSE, <<Input("string", TRUE), Input("uint256", FALSE)>>),
     Ev("Named", FALSE, <<Input("uint", FALSE)>>),
     Ev("Paid", FALSE, <<Input("uint64", FALSE), Input("uint256[]", FALSE), Input("uint64", TRUE)>>),
     Ev("Bare", FALSE, <<>>),
     Ev("Raw", TRUE, <<Input("address", TRUE)>>),
     Ev("Raw", TRUE, <<>>)}

\* Declarations: one without names, one with the name that the signature has among the decoded
\* parameters, one with a type that is written otherwise in the signature, and a function.
D(words, params) == [head |-> words, params |-> params]
Transfer ==
    D(<<"event", "Transfer">>,
      << <<"address", "indexed", "from">>, <<"address", "to">>, <<"uint256", "indexed", "id">> >>)
Unnamed ==
    D(<<"event", "Transfer">>,
      << <<"address", "indexed">>, <<"address">>, <<"uint256", "indexed", "id">> >>)
Named ==
    D(<<"event", "Named">>, << <<"string", "name">>, <<"uint256", "indexed", "method">> >>)
NamedIndexed ==
    D(<<"event", "Named">>, << <<"string", "indexed", "name">>, <<"uint256", "x">> >>)
NamedNumber == D(<<"event", "Named">>, << <<"uint", "x">> >>)
Paid ==
    D(<<"event", "Paid">>,
      << <<"uint64", "x">>, <<"uint256[]", "to">>, <<"uint64", "indexed", "id">> >>)
Bare == D(<<"event", "Bare">>, <<>>)
Fn == D(<<"function", "Bare">>, <<>>)
MCInterfaces ==
    {[a |-> <<Fn, Unnamed, Transfer, Named, Bare>>, b |-> <<NamedNumber, NamedIndexed>>],
     [a |-> <<Unnamed, Named, NamedNumber, Paid>>, b |-> <<>>]}
MCWords == {"event", "function", "Transfer", "Named", "Bare", "Raw", "Paid", "address", "uint256", "uint",
            "uint64", "uint256[]", "string", "indexed", "from", "to", "id", "name", "method", "x"}
\* Numbers of up to three bits: a float has two, and the nearest to 5 is 4.
MCArguments == {Number(1), Number(5), Text(1), [list |-> <<4, 5>>], [list |-> <<1>>]}
MCCanonical == [t \in {"uint"} |-> "uint256"]
MCFloat64(n) == IF n = 5 THEN 4 ELSE n

------------------------------------------------------------------------------
\* AbiPack
Signed(n) == [t |-> "int", size |-> n]
Unsigned(n) == [t |-> "uint", size |-> n]
Bool == [t |-> "bool"]
Address == [t |-> "address"]
Bytes == [t |-> "bytes"]
Fixed == [t |-> "fixedBytes", size |-> 2]
In(name, type) == [name |-> name, type |-> type]
Pair == [t |-> "tuple", elems |-> <<In("a", Unsigned(6)), In("b", Address)>>]
Nested == [t |-> "tuple", elems |-> <<In("b", Pair), In("a", Signed(3))>>]
SliceOf(elem) == [t |-> "slice", elem |-> elem]
Array1(elem) == [t |-> "array", elem |-> elem, size |-> 1]
MCMethods ==
    {<<In("a", Signed(2)), In("b", Unsigned(2))>>, <<In("b", Signed(3)), In("a", Unsigned(3))>>,
     <<In("a", Signed(4)), In("b", Unsigned(4))>>, <<In("a", Signed(6)), In("b", Unsigned(6))>>,
     <<In("a", Bool), In("b", Address)>>, <<In("a", [t |-> "string"]), In("b", Bytes)>>,
     <<In("a", Bytes), In("b", Fixed)>>, <<In("a", Pair)>>, <<In("a", Nested)>>,
     <<In("a", SliceOf(Signed(3)))>>, <<In("a", Array1(Pair))>>,
     <<In("a", SliceOf(SliceOf(Signed(3))))>>, <<In("a", Array1(SliceOf(Signed(3))))>>,
     <<In("a", SliceOf(Array1(Signed(3))))>>, <<In("a", SliceOf(Fixed))>>}

\* Numbers around the ends of 2, 3, 4 and 6 bits, and the other kinds of values.  A text of one or
\* two digits reads as one byte in hexadecimal (of 2 bits here), one with a sign as none.
Go(kind, numbers) == {[go |-> kind, n |-> n] : n \in numbers}
Decimal(n) == [go |-> "text", n |-> n, bytes |-> IF n < 0 THEN <<>> ELSE <<n % 4>>]
Ends == {-33, -32, -9, -8, -5, -4, -3, -2, -1, 0, 1, 3, 4, 7, 8, 15, 16, 31, 63, 64}
HexText(bytes) == [go |-> "hex", bytes |-> bytes]
Word(w, bytes) == [go |-> "word", w |-> w, bytes |-> bytes]
Null == [go |-> "null"]
Parts == {HexText(<<1, 2>>), Null, Decimal(4)}
GoMap(kind, names) == {[go |-> kind, fields |-> f] : f \in [names -> Parts]}
Maps == GoMap("map", {"a"}) \cup GoMap("map", {"a", "b"})
Structs == GoMap("struct", {"A"}) \cup GoMap("struct", {"A", "B"})
GoList(items) == [go |-> "list", items |-> items]
GoInt(n) == [go |-> "int", n |-> n]
\* Floats, and what the machine makes of those beyond its word: 2^63 (amd64), the nearest number the
\* word has (arm64), the low bits.
Float(numbers, fractions, sign, bits) ==
    [go : {"float"}, n : numbers, fraction : fractions, negative : {sign}, bits : bits]
MCGoValues ==
    UNION {{Decimal(n) : n \in Ends}, Go("big", Ends), Go("int", -8 .. 7), Go("uint", 0 .. 15),
           Float({0, 3, 4, 7, 15}, BOOLEAN, FALSE, {0}), Float({-4, 0}, {TRUE}, TRUE, {0}),
           Float({8, 16, 63}, {FALSE}, FALSE, {0, 3, 8, 15}), Float({-8}, {FALSE}, TRUE, {0}),
           Float({-9, -32}, {FALSE}, TRUE, {7, 8}),
           {HexText(b) : b \in {<<>>, <<3>>, <<1, 3>>, <<0, 0, 2>>, <<1, 2, 3>>}},
           {[go |-> "bytes", bytes |-> b] : b \in {<<>>, <<1, 2>>, <<1, 2, 3>>}},
           {Word("true", <<>>), Word("false", <<3>>), Word("0102", <<1, 2>>)},
           [go : {"bool"}, b : BOOLEAN],
           {Null, GoList(<<>>), GoList(<<Null>>),
            GoList(<<GoInt(3), Decimal(-4)>>), GoList(<<GoList(<<GoInt(3)>>)>>),
            GoList(<<GoList(<<>>), GoList(<<Decimal(-4), GoInt(1)>>)>>), GoList(<<HexText(<<1, 2>>)>>)},
           {GoList(<<m>>) : m \in Maps}, Maps, Structs,
           {[go |-> "map", fields |-> [a |-> Decimal(n), b |-> m]]
                : n \in {3, 4}, m \in GoMap("map", {"a", "b"})}}
MCCamel == ("a" :> "A" @@ "b" :> "B")

------------------------------------------------------------------------------
Init == JsonInit /\ DecodeInit /\ PackInit

Json == JsonNext /\ DOMAIN interface = {} /\ method = <<>> /\ UNCHANGED <<decodeVars, packVars>>
Decode == DecodeNext /\ doc = Nil /\ method = <<>> /\ UNCHANGED <<jsonVars, packVars>>
Pack == PackNext /\ doc = Nil /\ DOMAIN interface = {} /\ UNCHANGED <<jsonVars, decodeVars>>

Next == Json \/ Decode \/ Pack

Spec == Init /\ [][Next]_<<jsonVars, decodeVars, packVars>>
=============================================================================
