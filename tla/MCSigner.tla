------------------------------ MODULE MCSigner ------------------------------
(***************************************************************************)
(* Signer: what clients may send.                                          *)
(***************************************************************************)
EXTENDS Signer

CONSTANTS a1, a2, old, new

MCKeyFiles == [a \in {a1, a2} |-> IF a = a1 THEN old ELSE None]

Field(type, kind) == [type |-> type, kind |-> kind]
By(a, phrase) == [account |-> a, phrase |-> phrase]
Ask712(domain, fields, pairs) ==
    [op |-> "eip712", json |-> TRUE, domain |-> domain, fields |-> fields, pairs |-> pairs]
Ask191(chain, fields, pairs) ==
    [op |-> "eip191", json |-> TRUE, chain |-> chain, fields |-> fields, pairs |-> pairs]

Amount == << Field("address", "text"), Field("uint256", "number") >>

\* One signer, two of which the second may lack its file, the same account on chains whose
\* ids agree in 64 bits, and requests that fail early.
MCBodies ==
    {Ask712(1, Amount, <<By(a1, old)>>),
     Ask712(1, <<Field("uint256[]", "numbers")>>, <<By(a1, old)>>),
     Ask712(16, Amount, <<By(a1, old)>>),
     Ask191(17, <<Field("uint256[]", "texts")>>, <<By(a1, old), By(a2, new)>>),
     Ask191(1, <<Field("uint256[][2]", "texts")>>, <<By(a1, old)>>),
     [Ask712(1, Amount, <<>>) EXCEPT !.json = FALSE],
     Ask712(1, <<Field("uint256", "notSuchText")>>, <<By(a1, old)>>),
     Ask191(1, Amount, <<>>)}
=============================================================================
