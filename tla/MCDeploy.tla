------------------------------ MODULE MCDeploy ------------------------------
(***************************************************************************)
(* Deploy: compose files and what a user may type.                         *)
(***************************************************************************)
EXTENDS Deploy

CONSTANTS tokens, other, token, market, proxy, lib, src1, src2, src3, addr, mkt, file1, line1, again

Contract(name, alias, input, returns) ==
    [name |-> name, alias |-> alias, ignore |-> FALSE, input |-> input, returns |-> returns]

\* A market is built with the token's address, a proxy with the market's; a library
\* lends its ABI.  Both packages have the token's source file.
MCTokens ==
    [collection |-> tokens,
     packages |-> << [sources |-> <<src1, src2>>,
                      contracts |-> << Contract(token, None, None, addr),
                                       Contract(market, None, addr, mkt) >>,
                      imports |-> << >>],
                     [sources |-> <<src1, src3>>,
                      contracts |-> << Contract(token, None, None, addr),
                                       Contract(proxy, again, mkt, None) >>,
                      imports |-> << [file |-> src1, name |-> lib] >>] >>]

MCFiles == file1 :> MCTokens
MCArtifacts == {<<src1, token>>, <<src1, lib>>, <<src2, market>>, <<src3, proxy>>}
MCCommands ==
    {[op |-> "compose", file |-> file1], [op |-> "deploy", file |-> file1, only |-> {}],
     [op |-> "deploy", file |-> file1, only |-> {token}],
     [op |-> "collection", collection |-> other],
     [op |-> "import", collection |-> tokens, name |-> lib]}

\* The theorems' hypothesis on lines holds of this instance.  That its contracts are in
\* order is left to CompleteIsWired to find out, since composing decides it.
ASSUME MCDeployAssumption == OneAtATime
=============================================================================
