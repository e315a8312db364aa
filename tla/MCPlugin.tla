------------------------------ MODULE MCPlugin ------------------------------
(***************************************************************************)
(* Two connections that share one descriptor number and send two requests  *)
(* between them, with no foreign descriptors (MCTcpServer has them).  What *)
(* commands do is MCCommandPipeline's matter: here the registry is empty,  *)
(* and a request that reaches the main thread is answered as not found.    *)
(***************************************************************************)
EXTENDS Plugin

CONSTANTS k1, k2

\* A refused document, one that is pushed, and one that ends the process.
MCDocuments == [form : {"object", "not json", "overflow"}, jsonrpc : {"2.0"},
                method : {"nope"}, id : {"given"}]

\* The two connections are alike: the one made first is called k1.
InOrderOfConnecting == peer'[k2] # "away" => peer'[k1] # "away"
=============================================================================
