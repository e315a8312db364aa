------------------------- MODULE MCCommandPipeline -------------------------
(***************************************************************************)
(* Two connections of two requests each, over a registry of one command,   *)
(* with callbacks of two commands.                                         *)
(***************************************************************************)
EXTENDS CommandPipeline

\* A refused document with an id, a known command, an unknown one that carries
\* no id, and a document that ends the process.
Call(method, id) == [form |-> "object", jsonrpc |-> "2.0", method |-> method, id |-> id]

MCReadable == {[Call("ping", "given") EXCEPT !.jsonrpc = "1.0"],
               Call("ping", "given"), Call("nope", "absent")}
MCDocuments == MCReadable \cup {[Call("ping", "given") EXCEPT !.form = "overflow"]}
MCRegistered == {"ping"}
=============================================================================
