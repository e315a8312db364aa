------------------------------ MODULE JsonRpc ------------------------------
(***************************************************************************)
(* JSON-RPC 2.0 parsing and response building (json_rpc.cpp).              *)
(*                                                                         *)
(* A raw payload is abstracted to what parse_request looks at: whether the *)
(* bytes are JSON, and with numbers the library can hold, whether the      *)
(* document is an object, its "jsonrpc" and "method" members, and its id.  *)
(* The id is a number, 0 standing for JSON null.  A response is the id it  *)
(* carries and its outcome: 0 for a result, the error code otherwise.      *)
(* Parameters and message texts are left out.                              *)
(***************************************************************************)
EXTENDS Integers

ERR_PARSE       == -32700
ERR_INVALID_REQ == -32600
ERR_NOT_FOUND   == -32601
ERR_REAPER_API  == -32000
ERR_TIMEOUT     == -32002

\* The JSON null an absent id becomes, and the outcome of a result.
Null   == 0
Result == 0

\* The members of a document that are not a usable method name.
NoMethod == {"absent", "not a string"}

(***************************************************************************)
(* json::parse throws a parse_error on text that is not JSON, which        *)
(* parse_request catches, and an out_of_range on a number that overflows   *)
(* (1e999), which neither it nor its caller on the client thread catches.  *)
(***************************************************************************)
Forms == {"not json", "overflow", "not an object", "object"}

ParseThrows(raw) == raw.form = "overflow"

(***************************************************************************)
(* The checks of parse_request in the order the code makes them.  A        *)
(* request refused by any of them leaves before its id is read, so that    *)
(* every refusal is answered with a null id.  A request is valid when its  *)
(* error code is 0 (the code keeps a flag beside it).  Of raw it is known  *)
(* that ParseThrows does not hold.                                         *)
(***************************************************************************)
Refusal(code)     == [method |-> "none", id |-> Null, error |-> code]
Valid(method, id) == [method |-> method, id |-> id, error |-> 0]

parse_request(raw) ==
    IF raw.form = "not json" THEN Refusal(ERR_PARSE)
    ELSE IF raw.form # "object" \/ raw.jsonrpc # "2.0" \/ raw.method \in NoMethod
      THEN Refusal(ERR_INVALID_REQ)
      ELSE Valid(raw.method, raw.id)

make_result(id)      == [id |-> id, code |-> Result]
make_error(id, code) == [id |-> id, code |-> code]
=============================================================================
