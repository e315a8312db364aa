------------------------------ MODULE MCFraming ------------------------------
(***************************************************************************)
(* Bytes of two values and lengths of three bytes: a length is below 8 and *)
(* the limit is 3.  Payloads are empty, at the limit, below it, and one    *)
(* above it; their bytes read as lengths when they are taken for a header. *)
(***************************************************************************)
EXTENDS Framing

MCPayloads == {<<>>, <<1>>, <<0, 1, 0>>, <<0, 0, 1, 0>>}
=============================================================================
