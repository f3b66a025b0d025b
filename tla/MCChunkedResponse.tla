--------------------------- MODULE MCChunkedResponse ---------------------------
(***************************************************************************)
(* Constants for ChunkedResponse: with a MAX_LEN of 2, bodies for one send *)
(* (a header and one piece), one chunk, and two or three chunks, the last  *)
(* of them full or not; and text like a header behind the header, inside a *)
(* chunk, at the start of one and at its end.                              *)
(***************************************************************************)
EXTENDS ChunkedResponse

Pieces(n) == [i \in 1..n |-> Data(i)]

Http(n, at) == [Pieces(n) EXCEPT ![at] = [k |-> "head", n |-> at]]

MCBodies == {Pieces(n) : n \in 1..6} \cup {Http(5, at) : at \in {1, 2, 3, 5}}
================================================================================
