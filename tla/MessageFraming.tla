--------------------------- MODULE MessageFraming ---------------------------
(***************************************************************************)
(* What receiving a request promises, whatever the segments it comes in:   *)
(* the request is handed over once, and, if its framing is one the server  *)
(* is held to, only when all of it was read.                               *)
(***************************************************************************)
EXTENDS WholeRequest

CONSTANTS Messages,   \* the requests the peers send, sequences of tokens
          Framed      \* those the promise is made for

VARIABLES msg,        \* the request being sent
          got,        \* how many of its tokens the server has read
          taken       \* has the request handler been called with it

framingVars == <<msg, got, taken>>

FramingInit == /\ msg \in Messages
               /\ got = 0
               /\ taken = FALSE

\* More of the request is read, and it may be handed over if it is whole.
FramingNext == /\ ~taken
               /\ got' \in got..Len(msg)
               /\ taken' \in BOOLEAN
               /\ taken' /\ msg \in Framed => Whole(SubSeq(msg, 1, got'))
               /\ UNCHANGED msg

FramingSpec == FramingInit /\ [][FramingNext]_framingVars
=============================================================================
