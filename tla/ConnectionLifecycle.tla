------------------------ MODULE ConnectionLifecycle ------------------------
(***************************************************************************)
(* What a server that answers one request per connection promises to each  *)
(* of its peers, whatever the others do: a response is begun only when the *)
(* peer's own bytes make a whole request, there is never a second one, and *)
(* a connection the server closed stays closed, for the same reason.       *)
(***************************************************************************)
EXTENDS WholeRequest

CONSTANTS Conns, Script

VARIABLES heard,    \* tokens of each script the server has read
          phase     \* "idle", "open", "answering", or why it was closed

lifeVars == <<heard, phase>>

Closed == {"answered", "cut", "expired"}

LifeInit == /\ heard = [c \in Conns |-> 0]
            /\ phase = [c \in Conns |-> "idle"]

Open(c) == /\ phase[c] = "idle"
           /\ phase' = [phase EXCEPT ![c] = "open"]
           /\ UNCHANGED heard

Hear(c) == \E n \in heard[c] .. Len(Script[c]) :
             /\ phase[c] = "open"
             /\ heard' = [heard EXCEPT ![c] = n]

\* Something is read; when the request is whole it may be answered at once.
Listen(c) == Hear(c) /\ UNCHANGED phase

Respond(c) == /\ Hear(c)
              /\ Whole(SubSeq(Script[c], 1, heard'[c]))
              /\ phase' \in {[phase EXCEPT ![c] = p] : p \in {"answering", "answered", "cut"}}

Finish(c) == /\ phase[c] = "answering"
             /\ phase' \in {[phase EXCEPT ![c] = p] : p \in {"answered", "cut"}}
             /\ UNCHANGED heard

Expire(c) == /\ phase[c] \in {"open", "answering"}
             /\ phase' = [phase EXCEPT ![c] = "expired"]
             /\ UNCHANGED heard

LifeNext == \E c \in Conns : Open(c) \/ Listen(c) \/ Respond(c) \/ Finish(c) \/ Expire(c)

LifeSpec == LifeInit /\ [][LifeNext]_lifeVars
=============================================================================
