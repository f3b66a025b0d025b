------------------------------- MODULE ChatRoom -------------------------------
(***************************************************************************)
(* What a chat server promises: who joins gets the next number and the     *)
(* others are told; what a member says goes to all the others; who leaves, *)
(* which nobody does who has not hung up, is announced to those that stay. *)
(* Every member hears what it is owed, all of it, once and in the order in *)
(* which it happened.                                                      *)
(***************************************************************************)
EXTENDS Naturals, SequencesExt, Functions

CONSTANT People

VARIABLES
  joined,   \* everybody who ever joined, in that order: the first has number 0
  members,  \* those that are there
  gone,     \* those that have hung up, members until it is noticed
  said,     \* person -> the lines it has said
  owed,     \* person -> what it is still to be told
  told      \* person -> what it was told

room == <<joined, members, gone, said, owed, told>>

Number(p) == (CHOOSE i \in DOMAIN joined : joined[i] = p) - 1

Event(what, id, text) == [what |-> what, id |-> id, text |-> text]

\* All members but p are owed these events.
Announced(p, events) ==
  [q \in People |-> IF q \in members \ {p} THEN owed[q] \o events ELSE owed[q]]

RoomInit ==
  /\ joined = <<>> /\ members = {} /\ gone = {}
  /\ said = [p \in People |-> <<>>]
  /\ owed = [p \in People |-> <<>>]
  /\ told = [p \in People |-> <<>>]

Join(p) ==
  /\ p \notin Range(joined)
  /\ joined' = Append(joined, p)
  /\ members' = members \cup {p}
  /\ owed' = Announced(p, <<Event("arrived", Len(joined), <<>>)>>)
  /\ UNCHANGED <<gone, said, told>>

\* Some more lines, one after the other.
Say(p) ==
  /\ p \in members
  /\ IsStrictPrefix(said[p], said'[p])
  /\ said' = [said EXCEPT ![p] = said'[p]]
  /\ LET lines == SubSeq(said'[p], Len(said[p]) + 1, Len(said'[p]))
     IN owed' = Announced(p, [i \in DOMAIN lines |-> Event("said", Number(p), lines[i])])
  /\ UNCHANGED <<joined, members, gone, told>>

HangUp(p) ==
  /\ p \notin gone
  /\ gone' = gone \cup {p}
  /\ UNCHANGED <<joined, members, said, owed, told>>

Leave(p) ==
  /\ p \in members \cap gone
  /\ members' = members \ {p}
  /\ owed' = [Announced(p, <<Event("left", Number(p), <<>>)>>) EXCEPT ![p] = <<>>]
  /\ UNCHANGED <<joined, gone, said, told>>

Hear(p) ==
  /\ p \in members /\ owed[p] # <<>>
  /\ told' = [told EXCEPT ![p] = Append(@, Head(owed[p]))]
  /\ owed' = [owed EXCEPT ![p] = Tail(@)]
  /\ UNCHANGED <<joined, members, gone, said>>

RoomNext == \E p \in People : Join(p) \/ Say(p) \/ HangUp(p) \/ Leave(p) \/ Hear(p)

RoomSpec == RoomInit /\ [][RoomNext]_room
===============================================================================
