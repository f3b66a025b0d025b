------------------------------- MODULE MCCgiPipe -------------------------------
(***************************************************************************)
(* Constants for CgiPipe: pipes of 4 units; requests without body, with a  *)
(* body declared as it is, too short, or longer than a pipe; scripts that  *)
(* read nothing, some, more than there is or to the end, and print a page  *)
(* that ends in a line or not, fills the pipe, or does not fit.            *)
(***************************************************************************)
EXTENDS CgiPipe

Call(h, b, l) == [header |-> [i \in 1..h |-> "head"], body |-> [i \in 1..b |-> "body"], cLen |-> l]

MCCalls == {Call(2, 0, 0), Call(1, 1, 1), Call(1, 2, 2), Call(1, 2, 4), Call(2, 4, 4), Call(2, 4, 5), Call(1, 4, 7)}

Pages == {<<>>, <<"type", "nl", "t", "nl">>, <<"powered", "nl", "nl", "t">>,
          <<"t", "nl", "t", "type", "nl">>}

MCScripts == [eats : 0..3, toEnd : {FALSE}, prints : Pages]
             \cup [eats : {0}, toEnd : {TRUE}, prints : Pages]
===============================================================================
