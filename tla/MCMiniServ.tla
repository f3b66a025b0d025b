------------------------------ MODULE MCMiniServ ------------------------------
(***************************************************************************)
(* Three peers of mini_serv over two descriptors.  One only listens; of    *)
(* the others, one sends two lines at once and one the beginning of a      *)
(* line, or one sends two lines, cut within the second.                    *)
(***************************************************************************)
EXTENDS MiniServ

CONSTANTS a, b, z

MCScripts ==
  {[p \in Conns |-> CASE p = a -> <<<<"a1", "NL", "a2", "NL">>>>
                      [] p = b -> <<<<"b1", "b2", "b3">>>>
                      [] OTHER -> <<>>],
   [p \in Conns |-> IF p = a THEN <<<<"a1", "NL", "a2">>, <<"a3", "NL">>>> ELSE <<>>]}
===============================================================================
