----------------------------- MODULE ServerBlocks -----------------------------
(***************************************************************************)
(* How webserv reads a server block of its configuration file: server::    *)
(* create_new_server and location_context::configure_location_block.       *)
(*                                                                         *)
(* A line is the sequence of its words; blanks in front are gone.  What a  *)
(* line says is found anywhere in its text, also inside a word: Within has *)
(* the keywords a word contains besides being one.                         *)
(***************************************************************************)
EXTENDS Integers, FiniteSetsExt, SequencesExt, Functions

CONSTANTS
  Within,     \* word -> the keywords it contains, for those that contain any
  NumberOf,   \* word -> what ft_atoi makes of it, for those that are numbers
  PathOf,     \* word that begins with "/", or is a path -> its names
  AuthFiles   \* the user files that can be opened

ServerValues ==
  <<"port", "host", "server_name", "error_page", "time_out", "cgi_file_types", "location">>

LocationValues ==
  <<"root", "allowed_method", "autoindex", "index", "alias", "max_file_size",
    "auth_basic", "auth_user_file", "return">>

\* These are looked for with a space behind them.
WithSpace == {"auth_basic", "auth_user_file", "return"}

Keywords == Range(ServerValues) \cup Range(LocationValues)

ASSUME ServerBlocksAssumption ==
  /\ DOMAIN Within \subseteq STRING /\ \A w \in DOMAIN Within : Within[w] \subseteq Keywords
  /\ DOMAIN NumberOf \subseteq STRING /\ Range(NumberOf) \subseteq Int
  /\ DOMAIN PathOf \subseteq STRING /\ Range(PathOf) \subseteq Seq(STRING)
  /\ AuthFiles \subseteq STRING

-----------------------------------------------------------------------------
\* Lines.

Found(word) == (IF word \in DOMAIN Within THEN Within[word] ELSE {}) \cup ({word} \cap Keywords)

Has(line, key) ==
  \E i \in DOMAIN line : key \in Found(line[i]) /\ (key \in WithSpace => i < Len(line))

FirstOf(values, line) ==
  LET found == SelectSeq(values, LAMBDA key : Has(line, key))
  IN IF found = <<>> THEN "unknown" ELSE Head(found)

identify_server_value(line)   == FirstOf(ServerValues, line)
identify_location_value(line) == FirstOf(LocationValues, line)

\* What is behind the first space, or the whole line when it has none.
parse_string(line) == IF Len(line) > 1 THEN Tail(line) ELSE line
parse_vector(line) == Range(parse_string(line))
parse_number(line) ==
  LET word == Head(parse_string(line)) IN IF word \in DOMAIN NumberOf THEN NumberOf[word] ELSE 0

\* As many lines with one bracket as with the other.
check_server_block(lines) ==
  LET With(bracket) == {i \in DOMAIN lines : bracket \in Range(lines[i])}
  IN With("{") # {} /\ Cardinality(With("{")) = Cardinality(With("}"))

\* The lines up to the next "}", or none.
location_block_size(lines) ==
  LET ends == {i \in DOMAIN lines : "}" \in Range(lines[i])}
  IN IF ends = {} THEN 0 ELSE Min(ends) - 1

-----------------------------------------------------------------------------
\* location_context.

location_context ==
  [location |-> "", root |-> <<>>, index |-> <<>>, allowed |-> {}, max |-> 0,
   autoindex |-> FALSE, alias |-> FALSE, auth_basic |-> <<>>, users |-> <<>>,
   retour |-> [code \in {} |-> <<>>]]

Bug_UsersKept(l) == [location_context EXCEPT !.retour = l.retour, !.users = l.users]

\* Everything is cleared but _return.
clean_location_instance(l) == [location_context EXCEPT !.retour = l.retour]

\* The path begins at the first "/".
Paths(line) == SelectSeq(line, LAMBDA w : w \in DOMAIN PathOf)
configure_location_context(l, line) == [l EXCEPT !.location = Head(Paths(line))]

\* insert leaves what the map has for the code.
configure_return(l, line) ==
  LET to == IF Len(line) > 2 THEN SubSeq(line, 3, Len(line)) ELSE line
  IN [l EXCEPT !.retour =
        [n \in {parse_number(line)} \cup DOMAIN @ |-> IF n \in DOMAIN @ THEN @[n] ELSE to]]

configure_location(l, line) ==
  LET key == identify_location_value(line)
  IN CASE key \in {"root", "index", "auth_basic"} -> [l EXCEPT ![key] = parse_string(line)]
       [] key \in {"autoindex", "alias"} -> [l EXCEPT ![key] = @ \/ parse_string(line) = <<"on">>]
       [] key = "allowed_method" -> [l EXCEPT !.allowed = parse_vector(line)]
       [] key = "max_file_size"  -> [l EXCEPT !.max = parse_number(line)]
       [] key = "auth_user_file" -> [l EXCEPT !.users = @ \o parse_string(line)]
       [] key = "return"         -> configure_return(l, line)
       [] OTHER -> l

\* A user file that cannot be opened, a code that is none of a redirection.
LocationThrows(line) ==
  LET key == identify_location_value(line)
  IN \/ key = "auth_user_file" /\ parse_string(line)[1] \notin AuthFiles
     \/ key = "return" /\ parse_number(line) \notin 300..310

\* The line that opens the block is read like the others.
configure_location_block(l, line, lines) ==
  FoldLeft(configure_location, configure_location_context(clean_location_instance(l), line), lines)

-----------------------------------------------------------------------------
\* server.

server ==
  [port |-> 0, host |-> <<>>, server_name |-> <<>>, error_page |-> <<>>, time_out |-> 0,
   cgi_file_types |-> <<>>, location_blocks |-> <<>>]

Bug_TimeOutKept(s) == [server EXCEPT !.time_out = s.time_out]

reset_server(s) == server

configure_server(s, line) ==
  LET key == identify_server_value(line)
  IN CASE key \in {"port", "time_out"} -> [s EXCEPT ![key] = parse_number(line)]
       [] key \in {"host", "server_name", "error_page", "cgi_file_types"} ->
            [s EXCEPT ![key] = parse_string(line)]
       [] OTHER -> s

\* The lines of the location that begins at line i.
LocationAt(lines, i) ==
  SubSeq(lines, i, i - 1 + location_block_size(SubSeq(lines, i, Len(lines))))

\* One line; the one location object is used for every location.
configure_line(made, lines, i) ==
  IF identify_server_value(lines[i]) # "location"
  THEN [made EXCEPT !.server = configure_server(@, lines[i])]
  ELSE LET l == configure_location_block(made.location, lines[i], LocationAt(lines, i))
       IN [location |-> l, server |-> [made.server EXCEPT !.location_blocks = Append(@, l)]]

\* Every line is looked at here, those of the locations a second time.
create_new_server(s, lines) ==
  FoldLeft(LAMBDA made, i : configure_line(made, lines, i),
           [server |-> reset_server(s), location |-> location_context],
           [i \in DOMAIN lines |-> i]).server

\* An exception leaves create_new_server at this line: one of configure_*, or of
\* substr when a location has no path.
Throws(lines, i) ==
  /\ identify_server_value(lines[i]) = "location"
  /\ Paths(lines[i]) = <<>> \/ \E line \in Range(LocationAt(lines, i)) : LocationThrows(line)

\* A location as match_location_block asks for it; begin() of _return is the
\* lowest code.
Names(words) == IF words = <<>> THEN <<>> ELSE PathOf[Head(words)]
Block(l) ==
  [location  |-> PathOf[l.location], root |-> Names(l.root), index |-> Names(l.index),
   allowed   |-> l.allowed, max |-> l.max, autoindex |-> l.autoindex, alias |-> l.alias,
   auth_basic |-> IF l.auth_basic = <<>> THEN "" ELSE Head(l.auth_basic),
   retour    |-> IF DOMAIN l.retour = {} THEN [code |-> 0, to |-> <<>>]
                 ELSE [code |-> Min(DOMAIN l.retour), to |-> Names(l.retour[Min(DOMAIN l.retour)])]]
===============================================================================
