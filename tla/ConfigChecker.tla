---------------------------- MODULE ConfigChecker ----------------------------
(***************************************************************************)
(* config_checker of ATwebserv: check_conFile reads the words of a         *)
(* configuration file into _si, once, before the server runs.  A step is   *)
(* one word at the top of the file, or one turn of the loop of             *)
(* check_serv_part or check_loca_part with the values it takes.            *)
(*                                                                         *)
(* At the end of the file >> leaves its word as it was: a loop then sees   *)
(* the word of its last turn again.  A value read into a word of its own   *)
(* is missing instead.                                                     *)
(***************************************************************************)
EXTENDS Integers, SequencesExt, FiniteSetsExt

CONSTANTS Texts,      \* the files there are, each a sequence of words
          ValidPorts  \* the words of digits that stand for 80..65535

\* What a word is without its ';', and whether it has one: at its end, and no
\* other ("yes"), or otherwise ("bad").
Word == [text : STRING, ends : {"no", "yes", "bad"}]

ASSUME ConfigAssumption == /\ \A t \in Texts : \A i \in DOMAIN t : t[i] \in Word
                           /\ ValidPorts \subseteq STRING

VARIABLES
  text,     \* the file that is read
  pos,      \* how many of its words were read
  block,    \* where the reader is: "file", "server" or "location"
  word,     \* word of check_serv_part, or of check_loca_part while it runs
  _si,      \* the servers
  outcome   \* "reading", "accepted", "rejected" or, in a loop, "endless"

config == <<text, pos, block, word, _si, outcome>>

W(s)      == [text |-> s, ends |-> "no"]
Open      == W("{")
Close     == W("}")
Semicolon == [text |-> "", ends |-> "yes"]

\* The directives with one value, and those with several.
ServerStrings   == {"server_name", "max_file_size", "error_page", "host", "time_out"}
ServerLists     == {"cgi_file_types"}
LocationStrings == {"auth_basic", "auth_user_file", "autoindex", "index", "max_file_size",
                    "return_directive", "root"}
LocationLists   == {"allowed_method", "return"}

Empty(names) == [n \in names |-> <<>>]

\* server_info and locati_info: of each directive the values.
server_info == [set |-> Empty({"port"} \cup ServerStrings \cup ServerLists), location |-> <<>>]
locati_info(name) == [name |-> name, set |-> Empty(LocationStrings \cup LocationLists)]

-----------------------------------------------------------------------------
\* Values.  p words were read; a result says how many there are then, the
\* value, and how the reading goes on.

Value(p, v) == [pos |-> p, value |-> v, outcome |-> "reading"]
Exception   == [pos |-> Len(text), value |-> <<>>, outcome |-> "rejected"]
Forever     == [pos |-> Len(text), value |-> <<>>, outcome |-> "endless"]

\* A ';' at the end of the word, or the next word, or the end of the file.
extract_to_string(p) ==
  CASE p = Len(text) \/ (p < Len(text) /\ text[p + 1].ends = "bad") -> Exception
    [] p < Len(text) /\ text[p + 1].ends = "yes" -> Value(p + 1, <<text[p + 1].text>>)
    [] OTHER -> CASE p + 1 = Len(text) -> Value(p + 1, <<text[p + 1].text>>)
                  [] p + 1 < Len(text) /\ text[p + 2] = Semicolon ->
                       Value(p + 2, <<text[p + 1].text>>)
                  [] OTHER -> Exception

valid_port(p) ==
  IF p < Len(text) /\ text[p + 1].text \in ValidPorts THEN extract_to_string(p) ELSE Exception

\* Every word up to one with a ';'.  Without one the last word is read again
\* and again.
extract_to_vector(p) ==
  LET ending == {i \in p + 1 .. Len(text) : text[i].ends # "no"}
      e      == Min(ending)
  IN CASE ending = {} -> Forever
       [] ending # {} /\ text[e].ends = "bad" -> Exception
       [] OTHER -> Value(e, [i \in 1 .. e - p |-> text[p + i].text])

-----------------------------------------------------------------------------
ConfigInit ==
  /\ text \in Texts
  /\ pos = 0 /\ block = "file" /\ word = W("") /\ _si = <<>> /\ outcome = "reading"

In(b) == outcome = "reading" /\ block = b

\* check_conFile: no such file; its end, a word that is skipped, a server.
Unfound ==
  /\ In("file")
  /\ pos = 0
  /\ outcome' = "rejected"
  /\ UNCHANGED <<text, pos, block, word, _si>>

FileEnds ==
  /\ In("file")
  /\ pos = Len(text)
  /\ outcome' = "accepted"
  /\ UNCHANGED <<text, pos, block, word, _si>>

SkipWord ==
  /\ In("file")
  /\ pos < Len(text) /\ text[pos + 1] # W("server")
  /\ pos' = pos + 1
  /\ UNCHANGED <<text, block, word, _si, outcome>>

ServerBegins ==
  /\ In("file")
  /\ pos < Len(text) /\ text[pos + 1] = W("server")
  /\ _si' = Append(_si, server_info)
  /\ IF pos + 1 < Len(text) /\ text[pos + 2] = Open
     THEN pos' = pos + 2 /\ block' = "server" /\ word' = Open /\ UNCHANGED outcome
     ELSE outcome' = "rejected" /\ UNCHANGED <<pos, block, word>>
  /\ UNCHANGED text

\* A bug: the end of the file ends the loop, as a closing bracket does.
Bug_EndCloses == IF pos < Len(text) THEN text[pos + 1] ELSE Close

\* ifs >> word of the two loops.
Read   == IF pos < Len(text) THEN text[pos + 1] ELSE word
ReadAt == IF pos < Len(text) THEN pos + 1 ELSE pos

\* The loop's turn is over, with what a directive gave.
Continue(result) ==
  /\ pos' = result.pos /\ outcome' = result.outcome
  /\ word' = Read
  /\ UNCHANGED <<text, block>>

\* One more opening bracket is counted, and only the loop of a server asks for
\* the count.  At the end of the file it is counted again and again: until the
\* int has passed through all its values and is 0, or, as the overflow is
\* undefined, for ever.
CountBracket ==
  /\ In("server") \/ In("location")
  /\ Read = Open
  /\ \/ Continue(IF pos = Len(text) THEN Forever ELSE Value(ReadAt, <<>>))
     \/ /\ pos = Len(text) /\ block = "server"
        /\ block' = "file"
        /\ UNCHANGED <<text, pos, word, outcome>>
  /\ UNCHANGED _si

UnknownWord ==
  /\ \/ In("server") /\ Read \notin {W(s) : s \in {"port", "location"} \cup ServerStrings \cup ServerLists}
     \/ In("location") /\ Read \notin {W(s) : s \in LocationStrings \cup LocationLists}
  /\ Read \notin {Open, Close}
  /\ Continue(Exception)
  /\ UNCHANGED _si

ServerEnds ==
  /\ In("server")
  /\ Read = Close
  /\ pos' = ReadAt /\ block' = "file"
  /\ UNCHANGED <<text, word, _si, outcome>>

ServerDirective ==
  /\ In("server")
  /\ \E d \in {"port"} \cup ServerStrings \cup ServerLists :
       /\ Read = W(d)
       /\ LET result == CASE d = "port" -> valid_port(ReadAt)
                          [] d \in ServerStrings -> extract_to_string(ReadAt)
                          [] OTHER -> extract_to_vector(ReadAt)
          IN /\ Continue(result)
             /\ _si' = IF result.outcome # "reading" THEN _si
                       ELSE [_si EXCEPT ![Len(_si)].set[d] =
                               IF d \in ServerLists THEN @ \o result.value ELSE result.value]

\* The word of the server's loop stays "location" while check_loca_part runs.
LocationBegins ==
  /\ In("server")
  /\ Read = W("location")
  /\ LET name == IF ReadAt < Len(text) THEN text[ReadAt + 1] ELSE W("")
     IN _si' = [_si EXCEPT ![Len(_si)].location = Append(@, locati_info(name))]
  /\ IF ReadAt + 1 < Len(text) /\ text[ReadAt + 2] = Open
     THEN pos' = ReadAt + 2 /\ block' = "location" /\ word' = Open /\ UNCHANGED outcome
     ELSE outcome' = "rejected" /\ UNCHANGED <<pos, block, word>>
  /\ UNCHANGED text

LocationEnds ==
  /\ In("location")
  /\ Read = Close
  /\ pos' = ReadAt /\ block' = "server" /\ word' = W("location")
  /\ UNCHANGED <<text, _si, outcome>>

\* si.location.size() - 1
CurrentLocation == Len(_si[Len(_si)].location)

LocationDirective ==
  /\ In("location")
  /\ \E d \in LocationStrings \cup LocationLists :
       /\ Read = W(d)
       /\ LET result == IF d \in LocationStrings THEN extract_to_string(ReadAt)
                        ELSE extract_to_vector(ReadAt)
          IN /\ Continue(result)
             /\ _si' = IF result.outcome # "reading" THEN _si
                       ELSE [_si EXCEPT ![Len(_si)].location[CurrentLocation].set[d] =
                               IF d \in LocationLists THEN @ \o result.value ELSE result.value]

ConfigNext == \/ Unfound \/ FileEnds \/ SkipWord
              \/ ServerBegins \/ ServerDirective \/ ServerEnds
              \/ LocationBegins \/ LocationDirective \/ LocationEnds
              \/ CountBracket \/ UnknownWord

-----------------------------------------------------------------------------
(* What a file means, said without the reader: its brackets nest, and its  *)
(* words are statements that end with a ';'.                               *)

\* How many blocks each word is in, and an opening bracket's own.
Depth == LET Next(depths, w) ==
               Append(depths, (IF depths = <<>> THEN 0 ELSE Last(depths))
                              + (CASE w = Open -> 1 [] w = Close -> -1 [] OTHER -> 0))
         IN FoldLeft(Next, <<>>, text)

\* Where a statement begins.
Begins(i) == i = 1 \/ text[i - 1].ends # "no" \/ text[i - 1] \in {Open, Close}

\* Blocks stand where they may, and no statement runs into a bracket.
Nested(depth) ==
  \A i \in DOMAIN text :
    /\ depth[i] \in 0..2
    /\ text[i] = Open =>
         IF depth[i] = 1 THEN i > 1 /\ Begins(i - 1) /\ text[i - 1] = W("server")
         ELSE i > 2 /\ Begins(i - 2) /\ text[i - 2] = W("location")
    /\ text[i] = Close => Begins(i)
    /\ depth[i] = 0 /\ text[i] # Close => text[i] = W("server")

InOrder(S) == SelectSeq([i \in DOMAIN text |-> i], LAMBDA i : i \in S)

\* The words of a statement behind its first.
Statement(i) == LET e == Min({j \in i .. Len(text) : text[j].ends # "no"})
                IN [j \in 1 .. e - i |-> text[i + j].text]

\* What the statements among these words give a directive: all, or the last.
Given(words, d) ==
  LET all == [k \in DOMAIN words |-> IF Begins(words[k]) /\ text[words[k]] = W(d)
                                     THEN Statement(words[k]) ELSE <<>>]
      some == SelectSeq(all, LAMBDA v : v # <<>>)
  IN CASE d \in ServerLists \cup LocationLists -> FlattenSeq(some)
       [] d \notin ServerLists \cup LocationLists /\ some = <<>> -> <<>>
       [] OTHER -> <<Head(Last(some))>>

Meaning(depth) ==
  LET end(b)    == Min({i \in b .. Len(text) : depth[i] < depth[b]})
      blocks(d, first, last) == InOrder({i \in first .. last : text[i] = Open /\ depth[i] = d})
      words(b)  == InOrder({i \in b + 1 .. end(b) - 1 : depth[i] = depth[b]})
      location(b) == [name |-> text[b - 1],
                      set  |-> [d \in LocationStrings \cup LocationLists |-> Given(words(b), d)]]
      server(b) == [set |-> [d \in DOMAIN server_info.set |-> Given(words(b), d)],
                    location |-> LET bs == blocks(2, b, end(b))
                                 IN [l \in DOMAIN bs |-> location(bs[l])]]
      servers   == blocks(1, 1, Len(text))
  IN [k \in DOMAIN servers |-> server(servers[k])]

\* A well-formed file that is accepted is taken as written.
TakenAsWritten ==
  [][outcome = "reading" /\ outcome' = "accepted" =>
       LET depth == Depth
       IN text # <<>> /\ Nested(depth) /\ Last(depth) = 0 => _si = Meaning(depth)]_config

\* The file ends in a list, or right behind an opening bracket.
EndsOpen ==
  \/ Last(text) = Open
  \/ LET begin == Max({i \in DOMAIN text : Begins(i)})
     IN text[begin] \in {W(d) : d \in ServerLists \cup LocationLists}

\* A file that ends inside a block is refused, but for a list or an opening
\* bracket at its end: they are read on, in most cases for ever.
TruncationRefused ==
  [][outcome = "reading" /\ outcome' # "reading" =>
       LET depth == Depth
       IN Nested(depth) /\ depth # <<>> /\ Last(depth) > 0 /\ ~EndsOpen =>
            outcome' = "rejected"]_config

\* Of any file that is accepted each block that is headed by its word is a server,
\* and nothing else is: what is skipped in between are blocks without it.
HeadedTaken ==
  [][outcome = "reading" /\ outcome' = "accepted" =>
       Len(_si) = Cardinality({i \in DOMAIN text :
                                 i > 1 /\ text[i] = Open /\ text[i - 1] = W("server")})]_config

\* A file whose brackets nest and whose statements end is taken for what it says, or
\* refused: each value is where its directive stands, in its server or its location;
\* and when it is cut short it is never taken for a whole one, though no loop asks
\* for the end of the file and only its last word, which is read once more, refuses
\* it (check_serv_part, check_loca_part and the extract functions;
\* configuration_files/invalid/missing_closing_bracket.conf).  Not every file that
\* does not nest is refused: a block without the word "server" is skipped, and an
\* opening bracket too many is counted and forgotten; of those the property says
\* only how many servers are taken.
TakenOrRefused == TakenAsWritten /\ TruncationRefused /\ HeadedTaken
=============================================================================
