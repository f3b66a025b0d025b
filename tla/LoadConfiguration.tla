--------------------------- MODULE LoadConfiguration ---------------------------
(***************************************************************************)
(* main of webserv up to run(): load_configuration line by line,           *)
(* validate_configuration and establish_connection.  Every exception is    *)
(* caught in main, which ends.                                             *)
(*                                                                         *)
(* The file is the text of one of Descriptions, or what is left of it when *)
(* it is cut off or a line is missing.                                     *)
(***************************************************************************)
EXTENDS ServerBlocks

CONSTANTS
  Descriptions,  \* what files may say: servers, each [own, locations]
  Busy           \* sets of ports that others may have

VARIABLES
  written,       \* the description the file was written from
  file,          \* the lines of the file
  busy,
  at,            \* how many of them were read
  server_block,
  made,          \* the server of load_configuration, the location of create_new_server
  it,            \* the line create_new_server has come to
  _servers,
  phase,         \* "load", "create", "validate", "connect", "run" or "ended"
  listening      \* ports of the servers that listen

vars == <<written, file, busy, at, server_block, made, it, _servers, phase, listening>>

-----------------------------------------------------------------------------
\* Files: a server has lines of its own and after them its locations.

LocationText(l) == <<<<"location", l.name, "{">>>> \o l.lines \o <<<<"}">>>>

ServerText(d) ==
  <<<<"server", "{">>>> \o d.own
    \o FlattenSeq([k \in DOMAIN d.locations |-> LocationText(d.locations[k])]) \o <<<<"}">>>>

Text(ds) == FlattenSeq([i \in DOMAIN ds |-> ServerText(ds[i])])

IsDescription(ds) ==
  \A d \in Range(ds) :
    /\ d.own \in Seq(Seq(STRING))
    /\ \A l \in Range(d.locations) : l.name \in STRING /\ l.lines \in Seq(Seq(STRING))

ASSUME LoadAssumption ==
  /\ \A ds \in Descriptions : IsDescription(ds)
  /\ \A ports \in Busy : ports \subseteq Int

-----------------------------------------------------------------------------
\* The program.

Init ==
  /\ written \in Descriptions /\ busy \in Busy
  /\ \/ file = Text(written)
     \/ \E n \in 0 .. Len(Text(written)) - 1 : file = SubSeq(Text(written), 1, n)
     \/ \E n \in 1 .. Len(Text(written)) : file = RemoveAt(Text(written), n)
  /\ at = 0
  /\ server_block = <<>> /\ _servers = <<>>
  /\ made = [server |-> server, location |-> location_context] /\ it = 1
  /\ phase = "load" /\ listening = {}

\* The next line: when the brackets are complete the object is made anew.
ReadLine ==
  /\ phase = "load" /\ at < Len(file)
  /\ at' = at + 1
  /\ server_block' = Append(server_block, file[at + 1])
  /\ IF check_server_block(server_block')
     THEN /\ phase' = "create" /\ it' = 1
          /\ made' = [server |-> reset_server(made.server), location |-> location_context]
     ELSE UNCHANGED <<phase, it, made>>
  /\ UNCHANGED <<written, file, busy, _servers, listening>>

\* One turn of the loop of create_new_server.
CreateLine ==
  /\ phase = "create" /\ it <= Len(server_block)
  /\ IF Throws(server_block, it)
     THEN phase' = "ended" /\ UNCHANGED <<it, made>>
     ELSE /\ made' = configure_line(made, server_block, it)
          /\ it' = it + 1 /\ UNCHANGED phase
  /\ UNCHANGED <<written, file, busy, at, server_block, _servers, listening>>

ServerMade ==
  /\ phase = "create" /\ it > Len(server_block)
  /\ _servers' = Append(_servers, made.server)
  /\ server_block' = <<>> /\ phase' = "load"
  /\ UNCHANGED <<written, file, busy, at, it, made, listening>>

Bug_LeftoverIgnored ==
  /\ phase = "load" /\ at = Len(file)
  /\ phase' = "validate"
  /\ UNCHANGED <<written, file, busy, at, server_block, made, it, _servers, listening>>

\* What is left over had a bracket too few.
LoadEnds ==
  /\ phase = "load" /\ at = Len(file)
  /\ phase' = IF server_block = <<>> THEN "validate" ELSE "ended"
  /\ UNCHANGED <<written, file, busy, at, server_block, made, it, _servers, listening>>

Duplicate(i) == \E j \in DOMAIN _servers \ {i} : _servers[j].port = _servers[i].port

validate_configuration ==
  /\ phase = "validate"
  /\ phase' = IF \E i \in DOMAIN _servers :
                     \/ _servers[i].port <= 0 \/ _servers[i].time_out <= 0
                     \/ Duplicate(i) \/ _servers[i].error_page = <<>>
              THEN "ended" ELSE "connect"
  /\ UNCHANGED <<written, file, busy, at, server_block, made, it, _servers, listening>>

\* The sockets of the servers one after the other; bind fails for a port that
\* is taken.
establish_connection ==
  /\ phase = "connect" /\ Cardinality(listening) < Len(_servers)
  /\ LET port == _servers[Cardinality(listening) + 1].port
     IN IF port \in busy THEN phase' = "ended" /\ UNCHANGED listening
        ELSE listening' = listening \cup {port} /\ UNCHANGED phase
  /\ UNCHANGED <<written, file, busy, at, server_block, made, it, _servers>>

Run ==
  /\ phase = "connect" /\ Cardinality(listening) = Len(_servers)
  /\ phase' = "run"
  /\ UNCHANGED <<written, file, busy, at, server_block, made, it, _servers, listening>>

Next ==
  \/ ReadLine \/ CreateLine \/ ServerMade \/ LoadEnds
  \/ validate_configuration \/ establish_connection \/ Run

Spec == Init /\ [][Next]_vars /\ WF_vars(Next)

-----------------------------------------------------------------------------
\* What a description says.

\* The lines that begin with this word, and what the last of them says.
Lines(lines, key) == SelectSeq(lines, LAMBDA l : l # <<>> /\ l[1] = key)
Says(lines, key)  == IF Lines(lines, key) = <<>> THEN <<>> ELSE Tail(Last(Lines(lines, key)))
Number(words)     == IF words # <<>> /\ words[1] \in DOMAIN NumberOf THEN NumberOf[words[1]] ELSE 0
On(lines, key)    == <<key, "on">> \in Range(lines)

\* A location, and the redirections of those up to it.
LocationMeans(locations, k) ==
  LET lines   == locations[k].lines
      returns == FlattenSeq([i \in 1..k |-> Lines(locations[i].lines, "return")])
      codes   == {Number(Tail(r)) : r \in Range(returns)}
      First(code) == SelectInSeq(returns, LAMBDA r : Number(Tail(r)) = code)
  IN [location |-> locations[k].name, root |-> Says(lines, "root"), index |-> Says(lines, "index"),
      allowed |-> Range(Says(lines, "allowed_method")), max |-> Number(Says(lines, "max_file_size")),
      autoindex |-> On(lines, "autoindex"), alias |-> On(lines, "alias"),
      auth_basic |-> Says(lines, "auth_basic"),
      users |-> FlattenSeq([i \in DOMAIN Lines(lines, "auth_user_file") |->
                              Tail(Lines(lines, "auth_user_file")[i])]),
      retour |-> [code \in codes |-> SubSeq(returns[First(code)], 3, Len(returns[First(code)]))]]

ServerMeans(d) ==
  [port |-> Number(Says(d.own, "port")), host |-> Says(d.own, "host"),
   server_name |-> Says(d.own, "server_name"), error_page |-> Says(d.own, "error_page"),
   time_out |-> Number(Says(d.own, "time_out")), cgi_file_types |-> Says(d.own, "cgi_file_types"),
   location_blocks |-> [k \in DOMAIN d.locations |-> LocationMeans(d.locations, k)]]

Means(ds) == [i \in DOMAIN ds |-> ServerMeans(ds[i])]

\* No line is taken for another because a word of it contains a keyword, and
\* each says something.
Plain(line, values, others) ==
  \/ line = <<>>
  \/ /\ Len(line) > 1
     /\ FirstOf(values, line) = IF line[1] \in Range(values) THEN line[1] ELSE "unknown"
     /\ FirstOf(others, line) = "unknown"

PlainServer(d) ==
  /\ \A line \in Range(d.own) :
       Plain(line, ServerValues, <<>>) /\ FirstOf(ServerValues, line) # "location"
  /\ \A l \in Range(d.locations) :
       /\ Plain(<<l.name, "{">>, ServerValues \o LocationValues, <<>>)
       /\ \A line \in Range(l.lines) : Plain(line, LocationValues, ServerValues)

PlainText(ds) == \A d \in Range(ds) : PlainServer(d)

\* No exception: paths, codes and user files are right.
Readable(ds) ==
  \A d \in Range(ds) : \A l \in Range(d.locations) :
    /\ l.name \in DOMAIN PathOf
    /\ \A line \in Range(l.lines) :
         /\ line # <<>> /\ line[1] = "return" => Number(Tail(line)) \in 300..310
         /\ line # <<>> /\ line[1] = "auth_user_file" => line[2] \in AuthFiles

\* What can be served: ports of their own, a time-out and pages for errors.
Valid(ds) ==
  /\ \A s \in Range(Means(ds)) : s.port > 0 /\ s.time_out > 0 /\ s.error_page # <<>>
  /\ \A i, j \in DOMAIN ds : i # j => ServerMeans(ds[i]).port # ServerMeans(ds[j]).port

-----------------------------------------------------------------------------
\* Properties.

\* The state keeps its types: every redirection has its status, and the ports
\* that are listened on are those of the first servers.
TypeOK ==
  /\ written \in Descriptions /\ busy \in Busy /\ file \in Seq(Seq(STRING))
  /\ at \in 0 .. Len(file) /\ server_block \in Seq(Seq(STRING))
  /\ it \in 1 .. Len(file) + 1
  /\ \A s \in Range(_servers) \cup {made.server} :
       /\ DOMAIN s = DOMAIN server
       /\ \A l \in Range(s.location_blocks) : DOMAIN l.retour \subseteq 300..310
  /\ phase \in {"load", "create", "validate", "connect", "run", "ended"}
  /\ listening = {_servers[i].port : i \in 1 .. Cardinality(listening)}

Whole == file = Text(written)

\* A file is read as it was written, although every server is read into the
\* object of the one before and every line of a location twice: but a location
\* has also the redirections of those in front of it.
ReadAsWritten ==
  phase \notin {"load", "create", "ended"} /\ Whole /\ PlainText(written) => _servers = Means(written)

\* A file that is cut off within a server, or lacks the line of a bracket, is
\* never served; and the state keeps its types.
DamageRefused ==
  LET With(bracket) == {i \in DOMAIN file : bracket \in Range(file[i])}
  IN /\ TypeOK
     /\ Cardinality(With("{")) # Cardinality(With("}")) => phase \in {"load", "create", "ended"}

\* A file is served if and only if what it says can be, and its ports are free.
ServedIffValid ==
  Whole /\ PlainText(written) =>
    IF Readable(written) /\ Valid(written) /\ {s.port : s \in Range(Means(written))} \cap busy = {}
    THEN <>(phase = "run") ELSE <>[](phase = "ended")
================================================================================
