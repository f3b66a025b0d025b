------------------------------- MODULE Startup -------------------------------
(***************************************************************************)
(* main of ATwebserv: the server is made from a configuration file, and    *)
(* then its one request_handler answers requests with the _si that was     *)
(* read.  What the handler makes of the words of _si, the paths and the    *)
(* sizes, is Configured.                                                   *)
(***************************************************************************)
EXTENDS RequestHandler, ConfigChecker

CONSTANTS Path,   \* word |-> the path it stands for
          Size    \* word |-> the number it stands for

ASSUME StartupAssumption == /\ DOMAIN Path \subseteq STRING
                            /\ DOMAIN Size \subseteq STRING

Only(values) == IF values = <<>> THEN "" ELSE Head(values)

\* A word is a path of its own when no path is made of it, and atoi makes 0 of
\* what is no number.
PathOf(w)  == CASE w \in DOMAIN Path -> Path[w] [] w = "" -> <<>> [] OTHER -> <<w>>
SizeOf(w)  == IF w \in DOMAIN Size THEN Size[w] ELSE 0
LimitOf(w) == IF w = "" THEN NoLimit ELSE SizeOf(w)

ConfiguredLocation(l) ==
  [location  |-> IF l.name.ends = "no" THEN PathOf(l.name.text) ELSE <<l.name.text, ";">>,
   root      |-> PathOf(Only(l.set["root"])),
   index     |-> PathOf(Only(l.set["index"])),
   allowed   |-> Range(l.set["allowed_method"]),
   autoindex |-> Only(l.set["autoindex"]) = "on",
   max       |-> LimitOf(Only(l.set["max_file_size"])),
   retour    |-> IF l.set["return"] = <<>> THEN <<>>
                 ELSE <<SizeOf(Head(l.set["return"])), PathOf(Last(l.set["return"]))>>]

\* The server blocks as RequestHandler has them.
Configured ==
  [i \in DOMAIN _si |->
     [port        |-> Only(_si[i].set["port"]),
      host        |-> Only(_si[i].set["host"]),
      server_name |-> Only(_si[i].set["server_name"]),
      error_page  |-> PathOf(Only(_si[i].set["error_page"])),
      max         |-> LimitOf(Only(_si[i].set["max_file_size"])),
      location    |-> [j \in DOMAIN _si[i].location |->
                         ConfiguredLocation(_si[i].location[j])]]]

VARIABLE running   \* the server was made, and run() is under way

NotMade == [sid |-> 0, lid |-> 0, path |-> <<>>, body |-> Nothing, hrx |-> <<>>]

StartInit == ConfigInit /\ Init /\ handler = NotMade /\ running = FALSE

\* server::server: the only thing it does is to read the configuration.
Configuring == ConfigNext /\ UNCHANGED <<vars, running>>

\* run() makes its request_handler, for the one configuration whose requests
\* the model has.  The words are not needed any more: Servers is _si from here.
Run ==
  /\ outcome = "accepted" /\ Configured = Servers
  /\ ~running /\ running' = TRUE
  /\ handler' \in New
  /\ text' = <<>> /\ pos' = 0 /\ word' = W("") /\ _si' = <<>>
  /\ UNCHANGED <<files, last, stop, block, outcome>>

Serving == running /\ Next /\ UNCHANGED <<config, running>>

StartNext == Configuring \/ Run \/ Serving

StartSpec == StartInit /\ [][StartNext]_<<vars, config, running>>
=============================================================================
