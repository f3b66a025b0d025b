---------------------------- MODULE RequestHandler ----------------------------
(***************************************************************************)
(* The one request_handler of ATwebserv.  server::run makes it before the  *)
(* loop and every complete request of every client goes through its reader *)
(* and its writer, one after the other.  What it keeps from one request to *)
(* the next, and the files the requests read and change, are the state.    *)
(*                                                                         *)
(* A path, or a URL, is a sequence of tokens: "/" and the names between.   *)
(* Names are such that none continues another, so that the prefixes of a   *)
(* URL among the locations compare as in the code.  A file is a record of  *)
(* what it is, its size in units and, for the page of errors, the status   *)
(* gen_startLine wrote into it.                                            *)
(***************************************************************************)
EXTENDS Integers, FiniteSetsExt, SequencesExt, Functions, TLC

CONSTANTS
  Servers,       \* _si, the server blocks of the configuration in their order
  Requests,      \* the requests the clients make
  InitialFiles,  \* path |-> file, the regular files below the working directory
  Directories,   \* the directories, none of them empty
  Writable       \* the absolute paths at which the process may create a file

LocatiInfo ==
  [location : Seq(STRING) \ {<<>>}, root : Seq(STRING), index : Seq(STRING),
   allowed : SUBSET STRING, autoindex : BOOLEAN, max : Int,
   retour : {<<>>} \cup (Nat \X Seq(STRING))]

ServerInfo ==
  [port : STRING, host : STRING, server_name : STRING, error_page : Seq(STRING),
   max : Int, location : Seq(LocatiInfo) \ {<<>>}]

\* A location without root is never used as one.
ASSUME ServersAssumption ==
  /\ Servers \in Seq(ServerInfo) \ {<<>>}
  /\ \A i \in DOMAIN Servers : \A j \in DOMAIN Servers[i].location :
       LET l == Servers[i].location[j] IN l.retour = <<>> => l.root # <<>>

\* A request line has a method and a URL; Host: is absent, a name or name:port.
ASSUME RequestsAssumption ==
  \A r \in Requests :
    /\ r.method \in STRING /\ r.url \in Seq(STRING) /\ r.url # <<>>
    /\ Len(r.host) \in {0, 1, 3} /\ r.type \in STRING /\ r.size \in Nat

ErrorPage == <<"files", "/", "error_pages", "/", "error_4xx.html">>

FileType == [id : STRING, of : Seq(STRING), size : Nat, shows : Nat]

\* "error_4xx" is how the page of errors is told from the other files.
ASSUME FilesAssumption ==
  /\ InitialFiles \in [DOMAIN InitialFiles -> FileType]
  /\ DOMAIN InitialFiles \subseteq Seq(STRING) /\ Writable \subseteq Seq(STRING)
  /\ \A p \in DOMAIN InitialFiles : InitialFiles[p].id = "error_4xx" => p = ErrorPage

\* The literals below are strings, which the provers do not know.
ASSUME LiteralsAssumption ==
  {"/", "files", "error_pages", "error_4xx.html", "if_folder.html", "listing", "upload"}
    \subseteq STRING

VARIABLES
  handler,   \* what the object keeps: sid, lid, path, body, hrx
  files,     \* the file system
  last,      \* the last request and its response
  stop       \* "none", or what ended the process

vars == <<handler, files, last, stop>>

NoLimit == -1                                       \* max_file_size is empty
Nothing == <<>>                                     \* an empty _body
FolderPage == <<"files", "/", "if_folder.html">>
ErrorPages == <<"/", "error_pages", "/">>
Listing(path) == [id |-> "listing", of |-> path, size |-> 2, shows |-> 0]

NoResponse == [status |-> 0, length |-> 0, body |-> Nothing]

Locations(sid) == Servers[sid].location

-------------------------------------------------------------------------------
(* Paths. *)

Doubled(path, i) == i > 1 /\ path[i] = "/" /\ path[i - 1] = "/"

\* clean_url : one '/' for several, and none at the end.
clean_url(path) ==
  LET upTo[i \in 0..Len(path)] ==
        IF i = 0 THEN <<>>
        ELSE IF Doubled(path, i) THEN upTo[i - 1] ELSE Append(upTo[i - 1], path[i])
      single == upTo[Len(path)]
  IN  IF Len(single) > 1 /\ Last(single) = "/" THEN Front(single) ELSE single

\* it->root, with a '/' at its end.
WithSlash(root) == IF Last(root) = "/" THEN root ELSE Append(root, "/")

\* The '/' before a path are erased : it is opened from the working directory.
Relative(path) ==
  LET names == {i \in DOMAIN path : path[i] # "/"}
  IN  IF names = {} THEN <<>> ELSE SubSeq(path, Min(names), Len(path))

-------------------------------------------------------------------------------
(* A turn is the request being handled: the object's fields, the status in *)
(* _htx, the words of _hrx["A"], the files, the response and "out", which  *)
(* is "ok" until something ends the process.                               *)

\* The files once the page of errors was written for this status.
Marked(fs, code) ==
  IF code >= 300 /\ ErrorPage \in DOMAIN fs THEN [fs EXCEPT ![ErrorPage].shows = code] ELSE fs

\* gen_startLine : the status line; from 300 on also the page of errors.
gen_startLine(t, code) == [t EXCEPT !.status = code, !.files = Marked(@, code)]

\* What Host: names.  Without a colon the port is the whole of it.
HostPart(host) == host[1]
PortPart(host) == IF Len(host) = 3 THEN host[3] ELSE host[1]

\* set_server_id : the first server with this host, or name, and this port;
\* or else the last one with this port; or else the one of the request before.
set_server_id(sid, host) ==
  LET samePort == {i \in DOMAIN Servers : Servers[i].port = PortPart(host)}
      exact == {i \in samePort : HostPart(host) \in {Servers[i].host, Servers[i].server_name}}
  IN  CASE exact # {}                     -> Min(exact)
        [] exact = {} /\ samePort # {}    -> Max(samePort)
        [] OTHER                          -> sid

\* reader : the words of the request join those left in _hrx, of which the
\* first are used.  Without Host: there is no first word to look at.
reader(h, r) ==
  LET hrx == Append(h.hrx, r)
      rq  == Head(hrx)
      t   == [sid |-> h.sid, lid |-> h.lid, path |-> h.path, body |-> h.body,
              rq |-> rq, url |-> rq.url, status |-> 0, files |-> files,
              response |-> NoResponse, out |-> "ok"]
  IN  IF rq.host = <<>> THEN [t EXCEPT !.out = "undefined"]
      ELSE [t EXCEPT !.sid = set_server_id(h.sid, rq.host)]

-------------------------------------------------------------------------------
(* resolve_path *)

\* A bug: any location the URL starts with takes the place of a longer one.
Bug_LastFit(l, i, url, best) == IsPrefix(l.location, url)

\* The condition of the loop; "len" is the length of the best one so far.
Better(l, i, url, best) == \/ IsPrefix(l.location, url) /\ Len(l.location) > best.len
                           \/ best.len = 0 /\ i = 1

\* One turn of the loop, whose iterator walks backwards.
Consider(locs, url, i, best) ==
  LET l       == locs[i]
      targets == {j \in DOMAIN locs : l.retour # <<>> /\ locs[j].location = Last(l.retour)}
      place   == CASE l.retour = <<>> -> [lid |-> i, path |-> WithSlash(l.root)]
                   [] targets # {}    -> [lid  |-> Min(targets),
                                          path |-> WithSlash(locs[Min(targets)].root)]
                   [] OTHER           -> [lid |-> best.lid, path |-> best.path]
      rest    == SubSeq(url, Len(l.location) + 1, Len(url))
      index   == IF Len(l.location) = Len(url) THEN locs[place.lid].index ELSE <<>>
  IN  IF ~Better(l, i, url, best) THEN best
      ELSE [lid     |-> place.lid,
            path    |-> place.path \o rest \o index,
            len     |-> Len(l.location),
            codes   |-> IF targets # {} THEN Append(best.codes, Head(l.retour)) ELSE best.codes,
            thrown  |-> best.thrown \/ Len(l.location) > Len(url)]

\* After all turns.
NoneYet == [lid |-> 1, path |-> <<>>, len |-> 0, codes |-> <<>>, thrown |-> FALSE]
Resolved(locs, url) ==
  LET after[n \in 0..Len(locs)] ==
        IF n = 0 THEN NoneYet ELSE Consider(locs, url, Len(locs) - n + 1, after[n - 1])
  IN after[Len(locs)]

\* The status lines of the redirections that were met, one after the other.
Led(t, codes) ==
  LET after[n \in 0..Len(codes)] ==
        IF n = 0 THEN t ELSE gen_startLine(after[n - 1], codes[n])
  IN after[Len(codes)]

\* A bug: the flag starts as true.
Bug_AnyAllowed(l, method) == TRUE

\* Does the location allow the method?
Allowed(l, method) == method \in l.allowed

\* resolve_path : the location, the file, and whether the method is allowed.
\* The pages of errors are taken as they are, whatever the location.
resolve_path(t) ==
  LET url  == clean_url(t.url)
      best == Resolved(Locations(t.sid), url)
      led  == Led([t EXCEPT !.url = url, !.lid = best.lid,
                            !.path = clean_url(Relative(best.path))], best.codes)
  IN  CASE IsPrefix(ErrorPages, url) ->
             [turn |-> [t EXCEPT !.url = url, !.path = <<"files">> \o url], done |-> TRUE]
        [] ~IsPrefix(ErrorPages, url) /\ best.thrown ->
             [turn |-> [t EXCEPT !.out = "exception"], done |-> TRUE]
        [] OTHER ->
             IF Allowed(Locations(t.sid)[best.lid], t.rq.method)
             THEN [turn |-> led, done |-> FALSE]
             ELSE [turn |-> gen_startLine(led, 405), done |-> TRUE]

-------------------------------------------------------------------------------
(* The methods *)

Exceeds(size, limit) == limit # NoLimit /\ size > limit

\* The files once the body was written to the URL, taken as an absolute path.
Uploaded(t) ==
  [p \in DOMAIN t.files \cup {t.url} |->
     IF p = t.url THEN [id |-> "upload", of |-> t.url, size |-> t.rq.size, shows |-> 0]
     ELSE t.files[p]]

\* handle_post_rqst : the body becomes a file where the process may create one;
\* a Content-Type of one word has no second word to find the boundary in.
handle_post_rqst(t) ==
  CASE t.rq.type # "multipart" -> [t EXCEPT !.out = "undefined"]
    [] t.rq.type = "multipart" /\ Exceeds(t.rq.size, Servers[t.sid].max) -> gen_startLine(t, 413)
    [] OTHER ->
         gen_startLine(IF t.url \in Writable THEN [t EXCEPT !.files = Uploaded(t)] ELSE t, 200)

\* DELETE : remove() of the URL below the working directory.
handle_delete_rqst(t) ==
  LET name == Relative(t.url)
  IN  IF name \in DOMAIN t.files
      THEN [t EXCEPT !.files = Restrict(@, DOMAIN @ \ {name})]
      ELSE gen_startLine(t, 404)

Method(t) == CASE t.rq.method = "POST"   -> handle_post_rqst(t)
               [] t.rq.method = "DELETE" -> handle_delete_rqst(t)
               [] OTHER                  -> t

-------------------------------------------------------------------------------
(* The response.  "env" is what the program does not decide: whether fork  *)
(* succeeds, and what a read of an emptied word finds.                     *)

Environment(r) == [forks : BOOLEAN, word : {r.method, "?"}]

\* The page a client is sent for a status from 400 on.
ErrorPath(sid) == IF Servers[sid].error_page = <<>> THEN ErrorPage
                  ELSE Append(Servers[sid].error_page, "error_4xx.html")

\* generate_folder_list : the listing becomes the body.
generate_folder_list(t, env) ==
  IF env.forks THEN [t EXCEPT !.body = Listing(t.path)] ELSE [t EXCEPT !.out = "exception"]

\* file_type : a directory is listed or stands for a page, no file is a 404;
\* from 400 on the page of errors takes the place of what was found.
file_type(t, env) ==
  LET found == CASE t.path \in Directories -> [t EXCEPT !.path = FolderPage]
                 [] t.path \in DOMAIN t.files \ Directories -> t
                 [] OTHER -> IF t.status < 400 THEN gen_startLine(t, 404) ELSE t
  IN  CASE t.path \in Directories /\ Locations(t.sid)[t.lid].autoindex ->
             generate_folder_list(t, env)
        [] OTHER ->
             IF found.status >= 400 THEN [found EXCEPT !.path = ErrorPath(t.sid)] ELSE found

\* gen_CLength : the length announced; tellg() answers -1 when there is no file.
Unknown == -1

\* A bug: only files are measured.
Bug_FileSize(t) == IF t.path \in DOMAIN t.files THEN t.files[t.path].size ELSE Unknown

Announced(t) == CASE t.body # Nothing                             -> t.body.size
                  [] t.body = Nothing /\ t.path \in DOMAIN t.files -> t.files[t.path].size
                  [] OTHER                                        -> Unknown
gen_CLength(t) == IF Exceeds(Announced(t), Locations(t.sid)[t.lid].max)
                  THEN gen_startLine(t, 413) ELSE t

\* A bug: the body is not cleared once it is sent.
Bug_BodyKept(t) == t.body

\* The _body that add_body leaves: it returns before it looks at it after 413.
BodyLeft(t) == IF t.status = 413 THEN t.body ELSE Nothing

\* add_all_field and add_body : what is sent.
add_body(t, method) ==
  LET file == IF method \in {"GET", "POST"} /\ t.path \in DOMAIN t.files
              THEN t.files[t.path] ELSE Nothing
      body == CASE t.status = 413 -> Nothing
                [] t.status # 413 /\ t.body # Nothing -> t.body
                [] OTHER -> file
  IN  [t EXCEPT !.response = [status |-> t.status, length |-> Announced(t), body |-> body],
                !.body = BodyLeft(t)]

\* The end of writer.  The index of a location that was never set, or that
\* belongs to another server, reads past the vector.
Finish(t, method, env) ==
  LET typed == file_type(t, env)
  IN  CASE t.out # "ok" -> t
        [] t.out = "ok" /\ t.lid \notin DOMAIN Locations(t.sid) -> [t EXCEPT !.out = "undefined"]
        [] OTHER -> IF typed.out # "ok" THEN typed ELSE add_body(gen_CLength(typed), method)

\* is_cgi : a word of the request line holds ".php".
is_cgi(t) == ".php" \in Range(t.url)

\* writer.  A script is run whatever resolve_path answers; go_cgi empties
\* _hrx["A"], which add_body reads, and add_all_field drops what it wrote.
writer(t, env) ==
  LET resolved == resolve_path(gen_startLine(t, 200))
      turn     == resolved.turn
  IN  CASE t.out # "ok" -> t
        [] t.out = "ok" /\ t.sid \notin DOMAIN Servers -> [t EXCEPT !.out = "undefined"]
        [] OTHER -> IF is_cgi(t) THEN Finish(turn, env.word, env)
                    ELSE IF resolved.done THEN Finish(turn, t.rq.method, env)
                    ELSE Finish(Method(turn), t.rq.method, env)

\* What the object is left with.  _hrx and _htx are cleared.
Kept(t) == [sid |-> t.sid, lid |-> t.lid, path |-> t.path, body |-> t.body, hrx |-> <<>>]

-------------------------------------------------------------------------------
(* _s_id and _l_id are not initialised: 0 stands for whatever is no index. *)

New == [sid : 0..Len(Servers), lid : 0..Len(Locations(1)),
        path : {<<>>}, body : {Nothing}, hrx : {<<>>}]

Init == /\ handler \in New
        /\ files = InitialFiles
        /\ last = [rq |-> Nothing, sid |-> 0, lid |-> 0, response |-> NoResponse]
        /\ stop = "none"

\* reader and writer, for a complete request of any client.
Turns == UNION {{writer(reader(handler, r), env) : env \in Environment(r)} : r \in Requests}

\* A request that ends in a response.
Respond ==
  /\ stop = "none"
  /\ \E t \in Turns :
       /\ t.out = "ok"
       /\ handler' = Kept(t)
       /\ files' = t.files
       /\ last' = [rq |-> t.rq, sid |-> t.sid, lid |-> t.lid, response |-> t.response]
       /\ UNCHANGED stop

\* One that ends the process: an exception nothing in run() catches, or a
\* read outside a vector.
EndProcess ==
  /\ stop = "none"
  /\ \E t \in Turns :
       /\ t.out # "ok"
       /\ files' = t.files
       /\ stop' = t.out
       /\ UNCHANGED <<handler, last>>

Next == Respond \/ EndProcess

Spec == Init /\ [][Next]_vars

-------------------------------------------------------------------------------
(* Properties *)

Answered == last.rq # Nothing

\* The status lines that redirections ask for.
Codes == UNION {{Head(l.retour) : l \in {k \in Range(Locations(i)) : k.retour # <<>>}} :
                  i \in DOMAIN Servers}

\* The object, the files and the response have their types.
TypeOK ==
  /\ handler.sid \in 0..Len(Servers) /\ handler.lid \in Nat /\ handler.hrx = <<>>
  /\ DOMAIN files \subseteq DOMAIN InitialFiles \cup Writable
  /\ Answered => /\ last.rq \in Requests /\ last.sid \in DOMAIN Servers
                 /\ last.lid \in DOMAIN Locations(last.sid)
                 /\ last.response.status \in {200, 404, 405, 413} \cup Codes
  /\ stop \in {"none", "exception", "undefined"}

\* resolve_path: "permet de selectionner la location qui partage le plus avec
\* l'url": no location that the URL starts with is longer than the one that
\* was taken, or whose return led there.  And the state keeps its types.
LongestLocation ==
  LET locs == Locations(last.sid)
      url  == clean_url(last.rq.url)
      fits == {i \in DOMAIN locs : IsPrefix(locs[i].location, url)}
  IN  /\ TypeOK
      /\ Answered /\ ~IsPrefix(ErrorPages, url) /\ fits # {} =>
           \E best \in fits :
             /\ \A j \in fits : Len(locs[j].location) <= Len(locs[best].location)
             /\ IF locs[best].retour = <<>> THEN last.lid = best
                ELSE locs[last.lid].location = Last(locs[best].retour)

\* A file appears or disappears only by a POST or a DELETE that the location
\* of its URL allows, whatever went before, and whether it is answered or ends
\* the process.
MethodsRespected ==
  [][DOMAIN files' # DOMAIN files =>
       \E t \in Turns :
         /\ t.files = files'
         /\ t.rq.method \in {"POST", "DELETE"}
         /\ t.rq.method \in Locations(t.sid)[t.lid].allowed
         /\ stop' = "none" => <<last'.rq, last'.sid, last'.lid>> = <<t.rq, t.sid, t.lid>>]_vars

\* What does come through from earlier requests: the server, for a port that
\* none has; the location, for a page of errors; and what 413 left in _body.
OnItsOwn(rq) == /\ \E i \in DOMAIN Servers : Servers[i].port = PortPart(rq.host)
                /\ ~IsPrefix(ErrorPages, clean_url(rq.url))
                /\ last.response.status # 413

\* Apart from that a response depends on the request and the files, not on the
\* requests the object has handled before.
Independent ==
  [][Answered' /\ stop' = "none" /\ OnItsOwn(last'.rq) =>
       \A s \in 0..Len(Servers) : \A l \in 0..Len(Locations(1)) :
         \E env \in Environment(last'.rq) :
           LET other == [sid |-> s, lid |-> l, path |-> <<>>, body |-> Nothing, hrx |-> <<>>]
               t == writer(reader(other, last'.rq), env)
           IN  t.out = "ok" /\ t.response = last'.response]_vars

\* A page of errors shows the status of the response it is sent with.
ErrorPageShowsStatus ==
  Answered /\ last.response.status >= 400 /\ last.response.body # Nothing
    /\ last.response.body.id = "error_4xx"
    => last.response.body.shows = last.response.status

\* A GET or a POST is answered with as much as was announced, when there is no
\* 413 and the page of errors is where the configuration says.  The files are
\* those of the response as long as no later request has ended the process.
GetComplete ==
  stop = "none" /\ Answered /\ last.rq.method \in {"GET", "POST"} /\ ~is_cgi(last.rq)
                    /\ last.response.status # 413
                    /\ (last.response.status >= 400 => ErrorPath(last.sid) \in DOMAIN files)
    => /\ last.response.body # Nothing
       /\ last.response.length = last.response.body.size

\* The page of errors, one file that all responses write, shows the status of the
\* response it is sent with; and of a GET or POST that is answered with a file the
\* length, announced before the file is read, is that of the body.  Not so for 413,
\* a script and a page of errors that is not there (gen_startLine, gen_CLength,
\* add_body).
OwnResponse == ErrorPageShowsStatus /\ GetComplete

-----------------------------------------------------------------------------
\* What two theorems suppose of servers, files and requests; those of the run
\* are so.

\* A return leads to a location.
ReturnsLead ==
  \A sid \in DOMAIN Servers : \A i \in DOMAIN Locations(sid) :
    Locations(sid)[i].retour # <<>> =>
      \E j \in DOMAIN Locations(sid) : Locations(sid)[j].location = Last(Locations(sid)[i].retour)

\* The page of folders is among the files, and no request deletes it.
FolderPageStays ==
  /\ FolderPage \in DOMAIN InitialFiles
  /\ \A r \in Requests : r.method = "DELETE" => Relative(clean_url(r.url)) # FolderPage
===============================================================================
