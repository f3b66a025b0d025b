------------------------------ MODULE Locations ------------------------------
(***************************************************************************)
(* What header_handler::handle_request of webserv makes of a request: the  *)
(* location block and the file that match_location_block finds, whether    *)
(* the method is allowed and the client authorised, and what is done to    *)
(* the files.                                                              *)
(*                                                                         *)
(* A path is the sequence of its names, each with a "/" in front of it but *)
(* for the first of a root; a "/" at the end is an empty name.  fs is the  *)
(* set of the regular files.                                               *)
(***************************************************************************)
EXTENDS Integers, FiniteSetsExt, SequencesExt, Functions

CONSTANTS
  Blocks,       \* server::_location_blocks, in their order
  ErrorFolder,  \* _error_page, without the "/" at its end
  ErrorName,    \* status -> the name of its page
  Directories,  \* the directories, none of them empty
  Ending,       \* name -> its ending, for those that have one
  CgiTypes      \* the endings in _cgi_file_types

Methods     == {"GET", "HEAD", "POST", "PUT", "DELETE"}
Credentials == {"none", "right", "wrong"}
Endings     == <<".html", ".php", ".css", ".ico", ".png", ".bla">>

\* What the request line and the lines of the header say.  referer is what
\* stands behind the requested host, if anything does.
Asked == [method : STRING, uri : Seq(STRING), referer : Seq(STRING), credentials : Credentials]

\* A block has its location, root, index, allowed methods, max_file_size,
\* autoindex, alias, auth_basic and retour: the status of a redirection, 0 for
\* none and otherwise 300..310 (configure_return), and where it leads.
ASSUME LocationsAssumption ==
  /\ Blocks \in Seq(Range(Blocks))
  /\ \A b \in Range(Blocks) :
       /\ b.location \in Seq(STRING) /\ b.root \in Seq(STRING) /\ b.index \in Seq(STRING)
       /\ b.allowed \subseteq Methods /\ b.max \in Nat
       /\ b.autoindex \in BOOLEAN /\ b.alias \in BOOLEAN /\ b.auth_basic \in STRING
       /\ b.retour.code \in {0} \cup 300..310 /\ b.retour.to \in Seq(STRING)
  /\ ErrorFolder \in Directories /\ Directories \subseteq Seq(STRING)
  /\ DOMAIN Ending \subseteq STRING /\ Range(Ending) \subseteq Range(Endings)
  /\ CgiTypes \subseteq {".php", ".bla"}

\* The literals among the names are strings, which the provers do not know.
ASSUME LiteralsAssumption == {"", "?", "index.php"} \subseteq STRING

-----------------------------------------------------------------------------
\* Paths.

\* The names of a path that are not empty.
Named(path) ==
  LET kept[i \in 0..Len(path)] ==
        CASE i = 0                      -> <<>>
          [] i # 0 /\ path[i] = ""      -> kept[i - 1]
          [] OTHER                      -> Append(kept[i - 1], path[i])
  IN kept[Len(path)]

\* remove_duplicate_forward_slashes
remove_duplicate_forward_slashes(path) ==
  IF path = <<>> THEN path ELSE Named(Front(path)) \o <<Last(path)>>

\* stat: what the path names.
IsFile(fs, path) == remove_duplicate_forward_slashes(path) \in fs
IsDirectory(path) == Named(path) \in Directories
Exists(fs, path) == IsFile(fs, path) \/ IsDirectory(path)

get_first_directory(uri)  == <<Head(uri)>>
skip_first_directory(uri) == Tail(uri)

Ends(name) == IF name \in DOMAIN Ending THEN Ending[name] ELSE ""

\* verify_content_type: the first of these found anywhere in the path.
verify_content_type(path) ==
  LET found == SelectSeq(Endings, LAMBDA e : \E k \in DOMAIN path : Ends(path[k]) = e)
  IN IF found = <<>> THEN "folder" ELSE Head(found)

\* get_extension, which is compared with endings only.
get_extension(uri) == Ends(Last(uri))

-----------------------------------------------------------------------------
\* match_location_block.  "not found" is the empty sequence, a path is the one
\* element of another.

NotFound == <<>>

\* get_file
get_file(b, path, fs) ==
  LET p == remove_duplicate_forward_slashes(path)
  IN CASE p \in fs -> <<p>>
       [] p \notin fs /\ IsDirectory(p) /\ b.index # <<>> ->
            IF Exists(fs, p \o b.index) THEN <<p \o b.index>>
            ELSE IF b.autoindex THEN <<p \o <<"index.php">>>> ELSE NotFound
       [] OTHER -> NotFound

\* location_of_uploaded_file.  When there is no such directory, the last test
\* looks at what stat did not fill in: stale says what the bit is then.
location_of_uploaded_file(b, root, rq, uri, fs, stale) ==
  LET directory == IF "directory" \in Range(uri) THEN root ELSE root \o get_first_directory(uri)
      regular   == IF Exists(fs, directory) THEN IsFile(fs, directory) ELSE stale
  IN CASE get_first_directory(uri) # b.location -> NotFound
       [] OTHER ->
            IF rq.method = "POST" /\ get_extension(rq.uri) = ".bla" /\ regular THEN <<root>>
            ELSE IF IsDirectory(directory) THEN <<root \o uri>> ELSE NotFound

\* The referer's path joins the root, without the file it ends with.
WithReferer(root, rq, fs) ==
  LET path == root \o remove_duplicate_forward_slashes(rq.referer)
  IN IF rq.referer # <<>> /\ IsFile(fs, path) THEN Front(path) ELSE path

\* PUT, and POST of anything but a .php.
Uploads(rq) == rq.method = "PUT" \/ (rq.method = "POST" /\ get_extension(rq.uri) # ".php")

\* The loop's body for one block.
FileIn(b, rq, fs, stale) ==
  LET uri  == remove_duplicate_forward_slashes(rq.uri)
      root == WithReferer(b.root, rq, fs)
      path == IF b.alias /\ b.location = get_first_directory(uri)
              THEN root \o skip_first_directory(uri)
              ELSE IF Uploads(rq) THEN root ELSE root \o uri
  IN IF Uploads(rq) THEN location_of_uploaded_file(b, path, rq, uri, fs, stale)
     ELSE get_file(b, path, fs)

\* The same for each of the blocks.
FilesIn(rq, fs, stale) == [i \in DOMAIN Blocks |-> FileIn(Blocks[i], rq, fs, stale)]

Redirects(b, rq) == rq.uri = b.location /\ b.retour.code # 0

\* match_location_block: the first block that redirects or has a file, among the
\* files of all.  For a redirection the fields are those of the block before.
match_location_block(file, rq) ==
  LET hits == {i \in DOMAIN Blocks : Redirects(Blocks[i], rq) \/ file[i] # NotFound}
      i    == Min(hits)
      led  == hits # {} /\ Redirects(Blocks[i], rq)
      j    == CASE hits = {} -> 0 [] led -> i - 1 [] OTHER -> i
  IN [index  |-> j,
      status |-> IF led THEN Blocks[i].retour.code ELSE 200,
      file   |-> CASE hits = {} -> NotFound [] led -> <<Blocks[i].retour.to>> [] OTHER -> file[i],
      allow  |-> CASE hits = {} -> {"GET"} \cup ({"DELETE"} \cap {rq.method})
                   [] hits # {} /\ j = 0 -> {}
                   [] OTHER -> Blocks[j].allowed,
      max    |-> CASE j # 0 -> Blocks[j].max
                   [] j = 0 /\ hits = {} /\ Blocks # <<>> -> Last(Blocks).max
                   [] OTHER -> 0]

\* verify_file_location: what no block has is looked for among the pages of
\* errors (generate_error_page_location).
verify_file_location(t, rq) ==
  [t EXCEPT !.file = IF @ = NotFound THEN ErrorFolder \o <<Last(rq.uri)>>
                     ELSE IF t.status # 200 THEN Head(@)
                     ELSE remove_duplicate_forward_slashes(Head(@))]

-----------------------------------------------------------------------------
\* The rest of handle_request.  t is what the handler holds.
Turn == [status : 200..417, index : Nat, file : Seq(STRING), allow : SUBSET Methods, max : Nat]

\* What it leads run to do.
Kind == {"page", "folder", "gone", "nowhere", "unopened", "upload", "replace", "refused", "script"}

\* A bug: nothing is asked of a method that no block has a file for.
Bug_OnlyInBlocks(t, rq) ==
  IF \/ t.status \in {301, 307} \/ t.index = 0
     \/ rq.method = "POST" /\ verify_content_type(t.file) = ".bla"
     \/ rq.method \in t.allow
  THEN t ELSE [t EXCEPT !.status = 405]

verify_method(t, rq) ==
  IF \/ t.status \in {301, 307}
     \/ rq.method = "POST" /\ verify_content_type(t.file) = ".bla"
     \/ rq.method \in t.allow
  THEN t ELSE [t EXCEPT !.status = 405]

\* Nothing is asked, or the client has proved itself.
Admitted(t, auth) ==
  t.index = 0 \/ t.status \in 300..310 \/ Blocks[t.index].auth_basic = "off" \/ auth

\* A bug: wrong credentials are not answered.
Bug_NotForbidden(t, rq, auth) ==
  IF Admitted(t, auth) THEN [turn |-> t, auth |-> auth]
  ELSE CASE rq.credentials = "none"  -> [turn |-> [t EXCEPT !.status = 401], auth |-> auth]
         [] rq.credentials = "right" -> [turn |-> [t EXCEPT !.status = 200], auth |-> TRUE]
         [] OTHER                    -> [turn |-> t, auth |-> FALSE]

\* verify_authorization, and what the client's _authorization_status is then.
\* Right credentials make it 200, whatever verify_method has found.
verify_authorization(t, rq, auth) ==
  IF Admitted(t, auth) THEN [turn |-> t, auth |-> auth]
  ELSE CASE rq.credentials = "none"  -> [turn |-> [t EXCEPT !.status = 401], auth |-> auth]
         [] rq.credentials = "right" -> [turn |-> [t EXCEPT !.status = 200], auth |-> TRUE]
         [] OTHER                    -> [turn |-> [t EXCEPT !.status = 403], auth |-> FALSE]

Downloads == <<"server_files", "www", "downloads">>
PostFile  == Downloads \o <<"POST_file">>

\* The files then, the status, and the kind of what was done.
Done(fs, status, kind) == [files |-> fs, status |-> status, kind |-> kind]

\* put_request
put_request(t, fs) ==
  LET file == Downloads \o <<Last(t.file)>>
  IN CASE IsDirectory(file) -> Done(fs, 204, "unopened")
       [] IsFile(fs, file)  -> Done(fs, 204, "replace")
       [] OTHER             -> Done(fs \cup {file}, 201, "upload")

\* post_request, of a body of this length
post_request(t, fs, length) ==
  IF t.max # 0 /\ t.max < length THEN Done(fs, 413, "")
  ELSE Done(fs \cup {PostFile}, 200, "upload")

remove_file(t, fs) ==
  IF IsFile(fs, t.file) THEN Done(fs \ {t.file}, t.status, "gone") ELSE Done(fs, 404, "")

\* stat and open of what is to be read: a directory can be opened, too.
OpenedToRead(t, fs) ==
  CASE IsFile(fs, t.file)   -> Done(fs, t.status, "page")
    [] IsDirectory(t.file)  -> Done(fs, t.status, "folder")
    [] OTHER                -> Done(fs, 404, "")

IsCgi(t) == verify_content_type(t.file) \in CgiTypes

\* What is done for the method, if the status is below 301.
Carry(t, rq, fs, length) ==
  CASE t.status >= 301                    -> Done(fs, t.status, "gone")
    [] t.status < 301 /\ rq.method = "PUT"                 -> put_request(t, fs)
    [] t.status < 301 /\ rq.method = "POST" /\ ~IsCgi(t)   -> post_request(t, fs, length)
    [] t.status < 301 /\ rq.method = "DELETE"              -> remove_file(t, fs)
    [] OTHER -> IF IsCgi(t) THEN Done(fs, t.status, "script") ELSE OpenedToRead(t, fs)

\* A request whose file would be watched for writing, too, if there were one.
Watches(t, rq) == rq.method \in {"PUT", "POST"} \/ IsCgi(t)

\* The page of the error, and what run does next; "unopened": open fails.
Outcome(done, t, rq) ==
  CASE done.status < 400 ->
         IF done.kind = "gone" /\ Watches(t, rq) THEN [done EXCEPT !.kind = "nowhere"] ELSE done
    [] OTHER ->
         [done EXCEPT !.kind =
            IF ~IsFile(done.files, ErrorFolder \o <<ErrorName[done.status]>>) THEN "unopened"
            ELSE IF rq.method \in {"PUT", "POST"} THEN "refused" ELSE "page"]
=============================================================================
