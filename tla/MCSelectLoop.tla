---------------------------- MODULE MCSelectLoop ----------------------------
(***************************************************************************)
(* The files, locations and requests of the run of SelectLoop, after       *)
(* configuration_files/valid/default.conf and test.conf and the files in   *)
(* server_files and YoupiBanane.                                           *)
(***************************************************************************)
EXTENDS SelectLoop

CONSTANTS a, b

Www == <<"server_files", "www">>

Plainly(location, allowed) ==
  [location |-> <<location>>, root |-> Www, index |-> <<>>, allowed |-> allowed, max |-> 0,
   autoindex |-> FALSE, alias |-> FALSE, auth_basic |-> "off", retour |-> [code |-> 0, to |-> <<>>]]

\* put_test has the redirection of the location in front of it.
Moves == [code |-> 301, to |-> <<"downloads">>]

MCBlocks ==
  <<[Plainly("", {"GET"}) EXCEPT !.index = <<"index.html">>],
    [Plainly("downloads", {"GET"}) EXCEPT
       !.index = <<"index.html">>, !.autoindex = TRUE, !.auth_basic = "downloads"],
    [Plainly("post_body", {"POST"}) EXCEPT !.max = 1],
    [Plainly("directory", {"GET"}) EXCEPT
       !.root = <<"YoupiBanane">>, !.alias = TRUE, !.index = <<"youpi.bla">>],
    [Plainly("redirect", {}) EXCEPT !.root = <<>>, !.retour = Moves],
    [Plainly("put_test", {"PUT"}) EXCEPT !.retour = Moves]>>

\* They are what the reader of the configuration makes of this file.
Reader == INSTANCE ServerBlocks WITH
  Within    <- [w \in {"autoindex"} |-> {"index"}],
  NumberOf  <- [w \in {"1", "301"} |-> IF w = "1" THEN 1 ELSE 301],
  AuthFiles <- {".htpasswd"},
  PathOf    <-
    [w \in {"server_files/www", "YoupiBanane", "/", "/downloads", "/post_body", "/directory",
            "/redirect", "/put_test", "/index.html", "/youpi.bla"} |->
       CASE w = "server_files/www" -> Www [] w = "YoupiBanane" -> <<w>> [] w = "/" -> <<"">>
         [] w = "/downloads" -> <<"downloads">> [] w = "/post_body" -> <<"post_body">>
         [] w = "/directory" -> <<"directory">> [] w = "/redirect" -> <<"redirect">>
         [] w = "/put_test" -> <<"put_test">> [] w = "/index.html" -> <<"index.html">>
         [] OTHER -> <<"youpi.bla">>]

Location(name, lines) ==
  <<<<"location", name, "{">>>> \o lines \o <<<<"auth_basic", "off">>, <<"}">>>>

MCText ==
  <<<<"server", "{">>>>
  \o Location("/", <<<<"root", "server_files/www">>, <<"allowed_method", "GET">>,
                     <<"index", "/index.html">>>>)
  \o <<<<"location", "/downloads", "{">>, <<"root", "server_files/www">>,
       <<"allowed_method", "GET">>, <<"index", "/index.html">>, <<"autoindex", "on">>,
       <<"auth_basic", "downloads">>, <<"auth_user_file", ".htpasswd">>, <<"}">>>>
  \o Location("/post_body", <<<<"root", "server_files/www">>, <<"allowed_method", "POST">>,
                              <<"max_file_size", "1">>>>)
  \o Location("/directory", <<<<"root", "YoupiBanane">>, <<"allowed_method", "GET">>,
                              <<"index", "/youpi.bla">>, <<"alias", "on">>>>)
  \o Location("/redirect", <<<<"return", "301", "/downloads">>>>)
  \o Location("/put_test", <<<<"root", "server_files/www">>, <<"allowed_method", "PUT">>>>)
  \o <<<<"}">>>>

ASSUME BlocksAreRead ==
  MCBlocks = FoldLeft(LAMBDA blocks, l : Append(blocks, Reader!Block(l)), <<>>,
                      Reader!create_new_server(Reader!server, MCText).location_blocks)

MCErrorFolder == Append(Www, "error_pages")
MCErrorName ==
  (401 :> "401.html") @@ (403 :> "403.html") @@ (404 :> "404.html")
    @@ (405 :> "405.html") @@ (413 :> "413.html")
MCDirectories ==
  {Www, <<"YoupiBanane">>}
    \cup {Append(Www, d) : d \in {"downloads", "error_pages", "post_body", "put_test"}}

Html == Range(MCErrorName) \cup {"index.html"}
MCEnding ==
  [n \in Html \cup {"youpi.bla", "favicon.ico", "index.php"} |->
     CASE n = "youpi.bla" -> ".bla" [] n = "favicon.ico" -> ".ico" [] n = "index.php" -> ".php"
       [] OTHER -> ".html"]

MCFiles ==
  {Append(MCErrorFolder, n) : n \in Range(MCErrorName)}
  \cup {Append(Www, "index.html"), Www \o <<"downloads", "favicon.ico">>,
        <<"YoupiBanane", "youpi.bla">>}

Ask(method, uri) ==
  [method |-> method, uri |-> uri, referer |-> <<>>, credentials |-> "none"]

Showing(asked, credentials) == [asked EXCEPT !.credentials = credentials]

MCAsks ==
  [ home     |-> Ask("GET", <<"">>),
    moved    |-> Ask("GET", <<"redirect">>),
    upload   |-> Ask("POST", <<"post_body">>),
    replace  |-> Ask("PUT", <<"put_test", "favicon.ico">>),
    refused  |-> Ask("PUT", <<"nimp">>),
    script   |-> Ask("POST", <<"directory", "youpi.bla">>),
    list     |-> Ask("GET", <<"downloads">>),
    wrong    |-> Showing(Ask("GET", <<"downloads">>), "wrong"),
    login    |-> Showing(Ask("POST", <<"downloads">>), "right"),
    post     |-> Ask("POST", <<"downloads">>),
    unpage   |-> Ask("DELETE", <<"404.html">>),
    missing  |-> Ask("GET", <<"nimp">>),
    missing_ |-> Ask("GET", <<"nimp", "">>),
    linked   |-> [Ask("GET", <<"favicon.ico">>) EXCEPT !.referer = <<"downloads", "">>],
    moved_   |-> Ask("POST", <<"redirect">>) ]

R(line, wire, payload) == [wire |-> wire, asked |-> MCAsks[line], payload |-> payload]

\* A request without a body, in one segment.
Short(line) == R(line, <<<<line, "L0", "END">>>>, <<>>)

\* Cut in the header, in the body, or in front of the last line break.
Page    == R("home", <<<<"home">>, <<"END">>>>, <<>>)
Moved   == R("moved", <<<<"moved", "END">>>>, <<>>)
Empty   == R("upload", <<<<"upload", "TE", "END", "0", "NL">>, <<"NL">>>>, <<>>)
Replace == R("replace", <<<<"replace", "L2", "END", "a">>, <<"b">>>>, <<"a", "b">>)
Script  == R("script", <<<<"script", "TE", "END", "1", "NL", "b", "NL", "0", "NL">>,
                         <<"NL">>>>, <<"b">>)

\* Right credentials, which may be left behind when the peer goes before END.
Login   == R("login", <<<<"login">>, <<"L0", "END">>>>, <<>>)

\* Taken for complete behind its first segment, the second is another request's.
Zero    == R("upload", <<<<"upload", "TE", "END", "1", "NL", "0", "NL">>,
                         <<"0", "NL", "NL">>>>, <<"0">>)

\* The data of the second chunk is taken from the first: what Plain leaves out.
TwoChunks == R("upload", <<<<"upload", "TE", "END", "1", "NL", "a", "NL">>,
                           <<"1", "NL", "b", "NL", "0", "NL", "NL">>>>, <<"a", "b">>)

Pair(first, second) == [c \in Conns |-> IF c = a THEN first ELSE second]

MCScripts ==
  { Pair(<<Script, Page>>, <<Moved>>),
    Pair(<<TwoChunks>>, <<Empty>>),
    Pair(<<Login>>, <<Short("list")>>),
    Pair(<<Short("login"), Short("post")>>, <<>>),
    Pair(<<Short("unpage"), Short("missing")>>, <<>>),
    Pair(<<Short("linked"), Short("wrong")>>, <<>>),
    Pair(<<Short("refused"), Short("missing_")>>, <<>>),
    Pair(<<Replace>>, <<>>),
    Pair(<<Zero>>, <<>>),
    Pair(<<Short("moved_")>>, <<>>) }
=============================================================================
