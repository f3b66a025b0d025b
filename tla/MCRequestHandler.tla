--------------------------- MODULE MCRequestHandler ---------------------------
(***************************************************************************)
(* Constants for Startup and RequestHandler, after configuration_files/valid/*)
(* default.conf: three server blocks, two of them with the same host and   *)
(* port, and nested locations.                                             *)
(***************************************************************************)
EXTENDS Startup

Location(location, root, allowed) ==
  [location |-> location, root |-> root, index |-> <<"index.html">>, allowed |-> allowed,
   autoindex |-> FALSE, max |-> NoLimit, retour |-> <<>>]

Root == Location(<<"/">>, <<"files", "/">>, {"GET", "HEAD", "POST", "PUT"})
Downloads ==
  [Location(<<"/", "downloads">>, <<"/", "files", "/", "downloads">>, {"GET"})
     EXCEPT !.autoindex = TRUE]
Redirect ==
  [Location(<<"/", "redirect">>, <<>>, {}) EXCEPT !.index = <<>>, !.retour = <<301, <<"/", "downloads">>>>]
PutTest == [Location(<<"/", "downloads", "/", "put_test">>, <<"files", "/", "scripts">>,
                     {"PUT", "DELETE"}) EXCEPT !.index = <<>>]

Server(port, name, error_page, locations) ==
  [port |-> port, host |-> "localhost", server_name |-> name, error_page |-> error_page,
   max |-> NoLimit, location |-> locations]

ErrorFolder == <<"files", "/", "error_pages", "/">>

\* A page longer than "/" allows, a listing longer than "/downloads" does, and
\* a page of errors given as a file, as in default.conf:18 and 47.
MCServers ==
  <<Server("8080", "webserv", ErrorFolder,
           <<[Root EXCEPT !.max = 2], [Downloads EXCEPT !.max = 1], Redirect, PutTest>>),
    [Server("8080", "test_server_block", ErrorPage, <<[Root EXCEPT !.allowed = {"GET", "POST"}]>>)
       EXCEPT !.max = 3],
    Server("9090", "test_server_block", <<>>,
           <<[Root EXCEPT !.allowed = {"GET"}, !.autoindex = TRUE]>>)>>

File(id, size) == [id |-> id, of |-> <<>>, size |-> size, shows |-> 0]

MCFiles ==
  ErrorPage :> File("error_4xx", 2) @@ FolderPage :> File("if_folder", 1)
  @@ <<"files", "/", "index.html">> :> File("index", 1)
  @@ <<"files", "/", "big">> :> File("big", 3)
  @@ <<"files", "/", "error_pages", "/", "404.png">> :> File("404.png", 1)
  @@ <<"files", "/", "scripts", "/", "env", ".php">> :> File("env", 2)
  @@ <<"files", "/", "scripts", "/", "x">> :> File("x", 1)
  @@ <<"downloads", "/", "put_test", "/", "x">> :> File("stray", 1)

MCDirectories ==
  {<<"files">>, <<"files", "/", "downloads">>, <<"files", "/", "downloads", "/", "sub">>, <<"files", "/", "error_pages">>,
   <<"files", "/", "scripts">>}

MCWritable == {<<"/", "up">>}

Request(method, url, host) ==
  [method |-> method, url |-> url, host |-> host, type |-> "multipart", size |-> 4]

Local(port)  == <<"localhost", ":", port>>
Block(port)  == <<"test_server_block", ":", port>>
ByAddress    == <<"127.0.0.1", ":", "8080">>

Missing == <<"/", "nimp">>
Folder  == <<"/", "downloads", "/", "sub", "/">>
Stray   == <<"/", "downloads", "/", "put_test", "/", "x">>

MCRequests ==
  {Request("GET", <<"/">>, Local("8080")), Request("GET", <<"/">>, Local("9090")),
   Request("GET", <<"/">>, <<"localhost", ":", "7070">>),
   Request("GET", Missing, ByAddress), Request("GET", Missing, Local("8080")),
   Request("GET", <<"/", "big">>, Local("8080")), Request("PUT", <<"/", "big">>, Local("8080")),
   Request("GET", <<"/", "scripts">>, Local("8080")),
   Request("GET", <<"/", "/", "downloads", "/">>, Local("8080")),
   Request("GET", Folder, Local("8080")), Request("POST", Folder, Local("8080")),
   Request("GET", <<"/", "redirect">>, Local("8080")),
   Request("GET", <<"/", "error_pages", "/", "404.png">>, Local("9090")),
   Request("GET", <<"/", "downloads">>, Local("9090")),
   Request("POST", <<"/", "up">>, Local("8080")), Request("POST", <<"/", "up">>, Block("9090")),
   [Request("POST", <<"/", "up">>, Block("8080")) EXCEPT !.size = 2],
   Request("PUT", Stray, Local("8080")), Request("DELETE", Stray, Local("8080")),
   Request("DELETE", Stray, Local("9090")), Request("DELETE", Missing, Local("8080")),
   Request("GET", <<"/", "scripts", "/", "env", ".php">>, Local("8080"))}

\* What test.sh asks for, by address.
MCDefaultRequests == {Request("GET", <<"/">>, ByAddress), Request("GET", <<"/">>, Local("8080"))}

-------------------------------------------------------------------------------
\* The configuration file that gives MCServers.

\* name value ... value;
Line(name, values) ==
  <<W(name)>> \o [i \in DOMAIN values |->
                    [W(values[i]) EXCEPT !.ends = IF i = Len(values) THEN "yes" ELSE "no"]]

Braces(head, lines) == head \o <<Open>> \o FlattenSeq(lines) \o <<Close>>

LocationLines(path, lines) == Braces(<<W("location"), W(path)>>, lines)
ServerLines(port, name, lines) ==
  Braces(<<W("server")>>,
         <<Line("port", <<port>>), Line("host", <<"localhost">>), Line("server_name", <<name>>)>>
         \o lines)

Index == Line("index", <<"index.html">>)
Files == Line("root", <<"files/">>)

MCText ==
  ServerLines("8080", "webserv",
    <<Line("error_page", <<"files/error_pages/">>),
      Line("cgi_file_types", <<".php", ".bla">>),
      LocationLines("/", <<Files, Line("allowed_method", <<"GET", "HEAD", "POST", "PUT">>), Index,
                           Line("max_file_size", <<"2">>)>>),
      LocationLines("/downloads",
        <<Line("root", <<"/files/downloads">>), Line("allowed_method", <<"GET">>), Index,
          Line("autoindex", <<"on">>), Line("max_file_size", <<"1">>)>>),
      LocationLines("/redirect", <<Line("return", <<"301", "/downloads">>)>>),
      LocationLines("/downloads/put_test",
        <<Line("root", <<"files/scripts">>), Line("allowed_method", <<"PUT", "DELETE">>)>>)>>)
  \o ServerLines("8080", "test_server_block",
    <<Line("error_page", <<"files/error_pages/error_4xx.html">>),
      Line("max_file_size", <<"7">>), Line("max_file_size", <<"3">>),
      LocationLines("/", <<Files, Line("allowed_method", <<"GET", "POST">>), Index>>)>>)
  \o ServerLines("9090", "test_server_block",
    <<Line("time_out", <<"10">>),
      LocationLines("/", <<Files, Line("allowed_method", <<"GET">>), Index,
                           Line("autoindex", <<"on">>)>>)>>)

MCPath ==
  "/" :> <<"/">> @@ "/downloads" :> <<"/", "downloads">> @@ "/redirect" :> <<"/", "redirect">>
  @@ "/downloads/put_test" :> <<"/", "downloads", "/", "put_test">>
  @@ "files/" :> <<"files", "/">> @@ "/files/downloads" :> <<"/", "files", "/", "downloads">>
  @@ "files/scripts" :> <<"files", "/", "scripts">> @@ "index.html" :> <<"index.html">>
  @@ "files/error_pages/" :> ErrorFolder @@ "files/error_pages/error_4xx.html" :> ErrorPage

MCSize == "1" :> 1 @@ "2" :> 2 @@ "3" :> 3 @@ "7" :> 7 @@ "301" :> 301

\* The file; cut short anywhere; with one word left out or written twice; with
\* one ';' left out, doubled, or on its own behind a space.
Cut(i)       == SubSeq(MCText, 1, i)
From(i)      == SubSeq(MCText, i, Len(MCText))
LeftOut(i)   == Cut(i - 1) \o From(i + 1)
Twice(i)     == Cut(i) \o From(i)
Unended(i)   == [MCText EXCEPT ![i].ends = "no"]
Apart(i)     == Cut(i - 1) \o <<W(MCText[i].text), Semicolon>> \o From(i + 1)
DoubleEnd(i) == [MCText EXCEPT ![i].ends = "bad"]

MCTexts ==
  LET all   == [i \in DOMAIN MCText |-> <<Cut(i), LeftOut(i), Twice(i)>>]
      ends  == SelectSeq([i \in DOMAIN MCText |-> i], LAMBDA i : MCText[i].ends = "yes")
      ended == [k \in DOMAIN ends |-> <<Unended(ends[k]), Apart(ends[k]), DoubleEnd(ends[k])>>]
  IN {MCText} \cup Range(FlattenSeq(all)) \cup Range(FlattenSeq(ended))

\* The file alone.
MCOneText == {MCText}

\* The theorems about locations and responses are about such servers and requests.
ASSUME ReturnsAndFolderPage == ReturnsLead /\ FolderPageStays
===============================================================================
