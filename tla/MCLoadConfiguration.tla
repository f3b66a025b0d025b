-------------------------- MODULE MCLoadConfiguration --------------------------
(***************************************************************************)
(* Files like those in configuration_files/valid and invalid, and some     *)
(* whose names contain keywords.                                           *)
(***************************************************************************)
EXTENDS LoadConfiguration

MCWithin ==
  [w \in {"autoindex", "localhost", "/import", "/srv/locations", "/index"} |->
     CASE w = "autoindex" -> {"index"} [] w = "localhost" -> {"host"} [] w = "/import" -> {"port"}
       [] w = "/index" -> {"index"} [] OTHER -> {"location"}]

MCNumberOf ==
  [w \in {"8080", "9090", "5", "10", "301", "302", "200", "100"} |->
     CASE w = "8080" -> 8080 [] w = "9090" -> 9090 [] w = "5" -> 5 [] w = "10" -> 10
       [] w = "301" -> 301 [] w = "302" -> 302 [] w = "200" -> 200 [] OTHER -> 100]

MCPathOf ==
  [w \in {"/", "www", "/downloads", "/redirect", "/put_test", "/import", "/index",
          "/srv/locations", "/index.html"} |->
     CASE w = "/" -> <<"">> [] w = "/srv/locations" -> <<"srv", "locations">> [] OTHER -> <<w>>]

Port(n) == <<"port", n>>
Error   == <<"error_page", "www">>
Time(n) == <<"time_out", n>>
Own     == <<Port("8080"), <<"host", "localhost">>, <<"server_name", "webserv">>, <<>>,
             Error, Time("5"), <<"cgi_file_types", ".php", ".bla">>>>

At(name, lines) == [name |-> name, lines |-> lines]
Open == <<"auth_basic", "off">>
Root == <<"root", "www">>

Home      == At("/", <<Root, <<"allowed_method", "GET", "PUT">>, <<"index", "/index.html">>,
                       <<"autoindex", "off">>, Open>>)
Downloads == At("/downloads", <<Root, <<"auth_basic", "downloads">>,
                                <<"auth_user_file", "htpasswd">>, <<"autoindex", "on">>>>)
Moved(code) == At("/redirect", <<<<"return", code, "/downloads">>>>)
PutTest   == At("/put_test", <<Root, <<"max_file_size", "100">>, <<"alias", "on">>, Open>>)

Server(own, locations) == [own |-> own, locations |-> locations]
Second(own) == Server(<<Port("9090"), Error>> \o own, <<Home>>)

MCDescriptions ==
  { <<Server(Own, <<Home, Downloads, PutTest>>), Second(<<Time("10")>>)>>,
    \* a redirection in front of others, and a second one with a lower code
    <<Server(Own, <<Moved("302"), Downloads, Moved("301"), PutTest>>)>>,
    \* the files of configuration_files/invalid, in one server and in the second
    <<Server(<<Port("8080"), Time("5")>>, <<Home>>)>>,
    <<Server(<<<<"port">>, Error, Time("5")>>, <<Home>>)>>,
    <<Server(Own, <<PutTest>>), Second(<<>>)>>,
    <<Server(Own, <<>>), Server(Own, <<Home>>)>>,
    \* exceptions
    <<Server(Own, <<Moved("200")>>)>>,
    <<Server(Own, <<At("/downloads", <<<<"auth_user_file", "none">>>>)>>)>>,
    <<Server(Own, <<At("downloads", <<Root>>)>>)>>,
    \* keywords in names
    <<Server(Own, <<Home, At("/import", <<Root>>)>>)>>,
    <<Server(Own, <<At("/index", <<Root>>)>>)>>,
    <<Server(Own, <<At("/", <<<<"root", "/srv/locations">>, Open>>)>>)>>,
    <<Server(<<Port("8080"), <<"server_name", "localhost">>, Error, Time("5")>>, <<>>)>>,
    <<>> }
================================================================================
