---------------------------- MODULE RequestBuffer ----------------------------
(***************************************************************************)
(* What webserv collects of a request before it answers (request_buf and   *)
(* server::update_request_buffer), and what header_handler::parse_request  *)
(* takes from it.                                                          *)
(*                                                                         *)
(* The bytes of a connection are a sequence of tokens:                     *)
(*   the tokens of Asks                                                    *)
(*           a request line, with the lines of the header that handle_     *)
(*           request looks at                                              *)
(*   L0 L1 L2   a line Content-Length: 0, 1 or 2                           *)
(*   TE      a line Transfer-Encoding: chunked                             *)
(*   END     the empty line behind the header                              *)
(*   NL      a line break in a body                                        *)
(*   0 1 2   a size line of a chunk, or a byte of data that is this digit  *)
(*   a b     bytes of data                                                 *)
(* A body is a list of pieces in the code; it is their concatenation here, *)
(* since both loops over it run on from one piece into the next.           *)
(***************************************************************************)
EXTENDS Locations

CONSTANT Asks   \* token -> what it asks for

\* The name of a script is not put: run would execute it as its own body.
ASSUME AsksAssumption ==
  /\ DOMAIN Asks \subseteq STRING /\ Range(Asks) \subseteq Asked
  /\ \A l \in DOMAIN Asks : Asks[l].uri # <<>>
  /\ \A l \in DOMAIN Asks : Asks[l].method = "PUT" => Ends(Last(Asks[l].uri)) \notin CgiTypes

Length == {"L0", "L1", "L2"}
Digit  == {"0", "1", "2"}
Token  == DOMAIN Asks \cup Length \cup {"TE", "END", "NL"} \cup Digit \cup {"a", "b"}

Number == [t \in Length \cup Digit |->
             CASE t \in {"L0", "0"} -> 0 [] t \in {"L1", "1"} -> 1 [] OTHER -> 2]

RequestBuf == [headers : Seq(Token), body : Seq(Token)]

\* request_buf::request_buf
NewBuffer == [headers |-> <<>>, body |-> <<>>]

Holds(s, tokens) == \E i \in 1..Len(s) : s[i] \in tokens

\* The first token of s that is one of tokens.
FirstOf(s, tokens) == s[SelectInSeq(s, LAMBDA t : t \in tokens)]

\* Where \r\n\r\n is found, 0 when it is not.
HeaderEnd(s) ==
  LET ends == {i \in 1..Len(s) :
                 s[i] = "END" \/ (i > 1 /\ s[i] = "NL" /\ s[i - 1] = "NL")}
  IN IF ends = {} THEN 0 ELSE CHOOSE i \in ends : \A j \in ends : i <= j

\* request_buf::headers_received
headers_received(r) == HeaderEnd(r.headers) # 0

\* The rest of what was read behind the header is the start of the body.
add_header_data(r, data) ==
  LET all == r.headers \o data
      i   == HeaderEnd(all)
  IN IF i = 0 THEN [r EXCEPT !.headers = all]
     ELSE [headers |-> SubSeq(all, 1, i),
           body    |-> r.body \o SubSeq(all, i + 1, Len(all))]

add_body_data(r, data) == [r EXCEPT !.body = @ \o data]

\* server::update_request_buffer, on the entry of the descriptor.
Collected(r, data) ==
  IF headers_received(r) THEN add_body_data(r, data) ELSE add_header_data(r, data)

\* The scan from the end meets one 0 and four characters of line breaks before
\* anything else: the last three tokens, in any order.
LastChunk(body) ==
  /\ Len(body) >= 3
  /\ LET tail == SubSeq(body, Len(body) - 2, Len(body))
     IN \E i \in 1..3 : tail[i] = "0" /\ \A j \in (1..3) \ {i} : tail[j] = "NL"

\* request_buf::validate_request
validate_request(r) ==
  IF Holds(r.headers, Length)
  THEN Len(r.body) = Number[FirstOf(r.headers, Length)]
  ELSE Holds(r.headers, {"TE"}) => LastChunk(r.body)

\* What update_request_buffer answers: valid_.
Complete(r) == headers_received(r) /\ validate_request(r)

-----------------------------------------------------------------------------
\* A line, up to its break.
Line(s) == IF Holds(s, {"NL"}) THEN SubSeq(s, 1, SelectInSeq(s, LAMBDA t : t = "NL") - 1) ELSE s

\* The loop of parse_body at position pos, from being what it does from each
\* position on.  Text that is no chunk gives a negative or a huge size, which in
\* the end leads out of the string: substr throws.  The data is looked for at a
\* distance from the start of the body, not from pos.
Round(s, from, pos) ==
  LET hex  == Line(SubSeq(s, pos + 1, Len(s)))
      size == Number[hex[1]]
      next == pos + size + 3
  IN CASE hex \in {<<>>, <<"0">>} -> [thrown |-> FALSE, data |-> <<>>]
       [] Len(hex) = 1 /\ hex[1] \in {"1", "2"} /\ next <= Len(s) ->
            [thrown |-> from[next].thrown, data |-> SubSeq(s, 3, size + 2) \o from[next].data]
       [] OTHER -> [thrown |-> TRUE, data |-> <<>>]

Chunks(s) ==
  LET from[pos \in 0..Len(s)] == Round(s, from, pos)
  IN from[0]

\* header_handler::parse_body; parse_content_length keeps the last length.
parse_body(r) ==
  LET lengths == SelectSeq(r.headers, LAMBDA t : t \in Length)
  IN IF lengths # <<>> /\ Number[Last(lengths)] > 0
     THEN [thrown |-> FALSE, data |-> r.body]
     ELSE Chunks(r.body)

\* A line that is no request line: some word is the method, and it is the URL.
NoRequest == [method |-> "", uri |-> <<"?">>, referer |-> <<>>, credentials |-> "none"]

\* header_handler::parse_first_line; a line break may stand in front of it.
parse_first_line(r) ==
  LET line == IF r.headers[1] = "NL" THEN r.headers[2] ELSE r.headers[1]
  IN IF line \in DOMAIN Asks THEN Asks[line] ELSE NoRequest
=============================================================================
