---------------------------- MODULE ChunkedResponse ----------------------------
(***************************************************************************)
(* One response of ATwebserv on its way to the client: response_handler    *)
(* sends a short one at once and closes; a long one becomes the client's   *)
(* resp, of which every pass of handle_chunks sends one chunk more.  The   *)
(* socket does not block: a send takes what the kernel's buffer has room   *)
(* for, or fails.                                                          *)
(*                                                                         *)
(* Tokens have one unit of length each: "head", text that starts with      *)
(* "HTTP" and goes to the next empty line; "data", the n-th piece of the   *)
(* body; "size", a chunk-size and its CR LF; "crlf".                       *)
(***************************************************************************)
EXTENDS Naturals, SequencesExt, Functions

CONSTANTS MAX_LEN,    \* the longest response sent at once, and the chunks' length
          Capacity,   \* of the kernel's send buffer
          Bodies      \* the bodies of the responses

ASSUME MaxLenAssumption == MAX_LEN \in Nat \ {0}
ASSUME CapacityAssumption == Capacity \in Nat \ {0}

Token == [k : {"head", "data", "size", "crlf"}, n : Nat]

Head1   == [k |-> "head", n |-> 0]
Data(i) == [k |-> "data", n |-> i]
Size(n) == [k |-> "size", n |-> n]
CrLf    == [k |-> "crlf", n |-> 0]

ASSUME BodiesAssumption == Bodies \subseteq Seq(Token)

VARIABLES
  body,     \* the body of this response
  resp,     \* clients[fd].resp
  pc,       \* where the response is: "answer", "call", "chunk", "last", "closed"
  kernel,   \* the send buffer of the socket
  got,      \* what the client has received
  reset,    \* the client has reset the connection
  short,    \* a send took less than it was given
  rqst      \* clients[fd].rqst is not empty: more came than the request

vars == <<body, resp, pc, kernel, got, reset, short, rqst>>

Response == <<Head1>> \o body

Init == /\ body \in Bodies
        /\ resp = <<>>
        /\ pc = "answer"
        /\ kernel = <<>> /\ got = <<>>
        /\ reset = FALSE /\ short = FALSE /\ rqst = FALSE

-------------------------------------------------------------------------------
(* The kernel *)

Room == Capacity - Len(kernel)
Fails == reset \/ Room = 0
Taken(text) == IF Len(text) <= Room THEN Len(text) ELSE Room

\* A bug: a send that fails is tried again by the next pass.
Bug_Retry(text, rest, next) ==
  /\ IF Fails THEN UNCHANGED <<pc, resp, kernel, short>>
     ELSE /\ kernel' = kernel \o SubSeq(text, 1, Taken(text))
          /\ short' = (short \/ Taken(text) < Len(text))
          /\ pc' = next /\ resp' = rest
  /\ UNCHANGED <<body, got, reset, rqst>>

\* send(fd, text, length, MSG_DONTWAIT) : -1, or what there was room for.  A
\* send that succeeds goes on to "next"; -1 empties resp and has it closed.
Send(text, rest, next) ==
  /\ IF Fails
     THEN /\ pc' = "closed" /\ resp' = <<>>
          /\ UNCHANGED <<kernel, short>>
     ELSE /\ kernel' = kernel \o SubSeq(text, 1, Taken(text))
          /\ short' = (short \/ Taken(text) < Len(text))
          /\ pc' = next /\ resp' = rest
  /\ UNCHANGED <<body, got, reset, rqst>>

\* The client takes what has arrived, or resets the connection.
PeerReads == /\ kernel # <<>>
             /\ got' = Append(got, Head(kernel)) /\ kernel' = Tail(kernel)
             /\ UNCHANGED <<body, resp, pc, reset, short, rqst>>

PeerResets == /\ ~reset /\ reset' = TRUE /\ kernel' = <<>>
              /\ UNCHANGED <<body, resp, pc, got, short, rqst>>

\* The client sends the beginning of something, which is read between two passes.
PeerSends == /\ pc = "call" /\ ~rqst /\ ~reset /\ rqst' = TRUE
             /\ UNCHANGED <<body, resp, pc, kernel, got, reset, short>>

-------------------------------------------------------------------------------
(* The server *)

\* response_handler : a response of MAX_LEN at most is sent and the client
\* removed, whatever send returned.
SendAtOnce == /\ pc = "answer" /\ Len(Response) <= MAX_LEN
              /\ Send(Response, <<>>, "closed")

\* A longer one: fill_resp, then the first chunked_resp.
fill_resp == /\ pc = "answer" /\ Len(Response) > MAX_LEN
             /\ resp' = Response /\ pc' = "call"
             /\ UNCHANGED <<body, kernel, got, reset, short, rqst>>

\* resp.substr(0, 4) == "HTTP"
AtHead == resp # <<>> /\ Head(resp).k = "head"

\* handle_chunks calls chunked_resp if no request is held.  With the beginning of
\* one it sets the clock back instead, in every pass.
Called == pc = "call" /\ ~rqst

\* chunked_resp : what starts like a header goes out as it is.
SendHead == /\ Called /\ AtHead
            /\ Send(<<Head(resp)>>, Tail(resp), "chunk")

AtChunk == pc = "chunk" \/ (Called /\ ~AtHead)

\* A bug: the chunk that was sent is not taken out of resp.
Bug_ChunkKept == /\ AtChunk /\ Len(resp) > MAX_LEN
                 /\ Send(<<Size(MAX_LEN)>> \o SubSeq(resp, 1, MAX_LEN) \o <<CrLf>>, resp, "call")

\* A chunk that is not the last; the next pass calls again.
SendChunk == /\ AtChunk /\ Len(resp) > MAX_LEN
             /\ Send(<<Size(MAX_LEN)>> \o SubSeq(resp, 1, MAX_LEN) \o <<CrLf>>,
                     SubSeq(resp, MAX_LEN + 1, Len(resp)), "call")

\* What is left, without CR LF behind it.
SendFinal == /\ AtChunk /\ Len(resp) <= MAX_LEN
             /\ Send(<<Size(Len(resp))>> \o resp, <<>>, "last")

\* "0" and an empty line; the client is removed in any case.
SendLast == /\ pc = "last"
            /\ Send(<<Size(0), CrLf>>, <<>>, "closed")

\* check_all_timeout, between two passes.
Expire == /\ Called /\ pc' = "closed" /\ resp' = <<>>
          /\ UNCHANGED <<body, kernel, got, reset, short, rqst>>

Server == SendAtOnce \/ fill_resp \/ SendHead \/ SendChunk \/ SendFinal \/ SendLast

Next == Server \/ Expire \/ PeerReads \/ PeerResets \/ PeerSends

\* Every pass of the loop visits the client; nothing is assumed of the client.
Spec == Init /\ [][Next]_vars /\ WF_vars(Server)

-------------------------------------------------------------------------------
(* What a client makes of the stream, by notes_RFC.txt:318-328.            *)

\* One token of a chunked body: "need" octets of the chunk are to come, and then a
\* CR LF is due.  Only the last chunk may come without the one in front of it.
Decode(d, t) ==
  CASE t.k = "size" -> [d EXCEPT !.ok = @ /\ d.need = 0 /\ ~d.ended /\ (d.due => t.n = 0),
                                 !.need = t.n, !.due = t.n # 0, !.ended = t.n = 0]
    [] t.k = "crlf" -> [d EXCEPT !.ok = @ /\ d.need = 0 /\ (d.due \/ d.ended), !.due = FALSE]
    [] OTHER -> IF d.need = 0 THEN [d EXCEPT !.ok = FALSE]
                ELSE [d EXCEPT !.need = @ - 1, !.data = Append(@, t)]

\* The header and what follows it.
Sent == got \o kernel
Chunks == IF Sent = <<>> THEN <<>> ELSE Tail(Sent)

Decoded ==
  FoldLeft(Decode, [ok |-> TRUE, need |-> 0, due |-> FALSE, ended |-> FALSE, data |-> <<>>], Chunks)

Chunked == Len(Response) > MAX_LEN

\* A later chunk begins with text that starts with "HTTP", which goes out as it is.
Misread == \E i \in 2..Len(body) : (i - 1) % MAX_LEN = 0 /\ body[i].k = "head"

-------------------------------------------------------------------------------
(* Properties *)

\* Types; resp is the end of the response, and empty once the client is gone.
TypeOK == /\ resp \in Seq(Token) /\ IsSuffix(resp, Response)
          /\ pc \in {"answer", "call", "chunk", "last", "closed"}
          /\ kernel \in Seq(Token) /\ Len(kernel) <= Capacity /\ got \in Seq(Token)
          /\ {reset, short, rqst} \subseteq BOOLEAN
          /\ (pc \in {"answer", "last", "closed"} => resp = <<>>)

\* No piece of the body is sent twice, before an earlier one, or out of nothing.
InOrder ==
  LET pieces == SelectSeq(Sent, LAMBDA t : t.k \in {"data", "head"} /\ t.n > 0)
  IN  /\ \A i \in 1..(Len(pieces) - 1) : pieces[i].n < pieces[i + 1].n
      /\ \A i \in DOMAIN pieces : pieces[i] \in Range(body)

\* A client that goes by the grammar, but for the CR LF behind the data of the chunk
\* before the last one, which chunked_resp never sends, reads a beginning of the
\* body, and the whole of it when it has read the last chunk.
DecodesWhenWhole ==
  Chunked /\ ~short /\ ~Misread => /\ Decoded.ok
                                  /\ IsPrefix(Decoded.data, body)
                                  /\ (Decoded.ended => Decoded.data = body)

\* Whatever send takes or refuses, the types are kept and the pieces of the body
\* stay in order; and when every send took all it was given, and no text at a
\* chunk's start is taken for a header, what arrives can be decoded (fill_resp and
\* the four sends of chunked_resp).
BodyArrives == TypeOK /\ InOrder /\ DecodesWhenWhole

\* A response ends: its client is removed, even if it reads nothing, unless it
\* sends the beginning of another request, for which handle_chunks keeps it.
StreamEnds == <>(pc = "closed" \/ rqst)
================================================================================
