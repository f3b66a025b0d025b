--------------------------- MODULE RequestAssembly ---------------------------
(***************************************************************************)
(* One connection of ATwebserv from its first byte to the call of the      *)
(* request handler.  The peer's bytes arrive in segments cut anywhere; the *)
(* server reads them when epoll reports the socket (server::run) or, once  *)
(* it has a partial request, at every pass of the loop                     *)
(* (client_handler::handle_chunks), and asks is_request_fulfilled each     *)
(* time, also when nothing new has come.                                   *)
(***************************************************************************)
EXTENDS ClientRequest

CONSTANT Messages     \* the requests the peers send, sequences of tokens

ASSUME MessagesAssumption == Messages \subseteq Seq(Token)

VARIABLES msg,        \* the request this peer sends
          sent,       \* how many of its tokens reached the server's socket
          shut,       \* has the peer closed its side after the last of them
          read,       \* how many of them recv() has returned
          client,     \* the server's client_info of this connection
          state       \* "reading", "fulfilled" or "thrown"

vars == <<msg, sent, shut, read, client, state>>

Init == /\ msg \in Messages
        /\ sent = 0
        /\ shut = FALSE
        /\ read = 0
        /\ client = NewClient
        /\ state = "reading"

PeerSends == /\ sent < Len(msg)
             /\ sent' = sent + 1
             /\ UNCHANGED <<msg, shut, read, client, state>>

PeerShuts == /\ sent = Len(msg)
             /\ shut' = TRUE
             /\ UNCHANGED <<msg, sent, read, client, state>>

\* recv(fd, str, MAX_LEN) : what has arrived, a buffer at most.
Available == IF sent - read < MAX_LEN THEN sent - read ELSE MAX_LEN

\* client_info after recv and rqst_append.
Received == rqst_append(client, SubSeq(msg, read + 1, read + Available))

\* What the caller does with the last answer.
Conclude(res) == /\ read' = read + Available
                 /\ client' = res.client
                 /\ state' = CASE res.thrown    -> "thrown"
                               [] res.fulfilled -> "fulfilled"
                               [] OTHER         -> "reading"
                 /\ UNCHANGED <<msg, sent, shut>>

\* server::run : an event of this socket for which recv does not return -1,
\* so with data or the end of the stream; response_handler asks once.
EventRead == /\ state = "reading"
             /\ Available > 0 \/ shut
             /\ \E asked \in {Received} :
                  \E res \in {is_request_fulfilled(asked)} : Conclude(res)

\* chunked_rqst asks, and when the answer is yes response_handler asks again,
\* of the client the first call has rewritten.
AskTwice == \E asked \in {Received} :
              \E first \in {is_request_fulfilled(asked)} :
                \E res \in {IF first.fulfilled
                            THEN is_request_fulfilled(first.client) ELSE first} :
                  Conclude(res)

\* The buffer is examined only after a recv() that returned something.
Bug_PollOnlyNews == /\ state = "reading"
                    /\ client.rqst # <<>>
                    /\ Available > 0
                    /\ AskTwice

\* handle_chunks and chunked_rqst : every pass, once the buffer is not empty.
Poll == /\ state = "reading"
        /\ client.rqst # <<>>
        /\ AskTwice

Next == PeerSends \/ PeerShuts \/ EventRead \/ Poll

\* The loop of server::run never sleeps (epoll_wait with a timeout of 0), and
\* handle_chunks goes through the clients by their own descriptors in each pass.
\* No fairness for EventRead: with other clients there, rearm may have registered
\* the socket under another number, and its events are lost.
Spec == Init /\ [][Next]_vars /\ WF_vars(Poll)

-----------------------------------------------------------------------------
TypeOK == /\ msg \in Messages
          /\ sent \in 0..Len(msg)
          /\ shut \in BOOLEAN
          /\ read \in 0..sent
          /\ client \in Client
          /\ state \in {"reading", "fulfilled", "thrown"}

\* Whatever the segments and however often the buffer was examined, it holds
\* the bytes the peer sent, in order and without a gap; only the request line
\* may read differently, because the code renames the method in place.
BytesKept ==
  /\ Len(client.rqst) = read
  /\ \A i \in 2..read : client.rqst[i] = msg[i]

\* The request handler never sees the internal name CHUNK: each way out of the
\* CHUNK state restores the request line the peer sent, to the character.
MethodRestored == state = "fulfilled" => client.rqst[1] = msg[1]

\* An upload the server can measure: a POST whose length comes in one piece and
\* before the boundary, is not above MAX_LEN, and, counted from the request line
\* as the code does, reaches past the boundary in front of the file; there is no
\* second file, and nothing behind the end.
Measured(m) ==
  /\ Starts(m, "POST") /\ ~Has(m, {"TE"}) /\ ~Has(m, {"DIGITS"})
  /\ Has(m, {"CL"}) /\ Has(m, {"DELIM"})
  /\ Has(m, {"BKEY"}) => FirstPlace(m, {"CL"}) < FirstPlace(m, {"BKEY"})
  /\ m[FirstPlace(m, {"CL"})].n \in FirstPlace(m, {"DELIM"}) + 1 .. MAX_LEN
  /\ \A i, j \in Places(m, {"DELIM"}) :
       i < j => ~\E l \in j + 1 .. Len(m) : m[l].k = "BODY"
  /\ \A i \in Places(m, {"END"}) : ~\E l \in i + 1 .. Len(m) : m[l].k = "BODY"

\* The boundary was recorded when only a part of it had arrived (three characters
\* or more), and that part, a few dashes perhaps, is also in the file.
Misled == client.bound = "part" /\ \E i \in DOMAIN msg : msg[i].k = "BODY" /\ msg[i].n = 2

\* The file of such an upload is complete when the request handler is called: no
\* piece of it is missing, wherever the segments end, unless the server took for
\* the boundary a part of it that the file contains.
UploadComplete ==
  state = "fulfilled" /\ Measured(msg) /\ ~Misled
    => ~\E i \in read + 1 .. Len(msg) : msg[i].k = "BODY"

\* A boundary, or no body, has the server see the end of a request.
EndSeen == Has(msg, {"BND"}) \/ ~Has(msg, {"TE", "CL"})

\* A request whose end the server can see and that arrived in full is
\* eventually handed over once any of it was read, although the first
\* examination only records the boundary or only turns POST into CHUNK, and
\* although a pass of handle_chunks examines the buffer twice.
CompleteIsTaken ==
  (EndSeen /\ sent = Len(msg) /\ client.rqst # <<>>) ~> (state # "reading")

\* The requests held to the rule: those without body, and chunked ones that
\* name no boundary before the transfer coding and have neither a header nor a
\* piece of body that ends like the last chunk.
Framed ==
  {m \in Messages :
     /\ ~Has(m, {"CL"})
     /\ Has(m, {"TE"}) => /\ \A i \in DOMAIN m : m[i].k \in {"HEND", "BODY"} => m[i].n # 1
                          /\ Has(m, {"BND"}) => FirstPlace(m, {"TE"}) < FirstPlace(m, {"BND"})}

\* The rule of RFC 7230 3.4 on complete messages, as a refinement.
Framing == INSTANCE MessageFraming WITH got <- read, taken <- state = "fulfilled"
FramingRespected == Framing!FramingSpec

\* notes_RFC.txt:256-258: a request whose body is still shorter than its
\* Content-Length is incomplete, and so it is not handed over.
LengthRespected ==
  state = "fulfilled" /\ Has(msg, {"CL"}) => Framing!Whole(SubSeq(msg, 1, read))

-----------------------------------------------------------------------------
\* What the theorems suppose of the messages; the runs' messages are so.

\* The requests for which the method comes back: they start with the request
\* line of a POST or of another method, and do not carry both framing headers
\* (RFC 7230 3.3.2 forbids a sender to).
Regular(m) ==
  /\ m # <<>> => m[1] = T("POST") \/ m[1].k \notin {"POST", "CHUNK"}
  /\ ~(Has(m, {"TE"}) /\ Has(m, {"CL"}))

\* How requests are built: the framing headers stand before the empty line and
\* the body behind one, a boundary is on the line that announces it and comes
\* with a length or a transfer coding, and only a POST is chunked.
Built(m) ==
  /\ Regular(m)
  /\ \A i \in DOMAIN m :
       /\ m[i].k \in {"HDR", "TE", "CL", "DIGITS", "BKEY", "BND"} =>
            \A j \in 1..(i - 1) : m[j].k # "HEND"
       /\ m[i].k \in {"BODY", "DELIM", "END", "LAST"} => \E j \in 1..(i - 1) : m[j].k = "HEND"
       /\ m[i].k = "BKEY" => i + 1 \in DOMAIN m /\ m[i + 1].k = "BND"
  /\ Has(m, {"BKEY"}) => Has(m, {"TE"}) \/ Has(m, {"CL"})
  /\ Has(m, {"TE"}) => Starts(m, "POST")
=============================================================================
