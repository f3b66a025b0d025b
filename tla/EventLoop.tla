------------------------------ MODULE EventLoop ------------------------------
(***************************************************************************)
(* The event loop of ATwebserv: server::run, client_handler and the parts  *)
(* of the kernel they rely on (descriptor table, epoll, TCP sockets), with *)
(* peers that connect, send, shut down and reset as they please.           *)
(*                                                                         *)
(* One pass of server::run is five phases:                                 *)
(*   chunks    handle_chunks polls every client that has a partial request *)
(*             or a response being streamed                                *)
(*   answer    response_handler for the requests found complete            *)
(*   wait      epoll_wait fills _events                                    *)
(*   events    accept, or recv and response_handler, for each event        *)
(*   timeouts  check_all_timeout                                           *)
(* Every step of the server is one iteration of a loop of the code, every  *)
(* step of a peer can come between two of them.                            *)
(*                                                                         *)
(* struct_epoll::_event is one object, shared by every epoll_ctl call:     *)
(* add() stores the new descriptor in its data field, rearm() passes it on *)
(* without setting it.  evfd is that field; what epoll reports for a       *)
(* descriptor is the data it was last registered with.                     *)
(***************************************************************************)
EXTENDS ClientRequest, FiniteSets

CONSTANTS Conns,      \* connections the peers may make
          NFDS,       \* client descriptors the process may have open
          TIME_OUT,   \* time_out of the server block, in ticks of time(NULL)
          Script,     \* what each peer sends, a sequence of tokens
          Blocks      \* chunks of MAX_LEN in its response, 0 for one send()

ASSUME EventLoopAssumption ==
  /\ NFDS \in Nat \ {0}
  /\ TIME_OUT \in Nat
  /\ Script \in [Conns -> Seq(Token)]
  /\ Blocks \in [Conns -> Nat]

Fds    == 1..NFDS
Listen == 0              \* the listening socket
End    == NFDS + 1       \* clients.end()

VARIABLES
  \* peers and network
  net,        \* "out", "up", "shut" (end of stream sent) or "reset"
  sent,       \* tokens of the script that reached the server's socket
  read,       \* tokens recv() has returned
  backlog,    \* connections not accepted yet
  \* kernel
  owner,      \* open client descriptors: descriptor -> connection
  watch,      \* the epoll interest list: descriptor -> [on, data]
  \* process
  evfd,       \* _epoll._event.data.fd
  clients,    \* client_handler::clients
  pc,         \* phase of server::run
  it,         \* where the iterator of the phase stands
  ready,      \* chunks, the vector handle_chunks returns
  events,     \* what is left of _epoll._events
  stop,       \* "none", or what ended the process
  \* history
  fate        \* what became of a connection the server closed

vars == <<net, sent, read, backlog, owner, watch, evfd, clients, pc, it, ready,
          events, stop, fate>>

\* client_info; age is the time since rqst_time_start, up to TIME_OUT + 1.
ClientInfo == [rqst : Seq(Token), bound : Boundary, cLen : Nat,
               resp : Nat, age : 0 .. TIME_OUT + 1]

\* A client_info made by operator[] : rqst_time_start is 0, long ago.
Blank == [rqst |-> <<>>, bound |-> "", cLen |-> 0, resp |-> 0,
          age |-> TIME_OUT + 1]

With(f, x, v) == [y \in DOMAIN f \cup {x} |-> IF y = x THEN v ELSE f[y]]
Without(f, x) == [y \in DOMAIN f \ {x} |-> f[y]]

NoEntry == [fd \in {} |-> 0]

First(x, S) == x \in S /\ \A y \in S : x <= y

\* clients[fd]
Info(map, fd) == IF fd \in DOMAIN map THEN map[fd] ELSE Blank

Running(phase) == stop = "none" /\ pc = phase

-----------------------------------------------------------------------------
Init ==
  /\ net = [c \in Conns |-> "out"]
  /\ sent = [c \in Conns |-> 0]
  /\ read = [c \in Conns |-> 0]
  /\ backlog = <<>>
  /\ owner = NoEntry
  /\ watch = NoEntry
  /\ evfd = Listen
  /\ clients = NoEntry
  /\ pc = "chunks"
  /\ it = 1
  /\ ready = <<>>
  /\ events = <<>>
  /\ stop = "none"
  /\ fate = [c \in Conns |-> "none"]

-----------------------------------------------------------------------------
\* Peers and time.

Connect(c) ==
  /\ net[c] = "out"
  /\ net' = [net EXCEPT ![c] = "up"]
  /\ backlog' = Append(backlog, c)
  /\ UNCHANGED <<sent, read, owner, watch, evfd, clients, pc, it, ready, events, stop, fate>>

PeerSends(c) ==
  /\ net[c] = "up" /\ fate[c] = "none"
  /\ sent[c] < Len(Script[c])
  /\ sent' = [sent EXCEPT ![c] = @ + 1]
  /\ UNCHANGED <<net, read, backlog, owner, watch, evfd, clients, pc, it, ready, events, stop, fate>>

\* The peer closes its side (FIN).
PeerShuts(c) ==
  /\ net[c] = "up" /\ fate[c] = "none"
  /\ net' = [net EXCEPT ![c] = "shut"]
  /\ UNCHANGED <<sent, read, backlog, owner, watch, evfd, clients, pc, it, ready, events, stop, fate>>

\* The connection is reset (RST); what had arrived can still be read.
PeerResets(c) ==
  /\ net[c] \in {"up", "shut"} /\ fate[c] = "none"
  /\ net' = [net EXCEPT ![c] = "reset"]
  /\ UNCHANGED <<sent, read, backlog, owner, watch, evfd, clients, pc, it, ready, events, stop, fate>>

\* time(NULL) advances; ages above the limit are all alike.
Tick ==
  /\ stop = "none"
  /\ \E fd \in DOMAIN clients : clients[fd].age <= TIME_OUT
  /\ clients' = [fd \in DOMAIN clients |->
                   [clients[fd] EXCEPT !.age = IF @ <= TIME_OUT THEN @ + 1 ELSE @]]
  /\ UNCHANGED <<net, sent, read, backlog, owner, watch, evfd, pc, it, ready, events, stop, fate>>

-----------------------------------------------------------------------------
\* What a call of the code does to clients, owner, watch, stop and fate; map
\* is the value of clients when the call is made.

\* recv(fd, str, MAX_LEN, MSG_DONTWAIT) : how many tokens it may return.
RecvResults(fd) ==
  IF fd \notin DOMAIN owner THEN {-1}
  ELSE LET c == owner[fd]
           here == sent[c] - read[c]
       IN CASE here > MAX_LEN     -> {MAX_LEN}
            [] here \in 1..MAX_LEN -> {here}
            [] here = 0 /\ net[c] = "shut"  -> {0}
            [] here = 0 /\ net[c] = "reset" -> {-1, 0}
            [] OTHER -> {-1}

\* client_handler::rearm : _event.data.fd is passed on as it stands.
rearm(fd, map) ==
  /\ IF fd \in DOMAIN watch
     THEN /\ watch' = [watch EXCEPT ![fd] = [on |-> TRUE, data |-> evfd]]
          /\ clients' = With(map, fd, [Info(map, fd) EXCEPT !.age = 0])
          /\ stop' = stop
     ELSE /\ watch' = watch
          /\ clients' = With(map, fd, Info(map, fd))
          /\ stop' = "epoll_ctl"
  /\ UNCHANGED <<owner, fate>>

\* The client is not erased from the map; or the descriptor is not closed.
Bug_NotErased(fd, map, why) ==
  /\ watch' = Without(watch, fd)
  /\ clients' = map
  /\ owner' = Without(owner, fd)
  /\ IF fd \in DOMAIN owner
     THEN stop' = stop /\ fate' = [fate EXCEPT ![owner[fd]] = why]
     ELSE stop' = "close" /\ fate' = fate

Bug_NotClosed(fd, map, why) ==
  /\ watch' = Without(watch, fd)
  /\ clients' = Without(map, fd)
  /\ fate' = [fate EXCEPT ![owner[fd]] = why]
  /\ UNCHANGED <<owner, stop>>

\* client_handler::remove_fd, and the same three calls in check_all_timeout.
remove_fd(fd, map, why) ==
  /\ watch' = Without(watch, fd)
  /\ clients' = Without(map, fd)
  /\ owner' = Without(owner, fd)
  /\ IF fd \in DOMAIN owner
     THEN stop' = stop /\ fate' = [fate EXCEPT ![owner[fd]] = why]
     ELSE stop' = "close" /\ fate' = fate

\* chunked_resp, and remove_fd when it returns 1.  A send fails when the
\* connection was reset or the send buffer is full.
chunked_resp(fd, map) ==
  \/ remove_fd(fd, map, "cut")
  \/ /\ net[owner[fd]] # "reset"
     /\ IF map[fd].resp > 1
        THEN /\ clients' = With(map, fd, [map[fd] EXCEPT !.resp = @ - 1, !.age = 0])
             /\ UNCHANGED <<owner, watch, stop, fate>>
        ELSE remove_fd(fd, map, "answered")

\* The single send of a response of at most MAX_LEN, without MSG_NOSIGNAL.
send_whole(fd, map) ==
  \/ net[owner[fd]] # "reset" /\ remove_fd(fd, map, "answered")
  \/ net[owner[fd]] = "reset" /\ remove_fd(fd, map, "cut")
  \/ /\ net[owner[fd]] = "reset"
     /\ stop' = "sigpipe"
     /\ clients' = map
     /\ UNCHANGED <<owner, watch, fate>>

\* server::response_handler; reader and writer leave a response of
\* Blocks[c] chunks.
response_handler(fd, map) ==
  \E res \in {is_request_fulfilled(Info(map, fd))} :
    CASE res.thrown ->
           /\ clients' = With(map, fd, res.client)
           /\ stop' = "out_of_range"
           /\ UNCHANGED <<owner, watch, fate>>
      [] ~res.thrown /\ ~res.fulfilled ->
           rearm(fd, With(map, fd, res.client))
      [] OTHER ->
           LET blocks == Blocks[owner[fd]]
               cleared == [res.client EXCEPT !.rqst = <<>>]
           IN IF blocks = 0
              THEN send_whole(fd, With(map, fd, cleared))
              ELSE chunked_resp(fd, With(map, fd, [cleared EXCEPT !.resp = blocks]))

\* recv returned n tokens, 0 at the end of the stream: rqst_append.
Received(fd, n) ==
  LET c == owner[fd]
  IN rqst_append(Info(clients, fd), SubSeq(Script[c], read[c] + 1, read[c] + n))

\* The result -1 is taken for a length.
Bug_ErrorIsLength(fd, n) == read' = [read EXCEPT ![owner[fd]] = @ + n]

ReadUpTo(fd, n) ==
  read' = IF n <= 0 THEN read ELSE [read EXCEPT ![owner[fd]] = @ + n]

-----------------------------------------------------------------------------
\* chunks : handle_chunks.

HasWork(fd) == clients[fd].rqst # <<>> \/ clients[fd].resp > 0

\* Clients the iterator has not reached; those without work are passed over.
ToPoll == {fd \in DOMAIN clients : fd >= it /\ HasWork(fd)}

\* it++ on an element that was erased: the freed node still points into the
\* tree as it was, so it lands on any client that is left or on the end.
Landings(map) == DOMAIN map \cup {End}

\* chunked_rqst : recv, time_reset, is_request_fulfilled; then push_back or
\* rearm.
ChunkedRqst(fd) ==
  /\ Running("chunks") /\ First(fd, ToPoll)
  /\ clients[fd].rqst # <<>>
  /\ \E n \in RecvResults(fd) :
       \E client \in {IF n = -1 THEN clients[fd]
                      ELSE [Received(fd, n) EXCEPT !.age = 0]} :
         \E res \in {is_request_fulfilled(client)} :
           /\ ReadUpTo(fd, n)
           /\ IF res.thrown \/ res.fulfilled
              THEN /\ clients' = With(clients, fd, res.client)
                   /\ stop' = IF res.thrown THEN "out_of_range" ELSE stop
                   /\ UNCHANGED <<owner, watch, fate>>
              ELSE rearm(fd, With(clients, fd, res.client))
           /\ ready' = IF res.fulfilled THEN Append(ready, fd) ELSE ready
  /\ it' = fd + 1
  /\ UNCHANGED <<net, sent, backlog, evfd, pc, events>>

\* The next chunk of a response being streamed.
ChunkedResp(fd) ==
  /\ Running("chunks") /\ First(fd, ToPoll)
  /\ clients[fd].rqst = <<>>
  /\ chunked_resp(fd, clients)
  /\ it' \in IF fd \in DOMAIN clients' THEN {fd + 1} ELSE Landings(clients')
  /\ UNCHANGED <<net, sent, read, backlog, evfd, pc, ready, events>>

ChunksDone ==
  /\ Running("chunks") /\ ToPoll = {}
  /\ pc' = "answer"
  /\ UNCHANGED <<net, sent, read, backlog, owner, watch, evfd, clients, it, ready, events, stop, fate>>

-----------------------------------------------------------------------------
\* answer : response_handler for every descriptor of chunks.

Answer ==
  /\ Running("answer") /\ ready # <<>>
  /\ response_handler(Head(ready), clients)
  /\ ready' = Tail(ready)
  /\ UNCHANGED <<net, sent, read, backlog, evfd, pc, it, events>>

AnswersDone ==
  /\ Running("answer") /\ ready = <<>>
  /\ pc' = "wait"
  /\ UNCHANGED <<net, sent, read, backlog, owner, watch, evfd, clients, it, ready, events, stop, fate>>

-----------------------------------------------------------------------------
\* wait : epoll_wait(..., MAX_EVENTS, 0).

\* A registered socket is always ready to be written, except when a response
\* fills its send buffer; then only if something came.
Ready(fd) ==
  LET c == owner[fd]
  IN read[c] < sent[c] \/ net[c] # "up" \/ clients[fd].resp = 0

\* The orders the kernel may report a set of descriptors in.
Orders(S) == {q \in [1..Cardinality(S) -> S] : \A i, j \in DOMAIN q : q[i] = q[j] => i = j}

EpollWait ==
  /\ Running("wait")
  /\ LET armed == {fd \in DOMAIN watch : watch[fd].on}
         surely == {fd \in armed : Ready(fd)}
     IN \E reported \in {surely \cup S : S \in SUBSET (armed \ surely)} :
          /\ watch' = [fd \in DOMAIN watch |->
                         IF fd \in reported THEN [watch[fd] EXCEPT !.on = FALSE]
                         ELSE watch[fd]]
          /\ \E q \in Orders(reported \cup IF backlog = <<>> THEN {} ELSE {Listen}) :
               events' = [i \in DOMAIN q |->
                            IF q[i] = Listen THEN Listen ELSE watch[q[i]].data]
  /\ pc' = "events"
  /\ UNCHANGED <<net, sent, read, backlog, owner, evfd, clients, it, ready, stop, fate>>

-----------------------------------------------------------------------------
\* events : the loop over _events.

\* client_handler::add : the lowest free descriptor, stored in _event.data.fd.
Accept(fd) ==
  /\ Running("events") /\ events # <<>> /\ Head(events) = Listen
  /\ backlog # <<>> /\ First(fd, Fds \ DOMAIN owner)
  /\ owner' = With(owner, fd, Head(backlog))
  /\ backlog' = Tail(backlog)
  /\ evfd' = fd
  /\ watch' = With(watch, fd, [on |-> TRUE, data |-> fd])
  /\ clients' = With(clients, fd, [Info(clients, fd) EXCEPT !.age = 0])
  /\ events' = Tail(events)
  /\ UNCHANGED <<net, sent, read, pc, it, ready, stop, fate>>

\* accept4 fails, without a free descriptor or a connection, and add throws.
AcceptFails ==
  /\ Running("events") /\ events # <<>> /\ Head(events) = Listen
  /\ backlog = <<>> \/ Fds \subseteq DOMAIN owner
  /\ stop' = "accept"
  /\ UNCHANGED <<net, sent, read, backlog, owner, watch, evfd, clients, pc, it, ready, events, fate>>

\* An event whose data is a client descriptor: recv, then response_handler,
\* or rearm when recv returned -1.
ReadEvent ==
  /\ Running("events") /\ events # <<>> /\ Head(events) # Listen
  /\ events' = Tail(events)
  /\ LET fd == Head(events)
     IN \E n \in RecvResults(fd) :
          /\ ReadUpTo(fd, n)
          /\ IF n = -1 THEN rearm(fd, clients)
             ELSE response_handler(fd, With(clients, fd, Received(fd, n)))
  /\ UNCHANGED <<net, sent, backlog, evfd, pc, it, ready>>

EventsDone ==
  /\ Running("events") /\ events = <<>>
  /\ pc' = "timeouts"
  /\ it' = 1
  /\ UNCHANGED <<net, sent, read, backlog, owner, watch, evfd, clients, ready, events, stop, fate>>

-----------------------------------------------------------------------------
\* timeouts : check_all_timeout.

\* The comparison never holds.
Bug_NoneExpired == {}

Expired == {fd \in DOMAIN clients : fd >= it /\ clients[fd].age > TIME_OUT}

CloseExpired(fd) ==
  /\ Running("timeouts") /\ First(fd, Expired)
  /\ remove_fd(fd, clients, "expired")
  /\ it' \in Landings(clients')
  /\ UNCHANGED <<net, sent, read, backlog, evfd, pc, ready, events>>

TimeoutsDone ==
  /\ Running("timeouts") /\ Expired = {}
  /\ pc' = "chunks"
  /\ it' = 1
  /\ UNCHANGED <<net, sent, read, backlog, owner, watch, evfd, clients, ready, events, stop, fate>>

-----------------------------------------------------------------------------
Server ==
  \/ \E fd \in Fds : \/ ChunkedRqst(fd) \/ ChunkedResp(fd)
                    \/ Accept(fd) \/ CloseExpired(fd)
  \/ ChunksDone \/ Answer \/ AnswersDone \/ EpollWait
  \/ AcceptFails \/ ReadEvent \/ EventsDone \/ TimeoutsDone

Peer(c) == Connect(c) \/ PeerSends(c) \/ PeerShuts(c) \/ PeerResets(c)

Next == Server \/ Tick \/ \E c \in Conns : Peer(c)

Spec == Init /\ [][Next]_vars

\* The server's loop runs without ever sleeping, and time passes.
FairSpec == Spec /\ WF_vars(Server) /\ WF_vars(Tick)

-----------------------------------------------------------------------------
TypeOK ==
  /\ net \in [Conns -> {"out", "up", "shut", "reset"}]
  /\ sent \in [Conns -> Nat]
  /\ read \in [Conns -> Nat]
  /\ backlog \in Seq(Conns)
  /\ DOMAIN owner \subseteq Fds /\ \A fd \in DOMAIN owner : owner[fd] \in Conns
  /\ DOMAIN watch \subseteq Fds
  /\ \A fd \in DOMAIN watch : watch[fd] \in [on : BOOLEAN, data : Fds \cup {Listen}]
  /\ evfd \in Fds \cup {Listen}
  /\ DOMAIN clients \subseteq Fds
  /\ \A fd \in DOMAIN clients : clients[fd] \in ClientInfo
  /\ pc \in {"chunks", "answer", "wait", "events", "timeouts"}
  /\ it \in 1..End
  /\ ready \in Seq(Fds)
  /\ events \in Seq(Fds \cup {Listen})
  /\ stop \in {"none", "epoll_ctl", "accept", "close", "sigpipe", "out_of_range"}
  /\ fate \in [Conns -> {"none", "answered", "cut", "expired"}]

\* As long as the process lives, the map of clients, the epoll interest list
\* and the open descriptors are the same set, although descriptors are closed
\* in three places and events name descriptors that are closed or reused.
DescriptorsAgree ==
  stop = "none" => DOMAIN clients = DOMAIN owner /\ DOMAIN watch = DOMAIN owner

\* What the server holds for a descriptor came from the connection that has it
\* now, in order and without a gap: neither a reused number nor an event that
\* names the wrong descriptor mixes the bytes of two peers.
OwnBytes ==
  \A fd \in DOMAIN owner \cap DOMAIN clients :
    LET rqst == clients[fd].rqst
        got == SubSeq(Script[owner[fd]], 1, read[owner[fd]])
    IN /\ Len(rqst) <= Len(got)
       /\ \A i \in 2..Len(rqst) : rqst[i] = got[Len(got) - Len(rqst) + i]

\* A connection is accepted once and has one descriptor, and the one it had is
\* gone once the server is done with it.
OneDescriptor ==
  /\ \A f, g \in DOMAIN owner : owner[f] = owner[g] => f = g
  /\ \A fd \in DOMAIN owner : fate[owner[fd]] = "none"

\* A response that is being streamed starts over only on further bytes of its
\* own connection: the request it answers, an event of another descriptor or a
\* second entry of the ready list never begin it again.  (Further bytes do: a
\* request, or just an empty line, sent behind the first replaces the response.)
Streaming(c) == \E fd \in DOMAIN owner : owner[fd] = c /\ clients[fd].resp > 0
Entry(c) == clients[CHOOSE fd \in DOMAIN owner : owner[fd] = c]
StreamNotRestarted ==
  [][\A c \in Conns :
       /\ Streaming(c) /\ Streaming(c)'
       /\ Entry(c)'.resp > Entry(c).resp
       => Entry(c).rqst # <<>> \/ read'[c] > read[c]]_vars

\* Each connection lives as ConnectionLifecycle says.
Phase(c) ==
  IF fate[c] # "none" THEN fate[c]
  ELSE IF Streaming(c) THEN "answering"
  ELSE IF \E fd \in DOMAIN owner : owner[fd] = c THEN "open" ELSE "idle"
Lifecycle == INSTANCE ConnectionLifecycle
               WITH heard <- read, phase <- [c \in Conns |-> Phase(c)]
LifecycleRespected == Lifecycle!LifeSpec

\* The process goes on: no step of any peer ends it, except that a response to
\* a connection that was reset may (SIGPIPE).
Survives == stop \in {"none", "sigpipe"}

\* A request that was sent in full is eventually answered, or its connection
\* closed, unless the process ends.
WholeRequestEnds ==
  \A c \in {d \in Conns : Lifecycle!Whole(Script[d])} :
    (net[c] # "out" /\ sent[c] = Len(Script[c]))
      ~> (fate[c] # "none" \/ stop # "none")

\* client_handler.cpp:58: a client whose request takes longer than its time_out
\* has its connection closed and is removed.
TimeoutEnforced ==
  \A c \in Conns :
    (\E fd \in DOMAIN owner : owner[fd] = c) ~> (fate[c] # "none" \/ stop # "none")
=============================================================================
