--------------------------- MODULE EventLoopProofs ---------------------------
(***************************************************************************)
(* The safety of the event loop for every number of connections and        *)
(* descriptors, every script, every length of a response and every order   *)
(* of the kernel's reports; and that it implements ConnectionLifecycle     *)
(* when each peer sends one request without a body.                        *)
(***************************************************************************)
EXTENDS EventLoop, ClientRequestProofs, FiniteSetTheorems

-----------------------------------------------------------------------------
\* The invariant, in the parts the actions disturb.

\* rqst is the end of the first n tokens of script, up to its own first token.
EndOf(rqst, script, n) ==
  /\ Len(rqst) <= n
  /\ \A i \in 2..Len(rqst) : rqst[i] = script[n - Len(rqst) + i]

\* Nothing is read that was not sent, nothing sent that is not in the script.
NetInv ==
  /\ net \in [Conns -> {"out", "up", "shut", "reset"}]
  /\ sent \in [Conns -> Nat]
  /\ read \in [Conns -> Nat]
  /\ \A c \in Conns : read[c] <= sent[c] /\ sent[c] <= Len(Script[c])

\* The tables of descriptors; only a connection that was made and is not closed
\* has a descriptor, and only one.
TableInv ==
  /\ DOMAIN owner \subseteq Fds /\ \A fd \in DOMAIN owner : owner[fd] \in Conns
  /\ DOMAIN watch \subseteq Fds
  /\ \A fd \in DOMAIN watch : watch[fd] \in [on : BOOLEAN, data : Fds \cup {Listen}]
  /\ DOMAIN clients \subseteq Fds
  /\ \A fd \in DOMAIN clients : clients[fd] \in ClientInfo
  /\ stop \in {"none", "epoll_ctl", "accept", "close", "sigpipe", "out_of_range"}
  /\ fate \in [Conns -> {"none", "answered", "cut", "expired"}]
  /\ DOMAIN owner \subseteq DOMAIN clients
  /\ stop = "none" => DOMAIN clients = DOMAIN owner /\ DOMAIN watch = DOMAIN owner
  /\ \A f, g \in DOMAIN owner : owner[f] = owner[g] => f = g
  /\ \A fd \in DOMAIN owner : fate[owner[fd]] = "none" /\ net[owner[fd]] # "out"

\* The bytes held for a descriptor.
BytesInv ==
  \A fd \in DOMAIN owner \cap DOMAIN clients :
    EndOf(clients[fd].rqst, Script[owner[fd]], read[owner[fd]])

\* A connection that waits to be accepted has no descriptor and no end yet, and
\* waits once; one that was not made has no end either.
QueueInv ==
  /\ backlog \in Seq(Conns)
  /\ \A i \in 1..Len(backlog) :
       /\ net[backlog[i]] # "out" /\ fate[backlog[i]] = "none"
       /\ \A fd \in DOMAIN owner : owner[fd] # backlog[i]
       /\ \A j \in 1..Len(backlog) : backlog[i] = backlog[j] => i = j
  /\ \A c \in Conns : net[c] = "out" => fate[c] = "none"

\* The control state of server::run.
ControlInv ==
  /\ evfd \in Fds \cup {Listen}
  /\ pc \in {"chunks", "answer", "wait", "events", "timeouts"}
  /\ it \in 1..End
  /\ ready \in Seq(Fds)
  /\ events \in Seq(Fds \cup {Listen})

IInv == NetInv /\ TableInv /\ BytesInv /\ QueueInv /\ ControlInv

\* The invariant is as strong as the properties.
LEMMA IInvImplies ==
  ASSUME IInv
  PROVE  TypeOK /\ DescriptorsAgree /\ OwnBytes /\ OneDescriptor
<1>1. TypeOK
  BY DEF IInv, NetInv, TableInv, QueueInv, ControlInv, TypeOK
<1>2. DescriptorsAgree
  BY DEF IInv, TableInv, DescriptorsAgree
<1>3. OneDescriptor
  BY DEF IInv, TableInv, OneDescriptor
<1>4. OwnBytes
  <2>. SUFFICES ASSUME NEW fd \in DOMAIN owner \cap DOMAIN clients
                PROVE  LET rqst == clients[fd].rqst
                           got == SubSeq(Script[owner[fd]], 1, read[owner[fd]])
                       IN /\ Len(rqst) <= Len(got)
                          /\ \A i \in 2..Len(rqst) : rqst[i] = got[Len(got) - Len(rqst) + i]
    BY DEF OwnBytes
  <2>. DEFINE rqst == clients[fd].rqst
              c == owner[fd]
              got == SubSeq(Script[c], 1, read[c])
  <2>1. EndOf(rqst, Script[c], read[c])
    BY DEF IInv, BytesInv
  <2>2. /\ c \in Conns /\ Script[c] \in Seq(Token) /\ rqst \in Seq(Token)
        /\ read[c] \in Nat /\ read[c] <= Len(Script[c]) /\ Len(Script[c]) \in Nat
    BY EventLoopAssumption, LenProperties DEF IInv, TableInv, NetInv, ClientInfo
  <2>3. Len(got) = read[c] /\ \A i \in 1..read[c] : got[i] = Script[c][i]
    BY <2>2, SubSeqProperties
  <2>4. Len(rqst) \in Nat
    BY <2>2, LenProperties
  <2>. HIDE DEF rqst, c, got
  <2>5. Len(rqst) <= Len(got)
    BY <2>1, <2>3 DEF EndOf
  <2>6. \A i \in 2..Len(rqst) : rqst[i] = got[Len(got) - Len(rqst) + i]
    <3>. TAKE i \in 2..Len(rqst)
    <3>1. read[c] - Len(rqst) + i \in 1..read[c]
      BY <2>2, <2>3, <2>4, <2>5
    <3>2. rqst[i] = Script[c][read[c] - Len(rqst) + i]
      BY <2>1 DEF EndOf
    <3>. QED  BY <2>3, <3>1, <3>2
  <2>. QED  BY <2>5, <2>6 DEF rqst, c, got
<1>. QED  BY <1>1, <1>2, <1>3, <1>4

\* No entry, and no client.
LEMMA EmptyMap == DOMAIN NoEntry = {}
BY DEF NoEntry

\* server::initialize leaves no client, no event and one watched socket:
\* the invariant holds before the first pass.
LEMMA IInvInit == Init => IInv
<1>. SUFFICES ASSUME Init PROVE IInv
  OBVIOUS
<1>1. NFDS \in Nat \ {0} /\ \A c \in Conns : Len(Script[c]) \in Nat
  BY EventLoopAssumption, LenProperties
<1>2. NetInv
  BY <1>1 DEF Init, NetInv
<1>3. TableInv
  BY EmptyMap DEF Init, TableInv
<1>4. BytesInv
  BY EmptyMap DEF Init, BytesInv
<1>5. QueueInv
  BY EmptySeq DEF Init, QueueInv
<1>6. ControlInv
  BY <1>1, EmptySeq DEF Init, ControlInv, End
<1>. QED  BY <1>2, <1>3, <1>4, <1>5, <1>6 DEF IInv

\* A peer connects: it was not connected, so it does not wait yet.
LEMMA ConnectInv ==
  ASSUME IInv, NEW c \in Conns, Connect(c)
  PROVE  IInv'
<1>1. NetInv'
  BY DEF Connect, IInv, NetInv
<1>2. TableInv'
  BY DEF Connect, IInv, NetInv, TableInv
<1>3. BytesInv' /\ ControlInv'
  BY DEF Connect, IInv, BytesInv, ControlInv
<1>4. QueueInv'
  <2>. DEFINE n == Len(backlog)
  <2>1. /\ backlog' \in Seq(Conns) /\ n \in Nat /\ Len(backlog') = n + 1
        /\ \A i \in 1..n : backlog'[i] = backlog[i]
        /\ backlog'[n + 1] = c
    BY AppendProperties, LenProperties DEF Connect, IInv, QueueInv
  <2>2. \A i \in 1..n : backlog[i] # c
    BY DEF Connect, IInv, QueueInv
  <2>3. net' = [net EXCEPT ![c] = "up"] /\ UNCHANGED <<owner, fate>>
    BY DEF Connect
  <2>4. fate[c] = "none" /\ \A fd \in DOMAIN owner : owner[fd] # c
    BY DEF Connect, IInv, QueueInv, TableInv
  <2>5. \A i \in 1..n : backlog[i] \in Conns
    BY ElementOfSeq DEF IInv, QueueInv
  <2>6. ASSUME NEW i \in 1..Len(backlog')
        PROVE  /\ net'[backlog'[i]] # "out" /\ fate'[backlog'[i]] = "none"
               /\ \A fd \in DOMAIN owner' : owner'[fd] # backlog'[i]
               /\ \A j \in 1..Len(backlog') : backlog'[i] = backlog'[j] => i = j
    <3>1. i \in 1..n \/ i = n + 1
      BY <2>1
    <3>2. net'[backlog'[i]] # "out" /\ fate'[backlog'[i]] = "none"
      BY <3>1, <2>1, <2>2, <2>3, <2>4, <2>5 DEF IInv, QueueInv, NetInv
    <3>3. \A fd \in DOMAIN owner' : owner'[fd] # backlog'[i]
      BY <3>1, <2>1, <2>3, <2>4 DEF IInv, QueueInv
    <3>4. \A j \in 1..Len(backlog') : backlog'[i] = backlog'[j] => i = j
      BY <3>1, <2>1, <2>2 DEF IInv, QueueInv
    <3>. QED  BY <3>2, <3>3, <3>4
  <2>7. \A d \in Conns : net'[d] = "out" => fate'[d] = "none"
    BY <2>3 DEF IInv, QueueInv, NetInv
  <2>. QED  BY <2>1, <2>6, <2>7 DEF QueueInv
<1>. QED  BY <1>1, <1>2, <1>3, <1>4 DEF IInv

\* The other steps of a peer.
LEMMA PeerInv ==
  ASSUME IInv, NEW c \in Conns, PeerSends(c) \/ PeerShuts(c) \/ PeerResets(c)
  PROVE  IInv'
<1>1. NetInv'
  <2>1. \A d \in Conns : Len(Script[d]) \in Nat
    BY EventLoopAssumption, LenProperties
  <2>2. CASE PeerSends(c)
    <3>1. sent'[c] = sent[c] + 1 /\ \A d \in Conns : d # c => sent'[d] = sent[d]
      BY <2>2 DEF PeerSends, IInv, NetInv
    <3>. QED  BY <2>1, <2>2, <3>1 DEF PeerSends, IInv, NetInv
  <2>3. CASE PeerShuts(c) \/ PeerResets(c)
    BY <2>3 DEF PeerShuts, PeerResets, IInv, NetInv
  <2>. QED  BY <2>2, <2>3
<1>2. TableInv'
  BY DEF PeerSends, PeerShuts, PeerResets, IInv, NetInv, TableInv
<1>3. BytesInv' /\ ControlInv'
  BY DEF PeerSends, PeerShuts, PeerResets, IInv, BytesInv, ControlInv
<1>4. QueueInv'
  <2>1. \A i \in 1..Len(backlog) : backlog[i] \in Conns
    BY ElementOfSeq DEF IInv, QueueInv
  <2>. QED  BY <2>1 DEF PeerSends, PeerShuts, PeerResets, IInv, NetInv, QueueInv
<1>. QED  BY <1>1, <1>2, <1>3, <1>4 DEF IInv

\* Time passes.
LEMMA TickInv ==
  ASSUME IInv, Tick
  PROVE  IInv'
<1>1. TIME_OUT \in Nat
  BY EventLoopAssumption
<1>2. DOMAIN clients' = DOMAIN clients
  BY DEF Tick
<1>3. \A fd \in DOMAIN clients : clients'[fd] \in ClientInfo /\ clients'[fd].rqst = clients[fd].rqst
  <2>. TAKE fd \in DOMAIN clients
  <2>. DEFINE x == clients[fd]
              a == IF x.age <= TIME_OUT THEN x.age + 1 ELSE x.age
  <2>1. clients'[fd] = [x EXCEPT !.age = a]
    BY DEF Tick
  <2>2. x \in ClientInfo
    BY DEF IInv, TableInv
  <2>3. a \in 0 .. TIME_OUT + 1
    BY <1>1, <2>2 DEF ClientInfo
  <2>. HIDE DEF x, a
  <2>4. [x EXCEPT !.age = a] \in ClientInfo /\ [x EXCEPT !.age = a].rqst = x.rqst
    BY <2>2, <2>3 DEF ClientInfo
  <2>. QED  BY <2>1, <2>4 DEF x
<1>4. TableInv'
  BY <1>2, <1>3 DEF Tick, IInv, TableInv
<1>5. BytesInv'
  BY <1>2, <1>3 DEF Tick, IInv, BytesInv
<1>6. NetInv' /\ QueueInv' /\ ControlInv'
  BY DEF Tick, IInv, NetInv, QueueInv, ControlInv
<1>. QED  BY <1>4, <1>5, <1>6 DEF IInv

-----------------------------------------------------------------------------
\* What the functions of client_handler do to the tables.

\* A value of clients that a function may be called with while it serves fd: it
\* has the open descriptors and perhaps fd, with the bytes read by now.
InfoGood(x, fd) ==
  /\ x \in ClientInfo
  /\ fd \in DOMAIN owner => EndOf(x.rqst, Script[owner[fd]], read'[owner[fd]])

MapGood(map, fd) ==
  /\ DOMAIN owner \subseteq DOMAIN map
  /\ DOMAIN map \subseteq DOMAIN owner \cup {fd}
  /\ \A x \in DOMAIN map : InfoGood(map[x], x)

\* What every such call leaves: good tables, and nothing new about a connection
\* that has no descriptor.
Settled ==
  /\ TableInv' /\ BytesInv'
  /\ \A c \in Conns : (\A f \in DOMAIN owner : owner[f] # c) =>
       fate'[c] = fate[c] /\ \A f \in DOMAIN owner' : owner'[f] # c

\* clients[fd] = v.
LEMMA WithMap ==
  ASSUME NEW map, NEW fd, NEW v, MapGood(map, fd), InfoGood(v, fd)
  PROVE  MapGood(With(map, fd, v), fd)
BY DEF MapGood, With

\* A client_info made by operator[] is a good one.
LEMMA BlankInfo ==
  ASSUME TableInv, NetInv', NEW fd
  PROVE  InfoGood(Blank, fd)
<1>1. Blank \in ClientInfo
  BY EventLoopAssumption, EmptySeq DEF Blank, ClientInfo, Boundary
<1>2. Len(Blank.rqst) = 0
  BY EmptySeq DEF Blank
<1>. QED  BY <1>1, <1>2 DEF InfoGood, EndOf, NetInv, TableInv

\* clients[fd], there or not.
LEMMA InfoOfGood ==
  ASSUME TableInv, NetInv', NEW map, NEW fd, MapGood(map, fd)
  PROVE  InfoGood(Info(map, fd), fd)
<1>1. CASE fd \in DOMAIN map
  BY <1>1 DEF MapGood, Info
<1>2. CASE fd \notin DOMAIN map
  BY <1>2, BlankInfo DEF Info
<1>. QED  BY <1>1, <1>2

\* The map as it is, before anything is read.
LEMMA ClientsMap ==
  ASSUME IInv, stop = "none", read' = read, NEW fd
  PROVE  MapGood(clients, fd)
BY DEF IInv, TableInv, BytesInv, MapGood, InfoGood

\* rearm registers the descriptor again, or the process ends.
LEMMA RearmSettled ==
  ASSUME IInv, stop = "none", NetInv', NEW map, NEW fd \in Fds, MapGood(map, fd),
         rearm(fd, map), net' = net
  PROVE  Settled
<1>. DEFINE x == Info(map, fd)
            y == [x EXCEPT !.age = 0]
<1>1. InfoGood(x, fd)
  BY InfoOfGood DEF IInv
<1>2. InfoGood(y, fd)
  <2>1. TIME_OUT \in Nat
    BY EventLoopAssumption
  <2>2. x \in ClientInfo
    BY <1>1 DEF InfoGood
  <2>. HIDE DEF x
  <2>3. y \in ClientInfo /\ y.rqst = x.rqst
    BY <2>1, <2>2 DEF ClientInfo
  <2>. QED  BY <1>1, <2>3 DEF InfoGood
<1>. HIDE DEF x, y
<1>3. MapGood(With(map, fd, x), fd) /\ MapGood(With(map, fd, y), fd)
  BY <1>1, <1>2, WithMap
<1>4. MapGood(clients', fd) /\ owner' = owner /\ fate' = fate
  BY <1>3 DEF rearm, x, y
<1>5. CASE fd \in DOMAIN watch
  <2>1. /\ DOMAIN watch' = DOMAIN watch /\ stop' = stop
        /\ \A f \in DOMAIN watch : watch'[f] \in [on : BOOLEAN, data : Fds \cup {Listen}]
    <3>. DEFINE w == [on |-> TRUE, data |-> evfd]
    <3>1. w \in [on : BOOLEAN, data : Fds \cup {Listen}]
      BY DEF IInv, ControlInv
    <3>2. watch' = [watch EXCEPT ![fd] = w] /\ stop' = stop
      BY <1>5 DEF rearm
    <3>. HIDE DEF w
    <3>3. \A f \in DOMAIN watch : watch'[f] = IF f = fd THEN w ELSE watch[f]
      BY <3>2
    <3>. QED  BY <3>1, <3>2, <3>3 DEF IInv, TableInv
  <2>2. fd \in DOMAIN owner
    BY <1>5 DEF IInv, TableInv
  <2>3. DOMAIN clients' = DOMAIN owner
    BY <1>4, <2>2 DEF MapGood
  <2>4. TableInv'
    BY <1>4, <2>1, <2>3 DEF IInv, TableInv, MapGood, InfoGood
  <2>5. BytesInv'
    BY <1>4 DEF BytesInv, MapGood, InfoGood
  <2>. QED  BY <1>4, <2>4, <2>5 DEF Settled
<1>6. CASE fd \notin DOMAIN watch
  <2>1. watch' = watch /\ stop' = "epoll_ctl"
    BY <1>6 DEF rearm
  <2>2. TableInv'
    BY <1>4, <2>1 DEF IInv, TableInv, MapGood, InfoGood
  <2>3. BytesInv'
    BY <1>4 DEF BytesInv, MapGood, InfoGood
  <2>. QED  BY <1>4, <2>2, <2>3 DEF Settled
<1>. QED  BY <1>5, <1>6

\* remove_fd takes the descriptor out of all three tables, and with it the only
\* one its connection had.
LEMMA RemoveSettled ==
  ASSUME IInv, stop = "none", NEW map, NEW fd \in Fds, MapGood(map, fd), net' = net,
         NEW why \in {"answered", "cut", "expired"}, remove_fd(fd, map, why)
  PROVE  Settled
<1>1. /\ DOMAIN owner' = DOMAIN owner \ {fd}
      /\ \A f \in DOMAIN owner' : owner'[f] = owner[f]
  BY DEF remove_fd, Without
<1>2. /\ DOMAIN watch' = DOMAIN watch \ {fd}
      /\ \A f \in DOMAIN watch' : watch'[f] = watch[f]
  BY DEF remove_fd, Without
<1>3. /\ DOMAIN clients' = DOMAIN owner \ {fd}
      /\ \A f \in DOMAIN clients' : InfoGood(clients'[f], f)
  BY DEF remove_fd, Without, MapGood
<1>4. /\ fate' \in [Conns -> {"none", "answered", "cut", "expired"}]
      /\ \A c \in Conns : (\A f \in DOMAIN owner \cap {fd} : owner[f] # c) => fate'[c] = fate[c]
      /\ stop' \in {stop, "close"}
  BY DEF remove_fd, IInv, TableInv
<1>5. TableInv'
  BY <1>1, <1>2, <1>3, <1>4 DEF IInv, TableInv, InfoGood
<1>6. BytesInv'
  BY <1>1, <1>3 DEF BytesInv, InfoGood
<1>. QED  BY <1>1, <1>4, <1>5, <1>6 DEF Settled

\* Only the map changes, or the process ends.
LEMMA MapSettled ==
  ASSUME IInv, stop = "none", NEW fd \in Fds, MapGood(clients', fd), net' = net,
         UNCHANGED <<owner, watch, fate>>,
         \/ stop' = stop /\ fd \in DOMAIN owner
         \/ stop' \in {"sigpipe", "out_of_range"}
  PROVE  Settled
<1>1. stop' = "none" => DOMAIN clients' = DOMAIN owner
  BY DEF MapGood
<1>2. TableInv'
  BY <1>1 DEF IInv, TableInv, MapGood, InfoGood
<1>. QED  BY <1>2 DEF Settled, BytesInv, MapGood, InfoGood

\* A client_info whose response or start time is written stays a good one.
LEMMA InfoFields ==
  ASSUME NEW x, NEW fd, InfoGood(x, fd), NEW n \in Nat
  PROVE  /\ InfoGood([x EXCEPT !.resp = n, !.age = 0], fd)
         /\ InfoGood([x EXCEPT !.age = 0], fd)
         /\ InfoGood([x EXCEPT !.resp = n], fd)
<1>1. TIME_OUT \in Nat
  BY EventLoopAssumption
<1>2. x \in ClientInfo
  BY DEF InfoGood
<1>3. \A z \in ClientInfo : /\ [z EXCEPT !.age = 0] \in ClientInfo
                            /\ [z EXCEPT !.age = 0].rqst = z.rqst
  BY <1>1 DEF ClientInfo
<1>4. /\ [x EXCEPT !.resp = n] \in ClientInfo
      /\ [x EXCEPT !.resp = n].rqst = x.rqst
  BY <1>2 DEF ClientInfo
<1>5. [x EXCEPT !.resp = n, !.age = 0] = [[x EXCEPT !.resp = n] EXCEPT !.age = 0]
  BY <1>2 DEF ClientInfo
<1>. QED  BY <1>2, <1>3, <1>4, <1>5 DEF InfoGood

\* An emptied request is the end of anything.
LEMMA InfoCleared ==
  ASSUME TableInv, NetInv', NEW x, NEW fd, InfoGood(x, fd)
  PROVE  InfoGood([x EXCEPT !.rqst = <<>>], fd)
<1>1. x \in ClientInfo
  BY DEF InfoGood
<1>2. /\ [x EXCEPT !.rqst = <<>>] \in ClientInfo
      /\ [x EXCEPT !.rqst = <<>>].rqst = <<>>
  BY <1>1, EmptySeq DEF ClientInfo
<1>3. Len(<<>>) = 0
  BY EmptySeq
<1>. QED  BY <1>2, <1>3 DEF InfoGood, EndOf, NetInv, TableInv

\* chunked_resp sends a chunk of the descriptor it is called for.
LEMMA ChunkedRespSettled ==
  ASSUME IInv, stop = "none", NEW map, NEW fd \in DOMAIN owner, MapGood(map, fd),
         chunked_resp(fd, map), net' = net
  PROVE  Settled
<1>0. fd \in Fds /\ fd \in DOMAIN map /\ InfoGood(map[fd], fd)
  BY DEF IInv, TableInv, MapGood
<1>1. CASE remove_fd(fd, map, "cut") \/ remove_fd(fd, map, "answered")
  BY <1>0, <1>1, RemoveSettled
<1>2. CASE /\ map[fd].resp > 1
           /\ clients' = With(map, fd, [map[fd] EXCEPT !.resp = @ - 1, !.age = 0])
           /\ UNCHANGED <<owner, watch, stop, fate>>
  <2>. DEFINE n == map[fd].resp - 1
  <2>1. map[fd].resp \in Nat
    BY <1>0 DEF InfoGood, ClientInfo
  <2>2. n \in Nat
    BY <1>2, <2>1
  <2>3. clients' = With(map, fd, [map[fd] EXCEPT !.resp = n, !.age = 0])
    BY <1>2
  <2>. HIDE DEF n
  <2>4. MapGood(clients', fd)
    BY <1>0, <2>2, <2>3, InfoFields, WithMap
  <2>. QED  BY <1>0, <1>2, <2>4, MapSettled
<1>. QED  BY <1>1, <1>2 DEF chunked_resp

\* The one send of a short response.
LEMMA SendWholeSettled ==
  ASSUME IInv, stop = "none", NEW map, NEW fd \in DOMAIN owner, MapGood(map, fd),
         send_whole(fd, map), net' = net
  PROVE  Settled
<1>0. fd \in Fds
  BY DEF IInv, TableInv
<1>1. CASE remove_fd(fd, map, "cut") \/ remove_fd(fd, map, "answered")
  BY <1>0, <1>1, RemoveSettled
<1>2. CASE stop' = "sigpipe" /\ clients' = map /\ UNCHANGED <<owner, watch, fate>>
  BY <1>0, <1>2, MapSettled
<1>. QED  BY <1>1, <1>2 DEF send_whole

\* An examination of a good client_info leaves a good one.
LEMMA InfoExamined ==
  ASSUME IInv, NetInv', NEW x, NEW fd, InfoGood(x, fd)
  PROVE  LET res == is_request_fulfilled(x)
         IN /\ InfoGood(res.client, fd)
            /\ res.fulfilled \in BOOLEAN /\ res.thrown \in BOOLEAN
            /\ res.fulfilled => x.rqst # <<>>
<1>. DEFINE y == is_request_fulfilled(x).client
<1>1. x \in ClientInfo /\ Examinable(x)
  BY DEF InfoGood, ClientInfo, Examinable
<1>2. /\ \/ y = x
         \/ \E r \in Seq(Token), b \in Boundary, l \in Nat : y = Update(x, r, b, l)
      /\ Keeps(x.rqst, y.rqst)
      /\ is_request_fulfilled(x).fulfilled \in BOOLEAN
      /\ is_request_fulfilled(x).thrown \in BOOLEAN
  BY <1>1, Examination
<1>3. \A r \in Seq(Token), b \in Boundary, l \in Nat : Update(x, r, b, l) \in ClientInfo
  BY <1>1 DEF Update, ClientInfo
<1>4. y \in ClientInfo
  BY <1>1, <1>2, <1>3
<1>5. is_request_fulfilled(x).fulfilled => y.rqst # <<>>
  BY <1>1, FulfilledNonempty
<1>6. x.rqst \in Seq(Token) /\ y.rqst \in Seq(Token)
  BY <1>1, <1>4 DEF ClientInfo
<1>. HIDE DEF y
<1>7. Len(x.rqst) = Len(y.rqst) /\ \A i \in 2..Len(x.rqst) : y.rqst[i] = x.rqst[i]
  BY <1>2 DEF Keeps
<1>8. InfoGood(y, fd)
  BY <1>4, <1>7 DEF InfoGood, EndOf
<1>9. y.rqst # <<>> => x.rqst # <<>>
  BY <1>6, <1>7, EmptySeq
<1>. QED  BY <1>2, <1>5, <1>8, <1>9 DEF y

\* response_handler, called for any descriptor at all.
LEMMA ResponseHandlerSettled ==
  ASSUME IInv, stop = "none", NetInv', NEW map, NEW fd \in Fds, MapGood(map, fd),
         DOMAIN map = DOMAIN owner, response_handler(fd, map), net' = net
  PROVE  Settled
<1>. DEFINE x == Info(map, fd)
            res == is_request_fulfilled(x)
<1>1. InfoGood(x, fd)
  BY InfoOfGood DEF IInv
<1>2. /\ InfoGood(res.client, fd)
      /\ res.fulfilled \in BOOLEAN /\ res.thrown \in BOOLEAN
      /\ res.fulfilled => x.rqst # <<>>
  BY <1>1, InfoExamined
<1>3. x.rqst # <<>> => fd \in DOMAIN owner
  BY DEF Info, Blank
<1>4. CASE res.thrown
  <2>1. /\ clients' = With(map, fd, res.client)
        /\ stop' = "out_of_range"
        /\ UNCHANGED <<owner, watch, fate>>
    BY <1>4 DEF response_handler
  <2>. QED  BY <1>2, <2>1, WithMap, MapSettled
<1>5. CASE ~res.thrown /\ ~res.fulfilled
  <2>1. rearm(fd, With(map, fd, res.client))
    BY <1>5 DEF response_handler
  <2>. QED  BY <1>2, <2>1, WithMap, RearmSettled
<1>6. CASE ~res.thrown /\ res.fulfilled
  <2>. DEFINE n == Blocks[owner[fd]]
              y == [res.client EXCEPT !.rqst = <<>>]
              z == [y EXCEPT !.resp = n]
  <2>1. fd \in DOMAIN owner
    BY <1>2, <1>3, <1>6
  <2>2. \/ send_whole(fd, With(map, fd, y))
        \/ chunked_resp(fd, With(map, fd, z))
    BY <1>6 DEF response_handler
  <2>3. n \in Nat
    BY <2>1, EventLoopAssumption DEF IInv, TableInv
  <2>4. InfoGood(y, fd)
    BY <1>2, InfoCleared DEF IInv
  <2>. HIDE DEF n, y
  <2>5. InfoGood(z, fd)
    BY <2>3, <2>4, InfoFields
  <2>. HIDE DEF z
  <2>6. MapGood(With(map, fd, y), fd) /\ MapGood(With(map, fd, z), fd)
    BY <2>4, <2>5, WithMap
  <2>. QED  BY <2>1, <2>2, <2>6, SendWholeSettled, ChunkedRespSettled
<1>. QED  BY <1>2, <1>4, <1>5, <1>6

-----------------------------------------------------------------------------
\* What reading does.

\* recv returns -1 and nothing is read, or the descriptor is open and its
\* connection has that many more tokens on the way.
LEMMA RecvResult ==
  ASSUME IInv, NEW fd \in Fds, NEW n \in RecvResults(fd)
  PROVE  \/ n = -1
         \/ /\ fd \in DOMAIN owner /\ owner[fd] \in Conns /\ n \in Nat
            /\ read[owner[fd]] + n <= sent[owner[fd]]
<1>. DEFINE c == owner[fd]
            here == sent[c] - read[c]
<1>1. CASE fd \notin DOMAIN owner
  BY <1>1 DEF RecvResults
<1>2. CASE fd \in DOMAIN owner
  <2>1. c \in Conns /\ sent[c] \in Nat /\ read[c] \in Nat /\ here \in Nat /\ MAX_LEN \in Nat
    BY <1>2, MaxLenAssumption DEF IInv, TableInv, NetInv
  <2>2. n \in CASE here > MAX_LEN     -> {MAX_LEN}
                [] here \in 1..MAX_LEN -> {here}
                [] here = 0 /\ net[c] = "shut"  -> {0}
                [] here = 0 /\ net[c] = "reset" -> {-1, 0}
                [] OTHER -> {-1}
    BY <1>2 DEF RecvResults
  <2>. HIDE DEF here
  <2>3. \/ here > MAX_LEN /\ n = MAX_LEN
        \/ here = n
        \/ n \in {-1, 0}
    BY <2>2
  <2>. QED  BY <1>2, <2>1, <2>3 DEF here
<1>. QED  BY <1>1, <1>2

\* The counters after a recv.
LEMMA ReadCounters ==
  ASSUME IInv, NEW fd \in Fds, NEW n \in RecvResults(fd), ReadUpTo(fd, n),
         UNCHANGED <<net, sent>>
  PROVE  /\ NetInv'
         /\ n = -1 => read' = read
         /\ n # -1 => /\ read'[owner[fd]] = read[owner[fd]] + n
                      /\ \A c \in Conns : c # owner[fd] => read'[c] = read[c]
<1>1. CASE n = -1
  BY <1>1 DEF ReadUpTo, IInv, NetInv
<1>2. CASE n # -1
  <2>1. /\ owner[fd] \in Conns /\ n \in Nat
        /\ read[owner[fd]] + n <= sent[owner[fd]]
    BY <1>2, RecvResult
  <2>2. /\ read' \in [Conns -> Nat]
        /\ read'[owner[fd]] = read[owner[fd]] + n
        /\ \A c \in Conns : c # owner[fd] => read'[c] = read[c]
    <3>1. CASE n = 0
      BY <2>1, <3>1 DEF ReadUpTo, IInv, NetInv
    <3>2. CASE n > 0
      BY <2>1, <3>2 DEF ReadUpTo, IInv, NetInv
    <3>. QED  BY <2>1, <3>1, <3>2
  <2>3. \A c \in Conns : read'[c] <= sent'[c] /\ sent'[c] <= Len(Script[c])
    BY <2>1, <2>2 DEF IInv, NetInv
  <2>. QED  BY <1>2, <2>2, <2>3 DEF IInv, NetInv
<1>. QED  BY <1>1, <1>2

\* r, followed by what recv returned: n tokens of s after the first a.
Joined(r, s, a, n) == r \o SubSeq(s, a + 1, a + n)

\* What that holds.
LEMMA Appended ==
  ASSUME NEW s \in Seq(Token), NEW a \in Nat, NEW n \in Nat, a + n <= Len(s),
         NEW r \in Seq(Token)
  PROVE  /\ Joined(r, s, a, n) \in Seq(Token)
         /\ Len(Joined(r, s, a, n)) = Len(r) + n
         /\ \A i \in 1..Len(Joined(r, s, a, n)) :
              Joined(r, s, a, n)[i] =
                IF i <= Len(r) THEN r[i] ELSE s[a + n - Len(Joined(r, s, a, n)) + i]
<1>. DEFINE seg == SubSeq(s, a + 1, a + n)
            all == r \o seg
<1>0. Len(s) \in Nat /\ Len(r) \in Nat
  BY LenProperties
<1>1. /\ seg \in Seq(Token) /\ Len(seg) = n
      /\ \A i \in 1..n : seg[i] = s[a + i]
  <2>1. CASE n = 0
    <3>1. seg = <<>>
      BY <2>1, SubSeqProperties
    <3>. HIDE DEF seg
    <3>2. seg \in Seq(Token) /\ Len(seg) = 0
      BY <3>1, EmptySeq
    <3>. QED  BY <2>1, <3>2
  <2>2. CASE n > 0
    <3>1. a + 1 \in 1..Len(s) /\ a + n \in 1..Len(s)
      BY <1>0, <2>2
    <3>2. seg \in Seq(Token)
      BY <3>1, SubSeqProperties
    <3>. QED  BY <1>0, <2>2, <3>1, <3>2, SubSeqProperties
  <2>. QED  BY <2>1, <2>2
<1>. HIDE DEF seg
<1>2. /\ all \in Seq(Token) /\ Len(all) = Len(r) + n
      /\ \A i \in 1..Len(r) + n : all[i] = IF i <= Len(r) THEN r[i] ELSE seg[i - Len(r)]
  <2>1. /\ r \o seg \in Seq(Token)
        /\ Len(r \o seg) = Len(r) + Len(seg)
        /\ \A i \in 1..Len(r) + Len(seg) :
             (r \o seg)[i] = IF i <= Len(r) THEN r[i] ELSE seg[i - Len(r)]
    BY <1>1, ConcatProperties
  <2>. QED  BY <1>1, <2>1
<1>. HIDE DEF all
<1>3. ASSUME NEW i \in 1..Len(all), ~(i <= Len(r))
      PROVE  all[i] = s[a + n - Len(all) + i]
  <2>1. i \in 1..Len(r) + n
    BY <1>2
  <2>2. i - Len(r) \in 1..n /\ a + (i - Len(r)) = a + n - Len(all) + i
    BY <1>0, <1>2, <1>3
  <2>3. seg[i - Len(r)] = s[a + (i - Len(r))]
    BY <1>1, <2>2
  <2>. QED  BY <1>2, <1>3, <2>1, <2>2, <2>3
<1>4. \A i \in 1..Len(all) :
        all[i] = IF i <= Len(r) THEN r[i] ELSE s[a + n - Len(all) + i]
  BY <1>2, <1>3
<1>. QED  BY <1>2, <1>4 DEF all, seg, Joined

\* That is again the end of what the connection has sent.
LEMMA EndOfAppend ==
  ASSUME NEW s \in Seq(Token), NEW a \in Nat, NEW n \in Nat, a + n <= Len(s),
         NEW r \in Seq(Token), EndOf(r, s, a)
  PROVE  Joined(r, s, a, n) \in Seq(Token) /\ EndOf(Joined(r, s, a, n), s, a + n)
<1>. DEFINE all == Joined(r, s, a, n)
<1>0. Len(s) \in Nat /\ Len(r) \in Nat
  BY LenProperties
<1>4. all \in Seq(Token)
  BY Appended
<1>1. /\ Len(all) = Len(r) + n
      /\ \A i \in 1..Len(all) :
           all[i] = IF i <= Len(r) THEN r[i] ELSE s[a + n - Len(all) + i]
  BY Appended
<1>. HIDE DEF all
<1>2. Len(all) <= a + n
  BY <1>0, <1>1 DEF EndOf
<1>3. ASSUME NEW i \in 2..Len(all)
      PROVE  all[i] = s[a + n - Len(all) + i]
  <2>1. i \in 1..Len(all)
    BY <1>0, <1>1
  <2>2. CASE i <= Len(r)
    <3>1. i \in 2..Len(r) /\ a + n - Len(all) + i = a - Len(r) + i
      BY <1>0, <1>1, <2>2
    <3>2. r[i] = s[a - Len(r) + i]
      BY <3>1 DEF EndOf
    <3>. QED  BY <1>1, <2>1, <2>2, <3>1, <3>2
  <2>3. CASE ~(i <= Len(r))
    BY <1>1, <2>1, <2>3
  <2>. QED  BY <2>2, <2>3
<1>. QED  BY <1>2, <1>3, <1>4 DEF EndOf, all

\* After a recv that returned something or the end of the stream: the client of
\* that descriptor has its bytes, and whatever is made of it fits in the map.
LEMMA ReadMap ==
  ASSUME IInv, stop = "none", NEW fd \in Fds, NEW n \in RecvResults(fd), n # -1,
         ReadUpTo(fd, n), UNCHANGED <<net, sent>>
  PROVE  /\ fd \in DOMAIN owner
         /\ InfoGood(Received(fd, n), fd)
         /\ \A v : InfoGood(v, fd) => /\ MapGood(With(clients, fd, v), fd)
                                      /\ DOMAIN With(clients, fd, v) = DOMAIN owner
<1>. DEFINE c == owner[fd]
            x == clients[fd]
            r == Joined(x.rqst, Script[c], read[c], n)
<1>1. /\ fd \in DOMAIN owner /\ c \in Conns /\ n \in Nat
      /\ read[c] + n <= sent[c] /\ read[c] \in Nat /\ sent[c] \in Nat
      /\ sent[c] <= Len(Script[c])
  BY RecvResult DEF IInv, NetInv
<1>2. read'[c] = read[c] + n /\ \A e \in Conns : e # c => read'[e] = read[e]
  BY ReadCounters
<1>3. fd \in DOMAIN clients /\ x \in ClientInfo /\ DOMAIN clients = DOMAIN owner
  BY <1>1 DEF IInv, TableInv
<1>4. Script[c] \in Seq(Token) /\ Len(Script[c]) \in Nat
  BY <1>1, EventLoopAssumption, LenProperties
<1>5. x.rqst \in Seq(Token) /\ EndOf(x.rqst, Script[c], read[c])
  BY <1>1, <1>3 DEF IInv, BytesInv, ClientInfo
<1>6. read[c] + n <= Len(Script[c])
  BY <1>1, <1>4
<1>7. r \in Seq(Token) /\ EndOf(r, Script[c], read[c] + n)
  BY <1>1, <1>4, <1>5, <1>6, EndOfAppend
<1>8. Received(fd, n) = [x EXCEPT !.rqst = r]
  BY <1>3 DEF Received, rqst_append, Info, Joined
<1>. HIDE DEF r
<1>9. [x EXCEPT !.rqst = r] \in ClientInfo /\ [x EXCEPT !.rqst = r].rqst = r
  BY <1>3, <1>7 DEF ClientInfo
<1>10. InfoGood(Received(fd, n), fd)
  BY <1>2, <1>7, <1>8, <1>9 DEF InfoGood
<1>11. \A f \in DOMAIN clients : f # fd => InfoGood(clients[f], f)
  BY <1>1, <1>2, <1>3 DEF IInv, TableInv, BytesInv, InfoGood
<1>12. \A v : InfoGood(v, fd) => /\ MapGood(With(clients, fd, v), fd)
                                 /\ DOMAIN With(clients, fd, v) = DOMAIN owner
  BY <1>1, <1>3, <1>11 DEF With, MapGood
<1>13. fd \in DOMAIN owner
  BY <1>1
<1>. HIDE DEF c, x
<1>. QED  BY <1>10, <1>12, <1>13

-----------------------------------------------------------------------------
\* The steps of the server.

\* A step that serves a descriptor leaves the queue as good as it was.
LEMMA Serves ==
  ASSUME IInv, NetInv', Settled, ControlInv', UNCHANGED <<net, backlog>>
  PROVE  IInv'
<1>1. \A i \in 1..Len(backlog) : backlog[i] \in Conns
  BY ElementOfSeq DEF IInv, QueueInv
<1>2. \A c \in Conns : net[c] = "out" => \A f \in DOMAIN owner : owner[f] # c
  BY DEF IInv, TableInv
<1>3. QueueInv'
  BY <1>1, <1>2 DEF IInv, QueueInv, Settled
<1>. QED  BY <1>3 DEF IInv, Settled

\* The counters when nothing is read.
LEMMA NothingRead ==
  ASSUME IInv, UNCHANGED <<net, sent, read>>
  PROVE  NetInv'
BY DEF IInv, NetInv

\* it stands on a descriptor, past one, or wherever a freed node points.
LEMMA IteratorPlaces ==
  /\ \A fd \in Fds : fd + 1 \in 1..End
  /\ \A map : DOMAIN map \subseteq Fds => Landings(map) \subseteq 1..End
BY EventLoopAssumption DEF Fds, End, Landings

\* handle_chunks, a client with a partial request: a segment may be appended,
\* and the client joins `ready` when its request is complete.
LEMMA ChunkedRqstInv ==
  ASSUME IInv, NEW fd \in Fds, ChunkedRqst(fd)
  PROVE  IInv'
<1>1. PICK n \in RecvResults(fd) :
       \E client \in {IF n = -1 THEN clients[fd]
                      ELSE [Received(fd, n) EXCEPT !.age = 0]} :
         \E res \in {is_request_fulfilled(client)} :
           /\ ReadUpTo(fd, n)
           /\ IF res.thrown \/ res.fulfilled
              THEN /\ clients' = With(clients, fd, res.client)
                   /\ stop' = IF res.thrown THEN "out_of_range" ELSE stop
                   /\ UNCHANGED <<owner, watch, fate>>
              ELSE rearm(fd, With(clients, fd, res.client))
           /\ ready' = IF res.fulfilled THEN Append(ready, fd) ELSE ready
  BY DEF ChunkedRqst
<1>. DEFINE x == IF n = -1 THEN clients[fd] ELSE [Received(fd, n) EXCEPT !.age = 0]
            res == is_request_fulfilled(x)
            map == With(clients, fd, res.client)
<1>2. /\ ReadUpTo(fd, n)
      /\ \/ rearm(fd, map)
         \/ /\ clients' = map /\ stop' \in {"out_of_range", stop}
            /\ UNCHANGED <<owner, watch, fate>>
      /\ ready' \in {Append(ready, fd), ready}
  BY <1>1
<1>3. /\ stop = "none" /\ UNCHANGED <<net, sent, backlog, evfd, pc, events>> /\ it' = fd + 1
      /\ fd \in DOMAIN clients
  BY DEF ChunkedRqst, Running, First, ToPoll
<1>4. fd \in DOMAIN owner
  BY <1>3 DEF IInv, TableInv
<1>5. NetInv' /\ (n = -1 => read' = read)
  BY <1>2, <1>3, ReadCounters
<1>6. InfoGood(x, fd) /\ \A v : InfoGood(v, fd) => MapGood(With(clients, fd, v), fd)
  <2>1. CASE n = -1
    <3>1. MapGood(clients, fd)
      BY <1>3, <1>5, <2>1, ClientsMap
    <3>. QED  BY <1>3, <2>1, <3>1, WithMap DEF MapGood
  <2>2. CASE n # -1
    <3>1. /\ InfoGood(Received(fd, n), fd)
          /\ \A v : InfoGood(v, fd) => MapGood(With(clients, fd, v), fd)
      BY <1>2, <1>3, <2>2, ReadMap
    <3>. QED  BY <2>2, <3>1, InfoFields
  <2>. QED  BY <2>1, <2>2
<1>. HIDE DEF x
<1>7. InfoGood(res.client, fd)
  BY <1>5, <1>6, InfoExamined
<1>8. MapGood(map, fd)
  BY <1>6, <1>7
<1>. HIDE DEF map, res
<1>9. Settled
  BY <1>2, <1>3, <1>4, <1>5, <1>8, RearmSettled, MapSettled
<1>10. ControlInv'
  <2>1. Append(ready, fd) \in Seq(Fds)
    BY AppendProperties DEF IInv, ControlInv
  <2>. QED  BY <1>2, <1>3, <2>1, IteratorPlaces DEF IInv, ControlInv
<1>. QED  BY <1>3, <1>5, <1>9, <1>10, Serves

\* handle_chunks, a client with chunks of a response left: one is sent, or the
\* client is removed.
LEMMA ChunkedRespInv ==
  ASSUME IInv, NEW fd \in Fds, ChunkedResp(fd)
  PROVE  IInv'
<1>1. /\ stop = "none" /\ fd \in DOMAIN clients
      /\ chunked_resp(fd, clients)
      /\ it' \in IF fd \in DOMAIN clients' THEN {fd + 1} ELSE Landings(clients')
      /\ UNCHANGED <<net, sent, read, backlog, evfd, pc, ready, events>>
  BY DEF ChunkedResp, Running, First, ToPoll
<1>2. NetInv'
  BY <1>1, NothingRead
<1>3. fd \in DOMAIN owner
  BY <1>1 DEF IInv, TableInv
<1>4. MapGood(clients, fd)
  BY <1>1, ClientsMap
<1>5. Settled
  BY <1>1, <1>3, <1>4, ChunkedRespSettled
<1>6. ControlInv'
  <2>1. DOMAIN clients' \subseteq Fds
    BY <1>5 DEF Settled, TableInv
  <2>. QED  BY <1>1, <2>1, IteratorPlaces DEF IInv, ControlInv
<1>. QED  BY <1>1, <1>2, <1>5, <1>6, Serves

\* A client found complete by handle_chunks goes through response_handler.
LEMMA AnswerInv ==
  ASSUME IInv, Answer
  PROVE  IInv'
<1>1. /\ stop = "none" /\ ready # <<>>
      /\ response_handler(Head(ready), clients)
      /\ ready' = Tail(ready)
      /\ UNCHANGED <<net, sent, read, backlog, evfd, pc, it, events>>
  BY DEF Answer, Running
<1>2. Head(ready) \in Fds /\ Tail(ready) \in Seq(Fds)
  BY <1>1, HeadTailProperties DEF IInv, ControlInv
<1>3. NetInv'
  BY <1>1, NothingRead
<1>4. MapGood(clients, Head(ready)) /\ DOMAIN clients = DOMAIN owner
  BY <1>1, ClientsMap DEF IInv, TableInv
<1>5. Settled
  BY <1>1, <1>2, <1>3, <1>4, ResponseHandlerSettled
<1>6. ControlInv'
  BY <1>1, <1>2 DEF IInv, ControlInv
<1>. QED  BY <1>1, <1>3, <1>5, <1>6, Serves

\* An event of a client's socket: recv, then response_handler or rearm.
LEMMA ReadEventInv ==
  ASSUME IInv, ReadEvent
  PROVE  IInv'
<1>. DEFINE fd == Head(events)
<1>1. /\ stop = "none" /\ events # <<>> /\ fd # Listen
      /\ events' = Tail(events)
      /\ UNCHANGED <<net, sent, backlog, evfd, pc, it, ready>>
  BY DEF ReadEvent, Running
<1>2. PICK n \in RecvResults(fd) :
          /\ ReadUpTo(fd, n)
          /\ IF n = -1 THEN rearm(fd, clients)
             ELSE response_handler(fd, With(clients, fd, Received(fd, n)))
  BY DEF ReadEvent
<1>3. fd \in Fds /\ Tail(events) \in Seq(Fds \cup {Listen})
  BY <1>1, HeadTailProperties DEF IInv, ControlInv
<1>. HIDE DEF fd
<1>4. NetInv' /\ (n = -1 => read' = read)
  BY <1>1, <1>2, <1>3, ReadCounters
<1>5. Settled
  <2>1. CASE n = -1
    <3>1. MapGood(clients, fd)
      BY <1>1, <1>4, <2>1, ClientsMap
    <3>. QED  BY <1>1, <1>2, <1>3, <1>4, <2>1, <3>1, RearmSettled
  <2>2. CASE n # -1
    <3>. DEFINE map == With(clients, fd, Received(fd, n))
    <3>1. MapGood(map, fd) /\ DOMAIN map = DOMAIN owner
      BY <1>1, <1>2, <1>3, <2>2, ReadMap
    <3>2. response_handler(fd, map)
      BY <1>2, <2>2
    <3>. HIDE DEF map
    <3>. QED  BY <1>1, <1>3, <1>4, <3>1, <3>2, ResponseHandlerSettled
  <2>. QED  BY <2>1, <2>2
<1>6. ControlInv'
  BY <1>1, <1>3 DEF IInv, ControlInv
<1>. QED  BY <1>1, <1>4, <1>5, <1>6, Serves

\* check_all_timeout removes one client and moves on.
LEMMA CloseExpiredInv ==
  ASSUME IInv, NEW fd \in Fds, CloseExpired(fd)
  PROVE  IInv'
<1>1. /\ stop = "none"
      /\ remove_fd(fd, clients, "expired")
      /\ it' \in Landings(clients')
      /\ UNCHANGED <<net, sent, read, backlog, evfd, pc, ready, events>>
  BY DEF CloseExpired, Running
<1>2. NetInv'
  BY <1>1, NothingRead
<1>3. Settled
  BY <1>1, ClientsMap, RemoveSettled
<1>4. ControlInv'
  <2>1. DOMAIN clients' \subseteq Fds
    BY <1>3 DEF Settled, TableInv
  <2>. QED  BY <1>1, <2>1, IteratorPlaces DEF IInv, ControlInv
<1>. QED  BY <1>1, <1>2, <1>3, <1>4, Serves

\* A connection leaves the queue for the lowest free descriptor.
LEMMA AcceptInv ==
  ASSUME IInv, NEW fd \in Fds, Accept(fd)
  PROVE  IInv'
<1>. DEFINE c == Head(backlog)
            x == [Info(clients, fd) EXCEPT !.age = 0]
            n == Len(backlog)
<1>1. /\ stop = "none" /\ events # <<>> /\ backlog # <<>> /\ fd \notin DOMAIN owner
      /\ owner' = With(owner, fd, c)
      /\ backlog' = Tail(backlog)
      /\ evfd' = fd
      /\ watch' = With(watch, fd, [on |-> TRUE, data |-> fd])
      /\ clients' = With(clients, fd, x)
      /\ events' = Tail(events)
      /\ UNCHANGED <<net, sent, read, pc, it, ready, stop, fate>>
  BY DEF Accept, Running, First
<1>2. /\ n \in Nat /\ c = backlog[1] /\ 1 \in 1..n
      /\ backlog' \in Seq(Conns) /\ Len(backlog') = n - 1
      /\ \A i \in 1..Len(backlog') : backlog'[i] = backlog[i + 1]
  BY <1>1, HeadTailProperties, LenProperties, EmptySeq DEF IInv, QueueInv
<1>3. /\ c \in Conns /\ net[c] # "out" /\ fate[c] = "none"
      /\ \A f \in DOMAIN owner : owner[f] # c
      /\ \A i \in 2..n : backlog[i] # c
  BY <1>2, ElementOfSeq DEF IInv, QueueInv
<1>4. NetInv'
  BY <1>1, NothingRead
<1>5. InfoGood(Info(clients, fd), fd)
  BY <1>1, <1>4, ClientsMap, InfoOfGood DEF IInv
<1>6. Info(clients, fd).rqst = <<>>
  BY <1>1 DEF IInv, TableInv, Info, Blank
<1>7. x \in ClientInfo /\ x.rqst = <<>>
  <2>1. Info(clients, fd) \in ClientInfo
    BY <1>5 DEF InfoGood
  <2>2. x.rqst = Info(clients, fd).rqst
    BY <2>1 DEF ClientInfo
  <2>3. x \in ClientInfo
    BY <1>5, InfoFields DEF InfoGood
  <2>. QED  BY <1>6, <2>2, <2>3
<1>. HIDE DEF c, x
<1>8. /\ DOMAIN owner' = DOMAIN owner \cup {fd} /\ owner'[fd] = c
      /\ \A f \in DOMAIN owner : owner'[f] = owner[f]
  BY <1>1 DEF With
<1>9. /\ DOMAIN clients' = DOMAIN clients \cup {fd} /\ clients'[fd] = x
      /\ \A f \in DOMAIN clients : f # fd => clients'[f] = clients[f]
  BY <1>1 DEF With
<1>10. /\ DOMAIN watch' = DOMAIN watch \cup {fd} /\ watch'[fd] = [on |-> TRUE, data |-> fd]
       /\ \A f \in DOMAIN watch : f # fd => watch'[f] = watch[f]
  BY <1>1 DEF With
<1>11. TableInv'
  <2>1. [on |-> TRUE, data |-> fd] \in [on : BOOLEAN, data : Fds \cup {Listen}]
    OBVIOUS
  <2>2. /\ DOMAIN owner' \subseteq Fds /\ \A f \in DOMAIN owner' : owner'[f] \in Conns
        /\ \A f, g \in DOMAIN owner' : owner'[f] = owner'[g] => f = g
        /\ \A f \in DOMAIN owner' : fate'[owner'[f]] = "none" /\ net'[owner'[f]] # "out"
    BY <1>1, <1>3, <1>8 DEF IInv, TableInv
  <2>3. /\ DOMAIN watch' \subseteq Fds
        /\ \A f \in DOMAIN watch' : watch'[f] \in [on : BOOLEAN, data : Fds \cup {Listen}]
    BY <1>10, <2>1 DEF IInv, TableInv
  <2>4. DOMAIN clients' \subseteq Fds /\ \A f \in DOMAIN clients' : clients'[f] \in ClientInfo
    BY <1>7, <1>9 DEF IInv, TableInv
  <2>5. DOMAIN clients' = DOMAIN owner' /\ DOMAIN watch' = DOMAIN owner'
    BY <1>1, <1>8, <1>9, <1>10 DEF IInv, TableInv
  <2>. QED  BY <1>1, <2>2, <2>3, <2>4, <2>5 DEF IInv, TableInv
<1>12. BytesInv'
  <2>1. EndOf(<<>>, Script[c], read[c])
    BY <1>3, EmptySeq DEF IInv, NetInv, EndOf
  <2>. QED  BY <1>1, <1>7, <1>8, <1>9, <2>1 DEF IInv, TableInv, BytesInv
<1>13. QueueInv'
  <2>1. \A i \in 1..Len(backlog') : i + 1 \in 2..n
    BY <1>2
  <2>2. ASSUME NEW i \in 1..Len(backlog')
        PROVE  /\ net'[backlog'[i]] # "out" /\ fate'[backlog'[i]] = "none"
               /\ \A f \in DOMAIN owner' : owner'[f] # backlog'[i]
               /\ \A j \in 1..Len(backlog') : backlog'[i] = backlog'[j] => i = j
    <3>1. i + 1 \in 1..n /\ backlog'[i] = backlog[i + 1] /\ backlog[i + 1] # c
      BY <1>2, <1>3, <2>1
    <3>2. net'[backlog'[i]] # "out" /\ fate'[backlog'[i]] = "none"
      BY <1>1, <3>1 DEF IInv, QueueInv
    <3>3. \A f \in DOMAIN owner' : owner'[f] # backlog'[i]
      BY <1>8, <3>1 DEF IInv, QueueInv
    <3>4. ASSUME NEW j \in 1..Len(backlog'), backlog'[i] = backlog'[j]
          PROVE  i = j
      <4>1. j + 1 \in 1..n /\ backlog'[j] = backlog[j + 1]
        BY <1>2, <2>1
      <4>2. i + 1 = j + 1
        BY <3>1, <3>4, <4>1 DEF IInv, QueueInv
      <4>. QED  BY <4>2, <1>2
    <3>. QED  BY <3>2, <3>3, <3>4
  <2>. QED  BY <1>1, <1>2, <2>2 DEF IInv, QueueInv
<1>14. ControlInv'
  BY <1>1, HeadTailProperties DEF IInv, ControlInv
<1>. QED  BY <1>4, <1>11, <1>12, <1>13, <1>14 DEF IInv

\* epoll_wait disarms what it reports; the events are descriptors, in an order.
LEMMA EpollWaitInv ==
  ASSUME IInv, EpollWait
  PROVE  IInv'
<1>1. PICK reported \in SUBSET DOMAIN watch :
          /\ watch' = [fd \in DOMAIN watch |->
                         IF fd \in reported THEN [watch[fd] EXCEPT !.on = FALSE]
                         ELSE watch[fd]]
          /\ \E q \in Orders(reported \cup IF backlog = <<>> THEN {} ELSE {Listen}) :
               events' = [i \in DOMAIN q |->
                            IF q[i] = Listen THEN Listen ELSE watch[q[i]].data]
  <2>. DEFINE armed == {fd \in DOMAIN watch : watch[fd].on}
              surely == {fd \in armed : Ready(fd)}
  <2>1. \A S \in SUBSET (armed \ surely) : surely \cup S \in SUBSET DOMAIN watch
    OBVIOUS
  <2>. QED  BY <2>1 DEF EpollWait
<1>2. PICK q \in Orders(reported \cup IF backlog = <<>> THEN {} ELSE {Listen}) :
               events' = [i \in DOMAIN q |->
                            IF q[i] = Listen THEN Listen ELSE watch[q[i]].data]
  BY <1>1
<1>3. /\ pc' = "events"
      /\ UNCHANGED <<net, sent, read, backlog, owner, evfd, clients, it, ready, stop, fate>>
  BY DEF EpollWait
<1>. DEFINE S == reported \cup IF backlog = <<>> THEN {} ELSE {Listen}
<1>4. S \subseteq 0..NFDS
  BY EventLoopAssumption DEF IInv, TableInv, Fds, Listen
<1>5. Cardinality(S) \in Nat
  <2>1. IsFiniteSet(0..NFDS)
    BY EventLoopAssumption, FS_Interval
  <2>2. S \in SUBSET (0..NFDS)
    BY <1>4
  <2>. HIDE DEF S
  <2>3. IsFiniteSet(S)
    BY <2>1, <2>2, FS_Subset
  <2>. QED  BY <2>3, FS_CardinalityType
<1>6. DOMAIN q = 1..Cardinality(S) /\ \A i \in DOMAIN q : q[i] \in S
  BY <1>2 DEF Orders
<1>7. \A i \in DOMAIN q : q[i] # Listen => q[i] \in DOMAIN watch
  BY <1>1, <1>6
<1>. HIDE DEF S
<1>8. \A i \in 1..Cardinality(S) : events'[i] \in Fds \cup {Listen}
  BY <1>2, <1>6, <1>7 DEF IInv, TableInv
<1>9. events' \in Seq(Fds \cup {Listen})
  <2>. DEFINE k == Cardinality(S)
  <2>1. events' \in [1..k -> Fds \cup {Listen}]
    BY <1>2, <1>6, <1>8
  <2>. HIDE DEF k
  <2>. QED  BY <1>5, <2>1, SeqDef DEF k
<1>10. ControlInv'
  BY <1>3, <1>9 DEF IInv, ControlInv
<1>11. \A fd \in DOMAIN watch :
         [watch[fd] EXCEPT !.on = FALSE] \in [on : BOOLEAN, data : Fds \cup {Listen}]
  BY DEF IInv, TableInv
<1>12. TableInv'
  BY <1>1, <1>3, <1>11 DEF IInv, TableInv
<1>13. NetInv' /\ BytesInv' /\ QueueInv'
  BY <1>3 DEF IInv, NetInv, BytesInv, QueueInv
<1>. QED  BY <1>10, <1>12, <1>13 DEF IInv

\* The steps between two phases, and an accept that fails.
LEMMA PhaseInv ==
  ASSUME IInv, ChunksDone \/ AnswersDone \/ EventsDone \/ TimeoutsDone \/ AcceptFails
  PROVE  IInv'
<1>1. ControlInv'
  BY EventLoopAssumption
  DEF IInv, ControlInv, ChunksDone, AnswersDone, EventsDone, TimeoutsDone, AcceptFails, End
<1>2. NetInv' /\ BytesInv' /\ QueueInv'
  BY DEF IInv, NetInv, BytesInv, QueueInv,
         ChunksDone, AnswersDone, EventsDone, TimeoutsDone, AcceptFails
<1>3. TableInv'
  BY DEF IInv, TableInv, ChunksDone, AnswersDone, EventsDone, TimeoutsDone, AcceptFails
<1>. QED  BY <1>1, <1>2, <1>3 DEF IInv

\* Every iteration of a loop of server::run preserves the invariant.
LEMMA ServerInv ==
  ASSUME IInv, Server
  PROVE  IInv'
BY ChunkedRqstInv, ChunkedRespInv, AcceptInv, CloseExpiredInv, PhaseInv,
   AnswerInv, EpollWaitInv, ReadEventInv DEF Server

\* So does every step of the server, of time and of the peers: the invariant
\* is inductive.
LEMMA IInvStep == IInv /\ [Next]_vars => IInv'
<1>. SUFFICES ASSUME IInv, [Next]_vars PROVE IInv'
  OBVIOUS
<1>1. CASE Server
  BY <1>1, ServerInv
<1>2. CASE Tick
  BY <1>2, TickInv
<1>3. ASSUME NEW c \in Conns, Peer(c)
      PROVE  IInv'
  BY <1>3, ConnectInv, PeerInv DEF Peer
<1>4. CASE UNCHANGED vars
  BY <1>4 DEF vars, IInv, NetInv, TableInv, BytesInv, QueueInv, ControlInv
<1>. QED  BY <1>1, <1>2, <1>3, <1>4 DEF Next

-----------------------------------------------------------------------------
\* Every variable keeps its type, however many connections, descriptors and
\* events there are.
THEOREM TypeCorrect == Spec => []TypeOK
<1>1. IInv => TypeOK
  BY IInvImplies
<1>. QED  BY <1>1, IInvInit, IInvStep, PTL DEF Spec

\* While the process lives, the clients of client_handler, the descriptors epoll
\* watches and the open descriptors are the same, although add, remove_fd and
\* check_all_timeout change them in separate places and events outlive them.
THEOREM DescriptorsAlwaysAgree == Spec => []DescriptorsAgree
<1>1. IInv => DescriptorsAgree
  BY IInvImplies
<1>. QED  BY <1>1, IInvInit, IInvStep, PTL DEF Spec

\* The request buffer of a descriptor holds bytes of the connection that has it,
\* in order and without a gap: descriptors that are closed, reused or named by
\* the wrong event never mix the requests of two peers.
THEOREM BytesStayOwn == Spec => []OwnBytes
<1>1. IInv => OwnBytes
  BY IInvImplies
<1>. QED  BY <1>1, IInvInit, IInvStep, PTL DEF Spec

\* No connection has two descriptors, and none keeps one after it was closed.
THEOREM OneDescriptorEach == Spec => []OneDescriptor
<1>1. IInv => OneDescriptor
  BY IInvImplies
<1>. QED  BY <1>1, IInvInit, IInvStep, PTL DEF Spec

-----------------------------------------------------------------------------
\* A response is not begun again without more bytes of its own connection.

\* The connection of f has bytes that no response has answered yet, or some were
\* read in this step.
Fed(f) == clients[f].rqst # <<>> \/ read'[owner[f]] > read[owner[f]]

\* No response of map is longer than it was in clients, except where that is so.
Shorter(map) ==
  \A f \in DOMAIN owner : f \in DOMAIN map /\ (map[f].resp <= clients[f].resp \/ Fed(f))

\* The same of a step, and no descriptor changes hands in it.
RunsOn ==
  \A f \in DOMAIN owner' :
    IF f \in DOMAIN owner
    THEN owner'[f] = owner[f] /\ (clients'[f].resp <= clients[f].resp \/ Fed(f))
    ELSE \A g \in DOMAIN owner : owner[g] # owner'[f]

\* clients itself is so.
LEMMA ClientsShorter ==
  ASSUME IInv
  PROVE  Shorter(clients)
<1>1. \A f \in DOMAIN owner : f \in DOMAIN clients /\ clients[f].resp \in Nat
  BY DEF IInv, TableInv, ClientInfo
<1>. QED  BY <1>1 DEF Shorter

\* And stays so when one client is replaced.
LEMMA WithShorter ==
  ASSUME NEW map, NEW fd, NEW v, Shorter(map),
         fd \in DOMAIN owner => v.resp <= clients[fd].resp \/ Fed(fd)
  PROVE  Shorter(With(map, fd, v))
BY DEF Shorter, With

\* rearm writes the start time only.
LEMMA RearmRunsOn ==
  ASSUME TableInv, NEW map, NEW fd, MapGood(map, fd), Shorter(map), rearm(fd, map)
  PROVE  RunsOn
<1>. DEFINE x == Info(map, fd)
            y == [x EXCEPT !.age = 0]
<1>1. owner' = owner /\ (clients' = With(map, fd, x) \/ clients' = With(map, fd, y))
  BY DEF rearm
<1>2. fd \in DOMAIN owner => x = map[fd] /\ x \in ClientInfo
  BY DEF Info, MapGood, InfoGood
<1>. HIDE DEF x
<1>3. x \in ClientInfo => y.resp = x.resp
  BY DEF ClientInfo
<1>. HIDE DEF y
<1>4. Shorter(With(map, fd, x)) /\ Shorter(With(map, fd, y))
  BY <1>2, <1>3, WithShorter DEF Shorter
<1>. QED  BY <1>1, <1>4 DEF RunsOn, Shorter

\* remove_fd takes one client away.
LEMMA RemoveRunsOn ==
  ASSUME NEW map, NEW fd, NEW why, Shorter(map), remove_fd(fd, map, why)
  PROVE  RunsOn
BY DEF RunsOn, Shorter, remove_fd, Without

\* chunked_resp sends a chunk, of a response that may begin only where more was
\* received.
LEMMA ChunkedRespRunsOn ==
  ASSUME NEW map, NEW fd \in DOMAIN owner, MapGood(map, fd), Shorter(map),
         clients[fd].resp \in Nat, chunked_resp(fd, map)
  PROVE  RunsOn
<1>1. CASE remove_fd(fd, map, "cut") \/ remove_fd(fd, map, "answered")
  BY <1>1, RemoveRunsOn
<1>2. CASE /\ clients' = With(map, fd, [map[fd] EXCEPT !.resp = @ - 1, !.age = 0])
           /\ UNCHANGED <<owner, watch, stop, fate>>
  <2>. DEFINE x == map[fd]
              n == x.resp - 1
              y == [x EXCEPT !.resp = n]
              z == [y EXCEPT !.age = 0]
  <2>1. x \in ClientInfo /\ (x.resp <= clients[fd].resp \/ Fed(fd))
    BY DEF MapGood, InfoGood, Shorter
  <2>2. clients' = With(map, fd, z)
    BY <1>2
  <2>3. x.resp \in Nat
    BY <2>1 DEF ClientInfo
  <2>4. z.resp = n
    <3>1. y.resp = n
      BY <2>1 DEF ClientInfo
    <3>2. z.resp = y.resp
      BY <2>1 DEF ClientInfo
    <3>. HIDE DEF z, y, n
    <3>. QED  BY <3>1, <3>2
  <2>5. z.resp <= clients[fd].resp \/ Fed(fd)
    <3>1. n <= x.resp /\ n \in Int
      BY <2>3
    <3>. HIDE DEF z, n, x
    <3>. QED  BY <2>1, <2>3, <2>4, <3>1
  <2>. HIDE DEF z, x
  <2>6. Shorter(With(map, fd, z))
    BY <2>5, WithShorter
  <2>. QED  BY <1>2, <2>2, <2>6 DEF RunsOn, Shorter
<1>. QED  BY <1>1, <1>2 DEF chunked_resp

\* response_handler begins a response only for a buffer that is not empty.
LEMMA HandlerRunsOn ==
  ASSUME IInv, NetInv', NEW map, NEW fd \in Fds, MapGood(map, fd), DOMAIN map = DOMAIN owner,
         Shorter(map), response_handler(fd, map),
         fd \in DOMAIN owner /\ map[fd].rqst # <<>> => Fed(fd)
  PROVE  RunsOn
<1>. DEFINE x == Info(map, fd)
            res == is_request_fulfilled(x)
<1>1. InfoGood(x, fd)
  BY InfoOfGood DEF IInv
<1>2. /\ InfoGood(res.client, fd)
      /\ res.fulfilled \in BOOLEAN /\ res.thrown \in BOOLEAN
      /\ res.fulfilled => x.rqst # <<>>
  BY <1>1, InfoExamined
<1>3. x.rqst # <<>> => fd \in DOMAIN owner /\ Fed(fd)
  BY DEF Info, Blank
<1>4. res.client.resp = x.resp
  <2>1. x \in ClientInfo /\ Examinable(x)
    BY <1>1 DEF InfoGood, ClientInfo, Examinable
  <2>2. \/ res.client = x
        \/ \E r \in Seq(Token), b \in Boundary, l \in Nat : res.client = Update(x, r, b, l)
    BY <2>1, Examination
  <2>3. \A r, b, l : Update(x, r, b, l).resp = x.resp
    BY <2>1 DEF Update, ClientInfo
  <2>. HIDE DEF x, res
  <2>. QED  BY <2>2, <2>3
<1>5. fd \in DOMAIN owner => x = map[fd]
  BY DEF Info
<1>6. Shorter(With(map, fd, res.client))
  <2>. HIDE DEF x, res
  <2>. QED  BY <1>4, <1>5, WithShorter DEF Shorter
<1>7. CASE res.thrown
  <2>1. clients' = With(map, fd, res.client) /\ owner' = owner
    BY <1>7 DEF response_handler
  <2>. QED  BY <1>6, <2>1 DEF RunsOn, Shorter
<1>8. CASE ~res.thrown /\ ~res.fulfilled
  <2>1. rearm(fd, With(map, fd, res.client))
    BY <1>8 DEF response_handler
  <2>. HIDE DEF res
  <2>2. MapGood(With(map, fd, res.client), fd)
    BY <1>2, WithMap
  <2>. QED  BY <1>6, <2>1, <2>2, RearmRunsOn DEF IInv
<1>9. CASE ~res.thrown /\ res.fulfilled
  <2>. DEFINE n == Blocks[owner[fd]]
              y == [res.client EXCEPT !.rqst = <<>>]
              z == [y EXCEPT !.resp = n]
  <2>1. fd \in DOMAIN owner /\ Fed(fd)
    BY <1>2, <1>3, <1>9
  <2>2. \/ send_whole(fd, With(map, fd, y))
        \/ chunked_resp(fd, With(map, fd, z))
    BY <1>9 DEF response_handler
  <2>3. n \in Nat /\ clients[fd].resp \in Nat
    BY <2>1, EventLoopAssumption DEF IInv, TableInv, ClientInfo
  <2>4. InfoGood(y, fd)
    BY <1>2, InfoCleared DEF IInv
  <2>. HIDE DEF n, y
  <2>5. InfoGood(z, fd)
    BY <2>3, <2>4, InfoFields
  <2>. HIDE DEF z
  <2>6. MapGood(With(map, fd, z), fd) /\ Shorter(With(map, fd, y)) /\ Shorter(With(map, fd, z))
    BY <2>1, <2>4, <2>5, WithMap, WithShorter
  <2>7. CASE send_whole(fd, With(map, fd, y))
    <3>1. CASE remove_fd(fd, With(map, fd, y), "answered") \/ remove_fd(fd, With(map, fd, y), "cut")
      BY <2>6, <3>1, RemoveRunsOn
    <3>2. CASE clients' = With(map, fd, y) /\ UNCHANGED <<owner, watch, fate>>
      BY <2>6, <3>2 DEF RunsOn, Shorter
    <3>. QED  BY <2>7, <3>1, <3>2 DEF send_whole
  <2>8. CASE chunked_resp(fd, With(map, fd, z))
    BY <2>1, <2>3, <2>6, <2>8, ChunkedRespRunsOn
  <2>. QED  BY <2>2, <2>7, <2>8
<1>. QED  BY <1>2, <1>7, <1>8, <1>9

\* An event: what is examined is what the buffer had and what was read.
LEMMA ReadEventRunsOn ==
  ASSUME IInv, ReadEvent
  PROVE  RunsOn
<1>1. /\ stop = "none" /\ events # <<>> /\ Head(events) # Listen /\ UNCHANGED <<net, sent>>
  BY DEF ReadEvent, Running
<1>2. PICK fd : fd = Head(events)
  OBVIOUS
<1>3. PICK n \in RecvResults(fd) :
          /\ ReadUpTo(fd, n)
          /\ IF n = -1 THEN rearm(fd, clients)
             ELSE response_handler(fd, With(clients, fd, Received(fd, n)))
  BY <1>2 DEF ReadEvent
<1>4. fd \in Fds
  BY <1>1, <1>2, HeadTailProperties DEF IInv, ControlInv
<1>5. NetInv' /\ (n = -1 => read' = read)
  BY <1>1, <1>3, <1>4, ReadCounters
<1>6. CASE n = -1
  BY <1>1, <1>3, <1>5, <1>6, ClientsMap, ClientsShorter, RearmRunsOn DEF IInv
<1>7. CASE n # -1
  <2>. DEFINE y == Received(fd, n)
              map == With(clients, fd, y)
  <2>1. /\ fd \in DOMAIN owner /\ InfoGood(y, fd)
        /\ MapGood(map, fd) /\ DOMAIN map = DOMAIN owner
    BY <1>1, <1>3, <1>4, <1>7, ReadMap
  <2>2. /\ owner[fd] \in Conns /\ n \in Nat /\ read[owner[fd]] \in Nat
        /\ read'[owner[fd]] = read[owner[fd]] + n
        /\ fd \in DOMAIN clients /\ clients[fd] \in ClientInfo
    BY <1>1, <1>3, <1>4, <1>7, <2>1, RecvResult, ReadCounters DEF IInv, TableInv, NetInv
  <2>3. y.resp = clients[fd].resp
    BY <2>2 DEF Received, rqst_append, Info, ClientInfo
  <2>4. y.rqst # <<>> => Fed(fd)
    <3>1. CASE n > 0
      BY <2>2, <3>1 DEF Fed
    <3>2. CASE n = 0 /\ clients[fd].rqst = <<>>
      <4>1. y.rqst = <<>> \o SubSeq(Script[owner[fd]], read[owner[fd]] + 1, read[owner[fd]] + 0)
        BY <2>2, <3>2 DEF Received, rqst_append, Info, ClientInfo
      <4>2. SubSeq(Script[owner[fd]], read[owner[fd]] + 1, read[owner[fd]] + 0) = <<>>
        BY <2>2, EventLoopAssumption, SubSeqProperties
      <4>. QED  BY <4>1, <4>2, ConcatEmptySeq, EmptySeq
    <3>. QED  BY <2>2, <3>1, <3>2 DEF Fed
  <2>5. response_handler(fd, map)
    BY <1>3, <1>7
  <2>6. map[fd] = y
    BY DEF With
  <2>. HIDE DEF y
  <2>7. Shorter(map)
    <3>1. clients[fd].resp \in Nat
      BY <2>2 DEF ClientInfo
    <3>. QED  BY <2>3, <3>1, ClientsShorter, WithShorter
  <2>. HIDE DEF map
  <2>. QED  BY <1>4, <1>5, <2>1, <2>4, <2>5, <2>6, <2>7, HandlerRunsOn
<1>. QED  BY <1>6, <1>7

\* The other steps of the server.
LEMMA ServerRunsOn ==
  ASSUME IInv, Server
  PROVE  RunsOn
<1>1. ASSUME NEW fd \in Fds, ChunkedRqst(fd)
      PROVE  RunsOn
  <2>1. stop = "none" /\ clients[fd].rqst # <<>> /\ fd \in DOMAIN clients /\ UNCHANGED <<net, sent>>
    BY <1>1 DEF ChunkedRqst, Running, First, ToPoll
  <2>2. Fed(fd)
    BY <2>1 DEF Fed
  <2>3. PICK n \in RecvResults(fd) :
       \E client \in {IF n = -1 THEN clients[fd]
                      ELSE [Received(fd, n) EXCEPT !.age = 0]} :
         \E res \in {is_request_fulfilled(client)} :
           /\ ReadUpTo(fd, n)
           /\ IF res.thrown \/ res.fulfilled
              THEN /\ clients' = With(clients, fd, res.client)
                   /\ UNCHANGED <<owner, watch, fate>>
              ELSE rearm(fd, With(clients, fd, res.client))
    BY <1>1 DEF ChunkedRqst
  <2>4. PICK v : \/ clients' = With(clients, fd, v) /\ owner' = owner
                 \/ rearm(fd, With(clients, fd, v))
    BY <2>3
  <2>5. CASE clients' = With(clients, fd, v) /\ owner' = owner
    BY <2>2, <2>5, ClientsShorter, WithShorter DEF RunsOn, Shorter
  <2>6. CASE rearm(fd, With(clients, fd, v))
    <3>. DEFINE x == Info(With(clients, fd, v), fd)
                y == [x EXCEPT !.age = 0]
    <3>1. owner' = owner /\ (clients' = With(With(clients, fd, v), fd, x)
                             \/ clients' = With(With(clients, fd, v), fd, y))
      BY <2>6 DEF rearm
    <3>. HIDE DEF x, y
    <3>. QED  BY <2>2, <3>1, ClientsShorter, WithShorter DEF RunsOn, Shorter
  <2>. QED  BY <2>4, <2>5, <2>6
<1>2. ASSUME NEW fd \in Fds, ChunkedResp(fd)
      PROVE  RunsOn
  <2>1. /\ stop = "none" /\ fd \in DOMAIN clients /\ chunked_resp(fd, clients) /\ read' = read
    BY <1>2 DEF ChunkedResp, Running, First, ToPoll
  <2>2. fd \in DOMAIN owner /\ clients[fd].resp \in Nat
    BY <2>1 DEF IInv, TableInv, ClientInfo
  <2>. QED  BY <2>1, <2>2, ClientsMap, ClientsShorter, ChunkedRespRunsOn
<1>3. ASSUME NEW fd \in Fds, Accept(fd)
      PROVE  RunsOn
  <2>1. PICK c : c = Head(backlog)
    OBVIOUS
  <2>2. PICK x : /\ stop = "none" /\ backlog # <<>> /\ fd \notin DOMAIN owner
                 /\ owner' = With(owner, fd, c) /\ clients' = With(clients, fd, x)
    BY <1>3, <2>1 DEF Accept, Running, First
  <2>3. \A f \in DOMAIN owner : owner[f] # c
    <3>1. Len(backlog) \in Nat /\ 1 \in 1..Len(backlog) /\ c = backlog[1]
      BY <2>1, <2>2, EmptySeq, HeadTailProperties DEF IInv, QueueInv
    <3>. QED  BY <3>1 DEF IInv, QueueInv
  <2>4. \A f \in DOMAIN owner : clients[f].resp <= clients[f].resp \/ Fed(f)
    BY ClientsShorter DEF Shorter
  <2>5. \A f \in DOMAIN owner : owner'[f] = owner[f] /\ clients'[f] = clients[f]
    <3>1. DOMAIN owner \subseteq DOMAIN clients
      BY DEF IInv, TableInv
    <3>. QED  BY <2>2, <3>1 DEF With
  <2>6. DOMAIN owner' = DOMAIN owner \cup {fd} /\ owner'[fd] = c
    BY <2>2 DEF With
  <2>. QED  BY <2>2, <2>3, <2>4, <2>5, <2>6 DEF RunsOn
<1>4. ASSUME NEW fd \in Fds, CloseExpired(fd)
      PROVE  RunsOn
  BY <1>4, ClientsShorter, RemoveRunsOn DEF CloseExpired
<1>5. CASE Answer
  <2>1. /\ stop = "none" /\ ready # <<>> /\ UNCHANGED <<net, sent, read>>
        /\ response_handler(Head(ready), clients)
    BY <1>5 DEF Answer, Running
  <2>2. Head(ready) \in Fds
    BY <2>1, HeadTailProperties DEF IInv, ControlInv
  <2>3. NetInv' /\ MapGood(clients, Head(ready)) /\ DOMAIN clients = DOMAIN owner
    BY <2>1, NothingRead, ClientsMap DEF IInv, TableInv
  <2>. QED  BY <2>1, <2>2, <2>3, ClientsShorter, HandlerRunsOn DEF Fed
<1>6. CASE ChunksDone \/ AnswersDone \/ EpollWait \/ AcceptFails \/ EventsDone \/ TimeoutsDone
  <2>1. UNCHANGED <<owner, clients>>
    BY <1>6 DEF ChunksDone, AnswersDone, EpollWait, AcceptFails, EventsDone, TimeoutsDone
  <2>. QED  BY <2>1, ClientsShorter DEF RunsOn, Shorter
<1>7. CASE ReadEvent
  BY <1>7, ReadEventRunsOn
<1>. QED  BY <1>1, <1>2, <1>3, <1>4, <1>5, <1>6, <1>7 DEF Server

\* And those of the peers and of time.
LEMMA OthersRunOn ==
  ASSUME IInv, Tick \/ UNCHANGED vars \/ \E c \in Conns : Peer(c)
  PROVE  RunsOn
<1>1. CASE Tick
  <2>1. owner' = owner /\ \A f \in DOMAIN clients : clients'[f].resp = clients[f].resp
    <3>1. \A x \in ClientInfo : \A a : [x EXCEPT !.age = a].resp = x.resp
      BY DEF ClientInfo
    <3>2. ASSUME NEW f \in DOMAIN clients
          PROVE  clients'[f].resp = clients[f].resp
      <4>1. PICK a : clients'[f] = [clients[f] EXCEPT !.age = a]
        BY <1>1 DEF Tick
      <4>2. clients[f] \in ClientInfo
        BY DEF IInv, TableInv
      <4>. QED  BY <3>1, <4>1, <4>2
    <3>. QED  BY <1>1, <3>2 DEF Tick
  <2>. QED  BY <2>1, ClientsShorter DEF RunsOn, Shorter, IInv, TableInv
<1>2. CASE UNCHANGED <<owner, clients>>
  BY <1>2, ClientsShorter DEF RunsOn, Shorter
<1>. QED  BY <1>1, <1>2 DEF vars, Peer, Connect, PeerSends, PeerShuts, PeerResets

StreamStep ==
  \A c \in Conns :
    /\ Streaming(c) /\ Streaming(c)'
    /\ Entry(c)'.resp > Entry(c).resp
    => Entry(c).rqst # <<>> \/ read'[c] > read[c]

\* What runs on is not begun again.
LEMMA RunsOnSuffices ==
  ASSUME IInv, IInv', RunsOn
  PROVE  StreamStep
<1>. SUFFICES ASSUME NEW c \in Conns, Streaming(c), Streaming(c)', Entry(c)'.resp > Entry(c).resp
              PROVE  Entry(c).rqst # <<>> \/ read'[c] > read[c]
  BY DEF StreamStep
<1>1. PICK f : f \in DOMAIN owner /\ owner[f] = c
  BY DEF Streaming
<1>2. PICK g : g \in DOMAIN owner' /\ owner'[g] = c
  BY DEF Streaming
<1>3. f = g
  BY <1>1, <1>2 DEF RunsOn, IInv, TableInv
<1>4. Entry(c) = clients[f]
  <2>1. (CHOOSE h \in DOMAIN owner : owner[h] = c) = f
    BY <1>1 DEF IInv, TableInv
  <2>. QED  BY <2>1 DEF Entry
<1>5. Entry(c)' = clients'[f]
  <2>1. (CHOOSE h \in DOMAIN owner' : owner'[h] = c) = f
    BY <1>2, <1>3 DEF IInv, TableInv
  <2>. QED  BY <2>1 DEF Entry
<1>6. clients[f].resp \in Nat /\ clients'[f].resp \in Nat
  BY <1>1, <1>2, <1>3 DEF IInv, TableInv, ClientInfo
<1>. QED  BY <1>1, <1>2, <1>3, <1>4, <1>5, <1>6 DEF RunsOn, Fed

\* Neither the request it answers, nor an event of another descriptor, nor a
\* second entry of the ready list begins a response again that is being streamed:
\* only more bytes of the same connection do, for any scripts, pipelined ones
\* included (chunked_resp, fill_resp, response_handler).
THEOREM ResponsesRunOn == Spec => StreamNotRestarted
<1>1. IInv /\ IInv' /\ [Next]_vars => StreamStep
  <2>. SUFFICES ASSUME IInv, IInv', [Next]_vars PROVE StreamStep
    OBVIOUS
  <2>. QED  BY ServerRunsOn, OthersRunOn, RunsOnSuffices DEF Next
<1>2. IInv /\ IInv' /\ [Next]_vars =>
        [\A c \in Conns :
           /\ Streaming(c) /\ Streaming(c)'
           /\ Entry(c)'.resp > Entry(c).resp
           => Entry(c).rqst # <<>> \/ read'[c] > read[c]]_vars
  BY <1>1 DEF StreamStep
<1>. QED  BY <1>2, IInvInit, IInvStep, PTL DEF Spec, StreamNotRestarted

-----------------------------------------------------------------------------
\* One request each: the lifecycle of a connection.

\* What a peer may send for the rest of this module: one request of a method
\* other than POST, without a body, or the beginning of one.
SingleRequest(s) ==
  \A i \in 1..Len(s) : s[i].k \in {"GET", "HDR", "HEND"} /\ (s[i].k = "HEND" => i = Len(s))

SingleRequests == \A c \in Conns : SingleRequest(Script[c])

\* rqst is the end of the first n tokens of script.
Suffix(rqst, script, n) ==
  /\ Len(rqst) <= n
  /\ \A i \in 1..Len(rqst) : rqst[i] = script[n - Len(rqst) + i]

\* A client whose connection has sent script, of which n tokens were read: what
\* is held is the end of these, and nothing is held or to come once a response
\* is being streamed.
Sound(x, script, n) ==
  /\ Suffix(x.rqst, script, n)
  /\ x.resp > 0 => x.rqst = <<>> /\ n = Len(script)

LifeInv ==
  /\ DOMAIN owner \subseteq DOMAIN clients
  /\ \A fd \in DOMAIN owner : Sound(clients[fd], Script[owner[fd]], read[owner[fd]])

\* Such a buffer is not rewritten, and complete when its last token is the empty
\* line (is_request_fulfilled).
LEMMA PlainExamined ==
  ASSUME NEW x, x.rqst \in Seq(Token),
         \A i \in 1..Len(x.rqst) : x.rqst[i].k \in {"GET", "HDR", "HEND"}
  PROVE  LET res == is_request_fulfilled(x)
         IN /\ res.client = x /\ ~res.thrown /\ res.fulfilled \in BOOLEAN
            /\ res.fulfilled => x.rqst # <<>> /\ x.rqst[Len(x.rqst)].k = "HEND"
<1>. DEFINE s == x.rqst
<1>1. s # <<>> => Len(s) \in 1..Len(s) /\ 1 \in 1..Len(s)
  BY EmptySeq
<1>2. ~Starts(s, "POST") /\ ~Starts(s, "CHUNK")
  BY <1>1 DEF Starts
<1>3. is_request_fulfilled(x) = [client |-> x, fulfilled |-> EndsInEmptyLine(s), thrown |-> FALSE]
  BY <1>2 DEF is_request_fulfilled
<1>4. EndsInEmptyLine(s) => s # <<>> /\ s[Len(s)].k = "HEND"
  BY <1>1 DEF EndsInEmptyLine
<1>5. EndsInEmptyLine(s) \in BOOLEAN
  BY DEF EndsInEmptyLine
<1>. QED  BY <1>3, <1>4, <1>5

\* A single request is whole once its empty line was read, and then nothing of
\* it is to come.
LEMMA SingleWhole ==
  ASSUME NEW s \in Seq(Token), SingleRequest(s), NEW n \in 1..Len(s), s[n].k = "HEND"
  PROVE  n = Len(s) /\ Lifecycle!Whole(SubSeq(s, 1, n))
<1>1. Len(s) \in Nat /\ n = Len(s)
  BY LenProperties DEF SingleRequest
<1>. DEFINE p == SubSeq(s, 1, n)
<1>2. p \in Seq(Token) /\ Len(p) = n /\ \A i \in 1..n : p[i] = s[i]
  BY <1>1, SubSeqProperties
<1>3. DOMAIN p = 1..n
  BY <1>2, LenProperties
<1>. HIDE DEF p
<1>4. \A i \in DOMAIN p : p[i].k \in {"GET", "HDR", "HEND"}
  BY <1>1, <1>2, <1>3 DEF SingleRequest
<1>5. Lifecycle!HeaderEnded(p)
  <2>1. n \in DOMAIN p /\ p[n].k = "HEND"
    BY <1>2, <1>3
  <2>. QED  BY <2>1 DEF Lifecycle!HeaderEnded, Lifecycle!Has, Lifecycle!Places
<1>6. ~Lifecycle!Has(p, {"TE"}) /\ ~Lifecycle!Has(p, {"CL"})
  BY <1>4 DEF Lifecycle!Has, Lifecycle!Places
<1>7. Lifecycle!Whole(p)
  BY <1>5, <1>6 DEF Lifecycle!Whole
<1>. QED  BY <1>1, <1>7 DEF p

\* What the server makes of a sound client: nothing else, and it answers only
\* when the whole of a request was read and no response is being streamed.
LEMMA SoundExamined ==
  ASSUME NEW x \in ClientInfo, NEW s \in Seq(Token), SingleRequest(s),
         NEW n \in Nat, n <= Len(s), Sound(x, s, n)
  PROVE  LET res == is_request_fulfilled(x)
         IN /\ res.client = x /\ ~res.thrown /\ res.fulfilled \in BOOLEAN
            /\ res.fulfilled => x.resp = 0 /\ n = Len(s) /\ Lifecycle!Whole(SubSeq(s, 1, n))
<1>. DEFINE r == x.rqst
            l == Len(r)
<1>1. r \in Seq(Token) /\ x.resp \in Nat
  BY DEF ClientInfo
<1>2. l \in Nat /\ Len(s) \in Nat
  BY <1>1, LenProperties
<1>3. l <= n /\ \A i \in 1..l : r[i] = s[n - l + i]
  BY DEF Sound, Suffix
<1>. HIDE DEF l
<1>4. \A i \in 1..l : n - l + i \in 1..Len(s)
  BY <1>2, <1>3
<1>5. \A i \in 1..l : r[i].k \in {"GET", "HDR", "HEND"}
  BY <1>3, <1>4 DEF SingleRequest
<1>6. /\ is_request_fulfilled(x).client = x /\ ~is_request_fulfilled(x).thrown
      /\ is_request_fulfilled(x).fulfilled \in BOOLEAN
      /\ is_request_fulfilled(x).fulfilled => r # <<>> /\ r[l].k = "HEND"
  BY <1>1, <1>5, PlainExamined DEF l
<1>7. ASSUME r # <<>>, r[l].k = "HEND"
      PROVE  x.resp = 0 /\ n = Len(s) /\ Lifecycle!Whole(SubSeq(s, 1, n))
  <2>1. x.resp = 0
    BY <1>1, <1>7 DEF Sound
  <2>2. l \in 1..l
    BY <1>1, <1>2, <1>7, EmptySeq DEF l
  <2>3. n \in 1..Len(s)
    BY <1>2, <1>3, <2>2
  <2>4. n - l + l = n
    BY <1>2
  <2>5. s[n].k = "HEND"
    BY <1>3, <1>7, <2>2, <2>4
  <2>. QED  BY <2>1, <2>3, <2>5, SingleWhole
<1>. QED  BY <1>6, <1>7

\* An empty buffer is not answered either.
LEMMA BlankExamined ==
  /\ is_request_fulfilled(Blank).client = Blank /\ ~is_request_fulfilled(Blank).thrown
  /\ ~is_request_fulfilled(Blank).fulfilled
<1>1. Blank.rqst = <<>>
  BY DEF Blank
<1>. QED  BY <1>1 DEF is_request_fulfilled, Starts, EndsInEmptyLine

\* A value of clients that is sound for every open descriptor, after the read.
SoundMap(map) ==
  /\ DOMAIN owner \subseteq DOMAIN map
  /\ \A fd \in DOMAIN owner :
       map[fd] \in ClientInfo /\ Sound(map[fd], Script[owner[fd]], read'[owner[fd]])

\* As many chunks are left for every client in S as in clients.
SameLeft(map, S) == \A fd \in S : fd \in DOMAIN map /\ map[fd].resp = clients[fd].resp

\* What serving a descriptor may come to: for the connections, nothing; a
\* response begins, or goes on; the connection is closed.
Same == /\ owner' = owner /\ fate' = fate
        /\ SameLeft(clients', DOMAIN owner)

Streams(fd) == /\ owner' = owner /\ fate' = fate
               /\ fd \in DOMAIN owner /\ fd \in DOMAIN clients' /\ clients'[fd].resp > 0
               /\ SameLeft(clients', DOMAIN owner \ {fd})

Ends(fd, why) == /\ fd \in DOMAIN owner
                 /\ owner' = Without(owner, fd)
                 /\ fate' = [fate EXCEPT ![owner[fd]] = why]
                 /\ SameLeft(clients', DOMAIN owner \ {fd})

WholeNow(fd) == Lifecycle!Whole(SubSeq(Script[owner[fd]], 1, read'[owner[fd]]))

Begins(fd) == Streams(fd) /\ clients[fd].resp = 0 /\ WholeNow(fd)
GoesOn(fd) == Streams(fd) /\ clients[fd].resp > 0 /\ clients'[fd].resp <= clients[fd].resp
Closes(fd) == /\ Ends(fd, "answered") \/ Ends(fd, "cut")
              /\ clients[fd].resp > 0 \/ WholeNow(fd)

Lived(fd) == Same \/ Begins(fd) \/ GoesOn(fd) \/ Closes(fd)

\* One client of a sound map is replaced.
LEMMA WithSound ==
  ASSUME NEW map, NEW fd, NEW v, SoundMap(map),
         fd \in DOMAIN owner =>
           v \in ClientInfo /\ Sound(v, Script[owner[fd]], read'[owner[fd]])
  PROVE  /\ SoundMap(With(map, fd, v))
         /\ \A S : SameLeft(map, S) =>
              /\ SameLeft(With(map, fd, v), S \ {fd})
              /\ v.resp = clients[fd].resp => SameLeft(With(map, fd, v), S)
              /\ fd \notin DOMAIN owner /\ S \subseteq DOMAIN owner => SameLeft(With(map, fd, v), S)
<1>1. /\ DOMAIN With(map, fd, v) = DOMAIN map \cup {fd}
      /\ \A f \in DOMAIN map \cup {fd} : With(map, fd, v)[f] = IF f = fd THEN v ELSE map[f]
  BY DEF With
<1>2. SoundMap(With(map, fd, v))
  BY <1>1 DEF SoundMap
<1>3. ASSUME NEW S, SameLeft(map, S)
      PROVE  /\ SameLeft(With(map, fd, v), S \ {fd})
             /\ v.resp = clients[fd].resp => SameLeft(With(map, fd, v), S)
             /\ fd \notin DOMAIN owner /\ S \subseteq DOMAIN owner => SameLeft(With(map, fd, v), S)
  BY <1>1, <1>3 DEF SameLeft
<1>. QED  BY <1>2, <1>3

\* A sound map of the clients is the invariant.
LEMMA SoundClients ==
  ASSUME SoundMap(clients'), owner' = owner
  PROVE  LifeInv'
BY DEF SoundMap, LifeInv

\* The fields a response is counted in.
LEMMA LeftWritten ==
  ASSUME NEW x \in ClientInfo, NEW n \in Nat
  PROVE  /\ [x EXCEPT !.age = 0] \in ClientInfo
         /\ [x EXCEPT !.age = 0].rqst = x.rqst /\ [x EXCEPT !.age = 0].resp = x.resp
         /\ [x EXCEPT !.resp = n, !.age = 0] \in ClientInfo
         /\ [x EXCEPT !.resp = n, !.age = 0].rqst = x.rqst
         /\ [x EXCEPT !.resp = n, !.age = 0].resp = n
         /\ [x EXCEPT !.rqst = <<>>] \in ClientInfo
         /\ [x EXCEPT !.rqst = <<>>].rqst = <<>> /\ [x EXCEPT !.rqst = <<>>].resp = x.resp
         /\ [x EXCEPT !.resp = n] \in ClientInfo
         /\ [x EXCEPT !.resp = n].rqst = x.rqst /\ [x EXCEPT !.resp = n].resp = n
<1>1. TIME_OUT \in Nat /\ <<>> \in Seq(Token)
  BY EventLoopAssumption, EmptySeq
<1>2. /\ [x EXCEPT !.age = 0] \in ClientInfo
      /\ [x EXCEPT !.age = 0].rqst = x.rqst /\ [x EXCEPT !.age = 0].resp = x.resp
  BY <1>1 DEF ClientInfo
<1>3. /\ [x EXCEPT !.rqst = <<>>] \in ClientInfo
      /\ [x EXCEPT !.rqst = <<>>].rqst = <<>> /\ [x EXCEPT !.rqst = <<>>].resp = x.resp
  BY <1>1 DEF ClientInfo
<1>4. /\ [x EXCEPT !.resp = n] \in ClientInfo
      /\ [x EXCEPT !.resp = n].rqst = x.rqst /\ [x EXCEPT !.resp = n].resp = n
  BY DEF ClientInfo
<1>5. /\ [x EXCEPT !.resp = n, !.age = 0] \in ClientInfo
      /\ [x EXCEPT !.resp = n, !.age = 0].rqst = x.rqst
      /\ [x EXCEPT !.resp = n, !.age = 0].resp = n
  <2>. DEFINE y == [x EXCEPT !.resp = n]
  <2>1. [x EXCEPT !.resp = n, !.age = 0] = [y EXCEPT !.age = 0]
    OBVIOUS
  <2>2. y \in ClientInfo /\ y.rqst = x.rqst /\ y.resp = n
    BY <1>4
  <2>. HIDE DEF y
  <2>3. /\ [y EXCEPT !.age = 0] \in ClientInfo
        /\ [y EXCEPT !.age = 0].rqst = y.rqst /\ [y EXCEPT !.age = 0].resp = y.resp
    BY <1>1, <2>2 DEF ClientInfo
  <2>. QED  BY <2>1, <2>2, <2>3
<1>. QED  BY <1>2, <1>3, <1>4, <1>5

\* rearm changes nothing for the connections.
LEMMA RearmLives ==
  ASSUME stop = "none", NEW map, NEW fd, SoundMap(map),
         SameLeft(map, DOMAIN owner), rearm(fd, map)
  PROVE  LifeInv' /\ Same
<1>. DEFINE x == Info(map, fd)
            y == [x EXCEPT !.age = 0]
<1>1. /\ owner' = owner /\ fate' = fate
      /\ clients' = With(map, fd, x) \/ clients' = With(map, fd, y)
  BY DEF rearm
<1>2. fd \in DOMAIN owner => x = map[fd]
  BY DEF Info, SoundMap
<1>. HIDE DEF x
<1>3. fd \in DOMAIN owner =>
        /\ x \in ClientInfo /\ y \in ClientInfo
        /\ y.rqst = x.rqst /\ y.resp = x.resp /\ x.resp = clients[fd].resp
        /\ Sound(x, Script[owner[fd]], read'[owner[fd]])
  BY <1>2, LeftWritten DEF SoundMap, SameLeft
<1>. HIDE DEF y
<1>4. fd \in DOMAIN owner =>
        Sound(y, Script[owner[fd]], read'[owner[fd]])
  BY <1>3 DEF Sound
<1>5. ASSUME NEW v \in {x, y}
      PROVE  SoundMap(With(map, fd, v)) /\ SameLeft(With(map, fd, v), DOMAIN owner)
  <2>1. CASE fd \in DOMAIN owner
    <3>1. /\ v \in ClientInfo /\ v.resp = clients[fd].resp
          /\ Sound(v, Script[owner[fd]], read'[owner[fd]])
      BY <1>3, <1>4, <2>1
    <3>. QED  BY <3>1, WithSound
  <2>2. CASE fd \notin DOMAIN owner
    BY <2>2, WithSound
  <2>. QED  BY <2>1, <2>2
<1>6. SoundMap(clients') /\ SameLeft(clients', DOMAIN owner)
  BY <1>1, <1>5
<1>. QED  BY <1>1, <1>6, SoundClients DEF Same

\* remove_fd ends the connection of the descriptor and no other.
LEMMA RemoveLives ==
  ASSUME NEW map, NEW fd \in DOMAIN owner, NEW why, SoundMap(map),
         SameLeft(map, DOMAIN owner \ {fd}), remove_fd(fd, map, why)
  PROVE  LifeInv' /\ Ends(fd, why)
<1>1. /\ owner' = Without(owner, fd) /\ clients' = Without(map, fd)
      /\ fate' = [fate EXCEPT ![owner[fd]] = why]
  BY DEF remove_fd
<1>2. /\ DOMAIN owner' = DOMAIN owner \ {fd} /\ DOMAIN clients' = DOMAIN map \ {fd}
      /\ \A f \in DOMAIN owner' : owner'[f] = owner[f] /\ clients'[f] = map[f]
  BY <1>1 DEF Without, SoundMap
<1>3. LifeInv'
  BY <1>2 DEF LifeInv, SoundMap
<1>4. SameLeft(clients', DOMAIN owner \ {fd})
  BY <1>2 DEF SameLeft
<1>. QED  BY <1>1, <1>3, <1>4 DEF Ends

\* chunked_resp sends one chunk more, and is done when it was the last.
LEMMA ChunkLives ==
  ASSUME NEW map, NEW fd \in DOMAIN owner, SoundMap(map),
         SameLeft(map, DOMAIN owner \ {fd}), chunked_resp(fd, map)
  PROVE  /\ LifeInv'
         /\ \/ Ends(fd, "answered") \/ Ends(fd, "cut")
            \/ Streams(fd) /\ clients'[fd].resp <= map[fd].resp
<1>1. CASE remove_fd(fd, map, "cut") \/ remove_fd(fd, map, "answered")
  BY <1>1, RemoveLives
<1>2. CASE /\ map[fd].resp > 1
           /\ clients' = With(map, fd, [map[fd] EXCEPT !.resp = @ - 1, !.age = 0])
           /\ UNCHANGED <<owner, watch, stop, fate>>
  <2>. DEFINE x == map[fd]
              n == x.resp - 1
              y == [x EXCEPT !.resp = n, !.age = 0]
  <2>1. x \in ClientInfo /\ Sound(x, Script[owner[fd]], read'[owner[fd]])
    BY DEF SoundMap
  <2>2. x.resp \in Nat /\ x.resp > 1
    BY <1>2, <2>1 DEF ClientInfo
  <2>3. n \in Nat /\ n > 0 /\ n <= x.resp /\ x.resp > 0
    BY <2>2
  <2>4. clients' = With(map, fd, y)
    BY <1>2
  <2>. HIDE DEF x, n
  <2>5. y \in ClientInfo /\ y.rqst = x.rqst /\ y.resp = n
    BY <2>1, <2>3, LeftWritten
  <2>. HIDE DEF y
  <2>6. Sound(y, Script[owner[fd]], read'[owner[fd]])
    BY <2>1, <2>3, <2>5 DEF Sound
  <2>7. SoundMap(clients') /\ SameLeft(clients', (DOMAIN owner \ {fd}) \ {fd})
    BY <2>4, <2>5, <2>6, WithSound
  <2>8. SameLeft(clients', DOMAIN owner \ {fd})
    BY <2>7 DEF SameLeft
  <2>9. fd \in DOMAIN clients' /\ clients'[fd] = y
    BY <2>4 DEF With
  <2>. QED  BY <1>2, <2>3, <2>5, <2>7, <2>8, <2>9, SoundClients DEF Streams, x
<1>. QED  BY <1>1, <1>2 DEF chunked_resp

\* response_handler, for a map with no response begun that clients has not.
LEMMA HandlerLives ==
  ASSUME SingleRequests, IInv, NetInv', stop = "none", NEW map, NEW fd \in Fds, SoundMap(map),
         SameLeft(map, DOMAIN owner), DOMAIN map = DOMAIN owner, response_handler(fd, map)
  PROVE  LifeInv' /\ Lived(fd)
<1>. DEFINE x == Info(map, fd)
            res == is_request_fulfilled(x)
            c == owner[fd]
<1>1. CASE fd \notin DOMAIN owner
  <2>1. x = Blank
    BY <1>1 DEF Info
  <2>2. res.client = Blank /\ ~res.thrown /\ ~res.fulfilled
    BY <2>1, BlankExamined
  <2>3. rearm(fd, With(map, fd, Blank))
    BY <2>2 DEF response_handler
  <2>4. SoundMap(With(map, fd, Blank)) /\ SameLeft(With(map, fd, Blank), DOMAIN owner)
    BY <1>1, WithSound
  <2>. QED  BY <2>3, <2>4, RearmLives DEF Lived
<1>2. CASE fd \in DOMAIN owner
  <2>1. x = map[fd] /\ fd \in DOMAIN map
    BY <1>2 DEF Info
  <2>2. x \in ClientInfo /\ Sound(x, Script[c], read'[c]) /\ x.resp = clients[fd].resp
    BY <1>2, <2>1 DEF SoundMap, SameLeft
  <2>3. c \in Conns /\ Script[c] \in Seq(Token) /\ SingleRequest(Script[c]) /\ Blocks[c] \in Nat
    BY <1>2, EventLoopAssumption DEF IInv, TableInv, SingleRequests
  <2>4. read'[c] \in Nat /\ read'[c] <= Len(Script[c])
    <3>1. read'[c] \in Nat /\ sent'[c] \in Nat /\ read'[c] <= sent'[c] /\ sent'[c] <= Len(Script[c])
      BY <2>3 DEF NetInv
    <3>2. Len(Script[c]) \in Nat
      BY <2>3, LenProperties
    <3>. QED  BY <3>1, <3>2
  <2>5. /\ res.client = x /\ ~res.thrown /\ res.fulfilled \in BOOLEAN
        /\ res.fulfilled =>
             x.resp = 0 /\ read'[c] = Len(Script[c]) /\ Lifecycle!Whole(SubSeq(Script[c], 1, read'[c]))
    BY <2>2, <2>3, <2>4, SoundExamined
  <2>6. CASE ~res.fulfilled
    <3>1. rearm(fd, With(map, fd, x))
      BY <2>5, <2>6 DEF response_handler
    <3>2. SoundMap(With(map, fd, x)) /\ SameLeft(With(map, fd, x), DOMAIN owner)
      BY <2>2, WithSound
    <3>. QED  BY <3>1, <3>2, RearmLives DEF Lived
  <2>7. CASE res.fulfilled
    <3>. DEFINE n == Blocks[c]
                y == [x EXCEPT !.rqst = <<>>]
                z == [y EXCEPT !.resp = n]
    <3>1. \/ n = 0 /\ send_whole(fd, With(map, fd, y))
          \/ n # 0 /\ chunked_resp(fd, With(map, fd, z))
      BY <2>5, <2>7 DEF response_handler
    <3>2. x.resp = 0 /\ clients[fd].resp = 0 /\ read'[c] = Len(Script[c]) /\ WholeNow(fd)
      BY <2>2, <2>5, <2>7 DEF WholeNow
    <3>. HIDE DEF x, n, res
    <3>3. y \in ClientInfo /\ y.rqst = <<>> /\ y.resp = 0
      BY <2>2, <3>2, LeftWritten
    <3>. HIDE DEF y
    <3>4. z \in ClientInfo /\ z.rqst = <<>> /\ z.resp = n
      BY <2>3, <3>3, LeftWritten DEF n
    <3>. HIDE DEF z
    <3>5. Len(<<>>) = 0
      BY EmptySeq
    <3>6. \A v : v.rqst = <<>> => Sound(v, Script[c], read'[c])
      BY <2>4, <3>2, <3>5 DEF Sound, Suffix
    <3>7. /\ SoundMap(With(map, fd, y)) /\ SameLeft(With(map, fd, y), DOMAIN owner)
          /\ SameLeft(With(map, fd, y), DOMAIN owner \ {fd})
      BY <3>2, <3>3, <3>6, WithSound
    <3>8. SoundMap(With(map, fd, z)) /\ SameLeft(With(map, fd, z), DOMAIN owner \ {fd})
      BY <3>4, <3>6, WithSound
    <3>9. CASE send_whole(fd, With(map, fd, y))
      <4>1. CASE remove_fd(fd, With(map, fd, y), "answered") \/ remove_fd(fd, With(map, fd, y), "cut")
        BY <1>2, <3>2, <3>7, <4>1, RemoveLives DEF Lived, Closes
      <4>2. CASE clients' = With(map, fd, y) /\ UNCHANGED <<owner, watch, fate>>
        BY <3>7, <4>2, SoundClients DEF Lived, Same
      <4>. QED  BY <3>9, <4>1, <4>2 DEF send_whole
    <3>10. CASE chunked_resp(fd, With(map, fd, z))
      BY <1>2, <3>2, <3>8, <3>10, ChunkLives DEF Lived, Closes, Begins
    <3>. QED  BY <3>1, <3>9, <3>10
  <2>. QED  BY <2>5, <2>6, <2>7
<1>. QED  BY <1>1, <1>2

-----------------------------------------------------------------------------
\* What the server reads of a connection it reads before it answers.
ReadsOn(fd) ==
  \/ read' = read
  \/ /\ fd \in DOMAIN owner /\ clients[fd].resp = 0
     /\ \E k \in read[owner[fd]] .. Len(Script[owner[fd]]) :
          read' = [read EXCEPT ![owner[fd]] = k]

\* The clients as they are, before anything is read.
LEMMA ClientsSound ==
  ASSUME IInv, LifeInv, read' = read
  PROVE  SoundMap(clients) /\ SameLeft(clients, DOMAIN owner)
BY DEF IInv, TableInv, LifeInv, SoundMap, SameLeft

\* What was held and what recv returned are the end of what was sent.
LEMMA SuffixAppend ==
  ASSUME NEW s \in Seq(Token), NEW a \in Nat, NEW n \in Nat, a + n <= Len(s),
         NEW r \in Seq(Token), Suffix(r, s, a)
  PROVE  Suffix(Joined(r, s, a, n), s, a + n)
<1>. SUFFICES ASSUME NEW all, all = Joined(r, s, a, n)
              PROVE  Suffix(all, s, a + n)
  OBVIOUS
<1>0. Len(s) \in Nat /\ Len(r) \in Nat
  BY LenProperties
<1>1. /\ Len(all) = Len(r) + n
      /\ \A i \in 1..Len(all) :
           all[i] = IF i <= Len(r) THEN r[i] ELSE s[a + n - Len(all) + i]
  BY Appended
<1>2. Len(all) <= a + n
  BY <1>0, <1>1 DEF Suffix
<1>3. \A i \in 1..Len(all) : all[i] = s[a + n - Len(all) + i]
  <2>. TAKE i \in 1..Len(all)
  <2>1. CASE i <= Len(r)
    <3>1. i \in 1..Len(r) /\ a + n - Len(all) + i = a - Len(r) + i
      BY <1>0, <1>1, <2>1
    <3>2. r[i] = s[a - Len(r) + i]
      BY <3>1 DEF Suffix
    <3>. QED  BY <1>1, <2>1, <3>1, <3>2
  <2>2. CASE ~(i <= Len(r))
    BY <1>1, <2>2
  <2>. QED  BY <2>1, <2>2
<1>4. Suffix(all, s, a + n)
  BY <1>2, <1>3 DEF Suffix
<1>. QED  BY <1>4

\* They make a sound client again.
LEMMA SoundAppend ==
  ASSUME NEW s \in Seq(Token), NEW a \in Nat, NEW n \in Nat, a + n <= Len(s),
         NEW x \in ClientInfo, Sound(x, s, a)
  PROVE  LET y == rqst_append(x, SubSeq(s, a + 1, a + n))
         IN /\ Sound(y, s, a + n) /\ y \in ClientInfo /\ y.resp = x.resp
            /\ x.resp > 0 => n = 0
<1>. DEFINE r == x.rqst
            all == Joined(r, s, a, n)
            y == rqst_append(x, SubSeq(s, a + 1, a + n))
<1>0. r \in Seq(Token) /\ Len(s) \in Nat /\ x.resp \in Nat
  BY LenProperties DEF ClientInfo
<1>1. all \in Seq(Token) /\ Len(all) = Len(r) + n
  BY <1>0, Appended
<1>2. Suffix(all, s, a + n)
  BY <1>0, SuffixAppend DEF Sound
<1>3. y = [x EXCEPT !.rqst = all]
  BY DEF rqst_append, Joined
<1>. HIDE DEF all, y
<1>4. y \in ClientInfo /\ y.rqst = all /\ y.resp = x.resp
  BY <1>1, <1>3 DEF ClientInfo
<1>5. ASSUME x.resp > 0
      PROVE  n = 0 /\ all = <<>> /\ a = Len(s)
  <2>1. r = <<>> /\ a = Len(s)
    BY <1>5 DEF Sound
  <2>2. n = 0
    BY <1>0, <2>1
  <2>3. Len(r) = 0
    BY <2>1, EmptySeq
  <2>4. Len(all) = 0
    BY <1>1, <2>2, <2>3
  <2>. QED  BY <1>1, <2>1, <2>2, <2>4, EmptySeq
<1>6. Sound(y, s, a + n)
  <2>1. y.resp > 0 => a + n = Len(s)
    BY <1>0, <1>4, <1>5
  <2>. QED  BY <1>2, <1>4, <1>5, <2>1 DEF Sound
<1>. QED  BY <1>4, <1>5, <1>6 DEF y

\* The same for what recv returned to the server.
LEMMA ReceivedSound ==
  ASSUME IInv, LifeInv, stop = "none", NEW fd \in Fds, NEW n \in RecvResults(fd), n # -1,
         ReadUpTo(fd, n), UNCHANGED <<net, sent>>
  PROVE  /\ fd \in DOMAIN owner /\ ReadsOn(fd)
         /\ Received(fd, n) \in ClientInfo
         /\ Sound(Received(fd, n), Script[owner[fd]], read'[owner[fd]])
         /\ Received(fd, n).resp = clients[fd].resp
         /\ SoundMap(With(clients, fd, Received(fd, n)))
<1>. DEFINE c == owner[fd]
            x == clients[fd]
<1>1. /\ fd \in DOMAIN owner /\ c \in Conns /\ n \in Nat
      /\ read[c] + n <= sent[c] /\ read[c] \in Nat /\ sent[c] \in Nat
      /\ sent[c] <= Len(Script[c])
  BY RecvResult DEF IInv, NetInv
<1>2. read'[c] = read[c] + n /\ \A e \in Conns : e # c => read'[e] = read[e]
  BY ReadCounters
<1>3. fd \in DOMAIN clients /\ x \in ClientInfo /\ Sound(x, Script[c], read[c])
  BY <1>1 DEF IInv, TableInv, LifeInv
<1>4. Script[c] \in Seq(Token) /\ Len(Script[c]) \in Nat
  BY <1>1, EventLoopAssumption, LenProperties
<1>5. read[c] + n <= Len(Script[c])
  BY <1>1, <1>4
<1>6. Received(fd, n) = rqst_append(x, SubSeq(Script[c], read[c] + 1, read[c] + n))
  BY <1>3 DEF Received, Info
<1>. HIDE DEF c, x
<1>7. /\ Sound(Received(fd, n), Script[c], read[c] + n)
      /\ Received(fd, n) \in ClientInfo /\ Received(fd, n).resp = x.resp
      /\ x.resp > 0 => n = 0
  BY <1>1, <1>3, <1>4, <1>5, <1>6, SoundAppend
<1>8. ReadsOn(fd)
  <2>1. CASE n <= 0
    BY <2>1 DEF ReadUpTo, ReadsOn
  <2>2. CASE ~(n <= 0)
    <3>1. read' = [read EXCEPT ![c] = read[c] + n]
      BY <2>2 DEF ReadUpTo, c
    <3>2. read[c] + n \in read[c] .. Len(Script[c])
      BY <1>1, <1>4, <1>5
    <3>3. x.resp \in Nat
      BY <1>3 DEF ClientInfo
    <3>4. x.resp = 0
      BY <1>1, <1>7, <2>2, <3>3
    <3>5. \E k \in read[c] .. Len(Script[c]) : read' = [read EXCEPT ![c] = k]
      BY <3>1, <3>2
    <3>. QED  BY <1>1, <3>4, <3>5 DEF ReadsOn, c, x
  <2>. QED  BY <2>1, <2>2
<1>9. SoundMap(With(clients, fd, Received(fd, n)))
  <2>1. /\ DOMAIN With(clients, fd, Received(fd, n)) = DOMAIN clients \cup {fd}
        /\ \A f \in DOMAIN clients \cup {fd} :
             With(clients, fd, Received(fd, n))[f] = IF f = fd THEN Received(fd, n) ELSE clients[f]
    BY DEF With
  <2>2. \A f \in DOMAIN owner : f # fd => owner[f] # c /\ owner[f] \in Conns
    BY <1>1 DEF IInv, TableInv, c
  <2>3. \A f \in DOMAIN owner : f # fd =>
          clients[f] \in ClientInfo /\ Sound(clients[f], Script[owner[f]], read'[owner[f]])
    BY <1>2, <2>2 DEF IInv, TableInv, LifeInv
  <2>. QED  BY <1>2, <1>7, <2>1, <2>3 DEF SoundMap, LifeInv, c
<1>. QED  BY <1>1, <1>2, <1>7, <1>8, <1>9 DEF c, x

-----------------------------------------------------------------------------
\* The steps as ConnectionLifecycle sees them.

\* Where the connections stand, by the tables.
Placed ==
  /\ \A fd \in DOMAIN owner :
       /\ Phase(owner[fd]) = IF clients[fd].resp > 0 THEN "answering" ELSE "open"
       /\ Streaming(owner[fd]) => clients[fd].resp > 0 /\ Entry(owner[fd]) = clients[fd]
  /\ \A c \in Conns : fate[c] # "none" => Phase(c) = fate[c]
  /\ \A c \in Conns : (\A fd \in DOMAIN owner : owner[fd] # c) =>
       ~Streaming(c) /\ (fate[c] = "none" => Phase(c) = "idle")

\* The tables say so.
LEMMA PhasesPlaced == IInv => Placed
<1>. SUFFICES ASSUME IInv PROVE Placed
  OBVIOUS
<1>1. ASSUME NEW fd \in DOMAIN owner
      PROVE  /\ Phase(owner[fd]) = IF clients[fd].resp > 0 THEN "answering" ELSE "open"
             /\ Streaming(owner[fd]) => clients[fd].resp > 0 /\ Entry(owner[fd]) = clients[fd]
  <2>1. \A f \in DOMAIN owner : owner[f] = owner[fd] <=> f = fd
    BY DEF IInv, TableInv
  <2>2. Streaming(owner[fd]) <=> clients[fd].resp > 0
    BY <2>1 DEF Streaming
  <2>3. (CHOOSE f \in DOMAIN owner : owner[f] = owner[fd]) = fd
    BY <2>1
  <2>4. Entry(owner[fd]) = clients[fd]
    BY <2>3 DEF Entry
  <2>5. fate[owner[fd]] = "none"
    BY DEF IInv, TableInv
  <2>. QED  BY <2>2, <2>4, <2>5 DEF Phase
<1>2. \A c \in Conns : fate[c] # "none" => Phase(c) = fate[c]
  BY DEF Phase
<1>3. \A c \in Conns : (\A fd \in DOMAIN owner : owner[fd] # c) =>
       ~Streaming(c) /\ (fate[c] = "none" => Phase(c) = "idle")
  BY DEF Phase, Streaming
<1>. QED  BY <1>1, <1>2, <1>3 DEF Placed

Phases == [c \in Conns |-> Phase(c)]

\* A step of the promise.
LifeStep == [Lifecycle!LifeNext]_(Lifecycle!lifeVars)

\* Only one connection changes its phase.
LEMMA OnePhase ==
  ASSUME NEW c \in Conns, NEW p, Phase(c)' = p,
         \A d \in Conns : d # c => Phase(d)' = Phase(d)
  PROVE  Phases' = [Phases EXCEPT ![c] = p]
BY DEF Phases

\* A connection that has no descriptor stands where it stood, as long as nothing
\* is done to it.
LEMMA Apart ==
  ASSUME Placed, Placed', NEW c \in Conns, fate'[c] = fate[c],
         \A f \in DOMAIN owner : owner[f] # c, \A f \in DOMAIN owner' : owner'[f] # c
  PROVE  Phase(c)' = Phase(c) /\ ~Streaming(c)
<1>1. CASE fate[c] = "none"
  BY <1>1 DEF Placed
<1>2. CASE fate[c] # "none"
  BY <1>2 DEF Placed
<1>. QED  BY <1>1, <1>2

\* Nor does one move whose descriptor keeps its client and as many chunks.
LEMMA Alike ==
  ASSUME IInv, Placed, Placed', NEW f \in DOMAIN owner, f \in DOMAIN owner',
         owner'[f] = owner[f], clients'[f].resp = clients[f].resp, LifeInv
  PROVE  Phase(owner[f])' = Phase(owner[f])
<1>. PICK c \in Conns : c = owner[f] /\ c = owner'[f]
  BY DEF IInv, TableInv
<1>1. Phase(c)' = Phase(c)
  BY DEF Placed
<1>. QED  BY <1>1

\* What a connection other than the served one sees: nothing.
LEMMA OthersStand ==
  ASSUME IInv, IInv', LifeInv, Placed, Placed', NEW c \in Conns, fate'[c] = fate[c],
         NEW fd, fd \in DOMAIN owner => owner[fd] # c,
         \A f \in DOMAIN owner \ {fd} : f \in DOMAIN owner' /\ owner'[f] = owner[f],
         DOMAIN owner' \subseteq DOMAIN owner, fd \in DOMAIN owner' => owner'[fd] = owner[fd],
         SameLeft(clients', DOMAIN owner \ {fd})
  PROVE  Phase(c)' = Phase(c)
<1>1. CASE \E f \in DOMAIN owner : owner[f] = c
  <2>1. PICK f \in DOMAIN owner : owner[f] = c
    BY <1>1
  <2>2. f # fd /\ f \in DOMAIN owner' /\ owner'[f] = owner[f] /\ clients'[f].resp = clients[f].resp
    BY <2>1 DEF SameLeft
  <2>3. Phase(owner[f])' = Phase(owner[f])
    BY <2>2, Alike
  <2>4. owner'[f] = c
    BY <2>1, <2>2
  <2>. QED  BY <2>1, <2>3, <2>4
<1>2. CASE ~\E f \in DOMAIN owner : owner[f] = c
  <2>1. \A f \in DOMAIN owner' : owner'[f] # c
    BY <1>2
  <2>. QED  BY <1>2, <2>1, Apart
<1>. QED  BY <1>1, <1>2

\* What all of them see when no descriptor changes hands and no chunk is sent:
\* nothing.
LEMMA AllStand ==
  ASSUME IInv, LifeInv, Placed, Placed', UNCHANGED <<owner, fate>>,
         SameLeft(clients', DOMAIN owner)
  PROVE  \A c \in Conns : Phase(c)' = Phase(c)
<1>. TAKE c \in Conns
<1>1. CASE \E f \in DOMAIN owner : owner[f] = c
  <2>1. PICK f \in DOMAIN owner : owner[f] = c
    BY <1>1
  <2>2. f \in DOMAIN owner' /\ owner'[f] = owner[f] /\ clients'[f].resp = clients[f].resp
    BY DEF SameLeft
  <2>3. Phase(owner[f])' = Phase(owner[f])
    BY <2>2, Alike
  <2>4. owner'[f] = c
    BY <2>1, <2>2
  <2>. QED  BY <2>1, <2>3, <2>4
<1>2. CASE ~\E f \in DOMAIN owner : owner[f] = c
  BY <1>2, Apart
<1>. QED  BY <1>1, <1>2

\* Serving a descriptor is a step of its connection's life, or none.
LEMMA LivedStep ==
  ASSUME IInv, IInv', LifeInv, Placed, Placed', NEW fd \in Fds, Lived(fd), ReadsOn(fd)
  PROVE  LifeStep
<1>1. CASE Same
  <2>1. \A c \in Conns : Phase(c)' = Phase(c)
    BY <1>1, AllStand DEF Same
  <2>3. Phases' = Phases
    BY <2>1 DEF Phases
  <2>4. CASE read' = read
    BY <2>3, <2>4 DEF LifeStep, Lifecycle!lifeVars, Phases
  <2>5. CASE read' # read
    <3>1. PICK c \in Conns : fd \in DOMAIN owner /\ c = owner[fd]
      BY <2>5 DEF ReadsOn, IInv, TableInv
    <3>2. /\ clients[fd].resp = 0
          /\ \E k \in read[c] .. Len(Script[c]) : read' = [read EXCEPT ![c] = k]
      BY <2>5, <3>1 DEF ReadsOn
    <3>3. Phases[c] = "open"
      BY <3>1, <3>2 DEF Placed, Phases
    <3>4. Lifecycle!Listen(c)
      BY <2>3, <3>2, <3>3 DEF Lifecycle!Listen, Lifecycle!Hear, Phases
    <3>. QED  BY <3>4 DEF LifeStep, Lifecycle!LifeNext
  <2>. QED  BY <2>4, <2>5
<1>2. CASE Begins(fd) \/ GoesOn(fd) \/ Closes(fd)
  <2>1. PICK c \in Conns : fd \in DOMAIN owner /\ c = owner[fd]
    BY <1>2 DEF Begins, GoesOn, Closes, Streams, Ends, IInv, TableInv
  <2>2. /\ \A f \in DOMAIN owner \ {fd} : f \in DOMAIN owner' /\ owner'[f] = owner[f]
        /\ DOMAIN owner' \subseteq DOMAIN owner
        /\ fd \in DOMAIN owner' => owner'[fd] = owner[fd]
        /\ SameLeft(clients', DOMAIN owner \ {fd})
        /\ \A d \in Conns : d # c => fate'[d] = fate[d]
    <3>1. CASE Streams(fd)
      BY <3>1 DEF Streams
    <3>2. CASE Ends(fd, "answered") \/ Ends(fd, "cut")
      BY <3>2, <2>1 DEF Ends, Without, IInv, TableInv
    <3>. QED  BY <1>2, <3>1, <3>2 DEF Begins, GoesOn, Closes
  <2>3. \A d \in Conns : d # c => Phase(d)' = Phase(d)
    BY <2>1, <2>2, OthersStand
  <2>4. /\ Phases[c] = IF clients[fd].resp > 0 THEN "answering" ELSE "open"
        /\ (clients[fd].resp > 0 => read' = read)
        /\ \E k \in read[c] .. Len(Script[c]) : read' = [read EXCEPT ![c] = k]
    <3>1. clients[fd].resp \in Nat
      BY <2>1 DEF IInv, TableInv, LifeInv, ClientInfo
    <3>2. \E k \in read[c] .. Len(Script[c]) : read' = [read EXCEPT ![c] = k]
      <4>1. read[c] \in Nat /\ sent[c] \in Nat /\ read[c] <= sent[c] /\ sent[c] <= Len(Script[c])
            /\ Len(Script[c]) \in Nat
        BY EventLoopAssumption, LenProperties DEF IInv, NetInv
      <4>2. read[c] \in read[c] .. Len(Script[c])
        BY <4>1
      <4>3. read = [read EXCEPT ![c] = read[c]]
        BY DEF IInv, NetInv
      <4>. QED  BY <2>1, <4>2, <4>3 DEF ReadsOn
    <3>3. Phases[c] = IF clients[fd].resp > 0 THEN "answering" ELSE "open"
      BY <2>1 DEF Placed, Phases
    <3>4. clients[fd].resp > 0 => read' = read
      BY <3>1 DEF ReadsOn
    <3>. QED  BY <3>1, <3>2, <3>3, <3>4
  <2>5. CASE Begins(fd)
    <3>1. clients[fd].resp = 0 /\ clients'[fd].resp > 0 /\ owner'[fd] = c /\ fd \in DOMAIN owner'
      BY <2>1, <2>5 DEF Begins, Streams
    <3>2. Phase(c)' = "answering" /\ ~Streaming(c)
      BY <2>1, <3>1 DEF Placed
    <3>3. Phases' = [Phases EXCEPT ![c] = "answering"]
      BY <2>3, <3>2, OnePhase
    <3>4. Lifecycle!Whole(SubSeq(Script[c], 1, read'[c]))
      BY <2>1, <2>5 DEF Begins, WholeNow
    <3>5. Lifecycle!Respond(c)
      <4>1. Phases[c] = "open"
        BY <2>4, <3>1
      <4>2. Lifecycle!Hear(c)
        BY <2>4, <4>1 DEF Lifecycle!Hear, Phases
      <4>. QED  BY <3>3, <3>4, <4>2 DEF Lifecycle!Respond, Phases
    <3>. QED  BY <3>5 DEF LifeStep, Lifecycle!LifeNext
  <2>6. CASE GoesOn(fd)
    <3>1. /\ clients[fd].resp > 0 /\ clients'[fd].resp > 0
          /\ clients'[fd].resp <= clients[fd].resp
          /\ owner'[fd] = c /\ fd \in DOMAIN owner'
      BY <2>1, <2>6 DEF GoesOn, Streams
    <3>2. Phase(c)' = Phase(c)
      BY <2>1, <3>1 DEF Placed
    <3>3. Phases' = Phases
      BY <2>3, <3>2 DEF Phases
    <3>4. read' = read
      BY <2>4, <3>1
    <3>. QED  BY <3>3, <3>4 DEF LifeStep, Lifecycle!lifeVars, Phases
  <2>7. CASE Closes(fd)
    <3>1. PICK p \in {"answered", "cut"} : Ends(fd, p)
      BY <2>7 DEF Closes
    <3>2. /\ fate'[c] = p /\ \A f \in DOMAIN owner' : owner'[f] # c
      BY <2>1, <3>1 DEF Ends, Without, IInv, TableInv
    <3>3. Phase(c)' = p /\ ~Streaming(c)'
      BY <3>2 DEF Placed
    <3>4. Phases' = [Phases EXCEPT ![c] = p]
      BY <2>3, <3>3, OnePhase
    <3>6. CASE clients[fd].resp > 0
      <4>1. Lifecycle!Finish(c)
        BY <2>4, <3>4, <3>6 DEF Lifecycle!Finish, Phases
      <4>. QED  BY <4>1 DEF LifeStep, Lifecycle!LifeNext
    <3>7. CASE ~(clients[fd].resp > 0)
      <4>1. Lifecycle!Whole(SubSeq(Script[c], 1, read'[c]))
        BY <2>1, <2>7, <3>7 DEF Closes, WholeNow
      <4>2. Lifecycle!Hear(c)
        BY <2>4, <3>7 DEF Lifecycle!Hear, Phases
      <4>3. Lifecycle!Respond(c)
        BY <3>4, <4>1, <4>2 DEF Lifecycle!Respond, Phases
      <4>. QED  BY <4>3 DEF LifeStep, Lifecycle!LifeNext
    <3>. QED  BY <3>6, <3>7
  <2>. QED  BY <1>2, <2>5, <2>6, <2>7
<1>. QED  BY <1>1, <1>2 DEF Lived

\* Nothing is served: no connection notices.
LEMMA QuietStep ==
  ASSUME IInv, LifeInv, Placed, Placed',
         UNCHANGED <<read, owner, fate>>, SameLeft(clients', DOMAIN owner)
  PROVE  LifeStep
<1>1. \A c \in Conns : Phase(c)' = Phase(c)
  BY AllStand
<1>2. Phases' = Phases
  BY <1>1 DEF Phases
<1>. QED  BY <1>1, <1>2 DEF LifeStep, Lifecycle!lifeVars, Phases

\* A connection leaves the queue: its life begins.
LEMMA AcceptStep ==
  ASSUME IInv, IInv', LifeInv, Placed, Placed', NEW fd \in Fds, Accept(fd)
  PROVE  LifeInv' /\ LifeStep
<1>. DEFINE x == [Info(clients, fd) EXCEPT !.age = 0]
<1>0. PICK c : c = Head(backlog)
  OBVIOUS
<1>1. /\ stop = "none" /\ backlog # <<>> /\ fd \notin DOMAIN owner
      /\ owner' = With(owner, fd, c)
      /\ clients' = With(clients, fd, x)
      /\ UNCHANGED <<read, fate>>
  BY <1>0 DEF Accept, Running, First
<1>2. /\ c \in Conns /\ fate[c] = "none" /\ \A f \in DOMAIN owner : owner[f] # c
  <2>1. Len(backlog) \in Nat /\ 1 \in 1..Len(backlog) /\ c = backlog[1]
    BY <1>0, <1>1, EmptySeq, HeadTailProperties DEF IInv, QueueInv
  <2>. QED  BY <2>1, ElementOfSeq DEF IInv, QueueInv
<1>3. x.rqst = <<>> /\ x.resp = 0
  <2>1. Info(clients, fd) = Blank
    BY <1>1 DEF Info, IInv, TableInv
  <2>2. [Blank EXCEPT !.age = 0].rqst = <<>> /\ [Blank EXCEPT !.age = 0].resp = 0
    BY DEF Blank
  <2>. QED  BY <2>1, <2>2
<1>. HIDE DEF x
<1>4. /\ DOMAIN owner' = DOMAIN owner \cup {fd} /\ owner'[fd] = c
      /\ DOMAIN clients' = DOMAIN clients \cup {fd} /\ clients'[fd] = x
      /\ \A f \in DOMAIN owner : f # fd /\ owner'[f] = owner[f] /\ clients'[f] = clients[f]
  BY <1>1 DEF With, LifeInv
<1>5. Sound(x, Script[c], read[c])
  BY <1>2, <1>3, EmptySeq DEF IInv, NetInv, Sound, Suffix
<1>6. LifeInv'
  BY <1>1, <1>4, <1>5 DEF LifeInv
<1>7. Phase(c) = "idle" /\ ~Streaming(c) /\ Phase(c)' = "open"
  <2>1. Phase(c) = "idle" /\ ~Streaming(c)
    BY <1>2 DEF Placed
  <2>2. fd \in DOMAIN owner' /\ owner'[fd] = c /\ ~(clients'[fd].resp > 0)
    BY <1>3, <1>4
  <2>. QED  BY <2>1, <2>2 DEF Placed
<1>8. \A d \in Conns : d # c => Phase(d)' = Phase(d)
  <2>. SUFFICES ASSUME NEW d \in Conns, d # c
                PROVE  Phase(d)' = Phase(d)
    OBVIOUS
  <2>1. CASE \E f \in DOMAIN owner : owner[f] = d
    <3>1. PICK f \in DOMAIN owner : owner[f] = d
      BY <2>1
    <3>2. f \in DOMAIN owner' /\ owner'[f] = owner[f] /\ clients'[f].resp = clients[f].resp
      BY <1>4
    <3>3. Phase(owner[f])' = Phase(owner[f])
      BY <3>2, Alike
    <3>4. owner'[f] = d
      BY <3>1, <3>2
    <3>. QED  BY <3>1, <3>3, <3>4
  <2>2. CASE ~\E f \in DOMAIN owner : owner[f] = d
    <3>1. \A f \in DOMAIN owner' : owner'[f] # d
      BY <1>4, <2>2
    <3>. QED  BY <1>1, <2>2, <3>1, Apart
  <2>. QED  BY <2>1, <2>2
<1>9. Phases' = [Phases EXCEPT ![c] = "open"]
  <2>1. Phase(c)' = "open" /\ \A d \in Conns : d # c => Phase(d)' = Phase(d)
    BY <1>7, <1>8
  <2>. QED  BY <1>2, <2>1, OnePhase
<1>10. Lifecycle!Open(c)
  BY <1>1, <1>2, <1>7, <1>9 DEF Lifecycle!Open, Phases
<1>. QED  BY <1>2, <1>6, <1>10 DEF LifeStep, Lifecycle!LifeNext

\* check_all_timeout closes one connection.
LEMMA CloseExpiredStep ==
  ASSUME IInv, IInv', LifeInv, Placed, Placed', NEW fd \in Fds, CloseExpired(fd)
  PROVE  LifeInv' /\ LifeStep
<1>1. /\ stop = "none" /\ remove_fd(fd, clients, "expired") /\ read' = read /\ fd \in DOMAIN owner
  BY DEF CloseExpired, Running, First, Expired, IInv, TableInv
<1>2. SoundMap(clients) /\ SameLeft(clients, DOMAIN owner \ {fd})
  BY <1>1, ClientsSound DEF SameLeft
<1>3. LifeInv' /\ Ends(fd, "expired")
  BY <1>1, <1>2, RemoveLives
<1>4. PICK c \in Conns : c = owner[fd]
  BY <1>1 DEF IInv, TableInv
<1>5. /\ \A f \in DOMAIN owner \ {fd} : f \in DOMAIN owner' /\ owner'[f] = owner[f]
      /\ DOMAIN owner' \subseteq DOMAIN owner /\ fd \notin DOMAIN owner'
      /\ SameLeft(clients', DOMAIN owner \ {fd})
      /\ \A d \in Conns : d # c => fate'[d] = fate[d]
      /\ fate'[c] = "expired" /\ \A f \in DOMAIN owner' : owner'[f] # c
  BY <1>3, <1>4 DEF Ends, Without, IInv, TableInv
<1>6. \A d \in Conns : d # c => Phase(d)' = Phase(d)
  BY <1>1, <1>4, <1>5, OthersStand
<1>7. Phase(c) \in {"open", "answering"}
  BY <1>1, <1>4 DEF Placed
<1>8. Phase(c)' = "expired" /\ ~Streaming(c)'
  BY <1>5 DEF Placed
<1>9. Phases' = [Phases EXCEPT ![c] = "expired"]
  BY <1>6, <1>8, OnePhase
<1>10. Lifecycle!Expire(c)
  BY <1>1, <1>7, <1>9 DEF Lifecycle!Expire, Phases
<1>. QED  BY <1>3, <1>10 DEF LifeStep, Lifecycle!LifeNext

\* The steps of the loop that serve a descriptor: they keep the invariant, and are
\* steps of its connection's life.  A client with a partial request is polled.
LEMMA ChunkedRqstLives ==
  ASSUME SingleRequests, IInv, LifeInv, NetInv', NEW fd \in Fds, ChunkedRqst(fd)
  PROVE  LifeInv' /\ Lived(fd) /\ ReadsOn(fd)
<1>1. PICK n \in RecvResults(fd) :
       \E client \in {IF n = -1 THEN clients[fd]
                      ELSE [Received(fd, n) EXCEPT !.age = 0]} :
         \E res \in {is_request_fulfilled(client)} :
           /\ ReadUpTo(fd, n)
           /\ IF res.thrown \/ res.fulfilled
              THEN /\ clients' = With(clients, fd, res.client)
                   /\ stop' = IF res.thrown THEN "out_of_range" ELSE stop
                   /\ UNCHANGED <<owner, watch, fate>>
              ELSE rearm(fd, With(clients, fd, res.client))
           /\ ready' = IF res.fulfilled THEN Append(ready, fd) ELSE ready
  BY DEF ChunkedRqst
<1>. DEFINE x == IF n = -1 THEN clients[fd] ELSE [Received(fd, n) EXCEPT !.age = 0]
            res == is_request_fulfilled(x)
            c == owner[fd]
<1>2. /\ ReadUpTo(fd, n)
      /\ \/ rearm(fd, With(clients, fd, res.client))
         \/ /\ clients' = With(clients, fd, res.client)
            /\ UNCHANGED <<owner, watch, fate>>
  BY <1>1
<1>3. /\ stop = "none" /\ UNCHANGED <<net, sent>> /\ fd \in DOMAIN owner /\ fd \in DOMAIN clients
  BY DEF ChunkedRqst, Running, First, ToPoll, IInv, TableInv
<1>4. /\ x \in ClientInfo /\ x.resp = clients[fd].resp /\ Sound(x, Script[c], read'[c])
      /\ SoundMap(With(clients, fd, x)) /\ ReadsOn(fd)
  <2>1. CASE n = -1
    <3>1. read' = read
      BY <1>2, <2>1 DEF ReadUpTo
    <3>2. SoundMap(clients)
      BY <3>1, ClientsSound
    <3>3. x \in ClientInfo /\ x.resp = clients[fd].resp /\ Sound(x, Script[c], read'[c])
      BY <1>3, <2>1, <3>2 DEF SoundMap
    <3>. QED  BY <3>1, <3>2, <3>3, WithSound DEF ReadsOn
  <2>2. CASE n # -1
    <3>. DEFINE y == Received(fd, n)
    <3>1. /\ ReadsOn(fd) /\ y \in ClientInfo /\ Sound(y, Script[c], read'[c])
          /\ y.resp = clients[fd].resp /\ SoundMap(With(clients, fd, y))
      BY <1>2, <1>3, <2>2, ReceivedSound
    <3>2. x = [y EXCEPT !.age = 0]
      BY <2>2
    <3>. HIDE DEF y, x
    <3>3. x \in ClientInfo /\ x.rqst = y.rqst /\ x.resp = y.resp
      BY <3>1, <3>2, LeftWritten
    <3>4. Sound(x, Script[c], read'[c])
      BY <3>1, <3>3 DEF Sound
    <3>5. SoundMap(With(clients, fd, x))
      <4>1. /\ DOMAIN With(clients, fd, y) = DOMAIN clients \cup {fd}
            /\ \A f \in DOMAIN clients : f # fd => With(clients, fd, y)[f] = clients[f]
        BY DEF With
      <4>2. /\ DOMAIN With(clients, fd, x) = DOMAIN clients \cup {fd}
            /\ \A f \in DOMAIN clients \cup {fd} :
                 With(clients, fd, x)[f] = IF f = fd THEN x ELSE clients[f]
        BY DEF With
      <4>. QED  BY <3>1, <3>3, <3>4, <4>1, <4>2 DEF SoundMap, LifeInv
    <3>. QED  BY <3>1, <3>3, <3>4, <3>5
  <2>. QED  BY <2>1, <2>2
<1>. HIDE DEF x
<1>5. c \in Conns /\ Script[c] \in Seq(Token) /\ SingleRequest(Script[c])
  BY <1>3, EventLoopAssumption DEF IInv, TableInv, SingleRequests
<1>6. read'[c] \in Nat /\ read'[c] <= Len(Script[c])
  <2>1. read'[c] \in Nat /\ sent'[c] \in Nat /\ read'[c] <= sent'[c] /\ sent'[c] <= Len(Script[c])
    BY <1>5 DEF NetInv
  <2>2. Len(Script[c]) \in Nat
    BY <1>5, LenProperties
  <2>. QED  BY <2>1, <2>2
<1>7. res.client = x
  BY <1>4, <1>5, <1>6, SoundExamined
<1>8. SameLeft(With(clients, fd, x), DOMAIN owner)
  BY <1>3, <1>4 DEF SameLeft, With, LifeInv
<1>9. LifeInv' /\ Same
  <2>1. CASE rearm(fd, With(clients, fd, x))
    BY <1>3, <1>4, <1>8, <2>1, RearmLives
  <2>2. CASE clients' = With(clients, fd, x) /\ UNCHANGED <<owner, watch, fate>>
    BY <1>4, <1>8, <2>2, SoundClients DEF Same
  <2>. QED  BY <1>2, <1>7, <2>1, <2>2
<1>. QED  BY <1>4, <1>9 DEF Lived

\* A response that is being streamed.
LEMMA ChunkedRespLives ==
  ASSUME IInv, LifeInv, NEW fd \in Fds, ChunkedResp(fd)
  PROVE  LifeInv' /\ Lived(fd) /\ ReadsOn(fd)
<1>1. /\ stop = "none" /\ fd \in DOMAIN clients /\ chunked_resp(fd, clients) /\ read' = read
      /\ clients[fd].rqst = <<>> /\ HasWork(fd)
  BY DEF ChunkedResp, Running, First, ToPoll
<1>2. fd \in DOMAIN owner /\ clients[fd].resp > 0
  BY <1>1 DEF IInv, TableInv, HasWork
<1>3. SoundMap(clients) /\ SameLeft(clients, DOMAIN owner \ {fd})
  BY <1>1, ClientsSound DEF SameLeft
<1>. QED  BY <1>1, <1>2, <1>3, ChunkLives DEF Lived, Closes, GoesOn, ReadsOn

\* A request found complete is answered.
LEMMA AnswerLives ==
  ASSUME SingleRequests, IInv, LifeInv, NetInv', Answer
  PROVE  Head(ready) \in Fds /\ LifeInv' /\ Lived(Head(ready)) /\ ReadsOn(Head(ready))
<1>1. /\ stop = "none" /\ ready # <<>> /\ read' = read
      /\ response_handler(Head(ready), clients)
  BY DEF Answer, Running
<1>2. Head(ready) \in Fds
  BY <1>1, HeadTailProperties DEF IInv, ControlInv
<1>3. SoundMap(clients) /\ SameLeft(clients, DOMAIN owner) /\ DOMAIN clients = DOMAIN owner
  BY <1>1, ClientsSound DEF IInv, TableInv
<1>. QED  BY <1>1, <1>2, <1>3, HandlerLives DEF ReadsOn

\* An event is served.
LEMMA ReadEventLives ==
  ASSUME SingleRequests, IInv, LifeInv, NetInv', ReadEvent
  PROVE  Head(events) \in Fds /\ LifeInv' /\ Lived(Head(events)) /\ ReadsOn(Head(events))
<1>. DEFINE fd == Head(events)
<1>1. /\ stop = "none" /\ events # <<>> /\ fd # Listen /\ UNCHANGED <<net, sent>>
  BY DEF ReadEvent, Running
<1>2. PICK n \in RecvResults(fd) :
          /\ ReadUpTo(fd, n)
          /\ IF n = -1 THEN rearm(fd, clients)
             ELSE response_handler(fd, With(clients, fd, Received(fd, n)))
  BY DEF ReadEvent
<1>3. fd \in Fds
  BY <1>1, HeadTailProperties DEF IInv, ControlInv
<1>. HIDE DEF fd
<1>4. CASE n = -1
  <2>1. read' = read
    BY <1>2, <1>4 DEF ReadUpTo
  <2>2. SoundMap(clients) /\ SameLeft(clients, DOMAIN owner)
    BY <2>1, ClientsSound
  <2>3. LifeInv' /\ Same
    BY <1>1, <1>2, <1>4, <2>2, RearmLives
  <2>. QED  BY <1>3, <2>1, <2>3 DEF Lived, ReadsOn, fd
<1>5. CASE n # -1
  <2>. DEFINE map == With(clients, fd, Received(fd, n))
  <2>1. /\ fd \in DOMAIN owner /\ ReadsOn(fd) /\ SoundMap(map)
        /\ Received(fd, n).resp = clients[fd].resp
    BY <1>1, <1>2, <1>3, <1>5, ReceivedSound
  <2>2. DOMAIN map = DOMAIN owner /\ SameLeft(map, DOMAIN owner)
    <3>1. DOMAIN clients = DOMAIN owner
      BY <1>1 DEF IInv, TableInv
    <3>2. /\ DOMAIN map = DOMAIN clients \cup {fd}
          /\ \A y \in DOMAIN clients : map[y] = IF y = fd THEN Received(fd, n) ELSE clients[y]
      BY Zenon DEF With
    <3>. HIDE DEF map
    <3>. QED  BY <2>1, <3>1, <3>2 DEF SameLeft
  <2>3. response_handler(fd, map)
    BY <1>2, <1>5
  <2>. HIDE DEF map
  <2>4. LifeInv' /\ Lived(fd)
    BY <1>1, <1>3, <2>1, <2>2, <2>3, HandlerLives
  <2>. QED  BY <1>3, <2>1, <2>4 DEF fd
<1>. QED  BY <1>4, <1>5

\* The steps that serve nobody.
LEMMA QuietLives ==
  ASSUME IInv, LifeInv, Placed, Placed',
         \/ Tick \/ UNCHANGED vars \/ \E c \in Conns : Peer(c)
         \/ ChunksDone \/ AnswersDone \/ EpollWait \/ AcceptFails \/ EventsDone \/ TimeoutsDone
  PROVE  LifeInv' /\ LifeStep
<1>1. CASE Tick
  <2>1. /\ DOMAIN clients' = DOMAIN clients
        /\ \A fd \in DOMAIN clients :
             clients'[fd].rqst = clients[fd].rqst /\ clients'[fd].resp = clients[fd].resp
    <3>1. DOMAIN clients' = DOMAIN clients
      BY <1>1 DEF Tick
    <3>2. \A x \in ClientInfo : \A a :
            [x EXCEPT !.age = a].rqst = x.rqst /\ [x EXCEPT !.age = a].resp = x.resp
      BY DEF ClientInfo
    <3>3. ASSUME NEW fd \in DOMAIN clients
          PROVE  clients'[fd].rqst = clients[fd].rqst /\ clients'[fd].resp = clients[fd].resp
      <4>1. PICK a : clients'[fd] = [clients[fd] EXCEPT !.age = a]
        BY <1>1 DEF Tick
      <4>2. clients[fd] \in ClientInfo
        BY DEF IInv, TableInv
      <4>. QED  BY <3>2, <4>1, <4>2
    <3>. QED  BY <3>1, <3>3
  <2>2. LifeInv' /\ SameLeft(clients', DOMAIN owner)
    BY <1>1, <2>1 DEF Tick, LifeInv, SameLeft, Sound
  <2>. QED  BY <1>1, <2>2, QuietStep DEF Tick
<1>2. CASE UNCHANGED <<read, owner, fate, clients>>
  <2>1. LifeInv' /\ SameLeft(clients', DOMAIN owner)
    BY <1>2 DEF LifeInv, SameLeft
  <2>. QED  BY <1>2, <2>1, QuietStep
<1>. QED  BY <1>1, <1>2
          DEF vars, Peer, Connect, PeerSends, PeerShuts, PeerResets,
              ChunksDone, AnswersDone, EpollWait, AcceptFails, EventsDone, TimeoutsDone

\* Every step: the invariant of single requests is inductive, and the connections
\* live as promised.
LEMMA LifeInvStep ==
  ASSUME SingleRequests, IInv, IInv', LifeInv, Placed, Placed', [Next]_vars
  PROVE  LifeInv' /\ LifeStep
<1>1. NetInv'
  BY DEF IInv
<1>2. ASSUME NEW fd \in Fds, ChunkedRqst(fd)
      PROVE  LifeInv' /\ LifeStep
  BY <1>1, <1>2, ChunkedRqstLives, LivedStep
<1>3. ASSUME NEW fd \in Fds, ChunkedResp(fd)
      PROVE  LifeInv' /\ LifeStep
  BY <1>3, ChunkedRespLives, LivedStep
<1>4. ASSUME NEW fd \in Fds, Accept(fd)
      PROVE  LifeInv' /\ LifeStep
  BY <1>4, AcceptStep
<1>5. ASSUME NEW fd \in Fds, CloseExpired(fd)
      PROVE  LifeInv' /\ LifeStep
  BY <1>5, CloseExpiredStep
<1>6. CASE Answer
  BY <1>1, <1>6, AnswerLives, LivedStep
<1>7. CASE ReadEvent
  BY <1>1, <1>7, ReadEventLives, LivedStep
<1>8. CASE \/ Tick \/ UNCHANGED vars \/ \E c \in Conns : Peer(c)
           \/ ChunksDone \/ AnswersDone \/ EpollWait \/ AcceptFails \/ EventsDone \/ TimeoutsDone
  BY <1>8, QuietLives
<1>. QED  BY <1>2, <1>3, <1>4, <1>5, <1>6, <1>7, <1>8 DEF Next, Server

\* Before anything is read there is nothing to hold.
LEMMA LifeInit == Init => LifeInv /\ Lifecycle!LifeInit
<1>. SUFFICES ASSUME Init PROVE LifeInv /\ Lifecycle!LifeInit
  OBVIOUS
<1>1. DOMAIN owner = {}
  BY EmptyMap DEF Init
<1>2. \A c \in Conns : fate[c] = "none" /\ Phase(c) = "idle"
  BY <1>1 DEF Init, Phase, Streaming
<1>. QED  BY <1>1, <1>2 DEF Init, LifeInv, Lifecycle!LifeInit

\* When every peer sends one request without a body, or the beginning of one, a
\* connection is answered only when its own bytes make a whole request, at most
\* once, and what was closed stays closed, whatever the other peers do and
\* however events, the ready list and reused descriptors interleave: server::run
\* implements ConnectionLifecycle.
THEOREM LivesAsPromised ==
  ASSUME SingleRequests
  PROVE  Spec => LifecycleRespected
<1>1. Init => IInv /\ LifeInv /\ Lifecycle!LifeInit
  BY IInvInit, LifeInit
<1>2. IInv /\ [Next]_vars => IInv'
  BY IInvStep
<1>3. IInv /\ IInv' => Placed /\ Placed'
  BY PhasesPlaced, PTL
<1>4. IInv /\ IInv' /\ LifeInv /\ [Next]_vars => LifeInv' /\ [Lifecycle!LifeNext]_(Lifecycle!lifeVars)
  BY <1>3, LifeInvStep DEF LifeStep
<1>. QED  BY <1>1, <1>2, <1>4, PTL DEF Spec, LifecycleRespected, Lifecycle!LifeSpec
=============================================================================
