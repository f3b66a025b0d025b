--------------------------- MODULE SelectLoopProofs ---------------------------
(***************************************************************************)
(* The safety of webserv's select loop for every number of connections and *)
(* descriptors, every configuration, and whatever the peers send: its      *)
(* descriptors, its turns and its sets; what a location allows; and, for   *)
(* requests whose bytes say what they ask for, whose request is handed     *)
(* over and who is let in.                                                 *)
(***************************************************************************)
EXTENDS SelectLoop, RequestBufferProofs, FiniteSetTheorems

-----------------------------------------------------------------------------
\* The invariant, in the parts the actions disturb.

NetInv ==
  /\ script \in Scripts
  /\ peer \in [Conns -> PeerType]
  /\ inbox \in [Conns -> Seq(Token)]
  /\ unread \in [Conns -> Int]
  /\ \A c \in Conns : unread[c] <= ROOM /\ (~reused => unread[c] >= 0)
  /\ backlog \in Seq(Conns)

Places == 1..Len(clients)

ClientsInv ==
  /\ clients \in Seq(ClientType)
  /\ \A i \in Places : clients[i].h.asked.uri # <<>>

BufferInv ==
  /\ DOMAIN buffer \subseteq Fds
  /\ \A fd \in DOMAIN buffer : buffer[fd] \in RequestBuf

\* The steps in which the client at ci is served.
Serves == {"match", "verify", "carry", "file", "send", "expire"}

ControlInv ==
  /\ check \in BOOLEAN /\ reused \in BOOLEAN /\ lost \subseteq Fds /\ left \subseteq Fds
  /\ pc \in {"select", "accept", "client", "sync"} \cup Serves
  /\ ci \in Nat \ {0}
  /\ stop \in {"none", "undefined", "out_of_range", "SIGPIPE"}
  /\ blind \/ reused => left # {}

\* The descriptors of a client.
Own(k) == {k.fd, k.file, k.cgi} \ {unused}

\* Every open descriptor has one use: a client's connection, one of its files,
\* or a file that was lost.
TableInv ==
  /\ DOMAIN open \subseteq Fds
  /\ lost \subseteq DOMAIN open
  /\ \A x \in DOMAIN open :
       /\ open[x] \in Conns \cup {"file"}
       /\ x \in lost \/ \E i \in Places : x \in Own(clients[i])
  /\ \A i \in Places :
       /\ Own(clients[i]) \subseteq DOMAIN open \ lost
       /\ open[clients[i].fd] \in Conns
       /\ clients[i].file # unused => open[clients[i].file] = "file"
       /\ clients[i].cgi # unused => open[clients[i].cgi] = "file" /\ clients[i].cgi # clients[i].file
  /\ \A i, j \in Places : i # j => Own(clients[i]) \cap Own(clients[j]) = {}

TurnInv ==
  /\ \A i, j \in Places : clients[i].active /\ clients[j].active => i = j
  /\ ~failed /\ clients # <<>> => \E i \in Places : clients[i].active
  /\ \A i \in Places : clients[i].file \in fds.rbuf => clients[i].active
  /\ pc \in Serves => ci \in Places /\ (clients[ci].active \/ (pc = "expire" /\ ~check))

\* The kept sets; a client that is read from has no file.
FdsInv ==
  /\ fds \in SetsType
  /\ \A i \in Places :
       clients[i].fd \in fds.rbuf => clients[i].file = unused /\ clients[i].cgi = unused

\* What is still to come in this pass: the whole body of the loop for the client
\* at i, what it does from the file on, what it does from the sending on.
Ahead(i) == \/ pc = "accept"
            \/ pc \in {"client", "match", "verify", "carry"} /\ i >= ci
            \/ pc \in {"file", "send", "expire"} /\ i > ci
FileAhead(i) == Ahead(i) \/ (pc = "file" /\ i = ci)
SendAhead(i) == FileAhead(i) \/ (pc = "send" /\ i = ci)

\* What select has reported of them is still so; what it has not is new.
PassInv ==
  /\ pc = "select" => \A i \in Places : \A x \in Own(clients[i]) : x <= fds.max
  /\ pc = "accept" => /\ Listen \in fds.read => backlog # <<>>
                      /\ fds.read \cup fds.write \subseteq DOMAIN open \cup {Listen}
  /\ \A i \in Places : Ahead(i) /\ clients[i].fd \in fds.read => clients[i].fd \in fds.rbuf
  /\ \A i \in Places : FileAhead(i) =>
       /\ clients[i].file \in fds.read => clients[i].file \in fds.rbuf
       /\ clients[i].file \in fds.rbuf =>
            clients[i].file \in fds.read \/ (pc = "file" /\ i = ci /\ ~check)
  /\ pc \in {"match", "verify", "carry"} => clients[ci].fd \in fds.rbuf /\ ~check
  /\ pc \in {"send", "expire"} /\ check => clients[ci].file \notin fds.rbuf

\* What a client waits for.
Reads(k) == /\ k.fd \in fds.rbuf /\ k.fd \notin fds.wbuf
            /\ k.file = unused /\ k.cgi = unused /\ k.h.written = 0
Files(k) == /\ k.fd \notin fds.rbuf \cup fds.wbuf
            /\ k.file \in fds.rbuf /\ k.cgi \notin fds.rbuf
            /\ k.h.written # 0 => k.file \in fds.wbuf /\ ~k.h.toFile /\ k.h.kind # "refused"
Sends(k) == /\ k.fd \in fds.wbuf /\ k.h.written < RLEN
            /\ {k.fd, k.file, k.cgi} \cap fds.rbuf = {}
            /\ {k.file, k.cgi} \cap fds.wbuf = {}
Idle(k)  == {k.fd, k.file, k.cgi} \cap (fds.rbuf \cup fds.wbuf) = {}

\* A client may still act in this pass.
Acting == \/ pc \in Serves \cup {"accept"}
          \/ pc = "client" /\ \E i \in Places : i >= ci /\ clients[i].active

\* The kept sets and what select has reported, unless a number was given out
\* that was still watched.
WaitsInv ==
  \A i \in Places :
    Reads(clients[i]) \/ Files(clients[i]) \/ Sends(clients[i]) \/ (blind /\ Idle(clients[i]))

WatchInv ==
  \A x \in fds.rbuf \cup fds.wbuf : x \in left \/ \E i \in Places : x \in Own(clients[i])

ReportInv ==
  /\ \A i \in Places : FileAhead(i) /\ clients[i].file \in fds.read =>
       (clients[i].file \in fds.write <=> clients[i].file \in fds.wbuf)
  /\ \A i \in Places : SendAhead(i) /\ clients[i].fd \in fds.write =>
       /\ clients[i].fd \in fds.wbuf
       /\ {clients[i].file, clients[i].cgi} \cap (fds.read \cup fds.write) = {}
  /\ Acting => fds.read \cup fds.write \subseteq DOMAIN open \cup {Listen}

SetsInv == WaitsInv /\ WatchInv /\ ReportInv

IInv ==
  /\ NetInv /\ ClientsInv /\ BufferInv /\ ControlInv
  /\ TableInv /\ TurnInv /\ FdsInv
  /\ stop = "none" => PassInv
  /\ ~reused /\ stop = "none" => SetsInv

-----------------------------------------------------------------------------
\* Operators of the model.

\* The lowest free descriptor is free.
LEMMA LowestIn ==
  ASSUME NEW S \in SUBSET Fds, S # {}
  PROVE  Lowest(S) \in S
<1>1. S \in SUBSET Nat
  BY DEF Fds
<1>2. \E x \in S : \A y \in S : x <= y
  BY <1>1, LeastNatural
<1>. QED  BY <1>2 DEF Lowest

\* Without the client at i, the ones behind it move up.
LEMMA Removed ==
  ASSUME NEW T, NEW s \in Seq(T), NEW i \in 1..Len(s)
  PROVE  /\ RemoveAt(s, i) \in Seq(T)
         /\ Len(RemoveAt(s, i)) = Len(s) - 1
         /\ \A j \in 1..(Len(s) - 1) : RemoveAt(s, i)[j] = IF j < i THEN s[j] ELSE s[j + 1]
<1>. DEFINE n == Len(s)
            front == SubSeq(s, 1, i - 1)
            rest == SubSeq(s, i + 1, n)
<1>1. n \in Nat /\ i \in 1..n /\ \A j \in 1..n : s[j] \in T
  BY ElementOfSeq, LenProperties
<1>2. /\ front \in Seq(T) /\ Len(front) = i - 1
      /\ \A j \in 1..(i - 1) : front[j] = s[j]
  <2>1. 1 \in Int /\ i - 1 \in Int /\ \A j \in 1..(i - 1) : s[j] \in T
    BY <1>1
  <2>2. /\ front \in Seq(T) /\ Len(front) = IF 1 <= i - 1 THEN (i - 1) - 1 + 1 ELSE 0
        /\ \A j \in 1..((i - 1) - 1 + 1) : front[j] = s[1 + j - 1]
    BY <2>1, SubSeqProperties
  <2>. QED  BY <1>1, <2>2
<1>3. /\ rest \in Seq(T) /\ Len(rest) = n - i
      /\ \A j \in 1..(n - i) : rest[j] = s[i + j]
  <2>1. i + 1 \in Int /\ n \in Int /\ \A j \in (i + 1)..n : s[j] \in T
    BY <1>1
  <2>2. /\ rest \in Seq(T) /\ Len(rest) = IF i + 1 <= n THEN n - (i + 1) + 1 ELSE 0
        /\ \A j \in 1..(n - (i + 1) + 1) : rest[j] = s[(i + 1) + j - 1]
    BY <2>1, SubSeqProperties
  <2>. QED  BY <1>1, <2>2
<1>. HIDE DEF front, rest
<1>4. /\ front \o rest \in Seq(T) /\ Len(front \o rest) = n - 1
      /\ \A j \in 1..(n - 1) :
           (front \o rest)[j] = IF j <= i - 1 THEN front[j] ELSE rest[j - (i - 1)]
  <2>1. /\ front \o rest \in Seq(T) /\ Len(front \o rest) = Len(front) + Len(rest)
        /\ \A j \in 1..(Len(front) + Len(rest)) :
             (front \o rest)[j] = IF j <= Len(front) THEN front[j] ELSE rest[j - Len(front)]
    BY <1>2, <1>3, ConcatProperties
  <2>2. Len(front) + Len(rest) = n - 1
    BY <1>1, <1>2, <1>3
  <2>. QED  BY <1>2, <2>1, <2>2
<1>5. RemoveAt(s, i) = front \o rest
  BY DEF RemoveAt, front, rest
<1>6. \A j \in 1..(n - 1) : (front \o rest)[j] = IF j < i THEN s[j] ELSE s[j + 1]
  <2>. TAKE j \in 1..(n - 1)
  <2>1. j < i <=> j <= i - 1
    BY <1>1
  <2>2. CASE j < i
    BY <1>1, <1>2, <1>4, <2>1, <2>2
  <2>3. CASE ~(j < i)
    <3>1. j - (i - 1) \in 1..(n - i) /\ i + (j - (i - 1)) = j + 1
      BY <1>1, <2>3
    <3>2. (front \o rest)[j] = rest[j - (i - 1)]
      BY <1>4, <2>1, <2>3
    <3>. QED  BY <1>3, <2>3, <3>1, <3>2
  <2>. QED  BY <2>2, <2>3
<1>. QED  BY <1>1, <1>4, <1>5, <1>6

\* Passing the turn changes nothing but who has it.
LEMMA TurnPassed ==
  ASSUME NEW cs \in Seq(ClientType), NEW i \in 1..Len(cs)
  PROVE  LET next == IF i < Len(cs) THEN i + 1 ELSE 1
             new  == update_active_client(cs, i)
         IN /\ new \in Seq(ClientType) /\ Len(new) = Len(cs) /\ next \in 1..Len(cs)
            /\ \A j \in 1..Len(cs) : new[j] = [cs[j] EXCEPT !.active = (j = next)]
<1>. DEFINE n    == Len(cs)
            next == IF i < n THEN i + 1 ELSE 1
            at(j) == [cs[j] EXCEPT !.active = (j = next)]
<1>1. n \in Nat /\ \A j \in 1..n : cs[j] \in ClientType
  BY ElementOfSeq, LenProperties
<1>2. next \in 1..n
  BY <1>1
<1>. HIDE DEF next
<1>3. \A j \in 1..n : at(j) \in ClientType
  <2>. TAKE j \in 1..n
  <2>1. cs[j] \in ClientType /\ (j = next) \in BOOLEAN
    BY <1>1
  <2>. QED  BY <2>1 DEF ClientType
<1>4. update_active_client(cs, i) = [j \in 1..n |-> at(j)]
  BY DEF update_active_client, next
<1>. HIDE DEF at
<1>5. [j \in 1..n |-> at(j)] \in Seq(ClientType) /\ Len([j \in 1..n |-> at(j)]) = n
  BY <1>1, <1>3
<1>. QED  BY <1>2, <1>4, <1>5 DEF at, next

-----------------------------------------------------------------------------
\* What follows from the invariant.

\* The numbers that are no descriptors of a client.
LEMMA NoDescriptor == unused \notin Fds /\ Listen \notin Fds /\ Fds \subseteq Nat \ {0}
BY SelectLoopAssumption DEF unused, Listen, Fds

\* The client in a place has its type.
LEMMA ClientIs ==
  ASSUME ClientsInv
  PROVE  /\ Len(clients) \in Nat
         /\ \A i \in Places : /\ clients[i] \in ClientType
                              /\ clients[i].fd \in Fds
                              /\ clients[i].file \in Fds \cup {unused}
                              /\ clients[i].cgi \in Fds \cup {unused}
                              /\ clients[i].active \in BOOLEAN /\ clients[i].auth \in BOOLEAN
                              /\ clients[i].h \in Handler
                              /\ clients[i].h.written \in Nat
<1>1. Len(clients) \in Nat /\ \A i \in Places : clients[i] \in ClientType
  BY ElementOfSeq, LenProperties DEF ClientsInv, Places
<1>2. \A k \in ClientType : /\ k.fd \in Fds
                            /\ k.file \in Fds \cup {unused} /\ k.cgi \in Fds \cup {unused}
                            /\ k.active \in BOOLEAN /\ k.auth \in BOOLEAN /\ k.h \in Handler
  BY DEF ClientType
<1>3. \A h \in Handler : h.written \in Nat
  BY DEF Handler
<1>. QED  BY <1>1, <1>2, <1>3

\* The invariant is as strong as the properties.
LEMMA IInvTypes == IInv => TypeOK
<1>. SUFFICES ASSUME IInv PROVE TypeOK
  OBVIOUS
<1>1. Range(open) \subseteq Conns \cup {"file"} /\ Range(buffer) \subseteq RequestBuf
  BY DEF IInv, TableInv, BufferInv, Range
<1>. QED  BY <1>1 DEF IInv, NetInv, ClientsInv, BufferInv, ControlInv, TableInv, FdsInv, TypeOK, Serves

\* Of the open descriptors.
LEMMA IInvDescriptors == IInv => DescriptorsKept
<1>. SUFFICES ASSUME IInv PROVE DescriptorsKept
  OBVIOUS
<1>1. \A x : x \in ClientFds \ {unused} <=> \E i \in Places : x \in Own(clients[i])
  BY DEF ClientFds, Places, Own
<1>2. DOMAIN open = (ClientFds \ {unused}) \cup lost
  BY <1>1 DEF IInv, TableInv
<1>. QED  BY <1>2, IInvTypes DEF DescriptorsKept

\* Of the turn.
LEMMA IInvTurn == IInv => TurnHeld
<1>. SUFFICES ASSUME IInv PROVE TurnHeld
  OBVIOUS
<1>. DEFINE active == {i \in 1..Len(clients) : clients[i].active}
<1>1. \A i, j \in active : i = j
  BY DEF IInv, TurnInv, Places
<1>2. Cardinality(active) <= 1
  <2>. HIDE DEF active
  <2>1. CASE active = {}
    BY <2>1, FS_EmptySet
  <2>2. CASE active # {}
    <3>1. PICK i : active = {i}
      BY <1>1, <2>2
    <3>2. Cardinality(active) = 1
      BY <3>1, FS_Singleton
    <3>. QED  BY <3>2
  <2>. QED  BY <2>1, <2>2
<1>3. ~failed /\ clients # <<>> => active # {}
  BY DEF IInv, TurnInv, Places
<1>4. \A i \in 1..Len(clients) : clients[i].file \in fds.rbuf => i \in active
  BY DEF IInv, TurnInv, Places
<1>. QED  BY <1>2, <1>3, <1>4 DEF TurnHeld

\* Of the kept sets.
LEMMA IInvSets == IInv => SetsAgree
<1>. SUFFICES ASSUME IInv PROVE SetsAgree
  OBVIOUS
<1>1. WatchedForClients
  <2>1. ~reused /\ stop = "none" => fds.rbuf \cup fds.wbuf \subseteq ClientFds \cup left
    BY DEF IInv, SetsInv, WaitsInv, WatchInv, ReportInv, ClientFds, Places, Own
  <2>. QED  BY <2>1 DEF IInv, ControlInv, WatchedForClients
<1>2. WaitsForOne
  <2>. SUFFICES ASSUME ~blind, ~reused, stop = "none", NEW i \in Places
                PROVE  /\ Cardinality(Waits(clients[i])) = 1
                       /\ pc = "select" => \A w \in Waits(clients[i]) : w[2] <= fds.max
    BY DEF WaitsForOne, Places
  <2>. DEFINE k == clients[i]
  <2>1. Reads(k) \/ Files(k) \/ Sends(k)
    BY DEF IInv, SetsInv, WaitsInv, WatchInv, ReportInv
  <2>2. k.fd \in Fds /\ k.file \in Fds \cup {unused} /\ fds.rbuf \subseteq Fds /\ unused \notin Fds
    BY ClientIs, NoDescriptor DEF IInv, FdsInv, SetsType
  <2>3. pc = "select" => \A x \in Own(k) : x <= fds.max
    BY DEF IInv, PassInv
  <2>. HIDE DEF k
  <2>4. PICK w \in {"read", "write"} \X Own(k) : Waits(k) = {w}
    <3>1. CASE Reads(k)
      <4>1. Waits(k) = {<<"read", k.fd>>} /\ k.fd \in Own(k)
        BY <2>2, <3>1 DEF Reads, Waits, Own
      <4>. QED  BY <4>1
    <3>2. CASE Files(k)
      <4>1. Waits(k) = {<<"read", k.file>>} /\ k.file \in Own(k)
        BY <2>2, <3>2 DEF Files, Waits, Own
      <4>. QED  BY <4>1
    <3>3. CASE Sends(k)
      <4>1. Waits(k) = {<<"write", k.fd>>} /\ k.fd \in Own(k)
        BY <2>2, <3>3 DEF Sends, Waits, Own
      <4>. QED  BY <4>1
    <3>. QED  BY <2>1, <3>1, <3>2, <3>3
  <2>5. Cardinality(Waits(k)) = 1
    BY <2>4, FS_Singleton
  <2>6. w[2] \in Own(k)
    BY <2>4
  <2>. QED  BY <2>3, <2>4, <2>5, <2>6 DEF k
<1>. QED  BY <1>1, <1>2 DEF SetsAgree

\* webserver::run starts with no client and empty sets.
LEMMA IInvInit == Init => IInv
<1>. SUFFICES ASSUME Init PROVE IInv
  OBVIOUS
<1>1. NFDS \in Nat \ {0} /\ TIME_OUT \in Nat \ {0} /\ RLEN \in Nat \ {0} /\ ROOM \in Nat \ {0}
  BY SelectLoopAssumption
<1>2. Len(clients) = 0 /\ Places = {} /\ clients \in Seq(ClientType)
  BY EmptySeq DEF Init, Places
<1>3. NetInv
  BY <1>1, EmptySeq DEF Init, NetInv, PeerType
<1>4. ClientsInv
  BY <1>2 DEF ClientsInv
<1>5. BufferInv /\ TableInv
  BY <1>2 DEF Init, BufferInv, TableInv
<1>9. ControlInv
  <2>1. ~blind /\ ~reused
    BY DEF Init
  <2>2. check \in BOOLEAN /\ reused \in BOOLEAN
    BY DEF Init
  <2>3. lost \subseteq Fds /\ left \subseteq Fds
    BY DEF Init
  <2>4. pc \in {"select", "accept", "client", "sync"} \cup Serves /\ ci \in Nat \ {0}
    BY DEF Init
  <2>5. stop \in {"none", "undefined", "out_of_range", "SIGPIPE"}
    BY DEF Init
  <2>. QED  BY <2>1, <2>2, <2>3, <2>4, <2>5 DEF ControlInv
<1>6. TurnInv
  BY <1>2 DEF Init, TurnInv, Serves
<1>7. FdsInv
  BY <1>1, <1>2 DEF Init, FdsInv, SetsType, Listen, Fds
<1>8. PassInv /\ SetsInv
  BY <1>2 DEF Init, PassInv, SetsInv, WaitsInv, WatchInv, ReportInv, Acting, Serves
<1>. QED  BY <1>3, <1>4, <1>5, <1>6, <1>7, <1>8, <1>9 DEF IInv

-----------------------------------------------------------------------------
\* The peers and the clock.

\* A peer's step leaves what the server has.
LEMMA PeersLeave ==
  ASSUME IInv, Looking, UNCHANGED <<process, history>>, NetInv'
  PROVE  IInv'
<1>1. pc # "accept"
  BY DEF Looking, Running, Serving
<1>2. ClientsInv' /\ BufferInv' /\ ControlInv' /\ TableInv' /\ TurnInv' /\ FdsInv'
  BY DEF IInv, ClientsInv, BufferInv, ControlInv, TableInv, TurnInv, FdsInv, Places, process, history
<1>3. stop' = "none" => PassInv'
  BY <1>1 DEF IInv, PassInv, Ahead, FileAhead, Places, process, history
<1>4. ~reused' /\ stop' = "none" => SetsInv'
  BY DEF IInv, SetsInv, WaitsInv, WatchInv, ReportInv, Reads, Files, Sends, Idle, Acting, FileAhead, SendAhead, Ahead, Places,
         process, history
<1>. QED  BY <1>2, <1>3, <1>4 DEF IInv

\* What a peer sends, reads and connects keeps the network's types.
LEMMA PeersInv ==
  ASSUME IInv, Peers
  PROVE  IInv'
<1>. PICK c \in Conns :
       Connect(c) \/ PeerSends(c) \/ PeerReads(c) \/ PeerShuts(c) \/ PeerResets(c)
  BY DEF Peers
<1>1. Looking
  BY DEF Peers
<1>2. /\ script \in Scripts /\ peer \in [Conns -> PeerType] /\ inbox \in [Conns -> Seq(Token)]
      /\ unread \in [Conns -> Int] /\ backlog \in Seq(Conns)
      /\ \A d \in Conns : unread[d] <= ROOM /\ (~reused => unread[d] >= 0)
  BY DEF IInv, NetInv
<1>3. peer[c] \in PeerType
  BY <1>2
<1>4. CASE Connect(c)
  <2>1. [peer[c] EXCEPT !.st = "up"] \in PeerType
    BY <1>3 DEF PeerType
  <2>2. peer' \in [Conns -> PeerType]
    BY <1>2, <1>4, <2>1 DEF Connect
  <2>3. backlog' \in Seq(Conns)
    BY <1>2, <1>4, AppendProperties DEF Connect
  <2>4. UNCHANGED <<script, inbox, unread, process, history>>
    BY <1>4 DEF Connect
  <2>5. NetInv'
    BY <1>2, <2>2, <2>3, <2>4 DEF NetInv, history
  <2>. QED  BY <1>1, <2>4, <2>5, PeersLeave
<1>5. CASE PeerSends(c)
  <2>. DEFINE p    == peer[c]
              more == p.seg < Len(script[c][p.req].wire)
              req  == IF more THEN p.req ELSE p.req + 1
              seg  == IF more THEN p.seg + 1 ELSE 1
  <2>1. /\ p.req <= Len(script[c]) /\ (more \/ p.req < Len(script[c]))
        /\ peer' = [peer EXCEPT ![c].req = req, ![c].seg = seg]
        /\ inbox' = [inbox EXCEPT ![c] = @ \o script[c][req].wire[seg]]
        /\ UNCHANGED <<script, files, unread, backlog, process, history>>
    BY <1>5 DEF PeerSends
  <2>2. p.req \in Nat \ {0} /\ p.seg \in Nat
    BY <1>3 DEF PeerType
  <2>3. script[c] \in Seq(Request)
    BY <1>2, SelectLoopAssumption
  <2>4. req \in 1..Len(script[c]) /\ req \in Nat \ {0} /\ seg \in Nat \ {0}
    <3>. HIDE DEF more, p
    <3>1. Len(script[c]) \in Nat
      BY <2>3, LenProperties
    <3>2. CASE more
      BY <2>1, <2>2, <3>1, <3>2
    <3>3. CASE ~more
      BY <2>1, <2>2, <3>1, <3>3
    <3>. QED  BY <3>2, <3>3
  <2>5. script[c][req] \in Request
    BY <2>3, <2>4, ElementOfSeq
  <2>6. script[c][req].wire \in Seq(Seq(Token)) /\ script[c][req].wire # <<>>
    BY <2>5 DEF Request
  <2>7. seg \in 1..Len(script[c][req].wire)
    <3>1. Len(script[c][req].wire) \in Nat \ {0}
      BY <2>6, EmptySeq
    <3>. QED  BY <2>2, <2>4, <3>1
  <2>8. script[c][req].wire[seg] \in Seq(Token)
    BY <2>6, <2>7, ElementOfSeq
  <2>. HIDE DEF req, seg, more
  <2>9. inbox' \in [Conns -> Seq(Token)]
    <3>1. inbox[c] \o script[c][req].wire[seg] \in Seq(Token)
      BY <1>2, <2>8, ConcatProperties
    <3>. QED  BY <1>2, <2>1, <3>1
  <2>10. peer' \in [Conns -> PeerType]
    <3>1. [peer[c] EXCEPT !.req = req, !.seg = seg] \in PeerType
      BY <1>3, <2>4 DEF PeerType
    <3>2. peer' = [peer EXCEPT ![c] = [peer[c] EXCEPT !.req = req, !.seg = seg]]
      BY <1>2, <2>1
    <3>. QED  BY <1>2, <3>1, <3>2
  <2>11. NetInv'
    BY <1>2, <2>1, <2>9, <2>10 DEF NetInv, history
  <2>. QED  BY <1>1, <2>1, <2>11, PeersLeave
<1>6. CASE PeerReads(c)
  <2>. DEFINE got  == peer[c].got + unread[c]
              left_ == got % RLEN
              more == peer[c].answers + got \div RLEN
  <2>1. /\ unread[c] > 0
        /\ peer' = [peer EXCEPT ![c].got = left_, ![c].answers = more]
        /\ unread' = [unread EXCEPT ![c] = 0]
        /\ UNCHANGED <<script, files, inbox, backlog, process, history>>
    BY <1>2, <1>6 DEF PeerReads
  <2>2. RLEN \in Nat \ {0} /\ ROOM \in Nat \ {0}
    BY SelectLoopAssumption
  <2>3. got \in Nat /\ peer[c].answers \in Nat
    <3>1. peer[c].got \in 0 .. RLEN - 1 /\ peer[c].answers \in Nat
      BY <1>3 DEF PeerType
    <3>2. peer[c].got \in Nat /\ unread[c] \in Nat
      BY <1>2, <2>1, <2>2, <3>1
    <3>. QED  BY <3>1, <3>2
  <2>. HIDE DEF got
  <2>4. left_ \in 0 .. RLEN - 1 /\ more \in Nat
    BY <2>2, <2>3
  <2>. HIDE DEF left_, more
  <2>5. [peer[c] EXCEPT !.got = left_, !.answers = more] \in PeerType
    BY <1>3, <2>4 DEF PeerType
  <2>6. peer' = [peer EXCEPT ![c] = [peer[c] EXCEPT !.got = left_, !.answers = more]]
    BY <1>2, <2>1
  <2>7. peer' \in [Conns -> PeerType]
    BY <1>2, <2>5, <2>6
  <2>8. NetInv'
    BY <1>2, <2>1, <2>2, <2>7 DEF NetInv, history
  <2>. QED  BY <1>1, <2>1, <2>8, PeersLeave
<1>7. CASE PeerShuts(c) \/ PeerResets(c)
  <2>1. [peer[c] EXCEPT !.st = "shut"] \in PeerType /\ [peer[c] EXCEPT !.st = "reset"] \in PeerType
    BY <1>3 DEF PeerType
  <2>2. peer' \in [Conns -> PeerType]
    BY <1>2, <1>7, <2>1 DEF PeerShuts, PeerResets
  <2>3. UNCHANGED <<script, inbox, unread, backlog, process, history>>
    BY <1>7 DEF PeerShuts, PeerResets
  <2>4. NetInv'
    BY <1>2, <2>2, <2>3 DEF NetInv, history
  <2>. QED  BY <1>1, <2>3, <2>4, PeersLeave
<1>. QED  BY <1>4, <1>5, <1>6, <1>7

\* The clock moves ages only.
LEMMA TickInv ==
  ASSUME IInv, Tick
  PROVE  IInv'
<1>. DEFINE age == [fd \in Fds |-> IF \E i \in Young : clients[i].fd = fd
                                   THEN fds.age[fd] + 1 ELSE fds.age[fd]]
<1>1. /\ fds' = [fds EXCEPT !.age = age]
      /\ UNCHANGED <<net, open, clients, buffer, check, pc, ci, stop, history>>
  BY DEF Tick
<1>2. fds \in SetsType /\ fds.age \in [Fds -> 0 .. TIME_OUT]
  BY DEF IInv, FdsInv, SetsType
<1>3. age \in [Fds -> 0 .. TIME_OUT]
  <2>1. TIME_OUT \in Nat
    BY SelectLoopAssumption
  <2>. SUFFICES ASSUME NEW fd \in Fds
                PROVE  (IF \E i \in Young : clients[i].fd = fd
                        THEN fds.age[fd] + 1 ELSE fds.age[fd]) \in 0 .. TIME_OUT
    OBVIOUS
  <2>2. fds.age[fd] \in 0 .. TIME_OUT
    BY <1>2
  <2>3. (\E i \in Young : clients[i].fd = fd) => fds.age[fd] < TIME_OUT
    BY DEF Young
  <2>. QED  BY <2>1, <2>2, <2>3
<1>. HIDE DEF age
<1>4. /\ fds' \in SetsType /\ fds'.read = fds.read /\ fds'.write = fds.write
      /\ fds'.rbuf = fds.rbuf /\ fds'.wbuf = fds.wbuf /\ fds'.max = fds.max
  BY <1>1, <1>2, <1>3 DEF SetsType
<1>5. NetInv' /\ ClientsInv' /\ BufferInv' /\ ControlInv' /\ TableInv'
  BY <1>1 DEF IInv, NetInv, ClientsInv, BufferInv, ControlInv, TableInv, Places, net, history
<1>6. TurnInv' /\ FdsInv'
  BY <1>1, <1>4 DEF IInv, TurnInv, FdsInv, Places, net, history
<1>7. stop' = "none" => PassInv'
  BY <1>1, <1>4 DEF IInv, PassInv, Ahead, FileAhead, Places, net, history
<1>8. ~reused' /\ stop' = "none" => SetsInv'
  BY <1>1, <1>4 DEF IInv, SetsInv, WaitsInv, WatchInv, ReportInv, Reads, Files, Sends, Idle, Acting, FileAhead, SendAhead, Ahead,
                    Places, net, history
<1>. QED  BY <1>5, <1>6, <1>7, <1>8 DEF IInv

-----------------------------------------------------------------------------
\* select, accept, and the steps that only move on.

\* Steps that leave the clients, the descriptors and the network.
LEMMA Stays ==
  ASSUME IInv, UNCHANGED <<script, peer, inbox, unread, backlog, open, clients, buffer, lost, reused>>
  PROVE  NetInv' /\ ClientsInv' /\ BufferInv' /\ TableInv'
BY DEF IInv, NetInv, ClientsInv, BufferInv, TableInv, Places

\* Steps that change none of what the history is about.
LEMMA ControlStays ==
  ASSUME IInv, check' \in BOOLEAN, UNCHANGED <<lost, left, reused, blind>>,
         pc' \in {"select", "accept", "client", "sync"} \cup Serves,
         ci' \in Nat \ {0}, stop' \in {"none", "undefined", "out_of_range", "SIGPIPE"}
  PROVE  ControlInv'
<1>1. /\ reused \in BOOLEAN /\ lost \subseteq Fds /\ left \subseteq Fds
      /\ blind \/ reused => left # {}
  BY DEF IInv, ControlInv
<1>2. reused' \in BOOLEAN /\ lost' \subseteq Fds /\ left' \subseteq Fds
  BY <1>1
<1>3. blind' \/ reused' => left' # {}
  BY <1>1
<1>. QED  BY <1>2, <1>3 DEF ControlInv

\* What select reports of the descriptors that the clients wait for.
LEMMA SelectInv ==
  ASSUME IInv, Select
  PROVE  IInv'
<1>. DEFINE read  == {fd \in fds.rbuf \cap Watched : Readable(fd)}
                       \cup (IF backlog # <<>> THEN {Listen} ELSE {})
            write == {fd \in fds.wbuf \cap Watched : Writable(fd)}
<1>1. /\ stop = "none" /\ pc = "select" /\ pc' = "accept"
      /\ Watched \subseteq DOMAIN open
      /\ fds' = [fds EXCEPT !.read = read, !.write = write]
      /\ UNCHANGED <<net, open, clients, buffer, check, ci, stop, history>>
  BY DEF Select, Running
<1>2. fds \in SetsType /\ fds.rbuf \subseteq Fds /\ fds.wbuf \subseteq Fds
  BY DEF IInv, FdsInv, SetsType
<1>3. /\ read \subseteq fds.rbuf \cup {Listen} /\ write \subseteq fds.wbuf
      /\ read \cup write \subseteq DOMAIN open \cup {Listen}
      /\ Listen \in read => backlog # <<>>
  BY <1>1, <1>2, NoDescriptor
<1>4. \A i \in Places : clients[i].file \in fds.rbuf => clients[i].file \in read
  <2>. TAKE i \in Places
  <2>. HAVE clients[i].file \in fds.rbuf
  <2>1. clients[i].file \in Own(clients[i]) /\ clients[i].file # unused
    BY <1>2, NoDescriptor DEF Own
  <2>2. open[clients[i].file] = "file"
    BY <2>1 DEF IInv, TableInv
  <2>3. clients[i].file <= fds.max
    BY <1>1, <2>1 DEF IInv, PassInv
  <2>. QED  BY <2>2, <2>3 DEF Readable, Watched
<1>5. \A i \in Places : clients[i].file \in read =>
        (clients[i].file \in write <=> clients[i].file \in fds.wbuf)
  <2>. TAKE i \in Places
  <2>. HAVE clients[i].file \in read
  <2>1. clients[i].file # Listen
    BY ClientIs, NoDescriptor DEF IInv, unused, Listen
  <2>2. clients[i].file \in fds.rbuf \cap Watched
    BY <2>1
  <2>3. open[clients[i].file] = "file"
    BY <1>2, <2>2, NoDescriptor DEF IInv, TableInv
  <2>. QED  BY <2>2, <2>3 DEF Writable, Watched
<1>. HIDE DEF read, write
<1>6. /\ fds' \in SetsType /\ fds'.read = read /\ fds'.write = write
      /\ fds'.rbuf = fds.rbuf /\ fds'.wbuf = fds.wbuf /\ fds'.max = fds.max
  BY <1>1, <1>2, <1>3 DEF SetsType
<1>7. NetInv' /\ ClientsInv' /\ BufferInv' /\ TableInv'
  BY <1>1, Stays DEF net, history
<1>8. ControlInv'
  BY <1>1, ControlStays DEF IInv, ControlInv, history
<1>9. TurnInv' /\ FdsInv'
  BY <1>1, <1>6 DEF IInv, TurnInv, FdsInv, Places, history, Serves
<1>10. PassInv'
  <2>1. \A i \in Places : clients[i].fd # Listen /\ clients[i].file # Listen
    BY ClientIs, NoDescriptor DEF IInv, unused, Listen
  <2>. QED  BY <1>1, <1>3, <1>4, <1>6, <2>1 DEF PassInv, Places, net, Serves
<1>11. ~reused' => SetsInv'
  <2>. SUFFICES ASSUME ~reused' PROVE SetsInv'
    OBVIOUS
  <2>1. SetsInv
    BY <1>1 DEF IInv, history
  <2>2. \A i \in Places : clients[i].fd \in write =>
          {clients[i].file, clients[i].cgi} \cap (read \cup write) = {}
    BY <1>2, <1>3, <2>1, ClientIs, NoDescriptor
    DEF IInv, SetsInv, WaitsInv, WatchInv, ReportInv, Reads, Files, Sends, Idle, unused, Listen
  <2>. QED  BY <1>1, <1>3, <1>5, <1>6, <2>1, <2>2 DEF SetsInv, WaitsInv, WatchInv, ReportInv, Places, Reads, Files, Sends, Idle, history
<1>. QED  BY <1>1, <1>7, <1>8, <1>9, <1>10, <1>11 DEF IInv

\* select fails only when an error or a time-out has left something behind.
LEMMA SelectFailsInv ==
  ASSUME IInv, SelectFails
  PROVE  IInv'
<1>1. /\ stop = "none" /\ pc = "select" /\ ~(Watched \subseteq DOMAIN open)
      /\ fds' = [fds EXCEPT !.rbuf = {}, !.wbuf = {}]
      /\ UNCHANGED <<net, open, clients, buffer, check, pc, ci, stop, failed, lost, left, reused>>
  BY DEF SelectFails, Running
<1>2. left # {}
  <2>1. PICK x \in Watched : x \notin DOMAIN open
    BY <1>1
  <2>2. CASE reused
    BY <2>2 DEF IInv, ControlInv
  <2>3. CASE ~reused
    BY <1>1, <2>1, <2>3 DEF IInv, SetsInv, WaitsInv, WatchInv, ReportInv, TableInv, Watched
  <2>. QED  BY <2>2, <2>3
<1>3. fds \in SetsType
  BY DEF IInv, FdsInv
<1>4. /\ fds' \in SetsType /\ fds'.read = fds.read /\ fds'.write = fds.write
      /\ fds'.rbuf = {} /\ fds'.wbuf = {} /\ fds'.max = fds.max
  BY <1>1, <1>3 DEF SetsType
<1>5. NetInv' /\ ClientsInv' /\ BufferInv' /\ TableInv'
  BY <1>1, Stays DEF net
<1>6. ControlInv'
  <2>1. /\ check' \in BOOLEAN /\ reused' \in BOOLEAN /\ lost' \subseteq Fds /\ left' \subseteq Fds
        /\ pc' \in {"select", "accept", "client", "sync"} \cup Serves /\ ci' \in Nat \ {0}
        /\ stop' \in {"none", "undefined", "out_of_range", "SIGPIPE"}
    BY <1>1 DEF IInv, ControlInv
  <2>2. left' # {}
    BY <1>1, <1>2
  <2>. QED  BY <2>1, <2>2 DEF ControlInv
<1>7. TurnInv' /\ FdsInv'
  BY <1>1, <1>4 DEF IInv, TurnInv, FdsInv, Places, Serves
<1>8. PassInv'
  BY <1>1, <1>4 DEF IInv, PassInv, Places, Ahead, FileAhead, Serves
<1>9. SetsInv'
  <2>1. \A i \in Places : blind'
    <3>1. clients = <<>> => Places = {}
      BY EmptySeq DEF Places
    <3>. QED  BY <3>1 DEF SelectFails
  <2>. QED  BY <1>1, <1>4, <2>1 DEF SetsInv, WaitsInv, WatchInv, ReportInv, Places, Idle, FileAhead, SendAhead, Ahead, Acting, Serves
<1>. QED  BY <1>5, <1>6, <1>7, <1>8, <1>9 DEF IInv

\* The connection waits for the next pass, or nobody is at the door.
LEMMA NoAcceptInv ==
  ASSUME IInv, NoAccept
  PROVE  IInv'
<1>1. /\ stop = "none" /\ pc = "accept" /\ pc' = "client" /\ ci' = 1
      /\ UNCHANGED <<net, open, fds, clients, buffer, check, stop, history>>
  BY DEF NoAccept, Running
<1>2. NetInv' /\ ClientsInv' /\ BufferInv' /\ TableInv'
  BY <1>1, Stays DEF net, history
<1>3. ControlInv'
  BY <1>1, ControlStays DEF IInv, ControlInv, history
<1>4. TurnInv' /\ FdsInv'
  BY <1>1 DEF IInv, TurnInv, FdsInv, Places, Serves, history
<1>5. PassInv'
  BY <1>1 DEF IInv, PassInv, Places, Ahead, FileAhead, Serves
<1>6. ~reused' => SetsInv'
  BY <1>1 DEF IInv, SetsInv, WaitsInv, WatchInv, ReportInv, Places, Reads, Files, Sends, Idle, FileAhead, SendAhead, Ahead, Acting, history
<1>. QED  BY <1>1, <1>2, <1>3, <1>4, <1>5, <1>6 DEF IInv

\* accept fails: on to sync_maxFD.
LEMMA AcceptFailsInv ==
  ASSUME IInv, AcceptFails
  PROVE  IInv'
<1>1. /\ stop = "none" /\ pc = "accept" /\ pc' = "sync"
      /\ UNCHANGED <<net, open, fds, clients, buffer, check, ci, stop, history>>
  BY DEF AcceptFails, Running
<1>2. NetInv' /\ ClientsInv' /\ BufferInv' /\ TableInv'
  BY <1>1, Stays DEF net, history
<1>3. ControlInv'
  BY <1>1, ControlStays DEF IInv, ControlInv, history
<1>4. TurnInv' /\ FdsInv'
  BY <1>1 DEF IInv, TurnInv, FdsInv, Places, Serves, history
<1>5. PassInv'
  BY <1>1 DEF PassInv, Places, Ahead, FileAhead, Serves
<1>6. ~reused' => SetsInv'
  BY <1>1 DEF IInv, SetsInv, WaitsInv, WatchInv, ReportInv, Places, Reads, Files, Sends, Idle, FileAhead, SendAhead, Ahead, Acting, Serves, history
<1>. QED  BY <1>1, <1>2, <1>3, <1>4, <1>5, <1>6 DEF IInv

\* The loop over the clients ends.
LEMMA LoopEndsInv ==
  ASSUME IInv, LoopEnds
  PROVE  IInv'
<1>1. /\ stop = "none" /\ pc = "client" /\ pc' = "sync"
      /\ UNCHANGED <<net, open, fds, clients, buffer, check, ci, stop, history>>
  BY DEF LoopEnds, Running
<1>2. NetInv' /\ ClientsInv' /\ BufferInv' /\ TableInv'
  BY <1>1, Stays DEF net, history
<1>3. ControlInv'
  BY <1>1, ControlStays DEF IInv, ControlInv, history
<1>4. TurnInv' /\ FdsInv'
  BY <1>1 DEF IInv, TurnInv, FdsInv, Places, Serves, history
<1>5. PassInv'
  BY <1>1 DEF PassInv, Places, Ahead, FileAhead, Serves
<1>6. ~reused' => SetsInv'
  BY <1>1 DEF IInv, SetsInv, WaitsInv, WatchInv, ReportInv, Places, Reads, Files, Sends, Idle, FileAhead, SendAhead, Ahead, Acting, Serves, history
<1>. QED  BY <1>1, <1>2, <1>3, <1>4, <1>5, <1>6 DEF IInv

\* A client that does not have its turn is passed over.
LEMMA SkipInactiveInv ==
  ASSUME IInv, SkipInactive
  PROVE  IInv'
<1>1. /\ stop = "none" /\ pc = "client" /\ pc' = "client" /\ ci' = ci + 1 /\ ci \in Nat \ {0}
      /\ UNCHANGED <<net, open, fds, clients, buffer, stop, history>>
  BY DEF SkipInactive, Running, NextClient, IInv, ControlInv
<1>2. NetInv' /\ ClientsInv' /\ BufferInv' /\ TableInv'
  BY <1>1, Stays DEF net, history
<1>3. ControlInv'
  <2>1. check' \in BOOLEAN
    BY DEF SkipInactive, set_time_out_check
  <2>. QED  BY <1>1, <2>1, ControlStays DEF IInv, ControlInv, history
<1>4. TurnInv' /\ FdsInv'
  BY <1>1 DEF IInv, TurnInv, FdsInv, Places, Serves, history
<1>5. PassInv'
  BY <1>1 DEF IInv, PassInv, Places, Ahead, FileAhead, Serves
<1>6. ~reused' => SetsInv'
  BY <1>1 DEF IInv, SetsInv, WaitsInv, WatchInv, ReportInv, Places, Reads, Files, Sends, Idle, FileAhead, SendAhead, Ahead, Acting, Serves, history
<1>. QED  BY <1>1, <1>2, <1>3, <1>4, <1>5, <1>6 DEF IInv

\* _max is the highest descriptor of a client, and one.
LEMMA SyncInv ==
  ASSUME IInv, sync_maxFD
  PROVE  IInv'
<1>. DEFINE all == ClientFds \cup {Listen}
            highest == CHOOSE x \in all : \A y \in all : x >= y
<1>1. /\ stop = "none" /\ pc = "sync" /\ pc' = "select"
      /\ fds' = [fds EXCEPT !.max = highest + 1]
      /\ UNCHANGED <<net, open, clients, buffer, check, ci, stop, history>>
  BY DEF sync_maxFD, Running
<1>2. fds \in SetsType
  BY DEF IInv, FdsInv
<1>3. highest \in all /\ \A y \in all : highest >= y
  <2>1. \A x \in all : x \in Fds \cup {unused, Listen}
    BY ClientIs DEF IInv, ClientFds, Places
  <2>2. all # {} /\ NFDS \in Nat /\ \A x \in all : x \in Int /\ -1 <= x /\ x <= NFDS
    BY <2>1, SelectLoopAssumption DEF Fds, unused, Listen
  <2>. HIDE DEF all
  <2>. DEFINE room == {NFDS - x : x \in all}
  <2>3. room \in SUBSET Nat /\ room # {}
    BY <2>2
  <2>4. PICK z \in room : \A y \in room : z <= y
    <3>. HIDE DEF room
    <3>. QED  BY <2>3, LeastNatural
  <2>5. PICK x \in all : z = NFDS - x
    BY <2>4
  <2>6. \A y \in all : x >= y
    <3>. TAKE y \in all
    <3>1. NFDS - x <= NFDS - y
      BY <2>4, <2>5
    <3>. QED  BY <2>2, <3>1
  <2>. QED  BY <2>6
<1>4. /\ highest + 1 \in 0 .. NFDS + 1
      /\ \A i \in Places : \A x \in Own(clients[i]) : x <= highest + 1
  <2>1. highest \in Fds \cup {unused, Listen}
    BY <1>3, ClientIs DEF IInv, ClientFds, Places
  <2>2. highest >= Listen
    BY <1>3
  <2>3. \A i \in Places : \A x \in Own(clients[i]) : x \in all /\ x \in Fds
    BY ClientIs DEF IInv, ClientFds, Places, Own
  <2>4. NFDS \in Nat
    BY SelectLoopAssumption
  <2>. HIDE DEF highest, all
  <2>5. highest \in 0..NFDS
    BY <2>1, <2>2, <2>4 DEF Fds, unused, Listen
  <2>6. \A i \in Places : \A x \in Own(clients[i]) : x \in Int /\ highest >= x
    <3>. TAKE i \in Places
    <3>. TAKE x \in Own(clients[i])
    <3>1. x \in all /\ x \in Fds
      BY <2>3
    <3>2. \A y \in all : highest >= y
      BY <1>3
    <3>3. highest >= x
      BY <3>1, <3>2
    <3>4. x \in Int
      BY <3>1, NoDescriptor
    <3>. QED  BY <3>3, <3>4
  <2>. QED  BY <2>4, <2>5, <2>6
<1>. HIDE DEF highest, all
<1>5. /\ fds' \in SetsType /\ fds'.read = fds.read /\ fds'.write = fds.write
      /\ fds'.rbuf = fds.rbuf /\ fds'.wbuf = fds.wbuf /\ fds'.max = highest + 1
  BY <1>1, <1>2, <1>4 DEF SetsType
<1>6. NetInv' /\ ClientsInv' /\ BufferInv' /\ TableInv'
  BY <1>1, Stays DEF net, history
<1>7. ControlInv'
  BY <1>1, ControlStays DEF IInv, ControlInv, history
<1>8. TurnInv' /\ FdsInv'
  BY <1>1, <1>5 DEF IInv, TurnInv, FdsInv, Places, Serves, history
<1>9. PassInv'
  BY <1>1, <1>4, <1>5 DEF PassInv, Places, Ahead, FileAhead, Serves
<1>10. ~reused' => SetsInv'
  BY <1>1, <1>5 DEF IInv, SetsInv, WaitsInv, WatchInv, ReportInv, Places, Reads, Files, Sends, Idle, FileAhead, SendAhead, Ahead, Acting, Serves, history
<1>. QED  BY <1>1, <1>6, <1>7, <1>8, <1>9, <1>10 DEF IInv

\* Nothing to read, no file ready, no room to answer: the turn is kept, and
\* check says whether it may be lost at the end of the body.
LEMMA NothingReadInv ==
  ASSUME IInv, NothingRead
  PROVE  IInv'
<1>1. /\ stop = "none" /\ pc = "client" /\ pc' = "file" /\ ci \in Places /\ clients[ci].active
      /\ UNCHANGED <<net, open, fds, clients, buffer, ci, stop, history>>
  BY DEF NothingRead, Running, Serving, Current, IInv, ControlInv, Places
<1>2. NetInv' /\ ClientsInv' /\ BufferInv' /\ TableInv'
  BY <1>1, Stays DEF net, history
<1>3. ControlInv'
  <2>1. check' \in BOOLEAN
    BY DEF NothingRead, set_time_out_check
  <2>. QED  BY <1>1, <2>1, ControlStays DEF IInv, ControlInv, Serves, history
<1>4. TurnInv' /\ FdsInv'
  BY <1>1 DEF IInv, TurnInv, FdsInv, Places, Serves, history
<1>5. PassInv'
  BY <1>1 DEF IInv, PassInv, Places, Ahead, FileAhead, Serves
<1>6. ~reused' => SetsInv'
  BY <1>1 DEF IInv, SetsInv, WaitsInv, WatchInv, ReportInv, Places, Reads, Files, Sends, Idle, FileAhead, SendAhead, Ahead, Acting, Serves, history
<1>. QED  BY <1>1, <1>2, <1>3, <1>4, <1>5, <1>6 DEF IInv

\* No file is ready.
LEMMA NoFileInv ==
  ASSUME IInv, NoFile
  PROVE  IInv'
<1>1. /\ stop = "none" /\ pc = "file" /\ pc' = "send" /\ ci \in Places /\ clients[ci].active
      /\ clients[ci].file \notin fds.read
      /\ UNCHANGED <<net, open, fds, clients, buffer, check, ci, stop, history>>
  BY DEF NoFile, InFile, Running, Current, IInv, TurnInv, Serves
<1>2. NetInv' /\ ClientsInv' /\ BufferInv' /\ TableInv'
  BY <1>1, Stays DEF net, history
<1>3. ControlInv'
  BY <1>1, ControlStays DEF IInv, ControlInv, Serves, history
<1>4. TurnInv' /\ FdsInv'
  BY <1>1 DEF IInv, TurnInv, FdsInv, Places, Serves, history
<1>5. PassInv'
  BY <1>1 DEF IInv, PassInv, Places, Ahead, FileAhead, Serves
<1>6. ~reused' => SetsInv'
  BY <1>1 DEF IInv, SetsInv, WaitsInv, WatchInv, ReportInv, Places, Reads, Files, Sends, Idle, FileAhead, SendAhead, Ahead, Acting, Serves, history
<1>. QED  BY <1>1, <1>2, <1>3, <1>4, <1>5, <1>6 DEF IInv

\* There is no room to answer.
LEMMA NotWritableInv ==
  ASSUME IInv, NotWritable
  PROVE  IInv'
<1>1. /\ stop = "none" /\ pc = "send" /\ pc' = "expire" /\ ci \in Places /\ clients[ci].active
      /\ UNCHANGED <<net, open, fds, clients, buffer, check, ci, stop, history>>
  BY DEF NotWritable, Running, IInv, TurnInv, Serves
<1>2. NetInv' /\ ClientsInv' /\ BufferInv' /\ TableInv'
  BY <1>1, Stays DEF net, history
<1>3. ControlInv'
  BY <1>1, ControlStays DEF IInv, ControlInv, Serves, history
<1>4. TurnInv' /\ FdsInv'
  BY <1>1 DEF IInv, TurnInv, FdsInv, Places, Serves, history
<1>5. PassInv'
  BY <1>1 DEF IInv, PassInv, Places, Ahead, FileAhead, Serves
<1>6. ~reused' => SetsInv'
  BY <1>1 DEF IInv, SetsInv, WaitsInv, WatchInv, ReportInv, Places, Reads, Files, Sends, Idle, FileAhead, SendAhead, Ahead, Acting, Serves, history
<1>. QED  BY <1>1, <1>2, <1>3, <1>4, <1>5, <1>6 DEF IInv

\* The process ends where it stands.
LEMMA EndsInv ==
  ASSUME IInv, SigPipe \/ OutputThrows
  PROVE  IInv'
<1>1. /\ stop' \in {"SIGPIPE", "out_of_range"} /\ check' \in BOOLEAN
      /\ pc \in {"file", "send"}
      /\ UNCHANGED <<net, open, fds, clients, buffer, pc, ci, history>>
  <2>1. CASE SigPipe
    BY <2>1 DEF SigPipe, Sending, Running
  <2>2. CASE OutputThrows
    BY <2>2 DEF OutputThrows, AfterWriting, InFile, Running, IInv, ControlInv
  <2>. QED  BY <2>1, <2>2
<1>2. NetInv' /\ ClientsInv' /\ BufferInv' /\ TableInv'
  BY <1>1, Stays DEF net, history
<1>3. ControlInv'
  BY <1>1, ControlStays DEF IInv, ControlInv, Serves, history
<1>4. TurnInv' /\ FdsInv'
  BY <1>1 DEF IInv, TurnInv, FdsInv, Places, history
<1>. QED  BY <1>1, <1>2, <1>3, <1>4 DEF IInv

\* reset_handler, and the handler of a new client.
LEMMA FreshType == FreshHandler \in Handler /\ FreshHandler.asked.uri # <<>> /\ FreshHandler.written = 0
<1>. DEFINE turn == [status |-> 200, index |-> 0, file |-> <<>>, allow |-> {}, max |-> 0]
<1>1. turn \in Turn
  <2>1. 200 \in 200..417 /\ 0 \in Nat /\ {} \in SUBSET Methods
    OBVIOUS
  <2>2. <<>> \in Seq(STRING)
    BY EmptySeq
  <2>. QED  BY <2>1, <2>2 DEF Turn
<1>. HIDE DEF turn
<1>2. NoRequest \in Asked /\ NoRequest.uri # <<>>
  BY NoRequestType
<1>3. <<>> \in Seq(Token) /\ "page" \in Kind /\ 0 \in Nat /\ FALSE \in BOOLEAN
  BY EmptySeq DEF Kind
<1>4. FreshHandler = [asked |-> NoRequest, kind |-> "page", body |-> <<>>, written |-> 0,
                      turn |-> turn, begun |-> FALSE, toFile |-> FALSE, fromFile |-> FALSE]
  BY DEF FreshHandler, turn
<1>. HIDE DEF NoRequest
<1>. QED  BY <1>1, <1>2, <1>3, <1>4 DEF Handler

\* A new client; its number is nobody's, so nothing of what select has reported
\* is about it.
LEMMA NewClientType ==
  ASSUME NEW fd \in Fds, NEW active \in BOOLEAN
  PROVE  LET k == NewClient(fd, active)
         IN /\ k \in ClientType /\ k.h.asked.uri # <<>> /\ k.h.written = 0
            /\ k.fd = fd /\ k.file = unused /\ k.cgi = unused /\ k.active = active
<1>. HIDE DEF FreshHandler
<1>. QED  BY FreshType DEF NewClient, ClientType

\* accept and accepted_request_update.
LEMMA AcceptInv ==
  ASSUME IInv, Accept
  PROVE  IInv'
<1>. DEFINE fd == Lowest(Free)
            c  == Head(backlog)
            k  == NewClient(fd, clients = <<>>)
            n  == Len(clients)
<1>1. /\ stop = "none" /\ pc = "accept" /\ pc' = "client" /\ ci' = 1
      /\ Listen \in fds.read
      /\ open' = With(open, fd, c)
      /\ fds' = [fds EXCEPT !.age[fd] = 0, !.rbuf = @ \cup {fd}, !.max = update_max(@, fd)]
      /\ clients' = Append(clients, k)
      /\ reused' = (reused \/ fd \in fds.rbuf \cup fds.wbuf)
      /\ backlog' = Tail(backlog)
      /\ UNCHANGED <<script, files, peer, inbox, unread, buffer, check, stop, blind, failed, lost, left>>
  BY DEF Accept, Running
<1>2. fd \in Fds /\ fd \notin DOMAIN open /\ fd \in Nat \ {0} /\ fd <= NFDS
  <2>1. Free # {} /\ Free \in SUBSET Fds
    BY DEF Accept, Free
  <2>2. fd \in Free
    BY <2>1, LowestIn
  <2>. QED  BY <2>2, NoDescriptor DEF Free, Fds
<1>3. c \in Conns /\ Tail(backlog) \in Seq(Conns)
  <2>1. backlog # <<>> /\ backlog \in Seq(Conns)
    BY <1>1 DEF IInv, PassInv, NetInv
  <2>. QED  BY <2>1, HeadTailProperties
<1>4. /\ k \in ClientType /\ k.h.asked.uri # <<>> /\ k.h.written = 0
      /\ k.fd = fd /\ k.file = unused /\ k.cgi = unused
  BY <1>2, NewClientType
<1>5. k.active <=> clients = <<>>
  BY DEF NewClient
<1>. HIDE DEF fd, c, k
<1>6. /\ n \in Nat /\ clients' \in Seq(ClientType) /\ Len(clients') = n + 1
      /\ \A i \in 1..n : clients'[i] = clients[i]
      /\ clients'[n + 1] = k
  <2>1. clients \in Seq(ClientType)
    BY DEF IInv, ClientsInv
  <2>. QED  BY <1>1, <1>4, <2>1, AppendProperties, LenProperties
<1>7. Places' = Places \cup {n + 1} /\ n + 1 \notin Places
  BY <1>6 DEF Places
<1>8. /\ \A i \in Places : /\ clients'[i] = clients[i]
                           /\ clients[i].fd # fd /\ clients[i].file # fd /\ clients[i].cgi # fd
                           /\ fd \notin Own(clients[i])
      /\ Own(k) = {fd} /\ unused \notin Fds /\ Listen \notin Fds
  <2>1. \A i \in Places : fd \notin Own(clients[i])
    BY <1>2 DEF IInv, TableInv
  <2>2. Own(k) = {fd} /\ unused \notin Fds /\ Listen \notin Fds
    BY <1>2, <1>4, NoDescriptor DEF Own
  <2>3. \A i \in Places : clients[i].fd # fd /\ clients[i].file # fd /\ clients[i].cgi # fd
    BY <1>2, <2>1, NoDescriptor DEF Own
  <2>. QED  BY <1>6, <2>1, <2>2, <2>3 DEF Places
<1>9. fds \in SetsType
  BY DEF IInv, FdsInv
<1>10. /\ fds' \in SetsType /\ fds'.read = fds.read /\ fds'.write = fds.write
       /\ fds'.rbuf = fds.rbuf \cup {fd} /\ fds'.wbuf = fds.wbuf
  <2>1. TIME_OUT \in Nat /\ NFDS \in Nat
    BY SelectLoopAssumption
  <2>2. fds.max \in 0 .. NFDS + 1 /\ fds.age \in [Fds -> 0 .. TIME_OUT]
    BY <1>9 DEF SetsType
  <2>3. update_max(fds.max, fd) \in 0 .. NFDS + 1
    BY <1>2, <2>1, <2>2 DEF update_max
  <2>4. [fds.age EXCEPT ![fd] = 0] \in [Fds -> 0 .. TIME_OUT]
    <3>1. 0 \in 0 .. TIME_OUT
      BY <2>1
    <3>. QED  BY <2>2, <3>1
  <2>5. fds' = [fds EXCEPT !.age = [fds.age EXCEPT ![fd] = 0], !.rbuf = fds.rbuf \cup {fd},
                           !.max = update_max(fds.max, fd)]
    BY <1>1
  <2>. QED  BY <1>2, <1>9, <2>3, <2>4, <2>5 DEF SetsType
<1>11. NetInv'
  BY <1>1, <1>3 DEF IInv, NetInv
<1>12. ClientsInv' /\ BufferInv'
  BY <1>1, <1>4, <1>6, <1>7, <1>8 DEF IInv, ClientsInv, BufferInv
<1>13. ControlInv'
  <2>1. lost' \subseteq Fds /\ left' \subseteq Fds /\ ci' \in Nat \ {0}
    BY <1>1 DEF IInv, ControlInv
  <2>2. check' \in BOOLEAN /\ reused' \in BOOLEAN
    BY <1>1 DEF IInv, ControlInv
  <2>3. /\ pc' \in {"select", "accept", "client", "sync"} \cup Serves
        /\ stop' \in {"none", "undefined", "out_of_range", "SIGPIPE"}
    BY <1>1 DEF IInv, ControlInv
  <2>4. blind' \/ reused' => left' # {}
    <3>1. CASE reused \/ blind
      BY <1>1, <3>1 DEF IInv, ControlInv
    <3>2. CASE ~reused /\ fd \in fds.rbuf \cup fds.wbuf
      <4>1. SetsInv
        BY <1>1, <3>2 DEF IInv
      <4>2. fd \in left
        BY <1>8, <3>2, <4>1 DEF SetsInv, WaitsInv, WatchInv, ReportInv
      <4>. QED  BY <1>1, <4>2
    <3>. QED  BY <1>1, <3>1, <3>2
  <2>. QED  BY <2>1, <2>2, <2>3, <2>4 DEF ControlInv
<1>14. /\ DOMAIN open' = DOMAIN open \cup {fd} /\ open'[fd] = c
       /\ \A x \in DOMAIN open : open'[x] = open[x]
  BY <1>1, <1>2 DEF With
<1>15. TableInv'
  <2>1. /\ DOMAIN open' \subseteq Fds /\ lost' \subseteq DOMAIN open'
    BY <1>1, <1>2, <1>14 DEF IInv, TableInv
  <2>2. \A x \in DOMAIN open' : /\ open'[x] \in Conns \cup {"file"}
                                /\ x \in lost' \/ \E i \in Places' : x \in Own(clients'[i])
    <3>1. fd \in Own(clients'[n + 1]) /\ n + 1 \in Places'
      BY <1>6, <1>7, <1>8
    <3>2. \A x \in DOMAIN open : /\ open[x] \in Conns \cup {"file"}
                                 /\ x \in lost \/ \E i \in Places : x \in Own(clients[i])
      BY DEF IInv, TableInv
    <3>3. \A x \in DOMAIN open : x \in lost' \/ \E i \in Places' : x \in Own(clients'[i])
      BY <1>1, <1>7, <1>8, <3>2
    <3>4. \A x \in DOMAIN open : open'[x] \in Conns \cup {"file"}
      BY <1>14, <3>2
    <3>. QED  BY <1>3, <1>14, <3>1, <3>3, <3>4
  <2>3. \A i \in Places' :
          /\ Own(clients'[i]) \subseteq DOMAIN open' \ lost'
          /\ open'[clients'[i].fd] \in Conns
          /\ clients'[i].file # unused => open'[clients'[i].file] = "file"
          /\ clients'[i].cgi # unused => open'[clients'[i].cgi] = "file" /\ clients'[i].cgi # clients'[i].file
    <3>1. CASE n + 1 \in Places'
      <4>1. fd \in DOMAIN open' \ lost'
        BY <1>1, <1>2, <1>14 DEF IInv, TableInv
      <4>2. /\ Own(clients'[n + 1]) \subseteq DOMAIN open' \ lost'
            /\ open'[clients'[n + 1].fd] \in Conns
            /\ clients'[n + 1].file = unused /\ clients'[n + 1].cgi = unused
        BY <1>3, <1>4, <1>6, <1>8, <1>14, <4>1
      <4>3. \A i \in Places :
              /\ Own(clients[i]) \subseteq DOMAIN open' \ lost'
              /\ open'[clients[i].fd] \in Conns
              /\ clients[i].file # unused => open'[clients[i].file] = "file"
              /\ clients[i].cgi # unused => open'[clients[i].cgi] = "file" /\ clients[i].cgi # clients[i].file
        <5>. TAKE i \in Places
        <5>. DEFINE j == clients[i]
        <5>1. /\ Own(j) \subseteq DOMAIN open \ lost /\ open[j.fd] \in Conns
              /\ j.file # unused => open[j.file] = "file"
              /\ j.cgi # unused => open[j.cgi] = "file" /\ j.cgi # j.file
          BY DEF IInv, TableInv
        <5>2. j.fd # unused
          BY ClientIs, NoDescriptor DEF IInv
        <5>. HIDE DEF j
        <5>3. /\ j.fd \in DOMAIN open
              /\ j.file # unused => j.file \in DOMAIN open
              /\ j.cgi # unused => j.cgi \in DOMAIN open
          BY <5>1, <5>2 DEF Own
        <5>4. /\ Own(j) \subseteq DOMAIN open' \ lost' /\ open'[j.fd] \in Conns
              /\ j.file # unused => open'[j.file] = "file"
              /\ j.cgi # unused => open'[j.cgi] = "file" /\ j.cgi # j.file
          BY <1>1, <1>14, <5>1, <5>3
        <5>. QED  BY <5>4 DEF j
      <4>. QED  BY <1>7, <1>8, <4>2, <4>3
    <3>. QED  BY <1>7, <3>1
  <2>4. \A i, j \in Places' : i # j => Own(clients'[i]) \cap Own(clients'[j]) = {}
    <3>1. \A i, j \in Places : i # j => Own(clients'[i]) \cap Own(clients'[j]) = {}
      BY <1>8 DEF IInv, TableInv
    <3>2. \A i \in Places : Own(clients'[i]) \cap Own(clients'[n + 1]) = {}
      BY <1>6, <1>8
    <3>. QED  BY <1>7, <3>1, <3>2
  <2>. QED  BY <2>1, <2>2, <2>3, <2>4 DEF TableInv
<1>16. clients = <<>> <=> Places = {}
  <2>1. clients = <<>> <=> n = 0
    BY EmptySeq DEF IInv, ClientsInv
  <2>. QED  BY <1>6, <2>1 DEF Places
<1>17. TurnInv'
  <2>1. TurnInv
    BY DEF IInv
  <2>2. \A i, j \in Places' : clients'[i].active /\ clients'[j].active => i = j
    BY <1>5, <1>6, <1>7, <1>8, <1>16, <2>1 DEF TurnInv
  <2>3. ~failed' => \E i \in Places' : clients'[i].active
    <3>1. CASE clients = <<>>
      <4>1. clients'[n + 1].active
        BY <1>5, <1>6, <3>1
      <4>. QED  BY <1>7, <4>1
    <3>2. CASE clients # <<>>
      <4>1. ~failed => \E i \in Places : clients[i].active
        BY <2>1, <3>2 DEF TurnInv
      <4>2. failed' = failed
        BY <1>1
      <4>3. \A i \in Places : i \in Places' /\ clients'[i] = clients[i]
        BY <1>7, <1>8
      <4>. QED  BY <4>1, <4>2, <4>3
    <3>. QED  BY <3>1, <3>2
  <2>4. \A i \in Places' : clients'[i].file \in fds'.rbuf => clients'[i].active
    <3>1. unused \notin fds'.rbuf
      BY <1>8, <1>10 DEF SetsType
    <3>. QED  BY <1>4, <1>6, <1>7, <1>8, <1>10, <2>1, <3>1 DEF TurnInv
  <2>. QED  BY <1>1, <2>2, <2>3, <2>4 DEF TurnInv, Serves
<1>18. FdsInv'
  BY <1>4, <1>6, <1>7, <1>8, <1>10 DEF IInv, FdsInv
<1>19. unused \notin fds.read \cup fds.write \cup fds.rbuf \cup fds.wbuf /\ fd \notin fds.read \cup fds.write
  BY <1>1, <1>2, <1>8, <1>9, NoDescriptor DEF SetsType, IInv, PassInv, unused, Listen
<1>20. PassInv'
  <2>1. PassInv /\ \A i \in Places : Ahead(i) /\ FileAhead(i)
    BY <1>1 DEF IInv, FileAhead, Ahead
  <2>2. \A i \in Places' :
          /\ clients'[i].fd \in fds'.read => clients'[i].fd \in fds'.rbuf
          /\ clients'[i].file \in fds'.read <=> clients'[i].file \in fds'.rbuf
    <3>1. \A i \in Places :
            /\ clients'[i].fd \in fds'.read => clients'[i].fd \in fds'.rbuf
            /\ clients'[i].file \in fds'.read <=> clients'[i].file \in fds'.rbuf
      BY <1>1, <1>8, <1>10, <2>1 DEF PassInv
    <3>2. /\ clients'[n + 1].fd \in fds'.rbuf
          /\ clients'[n + 1].file \notin fds'.read \cup fds'.rbuf
      BY <1>2, <1>4, <1>6, <1>8, <1>10, <1>19
    <3>. QED  BY <1>7, <3>1, <3>2
  <2>. QED  BY <1>1, <2>2 DEF PassInv, Serves
<1>21. ~reused' => SetsInv'
  <2>. SUFFICES ASSUME ~reused' PROVE SetsInv'
    OBVIOUS
  <2>1. SetsInv /\ fd \notin fds.rbuf \cup fds.wbuf
    BY <1>1 DEF IInv
  <2>2. \A i \in Places : FileAhead(i) /\ SendAhead(i)
    BY <1>1 DEF FileAhead, SendAhead, Ahead
  <2>3. WaitsInv'
    <3>. PICK new \in Nat : new = n + 1
      BY <1>6
    <3>1. (Reads(clients[new]))'
      BY <1>4, <1>6, <1>10, <2>1 DEF Reads
    <3>2. \A i \in Places : /\ Reads(clients[i]) => (Reads(clients[i]))'
                            /\ Files(clients[i]) => (Files(clients[i]))'
                            /\ Sends(clients[i]) => (Sends(clients[i]))'
                            /\ Idle(clients[i]) => (Idle(clients[i]))'
      BY <1>8, <1>10 DEF Reads, Files, Sends, Idle
    <3>. QED  BY <1>1, <1>7, <2>1, <3>1, <3>2 DEF SetsInv, WaitsInv
  <2>4. WatchInv'
    <3>1. fd \in Own(clients'[n + 1]) /\ n + 1 \in Places'
      BY <1>6, <1>7, <1>8
    <3>. QED  BY <1>1, <1>7, <1>8, <1>10, <2>1, <3>1 DEF SetsInv, WatchInv
  <2>5. ReportInv'
    <3>1. \A i \in Places :
          /\ clients'[i].file \in fds'.read => (clients'[i].file \in fds'.write <=> clients'[i].file \in fds'.wbuf)
          /\ clients'[i].fd \in fds'.write =>
               /\ clients'[i].fd \in fds'.wbuf
               /\ {clients'[i].file, clients'[i].cgi} \cap (fds'.read \cup fds'.write) = {}
      BY <1>8, <1>10, <2>1, <2>2 DEF SetsInv, ReportInv
    <3>2. clients'[n + 1].file \notin fds'.read /\ clients'[n + 1].fd \notin fds'.write
      BY <1>4, <1>6, <1>10, <1>19
    <3>3. fds'.read \cup fds'.write \subseteq DOMAIN open' \cup {Listen}
      BY <1>1, <1>10, <1>14 DEF IInv, PassInv
    <3>. QED  BY <1>7, <3>1, <3>2, <3>3 DEF ReportInv
  <2>. QED  BY <2>3, <2>4, <2>5 DEF SetsInv
<1>. QED  BY <1>1, <1>11, <1>12, <1>13, <1>15, <1>17, <1>18, <1>20, <1>21 DEF IInv

-----------------------------------------------------------------------------
\* The steps that change what the client at ci holds.

\* The client at ci is another.
LEMMA ReplacedBy ==
  ASSUME IInv, ci \in Places, NEW k \in ClientType, k.h.asked.uri # <<>>,
         clients' = [clients EXCEPT ![ci] = k]
  PROVE  /\ ClientsInv' /\ Places' = Places /\ clients'[ci] = k
         /\ \A i \in Places : i # ci => clients'[i] = clients[i]
         /\ clients # <<>> /\ clients' # <<>>
<1>1. clients \in Seq(ClientType) /\ \A i \in Places : clients[i].h.asked.uri # <<>>
  BY DEF IInv, ClientsInv
<1>2. /\ clients' \in Seq(ClientType) /\ Len(clients') = Len(clients) /\ clients'[ci] = k
      /\ \A i \in Places : i # ci => clients'[i] = clients[i]
  BY <1>1, ExceptSeq DEF Places
<1>3. clients # <<>> /\ clients' # <<>>
  BY <1>1, <1>2, EmptySeq DEF Places
<1>4. ClientsInv'
  BY <1>1, <1>2 DEF ClientsInv, Places
<1>. QED  BY <1>2, <1>3, <1>4 DEF Places

\* The client at ci is another with the same descriptors and the same turn.
LEMMA Replaced ==
  ASSUME IInv, ci \in Places, NEW k \in ClientType, k.h.asked.uri # <<>>,
         k.fd = Current.fd, k.file = Current.file, k.cgi = Current.cgi, k.active = Current.active,
         clients' = [clients EXCEPT ![ci] = k]
  PROVE  /\ ClientsInv' /\ Places' = Places /\ clients'[ci] = k
         /\ clients # <<>> /\ clients' # <<>>
         /\ \A i \in Places : /\ i # ci => clients'[i] = clients[i]
                              /\ clients'[i].fd = clients[i].fd
                              /\ clients'[i].file = clients[i].file
                              /\ clients'[i].cgi = clients[i].cgi
                              /\ clients'[i].active = clients[i].active
                              /\ Own(clients'[i]) = Own(clients[i])
         /\ UNCHANGED <<open, lost>> => TableInv'
<1>1. /\ ClientsInv' /\ Places' = Places /\ clients'[ci] = k
      /\ clients # <<>> /\ clients' # <<>>
      /\ \A i \in Places : i # ci => clients'[i] = clients[i]
  BY ReplacedBy
<1>2. \A i \in Places : /\ clients'[i].fd = clients[i].fd
                        /\ clients'[i].file = clients[i].file
                        /\ clients'[i].cgi = clients[i].cgi
                        /\ clients'[i].active = clients[i].active
  BY <1>1 DEF Current
<1>3. \A i \in Places : Own(clients'[i]) = Own(clients[i])
  BY <1>2 DEF Own
<1>4. UNCHANGED <<open, lost>> => TableInv'
  <2>. SUFFICES ASSUME UNCHANGED <<open, lost>> PROVE TableInv'
    OBVIOUS
  <2>1. TableInv
    BY DEF IInv
  <2>2. DOMAIN open' \subseteq Fds /\ lost' \subseteq DOMAIN open'
    BY <2>1 DEF TableInv
  <2>3. \A x \in DOMAIN open' : /\ open'[x] \in Conns \cup {"file"}
                                /\ x \in lost' \/ \E i \in Places' : x \in Own(clients'[i])
    BY <1>1, <1>3, <2>1 DEF TableInv
  <2>4. \A i \in Places' :
          /\ Own(clients'[i]) \subseteq DOMAIN open' \ lost'
          /\ open'[clients'[i].fd] \in Conns
          /\ clients'[i].file # unused => open'[clients'[i].file] = "file"
          /\ clients'[i].cgi # unused => open'[clients'[i].cgi] = "file" /\ clients'[i].cgi # clients'[i].file
    BY <1>1, <1>2, <1>3, <2>1 DEF TableInv
  <2>5. \A i, j \in Places' : i # j => Own(clients'[i]) \cap Own(clients'[j]) = {}
    BY <1>1, <1>3, <2>1 DEF TableInv
  <2>. QED  BY <2>2, <2>3, <2>4, <2>5 DEF TableInv
<1>. QED  BY <1>1, <1>2, <1>3, <1>4

\* set_time_out moves ages only.
LEMMA AgedType ==
  ASSUME IInv, ci \in Places
  PROVE  /\ Aged \in SetsType /\ Aged.read = fds.read /\ Aged.write = fds.write
         /\ Aged.rbuf = fds.rbuf /\ Aged.wbuf = fds.wbuf /\ Aged.max = fds.max
<1>1. fds \in SetsType /\ fds.age \in [Fds -> 0 .. TIME_OUT] /\ 0 \in 0 .. TIME_OUT
  BY SelectLoopAssumption DEF IInv, FdsInv, SetsType
<1>2. [fds.age EXCEPT ![Current.fd] = 0] \in [Fds -> 0 .. TIME_OUT]
  BY <1>1
<1>3. Aged = [fds EXCEPT !.age = [fds.age EXCEPT ![Current.fd] = 0]]
  BY DEF Aged
<1>. QED  BY <1>1, <1>2, <1>3 DEF SetsType

\* The client that is served; its descriptor is its connection's.
LEMMA ServedClient ==
  ASSUME IInv, ci \in Places
  PROVE  /\ Current \in ClientType /\ Current = clients[ci] /\ Current.h \in Handler
         /\ Current.h.asked.uri # <<>> /\ Current.h.asked \in Asked
         /\ Current.fd \in Fds /\ Current.fd \in DOMAIN open /\ open[Current.fd] \in Conns
<1>1. Current = clients[ci]
  BY DEF Current
<1>2. Current \in ClientType /\ Current.fd \in Fds /\ Current.h \in Handler
  BY <1>1, ClientIs DEF IInv
<1>3. Current.h.asked \in Asked /\ Current.h.asked.uri # <<>>
  BY <1>1, <1>2 DEF IInv, ClientsInv, Handler
<1>4. Current.fd \in Own(Current)
  BY <1>2, NoDescriptor DEF Own
<1>5. Current.fd \in DOMAIN open /\ open[Current.fd] \in Conns
  BY <1>1, <1>4 DEF IInv, TableInv
<1>. QED  BY <1>1, <1>2, <1>3, <1>5

\* update_request_buffer keeps what was read.
LEMMA ReceivedType ==
  ASSUME IInv, ci \in Places
  PROVE  /\ Received \in RequestBuf
         /\ buffer' = With(buffer, Current.fd, Received) => BufferInv'
         /\ buffer' = Without(buffer, {Current.fd}) => BufferInv'
<1>1. Current.fd \in Fds /\ inbox[open[Current.fd]] \in Seq(Token)
  BY ServedClient DEF IInv, NetInv
<1>2. NewBuffer \in RequestBuf
  BY EmptySeq DEF NewBuffer, RequestBuf
<1>3. Received \in RequestBuf
  BY <1>1, <1>2, CollectedType DEF Received, IInv, BufferInv
<1>4. buffer' = With(buffer, Current.fd, Received) => BufferInv'
  <2>. HIDE DEF Received
  <2>. QED  BY <1>1, <1>3 DEF With, IInv, BufferInv
<1>5. buffer' = Without(buffer, {Current.fd}) => BufferInv'
  BY DEF Without, IInv, BufferInv
<1>. QED  BY <1>3, <1>4, <1>5

\* read_browser_request and update_request_buffer.
LEMMA ReadRequestInv ==
  ASSUME IInv, ReadRequest
  PROVE  IInv'
<1>. DEFINE c == open[Current.fd]
            r == Received
            asked == parse_first_line(r)
            data == parse_body(r).data
            h == [FreshHandler EXCEPT !.asked = asked, !.body = data]
            k == [Current EXCEPT !.h = h]
<1>1. /\ stop = "none" /\ pc = "client" /\ ci \in Places /\ Current.active
      /\ Current.fd \in fds.read
      /\ inbox' = [inbox EXCEPT ![c] = <<>>] /\ ~check' /\ check' \in BOOLEAN
      /\ fds' = Aged
      /\ UNCHANGED <<script, peer, unread, backlog, open, ci, blind, failed, lost, left, reused>>
  <2>1. stop = "none" /\ pc = "client" /\ ci <= Len(clients) /\ Current.active /\ ci \in Nat \ {0}
    BY DEF ReadRequest, Running, Serving, IInv, ControlInv
  <2>2. Current.fd \in fds.read /\ inbox' = [inbox EXCEPT ![c] = <<>>] /\ check' = FALSE
    BY DEF ReadRequest
  <2>3. ci \in Places
    BY <2>1, ClientIs DEF IInv, Places
  <2>4. fds' = Aged /\ UNCHANGED <<script, peer, unread, backlog, open, ci, blind, failed, lost, left, reused>>
    BY DEF ReadRequest, ReadPart, ParseThrows, Parsed, remove_handled_request, history
  <2>5. ~check' /\ check' \in BOOLEAN
    BY <2>2
  <2>. QED  BY <2>1, <2>2, <2>3, <2>4, <2>5
<1>2. /\ fds' \in SetsType /\ fds'.read = fds.read /\ fds'.write = fds.write
      /\ fds'.rbuf = fds.rbuf /\ fds'.wbuf = fds.wbuf /\ fds'.max = fds.max
  BY <1>1, AgedType
<1>3. NetInv'
  <2>1. <<>> \in Seq(Token)
    BY EmptySeq
  <2>. QED  BY <1>1, <2>1 DEF IInv, NetInv
<1>4. BufferInv'
  <2>1. buffer' = With(buffer, Current.fd, r) \/ buffer' = Without(buffer, {Current.fd})
    BY DEF ReadRequest, ReadPart, ParseThrows, Parsed, remove_handled_request
  <2>. QED  BY <1>1, <2>1, ReceivedType
<1>5. PassInv
  BY <1>1 DEF IInv
<1>6. CASE ReadPart(r)
  <2>1. pc' = "file" /\ UNCHANGED <<clients, stop>>
    BY <1>6 DEF ReadPart
  <2>2. ClientsInv' /\ TableInv'
    BY <1>1, <2>1 DEF IInv, ClientsInv, TableInv, Places
  <2>3. ControlInv'
    BY <1>1, <2>1, ControlStays DEF IInv, ControlInv, Serves
  <2>4. TurnInv' /\ FdsInv'
    BY <1>1, <1>2, <2>1 DEF IInv, TurnInv, FdsInv, Places, Current
  <2>5. PassInv'
    BY <1>1, <1>2, <1>5, <2>1 DEF PassInv, Places, Ahead, FileAhead, Serves
  <2>6. ~reused' => SetsInv'
    <3>1. ~reused => SetsInv
      BY <1>1 DEF IInv
    <3>2. \A i \in Places : ((FileAhead(i))' => FileAhead(i)) /\ ((SendAhead(i))' => SendAhead(i))
      BY <1>1, <2>1 DEF FileAhead, SendAhead, Ahead, Places
    <3>3. Acting
      BY <1>1 DEF Acting, Current, Places
    <3>4. SetsInv => WaitsInv' /\ WatchInv'
      BY <1>1, <1>2, <2>1 DEF SetsInv, WaitsInv, WatchInv, Places, Reads, Files, Sends, Idle
    <3>5. SetsInv => ReportInv'
      BY <1>1, <1>2, <2>1, <3>2, <3>3 DEF SetsInv, ReportInv, Places
    <3>. QED  BY <1>1, <3>1, <3>4, <3>5 DEF SetsInv
  <2>. QED  BY <1>3, <1>4, <2>2, <2>3, <2>4, <2>5, <2>6 DEF IInv
<1>7. CASE ParseThrows(r)
  <2>1. stop' = "out_of_range" /\ UNCHANGED <<clients, pc>>
    BY <1>7 DEF ParseThrows
  <2>2. ClientsInv' /\ TableInv'
    BY <1>1, <2>1 DEF IInv, ClientsInv, TableInv, Places
  <2>3. ControlInv'
    BY <1>1, <2>1, ControlStays DEF IInv, ControlInv
  <2>4. TurnInv' /\ FdsInv'
    BY <1>1, <1>2, <2>1 DEF IInv, TurnInv, FdsInv, Places, Serves
  <2>. QED  BY <1>3, <1>4, <2>1, <2>2, <2>3, <2>4 DEF IInv
<1>8. CASE Parsed(r)
  <2>1. /\ pc' = "match" /\ UNCHANGED stop
        /\ clients' = [clients EXCEPT ![ci].h = h]
    BY <1>8 DEF Parsed, remove_handled_request
  <2>2. asked \in Asked /\ asked.uri # <<>> /\ data \in Seq(Token)
    BY <1>1, ReceivedType, ParsedType
  <2>. HIDE DEF asked, data
  <2>3. h \in Handler /\ h.asked = asked /\ h.written = 0
    <3>. HIDE DEF FreshHandler
    <3>. QED  BY <2>2, FreshType DEF Handler
  <2>. HIDE DEF h
  <2>4. /\ k \in ClientType /\ k.h = h /\ k.fd = Current.fd /\ k.file = Current.file
        /\ k.cgi = Current.cgi /\ k.active = Current.active
    BY <1>1, <2>3, ServedClient DEF ClientType
  <2>5. clients' = [clients EXCEPT ![ci] = k]
    BY <2>1 DEF Current
  <2>. HIDE DEF k
  <2>6. /\ ClientsInv' /\ Places' = Places /\ clients'[ci] = k
        /\ clients # <<>> /\ clients' # <<>>
        /\ \A i \in Places : /\ i # ci => clients'[i] = clients[i]
                             /\ clients'[i].fd = clients[i].fd
                             /\ clients'[i].file = clients[i].file
                             /\ clients'[i].cgi = clients[i].cgi
                             /\ clients'[i].active = clients[i].active
                             /\ Own(clients'[i]) = Own(clients[i])
        /\ TableInv'
    BY <1>1, <2>2, <2>3, <2>4, <2>5, Replaced
  <2>7. ControlInv'
    BY <1>1, <2>1, ControlStays DEF IInv, ControlInv, Serves
  <2>8. TurnInv'
    BY <1>1, <1>2, <2>1, <2>6 DEF IInv, TurnInv, Current
  <2>9. FdsInv'
    BY <1>2, <2>6 DEF IInv, FdsInv
  <2>10. clients[ci].fd \in fds.rbuf
    BY <1>1, <1>5 DEF PassInv, Ahead, Current, Places
  <2>11. PassInv'
    BY <1>1, <1>2, <1>5, <2>1, <2>6, <2>10 DEF PassInv, Ahead, FileAhead, Serves
  <2>12. ~reused' => SetsInv'
    <3>. SUFFICES ASSUME ~reused' PROVE SetsInv'
      OBVIOUS
    <3>1. SetsInv
      BY <1>1 DEF IInv
    <3>2. WaitsInv'
      <4>1. Reads(clients[ci])
        BY <1>1, <2>10, <3>1 DEF SetsInv, WaitsInv, Files, Sends, Idle
      <4>2. clients'[ci].h.written = 0
        BY <2>3, <2>4, <2>6
      <4>3. (Reads(clients[ci]))'
        BY <1>1, <1>2, <2>6, <4>1, <4>2 DEF Reads
      <4>4. \A i \in Places : i # ci =>
              (Reads(clients[i]) \/ Files(clients[i]) \/ Sends(clients[i]) \/ (blind /\ Idle(clients[i])))'
        BY <1>1, <1>2, <2>6, <3>1 DEF SetsInv, WaitsInv, Reads, Files, Sends, Idle
      <4>. QED  BY <1>1, <2>6, <4>3, <4>4 DEF WaitsInv
    <3>3. WatchInv'
      BY <1>1, <1>2, <2>6, <3>1 DEF SetsInv, WatchInv
    <3>4. ReportInv'
      <4>1. \A i \in Places : ((FileAhead(i))' => FileAhead(i)) /\ ((SendAhead(i))' => SendAhead(i))
        BY <1>1, <2>1 DEF FileAhead, SendAhead, Ahead
      <4>2. Acting
        BY <1>1 DEF Acting, Current, Places
      <4>. QED  BY <1>1, <1>2, <2>6, <3>1, <4>1, <4>2 DEF SetsInv, ReportInv
    <3>. QED  BY <3>2, <3>3, <3>4 DEF SetsInv
  <2>. QED  BY <1>3, <1>4, <2>6, <2>7, <2>8, <2>9, <2>11, <2>12 DEF IInv
<1>. QED  BY <1>6, <1>7, <1>8 DEF ReadRequest

\* match_location_block, verify_file_location, verify_method and
\* verify_authorization change the handler's turn, and what the client has proved.
LEMMA TurnSet ==
  ASSUME IInv, ci \in Places, NEW turn \in Turn, NEW auth \in BOOLEAN,
         clients' = [clients EXCEPT ![ci].h.turn = turn, ![ci].auth = auth],
         pc \in {"match", "verify"}, pc' \in {"verify", "carry"}, stop = "none",
         UNCHANGED <<net, open, fds, buffer, check, ci, stop, history>>
  PROVE  IInv'
<1>. DEFINE h == [Current.h EXCEPT !.turn = turn]
            k == [Current EXCEPT !.h = h, !.auth = auth]
<1>1. /\ Current \in ClientType /\ Current = clients[ci] /\ Current.h \in Handler
      /\ Current.h.asked.uri # <<>>
  BY ServedClient
<1>2. /\ h \in Handler /\ h.asked = Current.h.asked /\ h.written = Current.h.written
      /\ h.toFile = Current.h.toFile /\ h.kind = Current.h.kind
  BY <1>1 DEF Handler
<1>. HIDE DEF h
<1>3. /\ k \in ClientType /\ k.h = h /\ k.fd = Current.fd /\ k.file = Current.file
      /\ k.cgi = Current.cgi /\ k.active = Current.active
  BY <1>1, <1>2 DEF ClientType
<1>4. clients' = [clients EXCEPT ![ci] = k]
  BY DEF Current, h
<1>. HIDE DEF k
<1>5. /\ ClientsInv' /\ Places' = Places /\ clients'[ci] = k
      /\ clients # <<>> /\ clients' # <<>>
      /\ \A i \in Places : /\ i # ci => clients'[i] = clients[i]
                           /\ clients'[i].fd = clients[i].fd
                           /\ clients'[i].file = clients[i].file
                           /\ clients'[i].cgi = clients[i].cgi
                           /\ clients'[i].active = clients[i].active
                           /\ Own(clients'[i]) = Own(clients[i])
      /\ TableInv'
  BY <1>1, <1>2, <1>3, <1>4, Replaced DEF history
<1>6. NetInv' /\ BufferInv'
  BY DEF IInv, NetInv, BufferInv, net, history
<1>7. ControlInv'
  BY ControlStays DEF IInv, ControlInv, Serves, history
<1>8. TurnInv'
  BY <1>5 DEF IInv, TurnInv, Serves, history
<1>9. FdsInv'
  BY <1>5 DEF IInv, FdsInv
<1>10. PassInv'
  BY <1>5 DEF IInv, PassInv, Ahead, FileAhead, Serves
<1>11. ~reused' => SetsInv'
  <2>. SUFFICES ASSUME ~reused' PROVE SetsInv'
    OBVIOUS
  <2>1. SetsInv
    BY DEF IInv, history
  <2>2. WaitsInv'
    <3>1. /\ clients'[ci].h.written = clients[ci].h.written /\ clients'[ci].h.toFile = clients[ci].h.toFile
          /\ clients'[ci].h.kind = clients[ci].h.kind
      BY <1>1, <1>2, <1>3, <1>5
    <3>2. \A i \in Places : /\ Reads(clients[i]) => (Reads(clients[i]))'
                            /\ Files(clients[i]) => (Files(clients[i]))'
                            /\ Sends(clients[i]) => (Sends(clients[i]))'
                            /\ Idle(clients[i]) => (Idle(clients[i]))'
      BY <1>5, <3>1 DEF Reads, Files, Sends, Idle
    <3>. QED  BY <1>5, <2>1, <3>2 DEF SetsInv, WaitsInv, history
  <2>3. WatchInv'
    BY <1>5, <2>1 DEF SetsInv, WatchInv, history
  <2>4. ReportInv'
    <3>1. \A i \in Places : ((FileAhead(i))' => FileAhead(i)) /\ ((SendAhead(i))' => SendAhead(i))
      BY DEF FileAhead, SendAhead, Ahead
    <3>2. Acting
      BY DEF Acting, Serves
    <3>. QED  BY <1>5, <2>1, <3>1, <3>2 DEF SetsInv, ReportInv
  <2>. QED  BY <2>2, <2>3, <2>4 DEF SetsInv
<1>. QED  BY <1>5, <1>6, <1>7, <1>8, <1>9, <1>10, <1>11 DEF IInv

\* match_location_block and verify_file_location.
LEMMA MatchInv ==
  ASSUME IInv, Match
  PROVE  IInv'
<1>1. /\ stop = "none" /\ pc = "match" /\ pc' = "verify"
      /\ UNCHANGED <<net, open, fds, buffer, check, ci, stop, history>>
  BY DEF Match, Running
<1>2. ci \in Places
  BY <1>1 DEF IInv, TurnInv, Serves
<1>3. PICK turn \in Turn : clients' = [clients EXCEPT ![ci].h.turn = turn]
  <2>1. PICK stale \in BOOLEAN :
          clients' = [clients EXCEPT ![ci].h.turn =
            verify_file_location(match_location_block(FilesIn(Current.h.asked, files, stale),
                                                      Current.h.asked), Current.h.asked)]
    BY DEF Match
  <2>. QED  BY <1>2, <2>1, ServedClient, MatchType
<1>4. clients' = [clients EXCEPT ![ci].h.turn = turn, ![ci].auth = Current.auth]
        /\ Current.auth \in BOOLEAN
  <2>1. clients \in Seq(ClientType) /\ clients[ci] = Current /\ Current \in ClientType
    BY <1>2, ServedClient DEF IInv, ClientsInv
  <2>2. [Current EXCEPT !.h.turn = turn] = [Current EXCEPT !.h.turn = turn, !.auth = Current.auth]
        /\ Current.auth \in BOOLEAN
    BY <2>1 DEF ClientType
  <2>3. clients' = [clients EXCEPT ![ci] = [Current EXCEPT !.h.turn = turn]]
    BY <1>3, <2>1
  <2>4. [clients EXCEPT ![ci].h.turn = turn, ![ci].auth = Current.auth]
          = [clients EXCEPT ![ci] = [Current EXCEPT !.h.turn = turn, !.auth = Current.auth]]
    BY <2>1
  <2>. QED  BY <2>2, <2>3, <2>4
<1>. QED  BY <1>1, <1>2, <1>4, TurnSet

\* verify_method and verify_authorization.
LEMMA VerifyInv ==
  ASSUME IInv, Verify
  PROVE  IInv'
<1>. DEFINE allowed == verify_method(Current.h.turn, Current.h.asked)
            proved  == verify_authorization(allowed, Current.h.asked, Current.auth)
<1>1. /\ stop = "none" /\ pc = "verify" /\ pc' = "carry"
      /\ UNCHANGED <<net, open, fds, buffer, check, ci, stop, history>>
      /\ clients' = [clients EXCEPT ![ci].h.turn = proved.turn, ![ci].auth = proved.auth]
  BY DEF Verify, Running
<1>2. ci \in Places
  BY <1>1 DEF IInv, TurnInv, Serves
<1>3. Current.h.turn \in Turn /\ Current.auth \in BOOLEAN
  BY <1>2, ServedClient DEF Handler, ClientType
<1>4. allowed \in Turn
  BY <1>3, VerifiedType
<1>. HIDE DEF allowed
<1>5. proved.turn \in Turn /\ proved.auth \in BOOLEAN
  BY <1>3, <1>4, VerifiedType
<1>. HIDE DEF proved
<1>. QED  BY <1>1, <1>2, <1>5, TurnSet

\* The end of a turn's step that goes on in a later pass ("continue"): the client
\* holds another handler and waits for something as before.
LEMMA Continued ==
  ASSUME IInv, ci \in Places, NEW h \in Handler, h.asked.uri # <<>>,
         clients' = [clients EXCEPT ![ci].h = h],
         stop = "none", pc \in {"file", "send"}, NextClient,
         NetInv', check' \in BOOLEAN,
         LET k == [Current EXCEPT !.h = h]
         IN ~reused => Reads(k) \/ Files(k) \/ Sends(k) \/ (blind /\ Idle(k)),
         UNCHANGED <<open, fds, buffer, stop, history>>
  PROVE  IInv'
<1>. PICK k : k = [Current EXCEPT !.h = h]
  OBVIOUS
<1>1. Current \in ClientType /\ Current = clients[ci]
  BY ServedClient
<1>2. /\ k \in ClientType /\ k.h = h /\ k.fd = Current.fd /\ k.file = Current.file
      /\ k.cgi = Current.cgi /\ k.active = Current.active
  BY <1>1 DEF ClientType
<1>3. clients' = [clients EXCEPT ![ci] = k]
  BY DEF Current
<1>4. ~reused => Reads(k) \/ Files(k) \/ Sends(k) \/ (blind /\ Idle(k))
  OBVIOUS
<1>5. /\ ClientsInv' /\ Places' = Places /\ clients'[ci] = k
      /\ clients # <<>> /\ clients' # <<>>
      /\ \A i \in Places : /\ i # ci => clients'[i] = clients[i]
                           /\ clients'[i].fd = clients[i].fd
                           /\ clients'[i].file = clients[i].file
                           /\ clients'[i].cgi = clients[i].cgi
                           /\ clients'[i].active = clients[i].active
                           /\ Own(clients'[i]) = Own(clients[i])
      /\ TableInv'
  BY <1>1, <1>2, <1>3, Replaced DEF history
<1>6. pc' = "client" /\ ci' = ci + 1 /\ ci \in Nat \ {0}
  BY DEF NextClient, IInv, ControlInv
<1>7. BufferInv'
  BY DEF IInv, BufferInv
<1>8. ControlInv'
  BY <1>6, ControlStays DEF IInv, ControlInv, history
<1>9. TurnInv' /\ FdsInv'
  BY <1>5, <1>6 DEF IInv, TurnInv, FdsInv, Serves, history
<1>10. \A i \in Places : ((FileAhead(i))' => FileAhead(i)) /\ ((SendAhead(i))' => SendAhead(i))
                          /\ ((Ahead(i))' => Ahead(i)) /\ ((FileAhead(i))' => i # ci)
  BY <1>6 DEF FileAhead, SendAhead, Ahead, Places
<1>11. PassInv'
  BY <1>5, <1>6, <1>10 DEF IInv, PassInv, Serves
<1>12. ~reused' => SetsInv'
  <2>. SUFFICES ASSUME ~reused' PROVE SetsInv'
    OBVIOUS
  <2>1. SetsInv
    BY DEF IInv, history
  <2>2. WaitsInv'
    <3>1. \A i \in Places : i # ci =>
            (Reads(clients[i]) \/ Files(clients[i]) \/ Sends(clients[i]) \/ (blind /\ Idle(clients[i])))'
      BY <1>5, <2>1 DEF SetsInv, WaitsInv, Reads, Files, Sends, Idle, history
    <3>2. (Reads(k) \/ Files(k) \/ Sends(k) \/ (blind /\ Idle(k)))'
      BY <1>4 DEF Reads, Files, Sends, Idle, history
    <3>3. (\A i \in Places : i = ci => 
            (Reads(clients'[i]) \/ Files(clients'[i]) \/ Sends(clients'[i]) \/ (blind' /\ Idle(clients'[i]))))
      BY <1>5, <3>2 DEF Reads, Files, Sends, Idle, history
    <3>4. \A i \in Places : i = ci =>
            (Reads(clients[i]) \/ Files(clients[i]) \/ Sends(clients[i]) \/ (blind /\ Idle(clients[i])))'
      BY <3>3 DEF Reads, Files, Sends, Idle
    <3>. QED  BY <1>5, <3>1, <3>4 DEF WaitsInv
  <2>3. WatchInv'
    BY <1>5, <2>1 DEF SetsInv, WatchInv, history
  <2>4. ReportInv'
    <3>1. Acting
      BY DEF Acting, Serves
    <3>. QED  BY <1>5, <1>10, <2>1, <3>1 DEF SetsInv, ReportInv
  <2>. QED  BY <2>2, <2>3, <2>4 DEF SetsInv
<1>. QED  BY <1>5, <1>7, <1>8, <1>9, <1>11, <1>12 DEF IInv

\* A client whose file select has reported waits for this file.
LEMMA WaitsForFile ==
  ASSUME IInv, stop = "none", pc = "file", Current.file \in fds.read, ~reused
  PROVE  Files(Current) /\ (Current.file \in fds.write <=> Current.file \in fds.wbuf)
<1>1. ci \in Places /\ FileAhead(ci) /\ SetsInv /\ PassInv /\ fds \in SetsType
  BY DEF IInv, TurnInv, Serves, FileAhead, FdsInv
<1>2. Current = clients[ci]
  BY <1>1, ServedClient
<1>3. Current.file \in fds.rbuf /\ Current.file # unused
  BY <1>1, <1>2, NoDescriptor DEF PassInv, SetsType
<1>4. Files(Current)
  BY <1>1, <1>2, <1>3 DEF SetsInv, WaitsInv, Reads, Sends, Idle
<1>5. Current.file \in fds.write <=> Current.file \in fds.wbuf
  BY <1>1, <1>2 DEF SetsInv, ReportInv
<1>. QED  BY <1>4, <1>5

\* write_body_to_file or execute_cgi.
LEMMA WriteBodyInv ==
  ASSUME IInv, WriteBody
  PROVE  IInv'
<1>. DEFINE h == [Current.h EXCEPT !.written = Len(Current.h.body), !.toFile = (Current.h.body = <<>>)]
<1>1. /\ stop = "none" /\ pc = "file" /\ NextClient
      /\ Current.file \in fds.read \cap fds.write /\ Current.h.kind # "refused"
      /\ UNCHANGED <<net, open, fds, buffer, check, stop, history>>
      /\ clients' = [clients EXCEPT ![ci].h.written = Len(Current.h.body),
                                    ![ci].h.toFile = (Current.h.body = <<>>)]
  BY DEF WriteBody, Writing, InFile, Running
<1>2. ci \in Places
  BY <1>1 DEF IInv, TurnInv, Serves
<1>3. /\ Current = clients[ci] /\ Current \in ClientType /\ Current.h \in Handler
      /\ Current.h.asked.uri # <<>> /\ Current.h.body \in Seq(Token)
  BY <1>2, ServedClient DEF Handler
<1>4. Len(Current.h.body) \in Nat /\ (Len(Current.h.body) # 0 => Current.h.body # <<>>)
  BY <1>3, LenProperties, EmptySeq
<1>5. /\ h \in Handler /\ h.asked = Current.h.asked /\ h.kind = Current.h.kind
      /\ h.written = Len(Current.h.body) /\ h.toFile = (Current.h.body = <<>>)
  BY <1>3, <1>4 DEF Handler
<1>6. clients' = [clients EXCEPT ![ci].h = h]
  <2>1. clients' = [clients EXCEPT ![ci] = [Current EXCEPT !.h.written = Len(Current.h.body),
                                                          !.h.toFile = (Current.h.body = <<>>)]]
    BY <1>1, <1>3
  <2>. QED  BY <1>3, <2>1
<1>. HIDE DEF h
<1>7. ~reused => Files([Current EXCEPT !.h = h])
  <2>. SUFFICES ASSUME ~reused PROVE Files([Current EXCEPT !.h = h])
    OBVIOUS
  <2>1. Files(Current) /\ Current.file \in fds.wbuf
    BY <1>1, WaitsForFile
  <2>2. h.written # 0 => ~h.toFile
    BY <1>4, <1>5
  <2>3. /\ [Current EXCEPT !.h = h].fd = Current.fd /\ [Current EXCEPT !.h = h].file = Current.file
        /\ [Current EXCEPT !.h = h].cgi = Current.cgi /\ [Current EXCEPT !.h = h].h = h
    BY <1>3 DEF ClientType
  <2>. QED  BY <1>1, <1>5, <2>1, <2>2, <2>3 DEF Files
<1>8. NetInv' /\ check' \in BOOLEAN
  BY <1>1 DEF IInv, NetInv, ControlInv, net, history
<1>. QED  BY <1>1, <1>2, <1>3, <1>5, <1>6, <1>7, <1>8, Continued

\* What follows the writing in the same pass.
LEMMA WrittenType ==
  ASSUME IInv, ci \in Places
  PROVE  LET h == Written(Current.h)
         IN /\ h \in Handler /\ h.asked = Current.h.asked /\ h.kind = Current.h.kind
            /\ \/ h = Current.h
               \/ h.written = 0
            /\ Current.file \in fds.write /\ h.kind # "refused" /\ ~Current.h.toFile => h.written = 0
<1>1. Current.h \in Handler
  BY ServedClient
<1>2. [Current.h EXCEPT !.written = 0, !.toFile = TRUE] \in Handler
  BY <1>1 DEF Handler
<1>. QED  BY <1>1, <1>2 DEF Written, Handler

\* read_requested_file or read_cgi_output_file.
LEMMA ReadFileInv ==
  ASSUME IInv, ReadFile
  PROVE  IInv'
<1>. DEFINE w == Written(Current.h)
            h == [w EXCEPT !.begun = TRUE]
<1>1. /\ stop = "none" /\ pc = "file" /\ NextClient /\ Current.file \in fds.read
      /\ UNCHANGED <<net, open, fds, buffer, stop, history>>
      /\ clients' = [clients EXCEPT ![ci].h = [Written(@) EXCEPT !.begun = TRUE]]
      /\ check' = IF Written(Current.h) # Current.h THEN FALSE ELSE check
  BY DEF ReadFile, AfterWriting, InFile, Running
<1>2. ci \in Places
  BY <1>1 DEF IInv, TurnInv, Serves
<1>3. /\ Current = clients[ci] /\ Current \in ClientType /\ Current.h \in Handler
      /\ Current.h.asked.uri # <<>>
  BY <1>2, ServedClient
<1>4. /\ w \in Handler /\ w.asked = Current.h.asked /\ w.kind = Current.h.kind
      /\ w = Current.h \/ w.written = 0
  BY <1>2, WrittenType
<1>5. clients' = [clients EXCEPT ![ci].h = h]
  BY <1>1, <1>3
<1>6. NetInv' /\ check' \in BOOLEAN
  <2>1. check \in BOOLEAN
    BY DEF IInv, ControlInv
  <2>2. check' \in BOOLEAN
    BY <1>1, <2>1
  <2>3. NetInv'
    BY <1>1 DEF IInv, NetInv, net, history
  <2>. QED  BY <2>2, <2>3
<1>. HIDE DEF w
<1>7. /\ h \in Handler /\ h.asked = Current.h.asked /\ h.kind = Current.h.kind
      /\ h.written = w.written /\ h.toFile = w.toFile
  BY <1>4 DEF Handler
<1>. HIDE DEF h
<1>8. ~reused => Files([Current EXCEPT !.h = h])
  <2>. SUFFICES ASSUME ~reused PROVE Files([Current EXCEPT !.h = h])
    OBVIOUS
  <2>1. Files(Current)
    BY <1>1, WaitsForFile
  <2>2. /\ [Current EXCEPT !.h = h].fd = Current.fd /\ [Current EXCEPT !.h = h].file = Current.file
        /\ [Current EXCEPT !.h = h].cgi = Current.cgi /\ [Current EXCEPT !.h = h].h = h
    BY <1>3 DEF ClientType
  <2>. QED  BY <1>4, <1>7, <2>1, <2>2 DEF Files
<1>. QED  BY <1>1, <1>2, <1>3, <1>5, <1>6, <1>7, <1>8, Continued

\* What write takes is what there is room for, as long as some is left.
LEMMA SentIs ==
  ASSUME IInv, stop = "none", pc = "send", Current.fd \in fds.write
  PROVE  /\ ci \in Places /\ open[Current.fd] \in Conns
         /\ Sent \in Int /\ Current.h.written \in Nat /\ Current.h.written + Sent <= RLEN
         /\ Current.h.written + Sent < RLEN => Sent \in Nat
         /\ unread[open[Current.fd]] + Sent <= ROOM
         /\ ~reused => Sent \in Nat /\ Sends(Current)
<1>. DEFINE room == ROOM - unread[open[Current.fd]]
            rest == RLEN - Current.h.written
<1>1. ci \in Places /\ fds \in SetsType
  BY DEF IInv, TurnInv, Serves, FdsInv
<1>2. Current = clients[ci] /\ open[Current.fd] \in Conns
  BY <1>1, ServedClient
<1>3. Current.h.written \in Nat /\ RLEN \in Nat \ {0} /\ ROOM \in Nat \ {0}
  BY <1>1, <1>2, ClientIs, SelectLoopAssumption DEF IInv
<1>4. unread[open[Current.fd]] \in Int /\ unread[open[Current.fd]] <= ROOM
  BY <1>2 DEF IInv, NetInv
<1>5. room \in Nat /\ rest \in Int /\ Sent = IF room < rest THEN room ELSE rest
  BY <1>3, <1>4 DEF Sent
<1>6. ~reused => Sends(Current)
  <2>. SUFFICES ASSUME ~reused PROVE Sends(Current)
    OBVIOUS
  <2>1. SetsInv /\ SendAhead(ci)
    BY DEF IInv, SendAhead
  <2>2. Current.fd \in fds.wbuf
    BY <1>1, <1>2, <2>1 DEF SetsInv, ReportInv
  <2>. QED  BY <1>1, <1>2, <2>1, <2>2 DEF SetsInv, WaitsInv, Reads, Files, Idle
<1>7. ~reused => Current.h.written < RLEN
  BY <1>6 DEF Sends
<1>. HIDE DEF room, rest
<1>8. /\ Sent \in Int /\ Current.h.written + Sent <= RLEN
      /\ Current.h.written + Sent < RLEN => Sent \in Nat
      /\ ~reused => Sent \in Nat
  BY <1>3, <1>5, <1>7 DEF rest
<1>9. unread[open[Current.fd]] + Sent <= ROOM
  BY <1>3, <1>4, <1>5 DEF room, rest
<1>. QED  BY <1>1, <1>2, <1>3, <1>6, <1>8, <1>9

\* write takes a part of the response.
LEMMA SendPartInv ==
  ASSUME IInv, SendPart
  PROVE  IInv'
<1>. DEFINE c == open[Current.fd]
            h == [Current.h EXCEPT !.written = Current.h.written + Sent]
<1>1. /\ stop = "none" /\ pc = "send" /\ NextClient /\ Current.fd \in fds.write
      /\ Current.h.written + Sent < RLEN
      /\ unread' = [unread EXCEPT ![c] = @ + Sent]
      /\ clients' = [clients EXCEPT ![ci].h.written = @ + Sent]
      /\ UNCHANGED <<script, files, peer, inbox, backlog, open, fds, buffer, stop, history>>
  BY DEF SendPart, Sending, Running
<1>2. check' \in BOOLEAN
  BY DEF SendPart, Sending
<1>3. /\ ci \in Places /\ c \in Conns
      /\ Sent \in Nat /\ Current.h.written \in Nat
      /\ unread[c] + Sent <= ROOM
      /\ ~reused => Sends(Current)
  BY <1>1, SentIs
<1>4. /\ Current = clients[ci] /\ Current \in ClientType /\ Current.h \in Handler
      /\ Current.h.asked.uri # <<>>
  BY <1>3, ServedClient
<1>. HIDE DEF Sent
<1>5. /\ h \in Handler /\ h.asked = Current.h.asked /\ h.written = Current.h.written + Sent
  BY <1>3, <1>4 DEF Handler
<1>6. clients' = [clients EXCEPT ![ci].h = h]
  BY <1>1, <1>4
<1>. HIDE DEF h
<1>7. ~reused => Sends([Current EXCEPT !.h = h])
  <2>1. /\ [Current EXCEPT !.h = h].fd = Current.fd /\ [Current EXCEPT !.h = h].file = Current.file
        /\ [Current EXCEPT !.h = h].cgi = Current.cgi /\ [Current EXCEPT !.h = h].h = h
    BY <1>4 DEF ClientType
  <2>. QED  BY <1>1, <1>3, <1>5, <2>1 DEF Sends
<1>8. NetInv'
  <2>1. unread \in [Conns -> Int] /\ \A d \in Conns : unread[d] <= ROOM /\ (~reused => unread[d] >= 0)
    BY DEF IInv, NetInv
  <2>2. unread' \in [Conns -> Int] /\ \A d \in Conns : unread'[d] = IF d = c THEN unread[c] + Sent ELSE unread[d]
    BY <1>1, <1>3, <2>1
  <2>3. unread[c] \in Int /\ (~reused => unread[c] + Sent >= 0)
    BY <1>3, <2>1
  <2>. HIDE DEF c
  <2>4. \A d \in Conns : unread'[d] <= ROOM /\ (~reused => unread'[d] >= 0)
    BY <1>3, <2>1, <2>2, <2>3
  <2>. QED  BY <1>1, <2>2, <2>4 DEF IInv, NetInv, history
<1>. QED  BY <1>1, <1>2, <1>3, <1>4, <1>5, <1>6, <1>7, <1>8, Continued

-----------------------------------------------------------------------------
\* handle_request, and what run does after it.

\* The client's request is at hand: it has no file yet, and waits for its peer.
LEMMA AtHand ==
  ASSUME IInv, Running("carry")
  PROVE  /\ ci \in Places /\ Current.active /\ ~check
         /\ Current.fd \in fds.rbuf /\ Current.file = unused /\ Current.cgi = unused
         /\ ~reused => SetsInv /\ Reads(Current) /\ Current.fd \notin fds.write
                       /\ fds.read \cup fds.write \subseteq DOMAIN open \cup {Listen}
<1>1. stop = "none" /\ pc = "carry"
  BY DEF Running
<1>2. ci \in Places /\ Current.active
  BY <1>1 DEF IInv, TurnInv, Serves, Current
<1>3. Current.fd \in fds.rbuf /\ ~check
  BY <1>1 DEF IInv, PassInv, Current
<1>4. Current.file = unused /\ Current.cgi = unused
  BY <1>2, <1>3 DEF IInv, FdsInv, Current
<1>5. ASSUME ~reused
      PROVE  /\ SetsInv /\ Reads(Current) /\ Current.fd \notin fds.write
             /\ fds.read \cup fds.write \subseteq DOMAIN open \cup {Listen}
  <2>1. SetsInv
    BY <1>1, <1>5 DEF IInv
  <2>2. Reads(Current)
    BY <1>2, <1>3, <2>1 DEF SetsInv, WaitsInv, Files, Sends, Idle, Current
  <2>3. SendAhead(ci)
    BY <1>1, <1>2 DEF SendAhead, FileAhead, Ahead, Places
  <2>4. Current.fd \notin fds.write
    BY <1>2, <2>1, <2>2, <2>3 DEF SetsInv, ReportInv, Reads, Current
  <2>5. fds.read \cup fds.write \subseteq DOMAIN open \cup {Listen}
    BY <1>1, <2>1 DEF SetsInv, ReportInv, Acting, Serves
  <2>. QED  BY <2>1, <2>2, <2>4, <2>5
<1>. QED  BY <1>2, <1>3, <1>4, <1>5

\* A file of the request was opened, and perhaps one for the script, or none;
\* their numbers are new.
LEMMA Handed ==
  ASSUME IInv, Running("carry"), NEW file, NEW cgi, NEW kind \in Kind, NEW W,
         file \in (Fds \ DOMAIN open) \cup {unused},
         cgi \in (Fds \ DOMAIN open) \cup {unused},
         cgi # unused => file # unused /\ cgi # file,
         clients' = [clients EXCEPT ![ci] = [Current EXCEPT !.file = file, !.cgi = cgi, !.h.kind = kind]],
         DOMAIN open' = DOMAIN open \cup ({file, cgi} \ {unused}),
         \A x \in {file, cgi} \ {unused} : open'[x] = "file",
         \A x \in DOMAIN open : open'[x] = open[x],
         fds' \in SetsType, fds'.read = fds.read, fds'.write = fds.write,
         fds'.rbuf = (fds.rbuf \ {Current.fd}) \cup ({file} \ {unused}),
         fds'.wbuf = fds.wbuf \cup W,
         \/ (W = {Current.fd} /\ file = unused)
         \/ (W \subseteq {file, cgi} \ {unused} /\ file # unused),
         reused' \in BOOLEAN,
         reused' <=> (reused \/ ({file, cgi} \ {unused}) \cap (fds.rbuf \cup fds.wbuf) # {}),
         pc' = "file",
         UNCHANGED <<script, peer, inbox, unread, backlog, buffer, check, ci, stop,
                     blind, failed, lost, left>>
  PROVE  IInv'
<1>. DEFINE new == {file, cgi} \ {unused}
<1>. PICK k : k = [Current EXCEPT !.file = file, !.cgi = cgi, !.h.kind = kind]
  OBVIOUS
<1>1. /\ stop = "none" /\ pc = "carry" /\ ci \in Places /\ Current.active /\ ~check
      /\ Current.fd \in fds.rbuf /\ Current.file = unused /\ Current.cgi = unused
  BY AtHand DEF Running
<1>2. /\ Current \in ClientType /\ Current = clients[ci] /\ Current.h \in Handler
      /\ Current.h.asked.uri # <<>>
      /\ Current.fd \in Fds /\ Current.fd \in DOMAIN open /\ open[Current.fd] \in Conns
  BY <1>1, ServedClient
<1>3. unused \notin Fds /\ Listen \notin Fds /\ unused # Listen
  BY NoDescriptor DEF unused, Listen
<1>4. /\ k \in ClientType /\ k.fd = Current.fd /\ k.file = file /\ k.cgi = cgi /\ k.active = Current.active
      /\ k.h.asked.uri # <<>> /\ k.h.written = Current.h.written
  <2>1. [Current.h EXCEPT !.kind = kind] \in Handler /\ [Current.h EXCEPT !.kind = kind].asked = Current.h.asked
        /\ [Current.h EXCEPT !.kind = kind].written = Current.h.written
    BY <1>2 DEF Handler
  <2>2. k = [Current EXCEPT !.file = file, !.cgi = cgi, !.h = [Current.h EXCEPT !.kind = kind]]
    BY <1>2
  <2>. QED  BY <1>2, <2>1, <2>2 DEF ClientType
<1>5. clients' = [clients EXCEPT ![ci] = k]
  OBVIOUS
<1>6. /\ ClientsInv' /\ Places' = Places /\ clients'[ci] = k
      /\ \A i \in Places : i # ci => clients'[i] = clients[i]
      /\ clients # <<>> /\ clients' # <<>>
  BY <1>1, <1>4, <1>5, ReplacedBy
<1>7. /\ new \cap DOMAIN open = {} /\ new \subseteq Fds
      /\ Own(k) = {Current.fd} \cup new /\ Own(Current) = {Current.fd} /\ Current.fd \notin new
  BY <1>1, <1>2, <1>3, <1>4 DEF Own
<1>. HIDE DEF new
<1>8. \A i \in Places : i # ci =>
        /\ clients'[i] = clients[i]
        /\ Own(clients[i]) \subseteq DOMAIN open /\ Current.fd \notin Own(clients[i])
        /\ Own(clients[i]) \cap new = {}
        /\ clients[i].fd \in Own(clients[i]) /\ clients[i].fd \in Fds
        /\ clients[i].file \in Own(clients[i]) \cup {unused} /\ clients[i].cgi \in Own(clients[i]) \cup {unused}
  <2>. TAKE i \in Places
  <2>. HAVE i # ci
  <2>1. Own(clients[i]) \subseteq DOMAIN open /\ Own(clients[i]) \cap Own(clients[ci]) = {}
    BY <1>1 DEF IInv, TableInv
  <2>2. clients[i].fd \in Fds
    BY ClientIs DEF IInv
  <2>3. /\ clients[i].fd \in Own(clients[i]) /\ clients[i].file \in Own(clients[i]) \cup {unused}
        /\ clients[i].cgi \in Own(clients[i]) \cup {unused}
    BY <1>3, <2>2 DEF Own
  <2>. QED  BY <1>2, <1>6, <1>7, <2>1, <2>2, <2>3
<1>9. W \subseteq {Current.fd} \cup new
  BY DEF new
<1>10. \A i \in Places : i # ci =>
         /\ \A x \in Own(clients[i]) \cup {unused} :
               (x \in fds'.rbuf <=> x \in fds.rbuf) /\ (x \in fds'.wbuf <=> x \in fds.wbuf)
  <2>1. \A x : x \notin new /\ x # Current.fd => (x \in fds'.rbuf <=> x \in fds.rbuf) /\ (x \in fds'.wbuf <=> x \in fds.wbuf)
    BY <1>9 DEF new
  <2>2. unused \notin new /\ unused # Current.fd
    BY <1>2, <1>3, <1>7
  <2>. QED  BY <1>8, <2>1, <2>2
<1>11. NetInv' /\ BufferInv'
  BY DEF IInv, NetInv, BufferInv
<1>12. ControlInv'
  <2>1. lost' \subseteq Fds /\ left' \subseteq Fds /\ ci' \in Nat \ {0} /\ check' \in BOOLEAN
    BY DEF IInv, ControlInv
  <2>2. /\ pc' \in {"select", "accept", "client", "sync"} \cup Serves
        /\ stop' \in {"none", "undefined", "out_of_range", "SIGPIPE"}
    BY <1>1 DEF Serves
  <2>3. blind' \/ reused' => left' # {}
    <3>1. CASE reused \/ blind
      BY <3>1 DEF IInv, ControlInv
    <3>2. CASE ~reused /\ \E x \in new : x \in fds.rbuf \cup fds.wbuf
      <4>1. SetsInv
        BY <1>1, <3>2 DEF IInv
      <4>2. PICK x \in new : x \in fds.rbuf \cup fds.wbuf
        BY <3>2
      <4>3. \A i \in Places : x \notin Own(clients[i])
        BY <1>2, <1>7, <1>8
      <4>. QED  BY <4>1, <4>2, <4>3 DEF SetsInv, WatchInv
    <3>. QED  BY <3>1, <3>2 DEF new
  <2>. QED  BY <2>1, <2>2, <2>3 DEF ControlInv
<1>13. TableInv'
  <2>1. TableInv
    BY DEF IInv
  <2>2. DOMAIN open' \subseteq Fds /\ lost' \subseteq DOMAIN open'
    BY <1>7, <2>1 DEF TableInv, new
  <2>3. \A x \in DOMAIN open' : /\ open'[x] \in Conns \cup {"file"}
                                /\ x \in lost' \/ \E i \in Places' : x \in Own(clients'[i])
    <3>1. \A x \in new : open'[x] = "file" /\ x \in Own(clients'[ci])
      BY <1>6, <1>7 DEF new
    <3>2. \A x \in DOMAIN open : /\ open'[x] \in Conns \cup {"file"}
                                 /\ x \in lost \/ \E i \in Places : x \in Own(clients[i])
      BY <2>1 DEF TableInv
    <3>3. \A i \in Places : Own(clients[i]) \subseteq Own(clients'[i])
      BY <1>2, <1>6, <1>7
    <3>. QED  BY <1>1, <1>6, <3>1, <3>2, <3>3 DEF new
  <2>4. \A i \in Places' :
          /\ Own(clients'[i]) \subseteq DOMAIN open' \ lost'
          /\ open'[clients'[i].fd] \in Conns
          /\ clients'[i].file # unused => open'[clients'[i].file] = "file"
          /\ clients'[i].cgi # unused => open'[clients'[i].cgi] = "file" /\ clients'[i].cgi # clients'[i].file
    <3>1. \A i \in Places : i # ci =>
            /\ Own(clients[i]) \subseteq DOMAIN open' \ lost'
            /\ open'[clients[i].fd] \in Conns
            /\ clients[i].file # unused => open'[clients[i].file] = "file"
            /\ clients[i].cgi # unused => open'[clients[i].cgi] = "file" /\ clients[i].cgi # clients[i].file
      <4>. TAKE i \in Places
      <4>. HAVE i # ci
      <4>. DEFINE j == clients[i]
      <4>1. /\ Own(j) \subseteq DOMAIN open \ lost /\ open[j.fd] \in Conns
            /\ j.file # unused => open[j.file] = "file"
            /\ j.cgi # unused => open[j.cgi] = "file" /\ j.cgi # j.file
        BY <2>1 DEF TableInv
      <4>2. j.fd \in Own(j) /\ j.file \in Own(j) \cup {unused} /\ j.cgi \in Own(j) \cup {unused}
        BY <1>8
      <4>. HIDE DEF j
      <4>3. Own(j) \subseteq DOMAIN open' \ lost'
        BY <4>1
      <4>4. \A x \in Own(j) : open'[x] = open[x]
        BY <4>1
      <4>5. /\ open'[j.fd] \in Conns
            /\ j.file # unused => open'[j.file] = "file"
            /\ j.cgi # unused => open'[j.cgi] = "file" /\ j.cgi # j.file
        BY <4>1, <4>2, <4>4
      <4>. QED  BY <4>3, <4>5 DEF j
    <3>2. /\ Own(k) \subseteq DOMAIN open' \ lost'
          /\ open'[k.fd] \in Conns
          /\ k.file # unused => open'[k.file] = "file"
          /\ k.cgi # unused => open'[k.cgi] = "file" /\ k.cgi # k.file
      <4>1. Current.fd \in DOMAIN open \ lost /\ lost \subseteq DOMAIN open
        BY <1>1, <1>2, <1>7, <2>1 DEF TableInv
      <4>2. Own(k) \subseteq DOMAIN open' \ lost'
        BY <1>7, <4>1 DEF new
      <4>3. open'[k.fd] \in Conns
        BY <1>2, <1>4
      <4>. QED  BY <1>4, <4>2, <4>3
    <3>. TAKE i \in Places'
    <3>3. CASE i = ci
      BY <1>6, <3>2, <3>3
    <3>4. CASE i # ci
      BY <1>6, <3>1, <3>4
    <3>. QED  BY <3>3, <3>4
  <2>5. \A i, j \in Places' : i # j => Own(clients'[i]) \cap Own(clients'[j]) = {}
    <3>1. \A i, j \in Places : i # ci /\ j # ci /\ i # j => Own(clients'[i]) \cap Own(clients'[j]) = {}
      BY <1>6, <2>1 DEF TableInv
    <3>2. \A i \in Places : i # ci => Own(clients'[i]) \cap Own(k) = {}
      BY <1>6, <1>7, <1>8
    <3>. QED  BY <1>6, <3>1, <3>2
  <2>. QED  BY <2>2, <2>3, <2>4, <2>5 DEF TableInv
<1>14. \A i \in Places : clients'[i].active = clients[i].active
  BY <1>2, <1>4, <1>6
<1>15. TurnInv'
  <2>1. TurnInv
    BY DEF IInv
  <2>2. /\ \A i, j \in Places' : clients'[i].active /\ clients'[j].active => i = j
        /\ \E i \in Places' : clients'[i].active
    BY <1>1, <1>2, <1>6, <1>14, <2>1 DEF TurnInv
  <2>3. \A i \in Places' : clients'[i].file \in fds'.rbuf => clients'[i].active
    <3>1. \A i \in Places : i # ci => (clients'[i].file \in fds'.rbuf => clients'[i].active)
      BY <1>8, <1>10, <1>14, <2>1 DEF TurnInv
    <3>2. clients'[ci].active
      BY <1>1, <1>2, <1>14
    <3>. QED  BY <1>6, <3>1, <3>2
  <2>4. ci' \in Places' /\ clients'[ci'].active
    BY <1>1, <1>2, <1>6, <1>14
  <2>. QED  BY <2>2, <2>3, <2>4 DEF TurnInv
<1>16. FdsInv'
  <2>1. \A i \in Places : i # ci =>
          (clients'[i].fd \in fds'.rbuf => clients'[i].file = unused /\ clients'[i].cgi = unused)
    BY <1>8, <1>10 DEF IInv, FdsInv
  <2>2. k.fd \notin fds'.rbuf
    BY <1>4, <1>7 DEF new
  <2>. QED  BY <1>6, <2>1, <2>2 DEF FdsInv
<1>17. \A i \in Places : /\ (Ahead(i))' => Ahead(i) /\ i # ci
                         /\ (FileAhead(i))' => FileAhead(i)
                         /\ (SendAhead(i))' => SendAhead(i)
                         /\ i # ci => ((FileAhead(i))' => (Ahead(i))')
  BY <1>1 DEF FileAhead, SendAhead, Ahead, Places
<1>18. PassInv'
  <2>1. PassInv
    BY <1>1 DEF IInv
  <2>2. \A i \in Places : i # ci =>
          /\ (Ahead(i))' /\ clients'[i].fd \in fds'.read => clients'[i].fd \in fds'.rbuf
          /\ (FileAhead(i))' => (clients'[i].file \in fds'.read <=> clients'[i].file \in fds'.rbuf)
    BY <1>1, <1>8, <1>10, <1>17, <2>1 DEF PassInv
  <2>3. /\ k.file \in fds'.read => k.file \in fds'.rbuf
        /\ ~check'
    <3>1. unused \notin fds'.read
      BY <1>3 DEF SetsType
    <3>. QED  BY <1>1, <1>4, <3>1
  <2>. QED  BY <1>6, <1>17, <2>2, <2>3 DEF PassInv, Serves
<1>19. ~reused' => SetsInv'
  <2>. SUFFICES ASSUME ~reused' PROVE SetsInv'
    OBVIOUS
  <2>1. /\ SetsInv /\ Reads(Current) /\ Current.fd \notin fds.write
        /\ fds.read \cup fds.write \subseteq DOMAIN open \cup {Listen}
        /\ new \cap (fds.rbuf \cup fds.wbuf) = {}
    BY AtHand DEF new
  <2>2. new \cap (fds.read \cup fds.write) = {}
    BY <1>3, <1>7, <2>1
  <2>3. WaitsInv'
    <3>1. \A i \in Places : i # ci => /\ Reads(clients[i]) => (Reads(clients[i]))'
                                      /\ Files(clients[i]) => (Files(clients[i]))'
                                      /\ Sends(clients[i]) => (Sends(clients[i]))'
                                      /\ Idle(clients[i]) => (Idle(clients[i]))'
      BY <1>8, <1>10 DEF Reads, Files, Sends, Idle
    <3>2. unused \notin fds'.rbuf /\ unused \notin fds'.wbuf /\ RLEN \in Nat \ {0}
      BY <1>3, SelectLoopAssumption DEF SetsType
    <3>5. \A i \in Places : i # ci =>
            (Reads(clients[i]) \/ Files(clients[i]) \/ Sends(clients[i]) \/ (blind /\ Idle(clients[i])))'
      BY <2>1, <3>1 DEF SetsInv, WaitsInv
    <3>3. CASE file = unused
      <4>1. k.fd \in fds'.wbuf /\ k.fd \notin fds'.rbuf /\ k.file = unused /\ k.cgi = unused /\ k.h.written = 0
        BY <1>4, <1>7, <2>1, <3>3 DEF Reads, new
      <4>2. (Sends(k))'
        BY <3>2, <4>1 DEF Sends
      <4>3. Sends(clients[ci])'
        BY <1>6, <4>2 DEF Sends
      <4>. QED  BY <1>6, <3>5, <4>3 DEF WaitsInv
    <3>4. CASE file # unused
      <4>1. /\ k.fd \notin fds'.rbuf \cup fds'.wbuf /\ k.file \in fds'.rbuf /\ k.cgi \notin fds'.rbuf
            /\ k.h.written = 0
        <5>1. k.fd \notin fds'.rbuf \cup fds'.wbuf
          BY <1>4, <1>7, <2>1, <3>4 DEF Reads, new
        <5>2. k.cgi \notin fds'.rbuf
          BY <1>4, <2>1, <3>2 DEF new
        <5>. QED  BY <1>4, <2>1, <3>4, <5>1, <5>2 DEF Reads
      <4>2. (Files(k))'
        BY <4>1 DEF Files
      <4>3. Files(clients[ci])'
        BY <1>6, <4>2 DEF Files
      <4>. QED  BY <1>6, <3>5, <4>3 DEF WaitsInv
    <3>. QED  BY <3>3, <3>4
  <2>4. WatchInv'
    <3>1. \A i \in Places : Own(clients[i]) \subseteq Own(clients'[i])
      BY <1>2, <1>6, <1>7
    <3>2. \A x \in fds'.rbuf \cup fds'.wbuf : x \in Own(k) \/ x \in fds.rbuf \cup fds.wbuf
      BY <1>7, <1>9 DEF new
    <3>. QED  BY <1>1, <1>6, <2>1, <3>1, <3>2 DEF SetsInv, WatchInv
  <2>5. ReportInv'
    <3>1. \A i \in Places : i # ci =>
            /\ (FileAhead(i))' /\ clients'[i].file \in fds'.read =>
                 (clients'[i].file \in fds'.write <=> clients'[i].file \in fds'.wbuf)
            /\ (SendAhead(i))' /\ clients'[i].fd \in fds'.write =>
                 /\ clients'[i].fd \in fds'.wbuf
                 /\ {clients'[i].file, clients'[i].cgi} \cap (fds'.read \cup fds'.write) = {}
      BY <1>8, <1>10, <1>17, <2>1 DEF SetsInv, ReportInv
    <3>2. clients'[ci].file \notin fds'.read /\ clients'[ci].fd \notin fds'.write
      <4>1. unused \notin fds'.read
        BY <1>3 DEF SetsType
      <4>. QED  BY <1>4, <1>6, <2>1, <2>2, <4>1 DEF new
    <3>3. fds'.read \cup fds'.write \subseteq DOMAIN open' \cup {Listen}
      BY <2>1
    <3>. QED  BY <1>6, <3>1, <3>2, <3>3 DEF ReportInv
  <2>. QED  BY <2>3, <2>4, <2>5 DEF SetsInv
<1>. QED  BY <1>6, <1>11, <1>12, <1>13, <1>15, <1>16, <1>18, <1>19 DEF IInv

-----------------------------------------------------------------------------
\* A client is removed.

\* The place that the client in place j had before the one at i was removed.
Before(i, j) == IF j < i THEN j ELSE j + 1

\* Who the clients are when the one at a place was removed.
LEMMA Dropped ==
  ASSUME NEW cs \in Seq(ClientType), NEW at \in 1..Len(cs),
         \A i \in 1..Len(cs) : cs[i].h.asked.uri # <<>>,
         clients' = RemoveAt(cs, at)
  PROVE  /\ ClientsInv' /\ Places' = 1..(Len(cs) - 1) /\ Len(cs) \in Nat \ {0}
         /\ \A j \in Places' : /\ clients'[j] = cs[Before(at, j)]
                               /\ Before(at, j) \in 1..Len(cs) /\ Before(at, j) # at
                               /\ j \in Int /\ (j > at => Before(at, j) > at)
         /\ \A i \in 1..Len(cs) : i # at => \E j \in Places' : Before(at, j) = i
         /\ \A i, j \in Places' : Before(at, i) = Before(at, j) => i = j
         /\ Len(cs) = 1 => clients' = <<>>
<1>1. /\ clients' \in Seq(ClientType) /\ Len(clients') = Len(cs) - 1
      /\ \A j \in 1..(Len(cs) - 1) : clients'[j] = IF j < at THEN cs[j] ELSE cs[j + 1]
  BY Removed
<1>2. Len(cs) \in Nat \ {0} /\ at \in Int /\ 1 <= at /\ at <= Len(cs)
  BY LenProperties
<1>3. Places' = 1..(Len(cs) - 1)
  BY <1>1 DEF Places
<1>4. \A j \in Places' : /\ clients'[j] = cs[Before(at, j)]
                         /\ Before(at, j) \in 1..Len(cs) /\ Before(at, j) # at
                         /\ j \in Int /\ (j > at => Before(at, j) > at)
  BY <1>1, <1>2, <1>3 DEF Before
<1>5. \A i \in 1..Len(cs) : i # at => \E j \in Places' : Before(at, j) = i
  <2>. TAKE i \in 1..Len(cs)
  <2>. HAVE i # at
  <2>1. CASE i < at
    <3>1. i \in Places' /\ Before(at, i) = i
      BY <1>2, <1>3, <2>1 DEF Before
    <3>. QED  BY <3>1
  <2>2. CASE i > at
    <3>1. i - 1 \in Places' /\ Before(at, i - 1) = i
      BY <1>2, <1>3, <2>2 DEF Before
    <3>. QED  BY <3>1
  <2>. QED  BY <1>2, <2>1, <2>2
<1>6. \A i, j \in Places' : Before(at, i) = Before(at, j) => i = j
  BY <1>2, <1>3 DEF Before
<1>7. ClientsInv'
  BY <1>1, <1>3, <1>4 DEF ClientsInv
<1>8. Len(cs) = 1 => clients' = <<>>
  BY <1>1, EmptySeq
<1>. QED  BY <1>2, <1>3, <1>4, <1>5, <1>6, <1>7, <1>8

\* clean_up_after_error, on the client that has its turn, with the descriptors
\* that the step had opened for it when it threw.
LEMMA CleanedUp ==
  ASSUME IInv, stop = "none", pc \in Serves \cup {"client"}, ci \in Places, Current.active,
         NEW k, NEW sets, NEW op, NEW new,
         clean_up_after_error(k, sets, op),
         new \subseteq Fds \ DOMAIN open, Own(k) = Own(Current) \cup new,
         DOMAIN op = DOMAIN open \cup new, \A x \in DOMAIN open : op[x] = open[x],
         sets \in SetsType, sets.read = fds.read, sets.write = fds.write,
         \A x : x \notin Own(k) =>
           (x \in sets.rbuf <=> x \in fds.rbuf) /\ (x \in sets.wbuf <=> x \in fds.wbuf),
         check' \in BOOLEAN, NetInv', BufferInv',
         UNCHANGED <<blind, lost, reused>>
  PROVE  IInv'
<1>. DEFINE own  == Own(k)
            only == Len(clients) = 1
            rbuf == sets.rbuf \ (own \cap fds.read)
            wbuf == sets.wbuf \ (own \cap fds.write)
<1>1. /\ fds' = [sets EXCEPT !.rbuf = rbuf, !.wbuf = wbuf]
      /\ open' = Without(op, own)
      /\ clients' = RemoveAt(clients, ci)
      /\ failed' = (failed \/ ~only)
      /\ left' = left \cup (own \cap (fds'.rbuf \cup fds'.wbuf))
      /\ stop' = IF ~only /\ ci = Len(clients) THEN "undefined" ELSE stop
      /\ pc' = "client" /\ ci' = ci + 1
  BY DEF clean_up_after_error, NextClient, Own
<1>2. /\ clients \in Seq(ClientType) /\ \A i \in Places : clients[i].h.asked.uri # <<>>
      /\ Places = 1..Len(clients) /\ Current = clients[ci] /\ ci \in Nat \ {0}
  BY ServedClient DEF IInv, ClientsInv, ControlInv, Places
<1>3. /\ ClientsInv' /\ Places' = 1..(Len(clients) - 1)
      /\ \A j \in Places' : /\ clients'[j] = clients[Before(ci, j)]
                            /\ Before(ci, j) \in Places /\ Before(ci, j) # ci
                            /\ j \in Int /\ (j > ci => Before(ci, j) > ci)
      /\ \A i \in Places : i # ci => \E j \in Places' : Before(ci, j) = i
      /\ \A i, j \in Places' : Before(ci, i) = Before(ci, j) => i = j
      /\ only => clients' = <<>>
  BY <1>1, <1>2, Dropped
<1>4. \A i \in Places : i # ci => /\ Own(clients[i]) \cap own = {} /\ unused \notin own
                                  /\ clients[i].fd \in Own(clients[i]) \cup {unused}
                                  /\ clients[i].file \in Own(clients[i]) \cup {unused}
                                  /\ clients[i].cgi \in Own(clients[i]) \cup {unused}
  <2>. TAKE i \in Places
  <2>. HAVE i # ci
  <2>1. Own(clients[i]) \cap Own(clients[ci]) = {} /\ Own(clients[i]) \subseteq DOMAIN open
    BY DEF IInv, TableInv
  <2>2. Own(clients[i]) \cap own = {}
    BY <1>2, <2>1
  <2>3. unused \notin own
    BY DEF Own
  <2>. QED  BY <2>2, <2>3 DEF Own
<1>. HIDE DEF own, only
<1>5. /\ fds' \in SetsType /\ fds'.read = fds.read /\ fds'.write = fds.write
      /\ fds'.rbuf = rbuf /\ fds'.wbuf = wbuf
  BY <1>1 DEF SetsType
<1>6. \A x : x \notin own => (x \in fds'.rbuf <=> x \in fds.rbuf) /\ (x \in fds'.wbuf <=> x \in fds.wbuf)
  BY <1>5 DEF own
<1>. HIDE DEF rbuf, wbuf
<1>7. \A j \in Places' : \A x \in {clients'[j].fd, clients'[j].file, clients'[j].cgi} :
        (x \in fds'.rbuf <=> x \in fds.rbuf) /\ (x \in fds'.wbuf <=> x \in fds.wbuf)
  <2>. TAKE j \in Places'
  <2>1. PICK i \in Places : i # ci /\ clients'[j] = clients[i]
    BY <1>3
  <2>2. \A x \in {clients[i].fd, clients[i].file, clients[i].cgi} : x \notin own
    BY <1>4, <2>1
  <2>. QED  BY <1>6, <2>1, <2>2
<1>8. \A i \in Places : clients[i].active => i = ci
  BY <1>2 DEF IInv, TurnInv
<1>9. \A j \in Places' : ~clients'[j].active
  BY <1>3, <1>8
<1>10. ControlInv'
  <2>1. lost' \subseteq Fds /\ left' \subseteq Fds /\ left \subseteq left'
    <3>1. fds'.rbuf \subseteq Fds /\ fds'.wbuf \subseteq Fds
      BY <1>5 DEF SetsType
    <3>2. lost \subseteq Fds /\ left \subseteq Fds
      BY DEF IInv, ControlInv
    <3>. QED  BY <1>1, <3>1, <3>2
  <2>2. reused' \in BOOLEAN
    BY DEF IInv, ControlInv
  <2>3. /\ pc' \in {"select", "accept", "client", "sync"} \cup Serves /\ ci' \in Nat \ {0}
        /\ stop' \in {"none", "undefined", "out_of_range", "SIGPIPE"}
    BY <1>1, <1>2
  <2>4. blind' \/ reused' => left' # {}
    BY <2>1 DEF IInv, ControlInv
  <2>. QED  BY <2>1, <2>2, <2>3, <2>4 DEF ControlInv
<1>11. DOMAIN open' = DOMAIN open \ Own(Current) /\ \A x \in DOMAIN open' : open'[x] = open[x]
  <2>1. DOMAIN open' = DOMAIN op \ own /\ \A x \in DOMAIN open' : open'[x] = op[x]
    BY <1>1 DEF Without
  <2>2. DOMAIN op \ own = DOMAIN open \ Own(Current)
    BY DEF own
  <2>. QED  BY <2>1, <2>2
<1>12. TableInv'
  <2>1. TableInv /\ lost \cap Own(Current) = {}
    BY <1>2 DEF IInv, TableInv
  <2>2. DOMAIN open' \subseteq Fds /\ lost' \subseteq DOMAIN open'
    BY <1>11, <2>1 DEF TableInv
  <2>3. \A x \in DOMAIN open' : /\ open'[x] \in Conns \cup {"file"}
                                /\ x \in lost' \/ \E j \in Places' : x \in Own(clients'[j])
    <3>. TAKE x \in DOMAIN open'
    <3>1. x \in DOMAIN open /\ x \notin Own(clients[ci]) /\ open'[x] = open[x]
      BY <1>2, <1>11
    <3>2. open[x] \in Conns \cup {"file"} /\ (x \in lost \/ \E i \in Places : x \in Own(clients[i]))
      BY <2>1, <3>1 DEF TableInv
    <3>3. CASE x \in lost
      BY <3>1, <3>2, <3>3
    <3>4. CASE \E i \in Places : x \in Own(clients[i])
      <4>1. PICK i \in Places : x \in Own(clients[i])
        BY <3>4
      <4>2. PICK j \in Places' : Before(ci, j) = i
        BY <1>3, <3>1, <4>1
      <4>. QED  BY <1>3, <3>1, <3>2, <4>1, <4>2
    <3>. QED  BY <3>2, <3>3, <3>4
  <2>4. \A j \in Places' :
          /\ Own(clients'[j]) \subseteq DOMAIN open' \ lost'
          /\ open'[clients'[j].fd] \in Conns
          /\ clients'[j].file # unused => open'[clients'[j].file] = "file"
          /\ clients'[j].cgi # unused => open'[clients'[j].cgi] = "file" /\ clients'[j].cgi # clients'[j].file
    <3>. TAKE j \in Places'
    <3>1. PICK i \in Places : i # ci /\ clients'[j] = clients[i]
      BY <1>3
    <3>2. /\ Own(clients[i]) \subseteq DOMAIN open \ lost /\ Own(clients[i]) \cap Own(clients[ci]) = {}
          /\ open[clients[i].fd] \in Conns
          /\ clients[i].file # unused => open[clients[i].file] = "file"
          /\ clients[i].cgi # unused => open[clients[i].cgi] = "file" /\ clients[i].cgi # clients[i].file
      BY <2>1, <3>1 DEF TableInv
    <3>3. /\ clients[i].fd \in Own(clients[i])
          /\ clients[i].file # unused => clients[i].file \in Own(clients[i])
          /\ clients[i].cgi # unused => clients[i].cgi \in Own(clients[i])
      BY ClientIs, NoDescriptor DEF IInv, Own
    <3>4. Own(clients[i]) \subseteq DOMAIN open' \ lost'
      BY <1>2, <1>11, <3>2
    <3>. QED  BY <1>11, <3>1, <3>2, <3>3, <3>4
  <2>5. \A i, j \in Places' : i # j => Own(clients'[i]) \cap Own(clients'[j]) = {}
    <3>1. \A i, j \in Places' : i # j => Before(ci, i) # Before(ci, j)
      BY <1>3
    <3>2. \A i, j \in Places : i # j => Own(clients[i]) \cap Own(clients[j]) = {}
      BY <2>1 DEF TableInv
    <3>3. \A i \in Places' : Before(ci, i) \in Places /\ clients'[i] = clients[Before(ci, i)]
      BY <1>3
    <3>. QED  BY <3>1, <3>2, <3>3
  <2>. QED  BY <2>2, <2>3, <2>4, <2>5 DEF TableInv
<1>13. TurnInv'
  <2>1. ~failed' /\ clients' # <<>> => FALSE
    BY <1>1, <1>3
  <2>2. \A j \in Places' : clients'[j].file \in fds'.rbuf => clients'[j].active
    BY <1>3, <1>7, <1>8 DEF IInv, TurnInv
  <2>. QED  BY <1>1, <1>9, <2>1, <2>2 DEF TurnInv, Serves
<1>14. FdsInv'
  BY <1>3, <1>5, <1>7 DEF IInv, FdsInv
<1>15. \A j \in Places' : ((Ahead(j))' \/ (FileAhead(j))' \/ (SendAhead(j))') =>
         Ahead(Before(ci, j)) /\ FileAhead(Before(ci, j)) /\ SendAhead(Before(ci, j))
  <2>. TAKE j \in Places'
  <2>1. (Ahead(j))' \/ (FileAhead(j))' \/ (SendAhead(j))' => j >= ci + 1
    BY <1>1 DEF Ahead, FileAhead, SendAhead
  <2>2. j > ci => Before(ci, j) > ci /\ Before(ci, j) \in Int
    BY <1>2, <1>3
  <2>3. j >= ci + 1 => j > ci
    BY <1>2, <1>3
  <2>4. ASSUME j > ci PROVE Ahead(Before(ci, j))
    BY <1>2, <2>2, <2>4 DEF Ahead, Serves
  <2>. QED  BY <2>1, <2>3, <2>4 DEF FileAhead, SendAhead
<1>16. stop' = "none" => PassInv'
  <2>1. PassInv
    BY DEF IInv
  <2>2. \A j \in Places' : (Ahead(j))' /\ clients'[j].fd \in fds'.read => clients'[j].fd \in fds'.rbuf
    BY <1>3, <1>5, <1>7, <1>15, <2>1 DEF PassInv
  <2>3. \A j \in Places' : (FileAhead(j))' => (clients'[j].file \in fds'.read <=> clients'[j].file \in fds'.rbuf)
    BY <1>3, <1>5, <1>7, <1>15, <2>1 DEF PassInv
  <2>. QED  BY <1>1, <2>2, <2>3 DEF PassInv, Serves
<1>17. ~reused' => SetsInv'
  <2>. SUFFICES ASSUME ~reused' PROVE SetsInv'
    OBVIOUS
  <2>1. SetsInv
    BY DEF IInv
  <2>2. WaitsInv'
    <3>. SUFFICES ASSUME NEW j \in Places'
                  PROVE  (Reads(clients[j]) \/ Files(clients[j]) \/ Sends(clients[j])
                            \/ (blind /\ Idle(clients[j])))'
      BY DEF WaitsInv
    <3>1. PICK i \in Places : i # ci /\ clients'[j] = clients[i]
      BY <1>3
    <3>2. Reads(clients[i]) \/ Files(clients[i]) \/ Sends(clients[i]) \/ (blind /\ Idle(clients[i]))
      BY <2>1 DEF SetsInv, WaitsInv
    <3>3. \A x \in {clients[i].fd, clients[i].file, clients[i].cgi} :
            (x \in fds'.rbuf <=> x \in fds.rbuf) /\ (x \in fds'.wbuf <=> x \in fds.wbuf)
      BY <1>7, <3>1
    <3>. QED  BY <3>1, <3>2, <3>3 DEF Reads, Files, Sends, Idle
  <2>3. WatchInv'
    <3>. SUFFICES ASSUME NEW x \in fds'.rbuf \cup fds'.wbuf
                  PROVE  x \in left' \/ \E j \in Places' : x \in Own(clients'[j])
      BY DEF WatchInv
    <3>1. CASE x \in own
      BY <1>1, <3>1
    <3>2. CASE x \notin own
      <4>1. x \in left \/ \E i \in Places : x \in Own(clients[i])
        BY <1>6, <2>1, <3>2 DEF SetsInv, WatchInv
      <4>2. x \notin Own(clients[ci])
        BY <1>2, <3>2 DEF own
      <4>3. (\E i \in Places : x \in Own(clients[i])) => \E j \in Places' : x \in Own(clients'[j])
        BY <1>3, <4>2
      <4>. QED  BY <1>1, <4>1, <4>3
    <3>. QED  BY <3>1, <3>2
  <2>4. ReportInv'
    <3>1. ~Acting'
      BY <1>1, <1>9 DEF Acting, Serves
    <3>2. \A j \in Places' : (FileAhead(j))' /\ clients'[j].file \in fds'.read =>
            (clients'[j].file \in fds'.write <=> clients'[j].file \in fds'.wbuf)
      BY <1>3, <1>5, <1>7, <1>15, <2>1 DEF SetsInv, ReportInv
    <3>3. \A j \in Places' : (SendAhead(j))' /\ clients'[j].fd \in fds'.write =>
            /\ clients'[j].fd \in fds'.wbuf
            /\ {clients'[j].file, clients'[j].cgi} \cap (fds'.read \cup fds'.write) = {}
      BY <1>3, <1>5, <1>7, <1>15, <2>1 DEF SetsInv, ReportInv
    <3>. QED  BY <3>1, <3>2, <3>3 DEF ReportInv
  <2>. QED  BY <2>2, <2>3, <2>4 DEF SetsInv
<1>. QED  BY <1>3, <1>10, <1>12, <1>13, <1>14, <1>16, <1>17 DEF IInv

\* An error in a step that had opened nothing.
LEMMA CurrentCleanedUp ==
  ASSUME IInv, stop = "none", pc \in Serves \cup {"client"}, ci \in Places, Current.active,
         clean_up_after_error(Current, fds, open),
         check' \in BOOLEAN, UNCHANGED <<script, peer, inbox, unread, backlog, buffer>>,
         UNCHANGED <<blind, lost, reused>>
  PROVE  IInv'
<1>1. fds \in SetsType
  BY DEF IInv, FdsInv
<1>2. NetInv' /\ BufferInv'
  BY DEF IInv, NetInv, BufferInv
<1>3. \E new \in {{}} : /\ new \subseteq Fds \ DOMAIN open /\ Own(Current) = Own(Current) \cup new
                        /\ DOMAIN open = DOMAIN open \cup new
  OBVIOUS
<1>. QED  BY <1>1, <1>2, <1>3, CleanedUp

\* read_browser_request throws.
LEMMA ReadThrowsInv ==
  ASSUME IInv, ReadThrows
  PROVE  IInv'
<1>1. stop = "none" /\ pc = "client" /\ ci <= Len(clients) /\ Current.active /\ ci \in Nat \ {0}
  BY DEF ReadThrows, Running, Serving, IInv, ControlInv
<1>2. ci \in Places
  BY <1>1, ClientIs DEF IInv, Places
<1>3. check' \in BOOLEAN
  BY DEF ReadThrows, set_time_out_check
<1>. QED  BY <1>1, <1>2, <1>3, CurrentCleanedUp DEF ReadThrows, net

\* A script fails, or a directory is read.
LEMMA FileFailsInv ==
  ASSUME IInv, WritingFails \/ ReadFails
  PROVE  IInv'
<1>1. /\ stop = "none" /\ pc = "file" /\ clean_up_after_error(Current, fds, open)
      /\ UNCHANGED <<net, buffer, check, blind, lost, reused>>
  BY DEF WritingFails, ReadFails, Writing, AfterWriting, InFile, Running
<1>2. ci \in Places /\ Current.active
  BY <1>1 DEF IInv, TurnInv, Serves, Current
<1>3. check' \in BOOLEAN
  BY <1>1 DEF IInv, ControlInv
<1>. QED  BY <1>1, <1>2, <1>3, CurrentCleanedUp DEF net, Serves

\* write fails.
LEMMA SendThrowsInv ==
  ASSUME IInv, SendThrows
  PROVE  IInv'
<1>1. /\ stop = "none" /\ pc = "send" /\ clean_up_after_error(Current, fds, open)
      /\ UNCHANGED <<net, buffer, blind, lost, reused>>
  BY DEF SendThrows, Sending, Running
<1>2. ci \in Places /\ Current.active
  BY <1>1 DEF IInv, TurnInv, Serves, Current
<1>3. check' \in BOOLEAN
  BY DEF SendThrows, Sending
<1>. QED  BY <1>1, <1>2, <1>3, CurrentCleanedUp DEF net, Serves

\* What handled_request_update makes of the kept sets, for a file that was opened or none.
LEMMA HandledSets ==
  ASSUME IInv, NEW kind \in Kind, NEW file \in Fds \cup {unused}, NEW fd \in Fds,
         file = unused => kind \notin Writes
  PROVE  LET sets == handled_request_update(fds, kind, file, fd)
         IN /\ sets \in SetsType /\ sets.read = fds.read /\ sets.write = fds.write
            /\ sets.rbuf = (fds.rbuf \ {fd}) \cup ({file} \ {unused})
            /\ sets.wbuf = fds.wbuf \cup (IF file = unused THEN {fd} ELSE IF kind \in Writes THEN {file} ELSE {})
<1>1. fds \in SetsType /\ fds.max \in 0 .. NFDS + 1 /\ NFDS \in Nat
  BY SelectLoopAssumption DEF IInv, FdsInv, SetsType
<1>2. update_max(fds.max, file) \in 0 .. NFDS + 1
  BY <1>1 DEF update_max, Fds, unused
<1>. DEFINE rbuf == (fds.rbuf \ {fd}) \cup ({file} \ {unused})
            wbuf == fds.wbuf \cup (IF file = unused THEN {fd} ELSE {})
                             \cup (IF kind \in Writes THEN {file} ELSE {})
            max  == update_max(fds.max, file)
<1>3. handled_request_update(fds, kind, file, fd) = [fds EXCEPT !.rbuf = rbuf, !.wbuf = wbuf, !.max = max]
  BY DEF handled_request_update
<1>4. rbuf \subseteq Fds /\ wbuf \subseteq Fds
  BY <1>1, NoDescriptor DEF SetsType
<1>5. wbuf = fds.wbuf \cup (IF file = unused THEN {fd} ELSE IF kind \in Writes THEN {file} ELSE {})
  BY NoDescriptor
<1>. HIDE DEF rbuf, wbuf, max
<1>6. /\ [fds EXCEPT !.rbuf = rbuf, !.wbuf = wbuf, !.max = max] \in SetsType
      /\ [fds EXCEPT !.rbuf = rbuf, !.wbuf = wbuf, !.max = max].read = fds.read
      /\ [fds EXCEPT !.rbuf = rbuf, !.wbuf = wbuf, !.max = max].write = fds.write
      /\ [fds EXCEPT !.rbuf = rbuf, !.wbuf = wbuf, !.max = max].rbuf = rbuf
      /\ [fds EXCEPT !.rbuf = rbuf, !.wbuf = wbuf, !.max = max].wbuf = wbuf
  BY <1>1, <1>2, <1>4 DEF SetsType, max
<1>. QED  BY <1>3, <1>5, <1>6 DEF rbuf

\* handle_request has opened nothing, one file, or two.
LEMMA HandleGoneInv ==
  ASSUME IInv, Running("carry"), NEW done, done.kind \in Kind, HandleGone(done),
         reused' = (reused \/ (DOMAIN open' \ DOMAIN open) \cap (fds.rbuf \cup fds.wbuf) # {}),
         UNCHANGED <<script, peer, inbox, unread, backlog, buffer, check, blind, lost>>
  PROVE  IInv'
<1>. DEFINE sets == handled_request_update(fds, "gone", unused, Current.fd)
<1>1. ci \in Places /\ Current.fd \in Fds
  BY AtHand, ServedClient
<1>2. /\ sets \in SetsType /\ sets.read = fds.read /\ sets.write = fds.write
      /\ sets.rbuf = (fds.rbuf \ {Current.fd}) \cup ({unused} \ {unused})
      /\ sets.wbuf = fds.wbuf \cup {Current.fd}
  <2>1. "gone" \in Kind /\ "gone" \notin Writes /\ unused \in Fds \cup {unused}
    BY DEF Kind, Writes
  <2>. HIDE DEF Kind
  <2>. QED  BY <1>1, <2>1, HandledSets
<1>. HIDE DEF sets
<1>3. /\ clients' = [clients EXCEPT ![ci] = [Current EXCEPT !.file = unused, !.cgi = unused, !.h.kind = done.kind]]
      /\ fds' = sets /\ pc' = "file" /\ UNCHANGED <<open, ci, stop, failed, left>>
  BY DEF HandleGone, Handled, sets
<1>4. reused' \in BOOLEAN /\ (reused' <=> reused)
  <2>1. (DOMAIN open' \ DOMAIN open) \cap (fds.rbuf \cup fds.wbuf) = {}
    BY <1>3
  <2>2. reused \in BOOLEAN
    BY DEF IInv, ControlInv
  <2>. QED  BY <2>1, <2>2
<1>. HIDE DEF Kind
<1>5. {unused, unused} \ {unused} = {}
  OBVIOUS
<1>6. /\ DOMAIN open' = DOMAIN open \cup ({unused, unused} \ {unused})
      /\ \A x \in {unused, unused} \ {unused} : open'[x] = "file"
      /\ \A x \in DOMAIN open : open'[x] = open[x]
      /\ reused' <=> (reused \/ ({unused, unused} \ {unused}) \cap (fds.rbuf \cup fds.wbuf) # {})
  BY <1>3, <1>4, <1>5
<1>7. /\ fds' \in SetsType /\ fds'.read = fds.read /\ fds'.write = fds.write
      /\ fds'.rbuf = (fds.rbuf \ {Current.fd}) \cup ({unused} \ {unused})
      /\ fds'.wbuf = fds.wbuf \cup {Current.fd}
  BY <1>2, <1>3
<1>8. PICK W : W = {Current.fd}
  OBVIOUS
<1>9. /\ fds'.wbuf = fds.wbuf \cup W
      /\ \/ (W = {Current.fd} /\ unused = unused)
         \/ (W \subseteq {unused, unused} \ {unused} /\ unused # unused)
      /\ unused \in (Fds \ DOMAIN open) \cup {unused}
      /\ unused # unused => unused # unused /\ unused # unused
  BY <1>7, <1>8
<1>. QED  BY <1>3, <1>4, <1>6, <1>7, <1>9, Handed

\* One file was opened.
LEMMA HandleFileInv ==
  ASSUME IInv, Running("carry"), NEW done, done.kind \in Kind, HandleFile(done),
         reused' = (reused \/ (DOMAIN open' \ DOMAIN open) \cap (fds.rbuf \cup fds.wbuf) # {}),
         UNCHANGED <<script, peer, inbox, unread, backlog, buffer, check, blind, lost>>
  PROVE  IInv'
<1>. DEFINE file == Lowest(Free)
            sets == handled_request_update(fds, done.kind, file, Current.fd)
            W    == IF done.kind \in Writes THEN {file} ELSE {}
<1>1. ci \in Places /\ Current.fd \in Fds
  BY AtHand, ServedClient
<1>2. file \in Fds \ DOMAIN open /\ file # unused
  <2>1. Free # {} /\ Free \in SUBSET Fds
    BY DEF HandleFile, Free
  <2>2. file \in Free
    BY <2>1, LowestIn
  <2>. QED  BY <2>2, NoDescriptor DEF Free
<1>3. /\ open' = AsFiles({file})
      /\ clients' = [clients EXCEPT ![ci] = [Current EXCEPT !.file = file, !.cgi = unused, !.h.kind = done.kind]]
      /\ fds' = sets /\ pc' = "file" /\ UNCHANGED <<ci, stop, failed, left>>
  BY DEF HandleFile, Handled
<1>. HIDE DEF file, Kind
<1>4. /\ fds' \in SetsType /\ fds'.read = fds.read /\ fds'.write = fds.write
      /\ fds'.rbuf = (fds.rbuf \ {Current.fd}) \cup ({file} \ {unused})
      /\ fds'.wbuf = fds.wbuf \cup W
  BY <1>1, <1>2, <1>3, HandledSets
<1>. HIDE DEF sets
<1>5. {file, unused} \ {unused} = {file}
  BY <1>2
<1>6. /\ DOMAIN open' = DOMAIN open \cup ({file, unused} \ {unused})
      /\ \A x \in {file, unused} \ {unused} : open'[x] = "file"
      /\ \A x \in DOMAIN open : open'[x] = open[x]
  BY <1>2, <1>3, <1>5 DEF AsFiles
<1>7. reused' \in BOOLEAN /\ (reused' <=> (reused \/ ({file, unused} \ {unused}) \cap (fds.rbuf \cup fds.wbuf) # {}))
  <2>1. DOMAIN open' \ DOMAIN open = {file, unused} \ {unused}
    BY <1>2, <1>5, <1>6
  <2>. QED  BY <2>1
<1>8. W \subseteq {file, unused} \ {unused}
  BY <1>5
<1>. HIDE DEF W
<1>. QED  BY <1>2, <1>3, <1>4, <1>6, <1>7, <1>8, Handed

\* A script is given two descriptors.
LEMMA TwoFree ==
  ASSUME Cardinality(Free) >= 2
  PROVE  Lowest(Free) \in Free /\ Lowest(Free \ {Lowest(Free)}) \in Free \ {Lowest(Free)}
<1>. DEFINE file == Lowest(Free)
            cgi  == Lowest(Free \ {file})
<1>1. Free \in SUBSET Fds /\ IsFiniteSet(Free)
  <2>1. IsFiniteSet(Fds)
    BY SelectLoopAssumption, FS_Interval DEF Fds
  <2>2. Free \subseteq Fds
    BY DEF Free
  <2>. QED  BY <2>1, <2>2, FS_Subset
<1>2. Free # {}
  BY <1>1, FS_EmptySet
<1>3. file \in Free
  BY <1>1, <1>2, LowestIn
<1>4. Free \ {file} # {}
  <2>. HIDE DEF file
  <2>1. IsFiniteSet(Free \ {file}) /\ Cardinality(Free \ {file}) = Cardinality(Free) - 1
    BY <1>1, <1>3, FS_RemoveElement
  <2>2. Cardinality(Free) \in Nat
    BY <1>1, FS_CardinalityType
  <2>3. Cardinality(Free \ {file}) # 0
    BY <2>1, <2>2
  <2>. QED  BY <2>3, FS_EmptySet
<1>5. cgi \in Free \ {file}
  <2>1. Free \ {file} \in SUBSET Fds
    BY <1>1
  <2>. QED  BY <1>4, <2>1, LowestIn
<1>. QED  BY <1>3, <1>5

\* The two files of a script were opened.
LEMMA HandleScriptInv ==
  ASSUME IInv, Running("carry"), NEW done, done.kind \in Kind, HandleScript(done),
         reused' = (reused \/ (DOMAIN open' \ DOMAIN open) \cap (fds.rbuf \cup fds.wbuf) # {}),
         UNCHANGED <<script, peer, inbox, unread, backlog, buffer, check, blind, lost>>
  PROVE  IInv'
<1>. DEFINE file == Lowest(Free)
            cgi  == Lowest(Free \ {file})
            sets == handled_request_update(fds, "script", file, Current.fd)
<1>1. ci \in Places /\ Current.fd \in Fds
  BY AtHand, ServedClient
<1>2. file \in Free /\ cgi \in Free \ {file}
  BY TwoFree DEF HandleScript
<1>3. /\ open' = AsFiles({file, cgi})
      /\ clients' = [clients EXCEPT ![ci] = [Current EXCEPT !.file = file, !.cgi = cgi, !.h.kind = done.kind]]
      /\ fds' = [sets EXCEPT !.wbuf = @ \cup {cgi}, !.max = update_max(@, cgi)]
      /\ pc' = "file" /\ UNCHANGED <<ci, stop, failed, left>>
  BY DEF HandleScript, Handled
<1>. HIDE DEF file, cgi
<1>4. /\ file \in Fds \ DOMAIN open /\ cgi \in Fds \ DOMAIN open /\ cgi # file
      /\ file # unused /\ cgi # unused
  BY <1>2, NoDescriptor DEF Free
<1>5. /\ sets \in SetsType /\ sets.read = fds.read /\ sets.write = fds.write
      /\ sets.rbuf = (fds.rbuf \ {Current.fd}) \cup ({file} \ {unused})
      /\ sets.wbuf = fds.wbuf \cup {file}
  <2>1. "script" \in Kind /\ "script" \in Writes
    BY DEF Kind, Writes
  <2>. HIDE DEF Kind, Writes
  <2>. QED  BY <1>1, <1>4, <2>1, HandledSets
<1>. HIDE DEF sets
<1>6. /\ fds' \in SetsType /\ fds'.read = fds.read /\ fds'.write = fds.write
      /\ fds'.rbuf = (fds.rbuf \ {Current.fd}) \cup ({file} \ {unused})
      /\ fds'.wbuf = fds.wbuf \cup {file, cgi}
  <2>1. sets.max \in 0 .. NFDS + 1 /\ NFDS \in Nat
    BY <1>5, SelectLoopAssumption DEF SetsType
  <2>2. update_max(sets.max, cgi) \in 0 .. NFDS + 1
    BY <1>4, <2>1 DEF update_max, Fds
  <2>3. fds' = [sets EXCEPT !.wbuf = sets.wbuf \cup {cgi}, !.max = update_max(sets.max, cgi)]
    BY <1>3
  <2>4. sets.wbuf \cup {cgi} = fds.wbuf \cup {file, cgi}
    BY <1>5
  <2>5. fds' \in SetsType /\ fds'.wbuf = sets.wbuf \cup {cgi}
    BY <1>4, <1>5, <2>2, <2>3 DEF SetsType
  <2>6. fds'.read = sets.read /\ fds'.write = sets.write /\ fds'.rbuf = sets.rbuf
    BY <1>5, <2>3 DEF SetsType
  <2>. QED  BY <1>5, <2>4, <2>5, <2>6
<1>7. {file, cgi} \ {unused} = {file, cgi}
  BY <1>4
<1>8. /\ DOMAIN open' = DOMAIN open \cup ({file, cgi} \ {unused})
      /\ \A x \in {file, cgi} \ {unused} : open'[x] = "file"
      /\ \A x \in DOMAIN open : open'[x] = open[x]
  BY <1>3, <1>4, <1>7 DEF AsFiles
<1>9. reused' \in BOOLEAN /\ (reused' <=> (reused \/ ({file, cgi} \ {unused}) \cap (fds.rbuf \cup fds.wbuf) # {}))
  <2>1. DOMAIN open' \ DOMAIN open = {file, cgi} \ {unused}
    BY <1>4, <1>7, <1>8
  <2>. QED  BY <2>1
<1>10. {file, cgi} \subseteq {file, cgi} \ {unused}
  BY <1>7
<1>. QED  BY <1>3, <1>4, <1>6, <1>8, <1>9, <1>10, Handed

\* The file, or the script's input, could not be opened.
LEMMA OpenFailsInv ==
  ASSUME IInv, Running("carry"), NEW done, done.kind \in Kind, OpenFails(done) \/ InputFails(done),
         reused' = (reused \/ (DOMAIN open' \ DOMAIN open) \cap (fds.rbuf \cup fds.wbuf) # {}),
         UNCHANGED <<script, peer, inbox, unread, backlog, buffer, check, blind, lost>>
  PROVE  IInv'
<1>1. stop = "none" /\ pc \in Serves /\ ci \in Places /\ Current.active
  BY AtHand DEF Running, Serves
<1>2. check' \in BOOLEAN /\ reused \in BOOLEAN
  BY DEF IInv, ControlInv
<1>3. DOMAIN open' \subseteq DOMAIN open => UNCHANGED reused
  BY <1>2
<1>4. CASE OpenFails(done)
  <2>1. clean_up_after_error(Current, fds, open)
    BY <1>4 DEF OpenFails
  <2>2. DOMAIN open' \subseteq DOMAIN open
    BY <2>1 DEF clean_up_after_error, Without
  <2>. QED  BY <1>1, <1>2, <1>3, <2>1, <2>2, CurrentCleanedUp
<1>5. CASE InputFails(done)
  <2>. DEFINE file == Lowest(Free)
              k    == Handled(done, file, unused)
              sets == handled_request_update(fds, "script", file, Current.fd)
  <2>1. file \in Fds \ DOMAIN open /\ file # unused
    <3>1. Free # {} /\ Free \in SUBSET Fds
      BY <1>5 DEF InputFails, Free
    <3>2. file \in Free
      BY <3>1, LowestIn
    <3>. QED  BY <3>2, NoDescriptor DEF Free
  <2>2. clean_up_after_error(k, sets, AsFiles({file}))
    BY <1>5 DEF InputFails
  <2>3. /\ Current \in ClientType /\ Current.fd \in Fds /\ Current.fd # unused
        /\ Current.file = unused /\ Current.cgi = unused
    BY <1>1, AtHand, ServedClient, NoDescriptor
  <2>. HIDE DEF file
  <2>4. k.fd = Current.fd /\ k.file = file /\ k.cgi = unused
    BY <2>3 DEF Handled, ClientType
  <2>. HIDE DEF k
  <2>5. Own(k) = Own(Current) \cup {file} /\ Own(Current) = {Current.fd}
    BY <2>1, <2>3, <2>4 DEF Own
  <2>6. /\ sets \in SetsType /\ sets.read = fds.read /\ sets.write = fds.write
        /\ sets.rbuf = (fds.rbuf \ {Current.fd}) \cup ({file} \ {unused})
        /\ sets.wbuf = fds.wbuf \cup {file}
    <3>1. "script" \in Kind /\ "script" \in Writes
      BY DEF Kind, Writes
    <3>. HIDE DEF Kind, Writes
    <3>. QED  BY <2>1, <2>3, <3>1, HandledSets
  <2>. HIDE DEF sets
  <2>7. \A x : x \notin Own(k) =>
          (x \in sets.rbuf <=> x \in fds.rbuf) /\ (x \in sets.wbuf <=> x \in fds.wbuf)
    BY <2>5, <2>6
  <2>8. /\ DOMAIN AsFiles({file}) = DOMAIN open \cup {file}
        /\ \A x \in DOMAIN open : AsFiles({file})[x] = open[x]
    BY <2>1 DEF AsFiles
  <2>9. DOMAIN open' \subseteq DOMAIN open
    <3>1. DOMAIN open' = DOMAIN AsFiles({file}) \ ({k.fd, k.file, k.cgi} \ {unused})
      BY <2>2 DEF clean_up_after_error, Without
    <3>. QED  BY <2>1, <2>4, <2>8, <3>1
  <2>10. NetInv' /\ BufferInv'
    BY <1>3, <2>9 DEF IInv, NetInv, BufferInv
  <2>. QED  BY <1>1, <1>2, <1>3, <2>1, <2>2, <2>5, <2>6, <2>7, <2>8, <2>9, <2>10, CleanedUp
<1>. QED  BY <1>4, <1>5

\* The whole of handle_request.
LEMMA HandleRequestInv ==
  ASSUME IInv, HandleRequest
  PROVE  IInv'
<1>1. Running("carry")
  BY DEF HandleRequest
<1>2. /\ reused' = (reused \/ (DOMAIN open' \ DOMAIN open) \cap (fds.rbuf \cup fds.wbuf) # {})
      /\ UNCHANGED <<script, peer, inbox, unread, backlog, buffer, check, blind, lost>>
  BY DEF HandleRequest
<1>3. PICK done : /\ done = Outcome(Carry(Current.h.turn, Current.h.asked, files, Len(Current.h.body)),
                                    Current.h.turn, Current.h.asked)
                  /\ \/ HandleGone(done) \/ HandleNowhere(done)
                     \/ HandleFile(done) \/ HandleScript(done)
                     \/ OpenFails(done) \/ InputFails(done)
  BY DEF HandleRequest
<1>4. done.kind \in Kind
  <2>1. Current.h.turn \in Turn
    BY <1>1, AtHand, ServedClient DEF Handler
  <2>. QED  BY <1>3, <2>1, OutcomeKind
<1>5. CASE HandleNowhere(done)
  <2>1. stop' = "undefined" /\ UNCHANGED <<open, fds, clients, pc, ci, failed, left>>
    BY <1>5 DEF HandleNowhere
  <2>2. UNCHANGED reused
    <3>1. (DOMAIN open' \ DOMAIN open) \cap (fds.rbuf \cup fds.wbuf) = {}
      BY <2>1
    <3>2. reused \in BOOLEAN
      BY DEF IInv, ControlInv
    <3>. QED  BY <1>2, <3>1, <3>2
  <2>3. NetInv' /\ ClientsInv' /\ BufferInv' /\ TableInv'
    BY <1>2, <2>1, <2>2, Stays
  <2>4. ControlInv'
    BY <1>2, <2>1, <2>2, ControlStays DEF IInv, ControlInv
  <2>5. TurnInv' /\ FdsInv'
    BY <1>2, <2>1 DEF IInv, TurnInv, FdsInv, Places
  <2>. QED  BY <2>1, <2>3, <2>4, <2>5 DEF IInv
<1>. QED  BY <1>1, <1>2, <1>3, <1>4, <1>5, HandleGoneInv, HandleFileInv, HandleScriptInv, OpenFailsInv

-----------------------------------------------------------------------------
\* The file has been read, the response is written, the turn is passed.

\* A client's descriptors are different ones: its connection is no file.
LEMMA OwnApart ==
  ASSUME IInv, NEW i \in Places
  PROVE  /\ clients[i].fd # clients[i].file /\ clients[i].fd # clients[i].cgi
         /\ clients[i].cgi # unused => clients[i].cgi # clients[i].file
         /\ clients[i].fd \in Own(clients[i]) /\ clients[i].fd # unused
         /\ clients[i].file \in Own(clients[i]) \cup {unused}
         /\ clients[i].cgi \in Own(clients[i]) \cup {unused}
<1>1. clients[i].fd # unused
  BY ClientIs, NoDescriptor DEF IInv
<1>2. /\ open[clients[i].fd] # "file"
      /\ clients[i].file # unused => open[clients[i].file] = "file"
      /\ clients[i].cgi # unused => open[clients[i].cgi] = "file" /\ clients[i].cgi # clients[i].file
  BY SelectLoopAssumption DEF IInv, TableInv
<1>. QED  BY <1>1, <1>2 DEF Own

\* Nobody else's descriptor is one of the client at ci.
LEMMA OthersApart ==
  ASSUME IInv, ci \in Places, NEW i \in Places, i # ci
  PROVE  \A x \in {clients[i].fd, clients[i].file, clients[i].cgi} :
           x \notin Own(Current)
<1>1. Own(clients[i]) \cap Own(clients[ci]) = {} /\ unused \notin Own(clients[ci])
  BY DEF IInv, TableInv, Own
<1>2. Current = clients[ci]
  BY DEF Current
<1>. QED  BY <1>1, <1>2, OwnApart

\* read_request_update: the client waits for room to answer.
LEMMA FileDoneInv ==
  ASSUME IInv, FileDone
  PROVE  IInv'
<1>. DEFINE reads == Current.h.kind # "replace" /\ ~Current.h.fromFile
            w == Written(Current.h)
            h == IF reads THEN [w EXCEPT !.begun = FALSE, !.fromFile = TRUE] ELSE w
            rbuf == fds.rbuf \ {Current.file}
            wbuf == ((fds.wbuf \ ({Current.file} \cap fds.write)) \cup {Current.fd}) \ {Current.cgi}
<1>1. /\ stop = "none" /\ pc = "file" /\ pc' = "send" /\ Current.file \in fds.read
      /\ UNCHANGED <<net, open, buffer, ci, stop, history>>
      /\ clients' = [clients EXCEPT ![ci].h = h]
  BY DEF FileDone, AfterWriting, InFile, Running
<1>2. check' \in BOOLEAN
  <2>1. check' = (IF reads \/ w # Current.h THEN FALSE ELSE check) /\ check \in BOOLEAN
    BY DEF FileDone, IInv, ControlInv
  <2>. QED  BY <2>1
<1>3. fds' = [fds EXCEPT !.wbuf = wbuf, !.rbuf = rbuf]
  BY DEF FileDone, read_request_update
<1>4. ci \in Places
  BY <1>1 DEF IInv, TurnInv, Serves
<1>5. /\ Current = clients[ci] /\ Current \in ClientType /\ Current.h \in Handler
      /\ Current.h.asked.uri # <<>> /\ Current.fd \in Fds
  BY <1>4, ServedClient
<1>6. /\ w \in Handler /\ w.asked = Current.h.asked /\ w.kind = Current.h.kind
      /\ w = Current.h \/ w.written = 0
      /\ Current.file \in fds.write /\ w.kind # "refused" /\ ~Current.h.toFile => w.written = 0
  BY <1>4, WrittenType
<1>. HIDE DEF w, reads
<1>7. h \in Handler /\ h.asked = w.asked /\ h.written = w.written
  BY <1>6 DEF Handler
<1>. HIDE DEF h
<1>. PICK k : k = [Current EXCEPT !.h = h]
  OBVIOUS
<1>8. /\ k \in ClientType /\ k.h = h /\ k.fd = Current.fd /\ k.file = Current.file
      /\ k.cgi = Current.cgi /\ k.active = Current.active
  BY <1>5, <1>7 DEF ClientType
<1>9. clients' = [clients EXCEPT ![ci] = k]
  BY <1>1, <1>5
<1>10. /\ ClientsInv' /\ Places' = Places /\ clients'[ci] = k
       /\ clients # <<>> /\ clients' # <<>>
       /\ \A i \in Places : /\ i # ci => clients'[i] = clients[i]
                            /\ clients'[i].fd = clients[i].fd
                            /\ clients'[i].file = clients[i].file
                            /\ clients'[i].cgi = clients[i].cgi
                            /\ clients'[i].active = clients[i].active
                            /\ Own(clients'[i]) = Own(clients[i])
       /\ TableInv'
  <2>1. k.h.asked.uri # <<>> /\ UNCHANGED <<open, lost>>
    BY <1>1, <1>5, <1>6, <1>7, <1>8 DEF history
  <2>. QED  BY <1>4, <1>8, <1>9, <2>1, Replaced
<1>11. fds \in SetsType
  BY DEF IInv, FdsInv
<1>12. /\ fds' \in SetsType /\ fds'.read = fds.read /\ fds'.write = fds.write
       /\ fds'.rbuf = rbuf /\ fds'.wbuf = wbuf
  BY <1>3, <1>5, <1>11 DEF SetsType
<1>13. \A i \in Places : i # ci => \A x \in {clients[i].fd, clients[i].file, clients[i].cgi} :
         (x \in fds'.rbuf <=> x \in fds.rbuf) /\ (x \in fds'.wbuf <=> x \in fds.wbuf)
  <2>. TAKE i \in Places
  <2>. HAVE i # ci
  <2>1. \A x \in {clients[i].fd, clients[i].file, clients[i].cgi} : x \notin Own(Current)
    BY <1>4, OthersApart
  <2>2. unused \notin fds.rbuf \cup fds.wbuf /\ unused # Current.fd
    BY <1>5, <1>11, NoDescriptor DEF SetsType
  <2>3. \A x : x \notin Own(Current) \cup {unused} =>
          (x \in fds'.rbuf <=> x \in fds.rbuf) /\ (x \in fds'.wbuf <=> x \in fds.wbuf)
    BY <1>12 DEF Own
  <2>4. unused \notin fds'.rbuf \cup fds'.wbuf
    BY <1>12, <2>2
  <2>. QED  BY <2>1, <2>2, <2>3, <2>4
<1>14. NetInv' /\ BufferInv'
  BY <1>1 DEF IInv, NetInv, BufferInv, net, history
<1>15. ControlInv'
  BY <1>1, <1>2, ControlStays DEF IInv, ControlInv, Serves, history
<1>16. rbuf \subseteq fds.rbuf
  OBVIOUS
<1>17. TurnInv'
  BY <1>1, <1>4, <1>10, <1>12, <1>16 DEF IInv, TurnInv, Serves, history
<1>18. FdsInv'
  BY <1>10, <1>12, <1>16 DEF IInv, FdsInv
<1>19. \A i \in Places : /\ (Ahead(i))' => Ahead(i) /\ i # ci
                         /\ (FileAhead(i))' => FileAhead(i) /\ i # ci
                         /\ (SendAhead(i))' => SendAhead(i)
  BY <1>1 DEF FileAhead, SendAhead, Ahead, Places
<1>20. PassInv'
  <2>1. PassInv
    BY <1>1 DEF IInv
  <2>2. \A i \in Places :
          /\ (Ahead(i))' /\ clients'[i].fd \in fds'.read => clients'[i].fd \in fds'.rbuf
          /\ (FileAhead(i))' => (clients'[i].file \in fds'.read <=> clients'[i].file \in fds'.rbuf)
    BY <1>10, <1>12, <1>13, <1>19, <2>1 DEF PassInv
  <2>3. clients'[ci].file \notin fds'.rbuf
    BY <1>4, <1>5, <1>10, <1>12
  <2>. QED  BY <1>1, <1>10, <2>2, <2>3 DEF PassInv, Serves
<1>21. ~reused' => SetsInv'
  <2>. SUFFICES ASSUME ~reused' PROVE SetsInv'
    OBVIOUS
  <2>1. SetsInv /\ Files(Current) /\ (Current.file \in fds.write <=> Current.file \in fds.wbuf)
    BY <1>1, WaitsForFile DEF IInv, history
  <2>2. /\ Current.fd # Current.file /\ Current.fd # Current.cgi
    BY <1>4, <1>5, OwnApart
  <2>3. WaitsInv'
    <3>1. \A i \in Places : i # ci =>
            (Reads(clients[i]) \/ Files(clients[i]) \/ Sends(clients[i]) \/ (blind /\ Idle(clients[i])))'
      <4>. TAKE i \in Places
      <4>. HAVE i # ci
      <4>1. /\ Reads(clients[i]) => (Reads(clients[i]))'
            /\ Files(clients[i]) => (Files(clients[i]))'
            /\ Sends(clients[i]) => (Sends(clients[i]))'
            /\ Idle(clients[i]) => (Idle(clients[i]))'
        BY <1>10, <1>13 DEF Reads, Files, Sends, Idle
      <4>. QED  BY <1>1, <2>1, <4>1 DEF SetsInv, WaitsInv, history
    <3>2. k.h.written = 0
      BY <1>6, <1>7, <1>8, <2>1 DEF Files
    <3>3. k.fd \in fds'.wbuf
      BY <1>8, <1>12, <2>2
    <3>4. {k.fd, k.file, k.cgi} \cap fds'.rbuf = {} /\ {k.file, k.cgi} \cap fds'.wbuf = {}
      BY <1>8, <1>12, <2>1, <2>2 DEF Files
    <3>5. k.h.written < RLEN
      BY <3>2, SelectLoopAssumption
    <3>6. ci' = ci
      BY <1>1
    <3>7. Sends(clients[ci])'
      BY <1>10, <3>3, <3>4, <3>5, <3>6 DEF Sends
    <3>. QED  BY <1>10, <3>1, <3>6, <3>7 DEF WaitsInv
  <2>4. WatchInv'
    <3>1. \A x \in fds'.rbuf \cup fds'.wbuf : x \in fds.rbuf \cup fds.wbuf \/ x = clients[ci].fd
      BY <1>5, <1>12
    <3>. QED  BY <1>1, <1>4, <1>10, <2>1, <3>1, OwnApart DEF SetsInv, WatchInv, history
  <2>5. ReportInv'
    <3>1. Current.fd \notin fds.write
      <4>1. SendAhead(ci)
        BY <1>1 DEF SendAhead, FileAhead
      <4>. QED  BY <1>1, <1>4, <1>5, <2>1, <4>1 DEF SetsInv, ReportInv
    <3>2. \A i \in Places :
            /\ (FileAhead(i))' /\ clients'[i].file \in fds'.read =>
                 (clients'[i].file \in fds'.write <=> clients'[i].file \in fds'.wbuf)
      BY <1>10, <1>12, <1>13, <1>19, <2>1 DEF SetsInv, ReportInv
    <3>3. \A i \in Places :
            (SendAhead(i))' /\ clients'[i].fd \in fds'.write =>
                 /\ clients'[i].fd \in fds'.wbuf
                 /\ {clients'[i].file, clients'[i].cgi} \cap (fds'.read \cup fds'.write) = {}
      BY <1>5, <1>10, <1>12, <1>13, <1>19, <2>1, <3>1 DEF SetsInv, ReportInv
    <3>4. Acting /\ open' = open
      BY <1>1 DEF Acting, Serves
    <3>. QED  BY <1>10, <1>12, <2>1, <3>2, <3>3, <3>4 DEF SetsInv, ReportInv
  <2>. QED  BY <2>3, <2>4, <2>5 DEF SetsInv
<1>. QED  BY <1>10, <1>14, <1>15, <1>17, <1>18, <1>20, <1>21 DEF IInv

\* The clients are the same when the turn is passed, but for the turn.
LEMMA PassedOn ==
  ASSUME NEW cs \in Seq(ClientType), NEW i \in 1..Len(cs)
  PROVE  /\ update_active_client(cs, i) \in Seq(ClientType)
         /\ Len(update_active_client(cs, i)) = Len(cs)
         /\ \A j \in 1..Len(cs) : LET k == update_active_client(cs, i)[j]
                                  IN /\ k.fd = cs[j].fd /\ k.file = cs[j].file
                                     /\ k.cgi = cs[j].cgi /\ k.h = cs[j].h
                                     /\ Own(k) = Own(cs[j])
<1>. DEFINE next == IF i < Len(cs) THEN i + 1 ELSE 1
            new  == update_active_client(cs, i)
<1>1. /\ new \in Seq(ClientType) /\ Len(new) = Len(cs)
      /\ \A j \in 1..Len(cs) : new[j] = [cs[j] EXCEPT !.active = (j = next)]
  BY TurnPassed
<1>2. \A j \in 1..Len(cs) : cs[j] \in ClientType
  BY ElementOfSeq
<1>. HIDE DEF next, new
<1>3. \A k \in ClientType : \A b \in BOOLEAN :
        LET m == [k EXCEPT !.active = b]
        IN m.fd = k.fd /\ m.file = k.file /\ m.cgi = k.cgi /\ m.h = k.h
  BY DEF ClientType
<1>4. \A j \in 1..Len(cs) : /\ new[j].fd = cs[j].fd /\ new[j].file = cs[j].file
                            /\ new[j].cgi = cs[j].cgi /\ new[j].h = cs[j].h
  <2>. TAKE j \in 1..Len(cs)
  <2>1. (j = next) \in BOOLEAN /\ cs[j] \in ClientType /\ new[j] = [cs[j] EXCEPT !.active = (j = next)]
    BY <1>1, <1>2
  <2>. QED  BY <1>3, <2>1, Zenon
<1>5. \A j \in 1..Len(cs) : Own(new[j]) = Own(cs[j])
  BY <1>4 DEF Own
<1>. QED  BY <1>1, <1>4, <1>5 DEF new

\* The one whose turn it is.
LEMMA TurnIs ==
  ASSUME NEW cs \in Seq(ClientType), NEW i \in 1..Len(cs)
  PROVE  LET next == IF i < Len(cs) THEN i + 1 ELSE 1
         IN /\ next \in 1..Len(cs)
            /\ \A j \in 1..Len(cs) : update_active_client(cs, i)[j].active <=> j = next
<1>. DEFINE next == IF i < Len(cs) THEN i + 1 ELSE 1
            new  == update_active_client(cs, i)
<1>1. /\ next \in 1..Len(cs)
      /\ \A j \in 1..Len(cs) : new[j] = [cs[j] EXCEPT !.active = (j = next)]
  BY TurnPassed
<1>2. \A j \in 1..Len(cs) : cs[j] \in ClientType
  BY ElementOfSeq
<1>. HIDE DEF next, new
<1>3. \A k \in ClientType : \A b \in BOOLEAN : [k EXCEPT !.active = b].active = b
  BY DEF ClientType
<1>4. \A j \in 1..Len(cs) : new[j].active = (j = next)
  <2>. TAKE j \in 1..Len(cs)
  <2>1. (j = next) \in BOOLEAN /\ cs[j] \in ClientType /\ new[j] = [cs[j] EXCEPT !.active = (j = next)]
    BY <1>1, <1>2
  <2>. QED  BY <1>3, <2>1, Zenon
<1>5. \A j \in 1..Len(cs) : new[j].active <=> j = next
  BY <1>4
<1>. QED  BY <1>1, <1>5 DEF next, new

\* send_response writes the last byte, send_response_update and
\* update_active_client.
LEMMA SendRestInv ==
  ASSUME IInv, SendRest
  PROVE  IInv'
<1>. DEFINE c    == open[Current.fd]
            next == IF ci < Len(clients) THEN ci + 1 ELSE 1
            rbuf == fds.rbuf \cup {Current.fd}
            wbuf == fds.wbuf \ {Current.fd}
            gone == {Current.file, Current.cgi}
<1>1. /\ stop = "none" /\ pc = "send" /\ pc' = "expire" /\ check' = FALSE /\ Current.fd \in fds.write
      /\ unread' = [unread EXCEPT ![c] = @ + Sent]
      /\ open' = Without(open, gone)
      /\ fds' = [fds EXCEPT !.wbuf = wbuf, !.rbuf = rbuf]
      /\ UNCHANGED <<script, files, peer, inbox, backlog, buffer, ci, stop, history>>
  BY DEF SendRest, Sending, Running
<1>2. /\ ci \in Places /\ c \in Conns /\ Sent \in Int /\ unread[c] + Sent <= ROOM
      /\ ~reused => Sent \in Nat /\ Sends(Current)
  BY <1>1, SentIs
<1>3. /\ Current = clients[ci] /\ Current \in ClientType /\ Current.fd \in Fds /\ Current.auth \in BOOLEAN
      /\ Current.active /\ ci \in Nat \ {0} /\ fds \in SetsType
  BY <1>1, <1>2, ServedClient, ClientIs DEF IInv, TurnInv, Serves, Current, ControlInv, FdsInv
<1>3a. PICK k : k = [NewClient(Current.fd, TRUE) EXCEPT !.auth = Current.auth]
  OBVIOUS
<1>4. /\ k \in ClientType /\ k.h.asked.uri # <<>> /\ k.h.written = 0
      /\ k.fd = Current.fd /\ k.file = unused /\ k.cgi = unused
  <2>1. /\ NewClient(Current.fd, TRUE) \in ClientType /\ NewClient(Current.fd, TRUE).h.asked.uri # <<>>
        /\ NewClient(Current.fd, TRUE).h.written = 0 /\ NewClient(Current.fd, TRUE).fd = Current.fd
        /\ NewClient(Current.fd, TRUE).file = unused /\ NewClient(Current.fd, TRUE).cgi = unused
    BY <1>3, NewClientType
  <2>. HIDE DEF NewClient
  <2>. QED  BY <1>3, <1>3a, <2>1 DEF ClientType
<1>4a. PICK cs : cs = [clients EXCEPT ![ci] = k]
  OBVIOUS
<1>5. clients' = update_active_client(cs, ci)
  <2>1. [clients EXCEPT ![ci] = [NewClient(@.fd, TRUE) EXCEPT !.auth = Current.auth]] = cs
    BY <1>3, <1>3a, <1>4a
  <2>. QED  BY <2>1 DEF SendRest
<1>6. /\ cs \in Seq(ClientType) /\ Len(cs) = Len(clients) /\ cs[ci] = k
      /\ \A i \in Places : i # ci => cs[i] = clients[i]
      /\ Places = 1..Len(clients) /\ Len(clients) \in Nat
      /\ \A i \in Places : clients[i].h.asked.uri # <<>>
  <2>1. clients \in Seq(ClientType) /\ \A i \in Places : clients[i].h.asked.uri # <<>>
    BY DEF IInv, ClientsInv
  <2>2. Len(clients) \in Nat /\ Places = 1..Len(clients)
    BY <2>1, LenProperties DEF Places
  <2>. QED  BY <1>2, <1>4, <1>4a, <2>1, <2>2, ExceptSeq
<1>7. /\ clients' \in Seq(ClientType) /\ Places' = Places
      /\ \A j \in Places : /\ clients'[j].fd = cs[j].fd /\ clients'[j].file = cs[j].file
                           /\ clients'[j].cgi = cs[j].cgi /\ clients'[j].h = cs[j].h
                           /\ Own(clients'[j]) = Own(cs[j])
  <2>1. ci \in 1..Len(cs)
    BY <1>2, <1>6
  <2>2. /\ clients' \in Seq(ClientType) /\ Len(clients') = Len(cs)
        /\ \A j \in 1..Len(cs) : /\ clients'[j].fd = cs[j].fd /\ clients'[j].file = cs[j].file
                                 /\ clients'[j].cgi = cs[j].cgi /\ clients'[j].h = cs[j].h
                                 /\ Own(clients'[j]) = Own(cs[j])
    BY <1>5, <1>6, <2>1, PassedOn
  <2>. QED  BY <1>6, <2>2 DEF Places
<1>7b. next \in Places /\ \A j \in Places : clients'[j].active <=> j = next
  <2>1. ci \in 1..Len(cs) /\ 1..Len(cs) = Places
    BY <1>2, <1>6
  <2>2. next = IF ci < Len(cs) THEN ci + 1 ELSE 1
    BY <1>6
  <2>3. /\ next \in 1..Len(cs)
        /\ \A j \in 1..Len(cs) : update_active_client(cs, ci)[j].active <=> j = next
    <3>. HIDE DEF next
    <3>1. cs \in Seq(ClientType)
      BY <1>6
    <3>. QED  BY <2>1, <2>2, <3>1, TurnIs
  <2>. QED  BY <1>5, <2>1, <2>3
<1>. HIDE DEF next
<1>8. ClientsInv'
  <2>1. \A i \in Places : cs[i].h.asked.uri # <<>>
    BY <1>4, <1>6
  <2>. QED  BY <1>7, <2>1 DEF ClientsInv
<1>9. /\ \A i \in Places : i # ci => /\ clients'[i].fd = clients[i].fd /\ clients'[i].file = clients[i].file
                                     /\ clients'[i].cgi = clients[i].cgi /\ clients'[i].h = clients[i].h
                                     /\ Own(clients'[i]) = Own(clients[i])
      /\ clients'[ci].fd = Current.fd /\ clients'[ci].file = unused /\ clients'[ci].cgi = unused
      /\ clients'[ci].h.written = 0 /\ Own(clients'[ci]) = {Current.fd}
  <2>1. Own(k) = {Current.fd}
    BY <1>3, <1>4, NoDescriptor DEF Own
  <2>2. \A i \in Places : i # ci => Own(clients'[i]) = Own(clients[i])
    BY <1>6, <1>7
  <2>3. Own(clients'[ci]) = {Current.fd}
    BY <1>2, <1>6, <1>7, <2>1
  <2>4. /\ \A i \in Places : i # ci => /\ clients'[i].fd = clients[i].fd /\ clients'[i].file = clients[i].file
                                       /\ clients'[i].cgi = clients[i].cgi /\ clients'[i].h = clients[i].h
        /\ clients'[ci].fd = Current.fd /\ clients'[ci].file = unused /\ clients'[ci].cgi = unused
        /\ clients'[ci].h.written = 0
    BY <1>2, <1>4, <1>6, <1>7
  <2>. QED  BY <2>2, <2>3, <2>4
<1>. HIDE DEF NewClient, FreshHandler
<1>10. /\ fds' \in SetsType /\ fds'.read = fds.read /\ fds'.write = fds.write
       /\ fds'.rbuf = rbuf /\ fds'.wbuf = wbuf
  BY <1>1, <1>3 DEF SetsType
<1>11. \A i \in Places : i # ci => \A x \in {clients[i].fd, clients[i].file, clients[i].cgi} :
         (x \in fds'.rbuf <=> x \in fds.rbuf) /\ (x \in fds'.wbuf <=> x \in fds.wbuf)
  <2>. TAKE i \in Places
  <2>. HAVE i # ci
  <2>1. \A x \in {clients[i].fd, clients[i].file, clients[i].cgi} : x \notin Own(Current)
    BY <1>2, OthersApart
  <2>2. Current.fd \in Own(Current)
    BY <1>3, NoDescriptor DEF Own
  <2>. QED  BY <1>10, <2>1, <2>2
<1>12. /\ Current.fd \notin gone /\ Own(Current) = {Current.fd} \cup (gone \ {unused})
       /\ unused \notin fds.rbuf \cup fds.wbuf
  <2>1. Current.fd # Current.file /\ Current.fd # Current.cgi
    BY <1>2, <1>3, OwnApart
  <2>. QED  BY <1>3, <2>1, NoDescriptor DEF Own, SetsType
<1>13. NetInv' /\ BufferInv'
  <2>1. unread \in [Conns -> Int] /\ \A d \in Conns : unread[d] <= ROOM /\ (~reused => unread[d] >= 0)
    BY DEF IInv, NetInv
  <2>. HIDE DEF Sent
  <2>2. unread' \in [Conns -> Int] /\ \A d \in Conns : unread'[d] = IF d = c THEN unread[c] + Sent ELSE unread[d]
    BY <1>1, <1>2, <2>1
  <2>3. unread[c] \in Int /\ (~reused => unread[c] + Sent >= 0)
    BY <1>2, <2>1
  <2>. HIDE DEF c
  <2>4. \A d \in Conns : unread'[d] <= ROOM /\ (~reused => unread'[d] >= 0)
    BY <1>2, <2>1, <2>2, <2>3
  <2>. QED  BY <1>1, <2>2, <2>4 DEF IInv, NetInv, BufferInv, history
<1>14. ControlInv'
  BY <1>1, <1>3, ControlStays DEF IInv, ControlInv, Serves, history
<1>15. DOMAIN open' = DOMAIN open \ gone /\ \A x \in DOMAIN open' : open'[x] = open[x]
  BY <1>1 DEF Without
<1>. HIDE DEF gone, rbuf, wbuf
<1>16. TableInv'
  <2>1. TableInv /\ unused \notin DOMAIN open /\ lost' = lost
    BY <1>1, NoDescriptor DEF IInv, TableInv, history
  <2>2. lost \cap Own(Current) = {} /\ Own(Current) \subseteq DOMAIN open
    BY <1>2, <1>3, <2>1 DEF TableInv
  <2>3. DOMAIN open' \subseteq Fds /\ lost' \subseteq DOMAIN open'
    BY <1>12, <1>15, <2>1, <2>2 DEF TableInv
  <2>4. \A x \in DOMAIN open' : /\ open'[x] \in Conns \cup {"file"}
                                /\ x \in lost' \/ \E j \in Places' : x \in Own(clients'[j])
    <3>. TAKE x \in DOMAIN open'
    <3>1. x \in DOMAIN open /\ x \notin gone /\ open'[x] = open[x]
      BY <1>15
    <3>2. open[x] \in Conns \cup {"file"} /\ (x \in lost \/ \E i \in Places : x \in Own(clients[i]))
      BY <2>1, <3>1 DEF TableInv
    <3>3. CASE x \in lost
      BY <2>1, <3>1, <3>2, <3>3
    <3>4. CASE \E i \in Places : x \in Own(clients[i])
      <4>1. PICK i \in Places : x \in Own(clients[i])
        BY <3>4
      <4>2. x \in Own(clients'[i])
        BY <1>3, <1>9, <1>12, <3>1, <4>1
      <4>. QED  BY <1>7, <3>1, <3>2, <4>2
    <3>. QED  BY <3>2, <3>3, <3>4
  <2>5. \A i \in Places :
          /\ Own(clients'[i]) \subseteq DOMAIN open' \ lost'
          /\ open'[clients'[i].fd] \in Conns
          /\ clients'[i].file # unused => open'[clients'[i].file] = "file"
          /\ clients'[i].cgi # unused => open'[clients'[i].cgi] = "file" /\ clients'[i].cgi # clients'[i].file
    <3>. TAKE i \in Places
    <3>1. CASE i = ci
      <4>1. Current.fd \in DOMAIN open' \ lost' /\ open'[Current.fd] \in Conns
        BY <1>2, <1>12, <1>15, <2>1, <2>2
      <4>. QED  BY <1>9, <3>1, <4>1
    <3>2. CASE i # ci
      <4>1. /\ Own(clients[i]) \subseteq DOMAIN open \ lost
            /\ open[clients[i].fd] \in Conns
            /\ clients[i].file # unused => open[clients[i].file] = "file"
            /\ clients[i].cgi # unused => open[clients[i].cgi] = "file" /\ clients[i].cgi # clients[i].file
        BY <2>1 DEF TableInv
      <4>2. Own(clients[i]) \cap Own(Current) = {}
        BY <1>2, <1>3, <2>1, <3>2 DEF TableInv
      <4>3. Own(clients[i]) \subseteq DOMAIN open' \ lost'
        BY <1>12, <1>15, <2>1, <4>1, <4>2
      <4>4. /\ clients[i].fd \in Own(clients[i])
            /\ clients[i].file # unused => clients[i].file \in Own(clients[i])
            /\ clients[i].cgi # unused => clients[i].cgi \in Own(clients[i])
        BY OwnApart
      <4>. QED  BY <1>9, <1>15, <3>2, <4>1, <4>3, <4>4
    <3>. QED  BY <3>1, <3>2
  <2>6. \A i, j \in Places : i # j => Own(clients'[i]) \cap Own(clients'[j]) = {}
    <3>1. \A i \in Places : Own(clients'[i]) \subseteq Own(clients[i])
      BY <1>3, <1>9, <1>12
    <3>2. \A i, j \in Places : i # j => Own(clients[i]) \cap Own(clients[j]) = {}
      BY <2>1 DEF TableInv
    <3>. QED  BY <3>1, <3>2
  <2>. QED  BY <1>7, <2>3, <2>4, <2>5, <2>6 DEF TableInv
<1>17. \A i \in Places : i # ci => clients[i].file \notin fds.rbuf
  BY <1>2, <1>3 DEF IInv, TurnInv
<1>18. TurnInv'
  <2>1. \A i \in Places : clients'[i].file \notin fds'.rbuf
    <3>1. \A i \in Places : i # ci => clients'[i].file \notin fds'.rbuf
      BY <1>9, <1>11, <1>17
    <3>2. unused \notin fds'.rbuf
      BY <1>10, NoDescriptor DEF SetsType
    <3>. QED  BY <1>9, <3>1, <3>2
  <2>2. ci' \in Places' /\ pc' = "expire" /\ ~check'
    BY <1>1, <1>2, <1>7
  <2>. QED  BY <1>7, <1>7b, <2>1, <2>2 DEF TurnInv
<1>19. FdsInv'
  BY <1>7, <1>9, <1>10, <1>11 DEF IInv, FdsInv
<1>20. \A i \in Places : (Ahead(i))' \/ (FileAhead(i))' \/ (SendAhead(i))' =>
         Ahead(i) /\ FileAhead(i) /\ SendAhead(i) /\ i # ci
  BY <1>1, <1>3, <1>6 DEF FileAhead, SendAhead, Ahead
<1>21. PassInv'
  <2>1. PassInv
    BY <1>1 DEF IInv
  <2>2. \A i \in Places :
          /\ (Ahead(i))' /\ clients'[i].fd \in fds'.read => clients'[i].fd \in fds'.rbuf
          /\ (FileAhead(i))' => (clients'[i].file \in fds'.read <=> clients'[i].file \in fds'.rbuf)
    BY <1>9, <1>10, <1>11, <1>20, <2>1 DEF PassInv
  <2>. QED  BY <1>1, <1>7, <2>2 DEF PassInv, Serves
<1>22. ~reused' => SetsInv'
  <2>. SUFFICES ASSUME ~reused' PROVE SetsInv'
    OBVIOUS
  <2>1. SetsInv /\ Sends(Current)
    BY <1>1, <1>2 DEF IInv, history
  <2>2. WaitsInv'
    <3>1. \A i \in Places : i # ci =>
            (Reads(clients[i]) \/ Files(clients[i]) \/ Sends(clients[i]) \/ (blind /\ Idle(clients[i])))'
      <4>. TAKE i \in Places
      <4>. HAVE i # ci
      <4>1. /\ Reads(clients[i]) => (Reads(clients[i]))'
            /\ Files(clients[i]) => (Files(clients[i]))'
            /\ Sends(clients[i]) => (Sends(clients[i]))'
            /\ Idle(clients[i]) => (Idle(clients[i]))'
        BY <1>9, <1>11 DEF Reads, Files, Sends, Idle
      <4>. QED  BY <1>1, <2>1, <4>1 DEF SetsInv, WaitsInv, history
    <3>2. ci' = ci
      BY <1>1
    <3>3. Reads(clients[ci])'
      BY <1>9, <1>10, <3>2 DEF Reads, rbuf, wbuf
    <3>. QED  BY <1>7, <3>1, <3>2, <3>3 DEF WaitsInv
  <2>3. WatchInv'
    <3>1. \A x \in fds'.rbuf \cup fds'.wbuf : x \in fds.rbuf \cup fds.wbuf \/ x = Current.fd
      BY <1>10 DEF rbuf, wbuf
    <3>2. gone \cap (fds.rbuf \cup fds.wbuf) = {}
      BY <2>1 DEF Sends, gone
    <3>3. \A x \in fds.rbuf \cup fds.wbuf : x \in left \/ \E i \in Places : x \in Own(clients'[i])
      <4>. TAKE x \in fds.rbuf \cup fds.wbuf
      <4>1. x \in left \/ \E i \in Places : x \in Own(clients[i])
        BY <2>1 DEF SetsInv, WatchInv
      <4>2. \A i \in Places : x \in Own(clients[i]) => x \in Own(clients'[i])
        BY <1>3, <1>9, <1>12, <3>2
      <4>. QED  BY <4>1, <4>2
    <3>4. Current.fd \in Own(clients'[ci])
      BY <1>9
    <3>. QED  BY <1>1, <1>2, <1>7, <3>1, <3>3, <3>4 DEF WatchInv, history
  <2>4. ReportInv'
    <3>1. Acting /\ SendAhead(ci)
      BY <1>1 DEF Acting, SendAhead, Serves
    <3>2. \A i \in Places :
            /\ (FileAhead(i))' /\ clients'[i].file \in fds'.read =>
                 (clients'[i].file \in fds'.write <=> clients'[i].file \in fds'.wbuf)
      BY <1>9, <1>10, <1>11, <1>20, <2>1 DEF SetsInv, ReportInv
    <3>3. \A i \in Places :
            (SendAhead(i))' /\ clients'[i].fd \in fds'.write =>
                 /\ clients'[i].fd \in fds'.wbuf
                 /\ {clients'[i].file, clients'[i].cgi} \cap (fds'.read \cup fds'.write) = {}
      BY <1>9, <1>10, <1>11, <1>20, <2>1 DEF SetsInv, ReportInv
    <3>4. gone \cap (fds.read \cup fds.write) = {} /\ fds.read \cup fds.write \subseteq DOMAIN open \cup {Listen}
      BY <1>1, <1>2, <1>3, <2>1, <3>1 DEF SetsInv, ReportInv, gone
    <3>5. fds'.read \cup fds'.write \subseteq DOMAIN open' \cup {Listen}
      BY <1>10, <1>15, <3>4
    <3>. QED  BY <1>7, <3>2, <3>3, <3>5 DEF ReportInv
  <2>. QED  BY <2>2, <2>3, <2>4 DEF SetsInv
<1>. QED  BY <1>8, <1>13, <1>14, <1>16, <1>18, <1>19, <1>21, <1>22 DEF IInv

\* Something happened: the client keeps its turn.
LEMMA TurnKept ==
  ASSUME IInv, stop = "none", pc = "expire", NextClient,
         UNCHANGED <<net, open, fds, clients, buffer, check, stop, history>>
  PROVE  IInv'
<1>1. pc' = "client" /\ ci' = ci + 1 /\ ci \in Nat \ {0}
  BY DEF NextClient, IInv, ControlInv
<1>2. NetInv' /\ ClientsInv' /\ BufferInv' /\ TableInv'
  BY Stays DEF net, history
<1>3. ControlInv'
  BY <1>1, ControlStays DEF IInv, ControlInv, Serves, history
<1>4. TurnInv' /\ FdsInv'
  BY <1>1 DEF IInv, TurnInv, FdsInv, Places, Serves, history
<1>5. PassInv'
  BY <1>1 DEF IInv, PassInv, Places, Ahead, FileAhead, Serves
<1>6. ~reused' => SetsInv'
  BY <1>1 DEF IInv, SetsInv, WaitsInv, WatchInv, ReportInv, Places, Reads, Files, Sends, Idle, FileAhead, SendAhead, Ahead, Acting, Serves, history
<1>. QED  BY <1>1, <1>2, <1>3, <1>4, <1>5, <1>6 DEF IInv

\* Nothing happened: no file is waited for, by the client or by another, since
\* only one has its turn.
LEMMA NoFileWaitedFor ==
  ASSUME IInv, stop = "none", pc = "expire", check
  PROVE  ci \in Places /\ \A i \in Places : clients[i].file \notin fds.rbuf
<1>1. ci \in Places /\ clients[ci].active
  BY DEF IInv, TurnInv, Serves
<1>2. clients[ci].file \notin fds.rbuf
  BY DEF IInv, PassInv
<1>. QED  BY <1>1, <1>2 DEF IInv, TurnInv

\* update_active_client alone.
LEMMA TurnGoesOn ==
  ASSUME IInv, stop = "none", pc = "expire", check, NextClient,
         clients' = update_active_client(clients, ci),
         UNCHANGED <<net, open, fds, buffer, check, stop, history>>
  PROVE  IInv'
<1>. DEFINE next == IF ci < Len(clients) THEN ci + 1 ELSE 1
<1>1. /\ ci \in Places /\ ci \in 1..Len(clients) /\ clients \in Seq(ClientType)
      /\ \A i \in Places : clients[i].file \notin fds.rbuf
      /\ \A i \in Places : clients[i].h.asked.uri # <<>>
  BY NoFileWaitedFor DEF Places, IInv, ClientsInv
<1>2. pc' = "client" /\ ci' = ci + 1 /\ ci \in Nat \ {0}
  BY DEF NextClient, IInv, ControlInv
<1>3. /\ clients' \in Seq(ClientType) /\ Places' = Places
      /\ \A i \in Places : /\ clients'[i].fd = clients[i].fd /\ clients'[i].file = clients[i].file
                           /\ clients'[i].cgi = clients[i].cgi /\ clients'[i].h = clients[i].h
                           /\ Own(clients'[i]) = Own(clients[i])
  BY <1>1, PassedOn DEF Places
<1>4. next \in Places /\ \A i \in Places : clients'[i].active <=> i = next
  <2>1. next \in 1..Len(clients)
        /\ \A i \in 1..Len(clients) : update_active_client(clients, ci)[i].active <=> i = next
    BY <1>1, TurnIs
  <2>. HIDE DEF next
  <2>. QED  BY <2>1 DEF Places
<1>. HIDE DEF next
<1>5. ClientsInv'
  BY <1>1, <1>3 DEF ClientsInv
<1>6. NetInv' /\ BufferInv'
  BY DEF IInv, NetInv, BufferInv, net, history
<1>7. ControlInv'
  BY <1>2, ControlStays DEF IInv, ControlInv, Serves, history
<1>8. TableInv'
  <2>1. TableInv /\ UNCHANGED <<open, lost>>
    BY DEF IInv, history
  <2>2. DOMAIN open' \subseteq Fds /\ lost' \subseteq DOMAIN open'
    BY <2>1 DEF TableInv
  <2>3. \A x \in DOMAIN open' : /\ open'[x] \in Conns \cup {"file"}
                                /\ x \in lost' \/ \E i \in Places' : x \in Own(clients'[i])
    BY <1>3, <2>1 DEF TableInv
  <2>4. \A i \in Places' :
          /\ Own(clients'[i]) \subseteq DOMAIN open' \ lost'
          /\ open'[clients'[i].fd] \in Conns
          /\ clients'[i].file # unused => open'[clients'[i].file] = "file"
          /\ clients'[i].cgi # unused => open'[clients'[i].cgi] = "file" /\ clients'[i].cgi # clients'[i].file
    BY <1>3, <2>1 DEF TableInv
  <2>5. \A i, j \in Places' : i # j => Own(clients'[i]) \cap Own(clients'[j]) = {}
    BY <1>3, <2>1 DEF TableInv
  <2>. QED  BY <2>2, <2>3, <2>4, <2>5 DEF TableInv
<1>9. TurnInv'
  <2>1. \A i \in Places : clients'[i].file \notin fds'.rbuf
    BY <1>1, <1>3
  <2>. QED  BY <1>2, <1>3, <1>4, <2>1 DEF TurnInv, Serves
<1>10. FdsInv'
  BY <1>3 DEF IInv, FdsInv
<1>11. \A i \in Places : (Ahead(i))' \/ (FileAhead(i))' \/ (SendAhead(i))' =>
         Ahead(i) /\ FileAhead(i) /\ SendAhead(i)
  BY <1>1, <1>2 DEF FileAhead, SendAhead, Ahead
<1>12. PassInv'
  <2>1. PassInv
    BY DEF IInv
  <2>2. \A i \in Places :
          /\ (Ahead(i))' /\ clients'[i].fd \in fds'.read => clients'[i].fd \in fds'.rbuf
          /\ (FileAhead(i))' => (clients'[i].file \in fds'.read <=> clients'[i].file \in fds'.rbuf)
    BY <1>2, <1>3, <1>11, <2>1 DEF PassInv
  <2>. QED  BY <1>2, <1>3, <2>2 DEF PassInv, Serves
<1>13. ~reused' => SetsInv'
  <2>. SUFFICES ASSUME ~reused' PROVE SetsInv'
    OBVIOUS
  <2>1. SetsInv
    BY DEF IInv, history
  <2>2. WaitsInv'
    <3>1. \A i \in Places : /\ Reads(clients[i]) => (Reads(clients[i]))'
                            /\ Files(clients[i]) => (Files(clients[i]))'
                            /\ Sends(clients[i]) => (Sends(clients[i]))'
                            /\ Idle(clients[i]) => (Idle(clients[i]))'
      BY <1>3 DEF Reads, Files, Sends, Idle
    <3>. QED  BY <1>3, <2>1, <3>1 DEF SetsInv, WaitsInv, history
  <2>3. WatchInv'
    BY <1>3, <2>1 DEF SetsInv, WatchInv, history
  <2>4. ReportInv'
    <3>1. Acting
      BY DEF Acting, Serves
    <3>2. \A i \in Places :
            /\ (FileAhead(i))' /\ clients'[i].file \in fds'.read =>
                 (clients'[i].file \in fds'.write <=> clients'[i].file \in fds'.wbuf)
            /\ (SendAhead(i))' /\ clients'[i].fd \in fds'.write =>
                 /\ clients'[i].fd \in fds'.wbuf
                 /\ {clients'[i].file, clients'[i].cgi} \cap (fds'.read \cup fds'.write) = {}
      BY <1>3, <1>11, <2>1 DEF SetsInv, ReportInv
    <3>3. fds'.read \cup fds'.write \subseteq DOMAIN open' \cup {Listen}
      BY <2>1, <3>1 DEF SetsInv, ReportInv
    <3>. QED  BY <1>3, <3>2, <3>3 DEF ReportInv
  <2>. QED  BY <2>2, <2>3, <2>4 DEF SetsInv
<1>. QED  BY <1>5, <1>6, <1>7, <1>8, <1>9, <1>10, <1>12, <1>13 DEF IInv

\* check_time_out: the client is removed, its files stay open.
LEMMA TimedOut ==
  ASSUME IInv, PassTurn, check, fds.age[Current.fd] >= TIME_OUT
  PROVE  IInv'
<1>. DEFINE next == IF ci < Len(clients) THEN ci + 1 ELSE 1
            fd   == Current.fd
            gone == {Current.file, Current.cgi} \ {unused}
<1>. /\ stop = "none" /\ pc = "expire"
     /\ UNCHANGED <<net, buffer, check, stop, blind, failed, reused, mixed, served>>
  BY DEF PassTurn, Running
<1>1. /\ ci \in Places /\ ci \in 1..Len(clients) /\ clients \in Seq(ClientType)
      /\ Places = 1..Len(clients) /\ Len(clients) \in Nat /\ ci \in Nat \ {0}
      /\ \A i \in Places : clients[i].file \notin fds.rbuf
      /\ \A i \in Places : clients[i].h.asked.uri # <<>>
  BY NoFileWaitedFor, LenProperties DEF Places, IInv, ClientsInv, ControlInv
<1>2. pc' = "client" /\ ci' = ci + 1
  BY DEF PassTurn, NextClient
<1>3. Current = clients[ci] /\ fd \in Fds /\ fds \in SetsType
  BY <1>1, ServedClient DEF IInv, FdsInv
<1>4. PICK cs : cs = update_active_client(clients, ci)
  OBVIOUS
<1>5. /\ cs \in Seq(ClientType) /\ Len(cs) = Len(clients)
      /\ \A i \in Places : /\ cs[i].fd = clients[i].fd /\ cs[i].file = clients[i].file
                           /\ cs[i].cgi = clients[i].cgi /\ cs[i].h = clients[i].h
                           /\ Own(cs[i]) = Own(clients[i])
  BY <1>1, <1>4, PassedOn DEF Places
<1>6. next \in Places /\ \A i \in Places : cs[i].active <=> i = next
  <2>1. next \in 1..Len(clients)
        /\ \A i \in 1..Len(clients) : update_active_client(clients, ci)[i].active <=> i = next
    BY <1>1, TurnIs
  <2>. HIDE DEF next
  <2>. QED  BY <1>4, <2>1 DEF Places
<1>7. /\ ClientsInv' /\ Places' = 1..(Len(clients) - 1)
      /\ \A j \in Places' : /\ clients'[j] = cs[Before(ci, j)]
                            /\ Before(ci, j) \in Places /\ Before(ci, j) # ci
                            /\ j \in Int /\ (j > ci => Before(ci, j) > ci)
      /\ \A i \in Places : i # ci => \E j \in Places' : Before(ci, j) = i
      /\ \A i, j \in Places' : Before(ci, i) = Before(ci, j) => i = j
      /\ Len(clients) = 1 => clients' = <<>>
  <2>1. clients' = RemoveAt(cs, ci) /\ ci \in 1..Len(cs) /\ \A i \in 1..Len(cs) : cs[i].h.asked.uri # <<>>
    BY <1>1, <1>4, <1>5 DEF PassTurn
  <2>. HIDE DEF next
  <2>2. /\ ClientsInv' /\ Places' = 1..(Len(cs) - 1)
        /\ \A j \in Places' : /\ clients'[j] = cs[Before(ci, j)]
                              /\ Before(ci, j) \in 1..Len(cs) /\ Before(ci, j) # ci
                              /\ j \in Int /\ (j > ci => Before(ci, j) > ci)
        /\ \A i \in 1..Len(cs) : i # ci => \E j \in Places' : Before(ci, j) = i
        /\ \A i, j \in Places' : Before(ci, i) = Before(ci, j) => i = j
        /\ Len(cs) = 1 => clients' = <<>>
    <3>1. cs \in Seq(ClientType)
      BY <1>5
    <3>. QED  BY <2>1, <3>1, Dropped
  <2>. QED  BY <1>1, <1>5, <2>2
<1>8. \A j \in Places' : \E i \in Places :
        /\ i = Before(ci, j) /\ i # ci
        /\ clients'[j].fd = clients[i].fd /\ clients'[j].file = clients[i].file
        /\ clients'[j].cgi = clients[i].cgi /\ clients'[j].h = clients[i].h
        /\ Own(clients'[j]) = Own(clients[i])
  BY <1>5, <1>7
<1>9. /\ fds' \in SetsType /\ fds'.read = fds.read /\ fds'.write = fds.write
      /\ fds'.rbuf = fds.rbuf \ {fd} /\ fds'.wbuf = fds.wbuf
  <2>1. fds' = [fds EXCEPT !.rbuf = fds.rbuf \ {fd}]
    BY DEF PassTurn
  <2>. QED  BY <1>3, <2>1 DEF SetsType
<1>10. Own(Current) = {fd} \cup gone /\ fd \notin gone
  <2>1. fd # Current.file /\ fd # Current.cgi
    BY <1>1, <1>3, OwnApart
  <2>. QED  BY <1>3, <2>1, NoDescriptor DEF Own
<1>11. \A i \in Places : i # ci => \A x \in {clients[i].fd, clients[i].file, clients[i].cgi} :
         (x \in fds'.rbuf <=> x \in fds.rbuf) /\ (x \in fds'.wbuf <=> x \in fds.wbuf)
  <2>. TAKE i \in Places
  <2>. HAVE i # ci
  <2>1. \A x \in {clients[i].fd, clients[i].file, clients[i].cgi} : x \notin Own(Current)
    BY <1>1, OthersApart
  <2>. QED  BY <1>9, <1>10, <2>1
<1>12. DOMAIN open' = DOMAIN open \ {fd} /\ \A x \in DOMAIN open' : open'[x] = open[x]
  BY DEF PassTurn, Without
<1>13. lost' = lost \cup gone /\ left' = left \cup ({fd} \cap fds.wbuf)
  BY DEF PassTurn
<1>. HIDE DEF fd, gone
<1>14. TableInv /\ lost \cap Own(Current) = {} /\ Own(Current) \subseteq DOMAIN open
  BY <1>1, <1>3 DEF IInv, TableInv
<1>15. ControlInv'
  <2>1. lost \subseteq Fds /\ left \subseteq Fds /\ reused \in BOOLEAN /\ check \in BOOLEAN
        /\ (blind \/ reused => left # {}) /\ stop \in {"none", "undefined", "out_of_range", "SIGPIPE"}
    BY DEF IInv, ControlInv
  <2>2. lost' \subseteq Fds /\ left' \subseteq Fds
    BY <1>3, <1>10, <1>13, <1>14, <2>1 DEF TableInv
  <2>3. reused' \in BOOLEAN /\ check' \in BOOLEAN
    BY <2>1
  <2>4. blind' \/ reused' => left' # {}
    BY <1>13, <2>1
  <2>. QED  BY <1>1, <1>2, <2>1, <2>2, <2>3, <2>4 DEF ControlInv
<1>16. NetInv' /\ BufferInv'
  BY DEF IInv, NetInv, BufferInv, net
<1>17. TableInv'
  <2>1. DOMAIN open' \subseteq Fds /\ lost' \subseteq DOMAIN open'
    BY <1>10, <1>12, <1>13, <1>14 DEF TableInv
  <2>2. \A x \in DOMAIN open' : /\ open'[x] \in Conns \cup {"file"}
                                /\ x \in lost' \/ \E j \in Places' : x \in Own(clients'[j])
    <3>. TAKE x \in DOMAIN open'
    <3>1. x \in DOMAIN open /\ x # fd /\ open'[x] = open[x]
      BY <1>12
    <3>2. open[x] \in Conns \cup {"file"} /\ (x \in lost \/ \E i \in Places : x \in Own(clients[i]))
      BY <1>14, <3>1 DEF TableInv
    <3>3. CASE x \in lost
      BY <1>13, <3>1, <3>2, <3>3
    <3>4. CASE x \in Own(Current)
      BY <1>10, <1>13, <3>1, <3>2, <3>4
    <3>5. CASE x \notin lost /\ x \notin Own(Current)
      <4>1. PICK i \in Places : x \in Own(clients[i]) /\ i # ci
        BY <1>3, <3>2, <3>5
      <4>2. PICK j \in Places' : Before(ci, j) = i
        BY <1>7, <4>1
      <4>. QED  BY <1>8, <3>1, <3>2, <4>1, <4>2
    <3>. QED  BY <3>3, <3>4, <3>5
  <2>3. \A j \in Places' :
          /\ Own(clients'[j]) \subseteq DOMAIN open' \ lost'
          /\ open'[clients'[j].fd] \in Conns
          /\ clients'[j].file # unused => open'[clients'[j].file] = "file"
          /\ clients'[j].cgi # unused => open'[clients'[j].cgi] = "file" /\ clients'[j].cgi # clients'[j].file
    <3>. TAKE j \in Places'
    <3>1. PICK i \in Places : /\ i # ci
                              /\ clients'[j].fd = clients[i].fd /\ clients'[j].file = clients[i].file
                              /\ clients'[j].cgi = clients[i].cgi
                              /\ Own(clients'[j]) = Own(clients[i])
      BY <1>8
    <3>2. /\ Own(clients[i]) \subseteq DOMAIN open \ lost /\ Own(clients[i]) \cap Own(Current) = {}
          /\ open[clients[i].fd] \in Conns
          /\ clients[i].file # unused => open[clients[i].file] = "file"
          /\ clients[i].cgi # unused => open[clients[i].cgi] = "file" /\ clients[i].cgi # clients[i].file
      BY <1>1, <1>3, <1>14, <3>1 DEF TableInv
    <3>3. /\ clients[i].fd \in Own(clients[i])
          /\ clients[i].file # unused => clients[i].file \in Own(clients[i])
          /\ clients[i].cgi # unused => clients[i].cgi \in Own(clients[i])
      BY OwnApart
    <3>4. Own(clients[i]) \subseteq DOMAIN open' \ lost'
      BY <1>10, <1>12, <1>13, <3>2
    <3>. QED  BY <1>12, <3>1, <3>2, <3>3, <3>4
  <2>4. \A i, j \in Places' : i # j => Own(clients'[i]) \cap Own(clients'[j]) = {}
    <3>1. \A i, j \in Places' : i # j => Before(ci, i) # Before(ci, j)
      BY <1>7
    <3>2. \A i, j \in Places : i # j => Own(clients[i]) \cap Own(clients[j]) = {}
      BY <1>14 DEF TableInv
    <3>3. \A i \in Places' : Before(ci, i) \in Places /\ Own(clients'[i]) = Own(clients[Before(ci, i)])
      BY <1>8
    <3>. QED  BY <3>1, <3>2, <3>3
  <2>. QED  BY <2>1, <2>2, <2>3, <2>4 DEF TableInv
<1>18. \A j \in Places' : clients'[j].file \notin fds'.rbuf
  BY <1>1, <1>8, <1>9
<1>19. \A j \in Places' : clients'[j].active <=> Before(ci, j) = next
  <2>. HIDE DEF next
  <2>. QED  BY <1>6, <1>7
<1>20. TurnInv'
  <2>1. \A i, j \in Places' : clients'[i].active /\ clients'[j].active => i = j
    <3>. HIDE DEF next
    <3>. QED  BY <1>7, <1>19
  <2>2. clients' # <<>> => \E j \in Places' : clients'[j].active
    <3>. HAVE clients' # <<>>
    <3>1. next # ci
      <4>1. Len(clients) # 1
        BY <1>7
      <4>2. Len(clients) \in Nat /\ ci \in 1..Len(clients)
        BY <1>1
      <4>. QED  BY <4>1, <4>2
    <3>. HIDE DEF next
    <3>2. PICK j \in Places' : Before(ci, j) = next
      BY <1>6, <1>7, <3>1
    <3>. QED  BY <1>19, <3>2
  <2>. QED  BY <1>2, <1>18, <2>1, <2>2 DEF TurnInv, Serves
<1>21. FdsInv'
  <2>1. \A i \in Places : clients[i].fd \in fds.rbuf => clients[i].file = unused /\ clients[i].cgi = unused
    BY DEF IInv, FdsInv
  <2>2. \A j \in Places' : clients'[j].fd \in fds'.rbuf => clients'[j].file = unused /\ clients'[j].cgi = unused
    BY <1>8, <1>9, <2>1
  <2>. QED  BY <1>9, <2>2 DEF FdsInv
<1>22. \A j \in Places' : ((Ahead(j))' \/ (FileAhead(j))' \/ (SendAhead(j))') =>
         Ahead(Before(ci, j)) /\ FileAhead(Before(ci, j)) /\ SendAhead(Before(ci, j))
  <2>. TAKE j \in Places'
  <2>1. (Ahead(j))' \/ (FileAhead(j))' \/ (SendAhead(j))' => j >= ci + 1
    BY <1>2 DEF Ahead, FileAhead, SendAhead
  <2>2. j > ci => Before(ci, j) > ci /\ Before(ci, j) \in Int
    BY <1>1, <1>7
  <2>3. j >= ci + 1 => j > ci
    BY <1>1, <1>7
  <2>4. ASSUME j > ci PROVE Ahead(Before(ci, j))
    BY <2>2, <2>4 DEF Ahead
  <2>. QED  BY <2>1, <2>3, <2>4 DEF FileAhead, SendAhead
<1>23. PassInv'
  <2>1. PassInv
    BY DEF IInv
  <2>2. \A j \in Places' : (Ahead(j))' /\ clients'[j].fd \in fds'.read => clients'[j].fd \in fds'.rbuf
    BY <1>8, <1>9, <1>11, <1>22, <2>1 DEF PassInv
  <2>3. \A j \in Places' : (FileAhead(j))' => (clients'[j].file \in fds'.read <=> clients'[j].file \in fds'.rbuf)
    BY <1>1, <1>8, <1>9, <1>11, <1>22, <2>1 DEF PassInv
  <2>. QED  BY <1>2, <2>2, <2>3 DEF PassInv, Serves
<1>24. ~reused' => SetsInv'
  <2>. SUFFICES ASSUME ~reused' PROVE SetsInv'
    OBVIOUS
  <2>1. SetsInv
    BY DEF IInv
  <2>2. WaitsInv'
    <3>. SUFFICES ASSUME NEW j \in Places'
                  PROVE  (Reads(clients[j]) \/ Files(clients[j]) \/ Sends(clients[j])
                            \/ (blind /\ Idle(clients[j])))'
      BY DEF WaitsInv
    <3>1. PICK i \in Places : /\ i # ci
                              /\ clients'[j].fd = clients[i].fd /\ clients'[j].file = clients[i].file
                              /\ clients'[j].cgi = clients[i].cgi /\ clients'[j].h = clients[i].h
      BY <1>8
    <3>2. Reads(clients[i]) \/ Files(clients[i]) \/ Sends(clients[i]) \/ (blind /\ Idle(clients[i]))
      BY <2>1 DEF SetsInv, WaitsInv
    <3>3. \A x \in {clients[i].fd, clients[i].file, clients[i].cgi} :
            (x \in fds'.rbuf <=> x \in fds.rbuf) /\ (x \in fds'.wbuf <=> x \in fds.wbuf)
      BY <1>11, <3>1
    <3>. QED  BY <3>1, <3>2, <3>3 DEF Reads, Files, Sends, Idle
  <2>3. WatchInv'
    <3>. SUFFICES ASSUME NEW x \in fds'.rbuf \cup fds'.wbuf
                  PROVE  x \in left' \/ \E j \in Places' : x \in Own(clients'[j])
      BY DEF WatchInv
    <3>1. x \in left \/ \E i \in Places : x \in Own(clients[i])
      BY <1>9, <2>1 DEF SetsInv, WatchInv
    <3>2. CASE x \in left
      BY <1>13, <3>2
    <3>3. CASE x = fd
      BY <1>9, <1>13, <3>3
    <3>4. x \notin gone
      <4>1. Reads(Current) \/ Sends(Current) \/ Idle(Current)
        BY <1>1, <1>3, <2>1 DEF SetsInv, WaitsInv, Files
      <4>. QED  BY <1>9, <4>1 DEF Reads, Sends, Idle, gone
    <3>5. CASE \E i \in Places : i # ci /\ x \in Own(clients[i])
      <4>1. PICK i \in Places : i # ci /\ x \in Own(clients[i])
        BY <3>5
      <4>2. PICK j \in Places' : Before(ci, j) = i
        BY <1>7, <4>1
      <4>. QED  BY <1>8, <4>1, <4>2
    <3>. QED  BY <1>3, <1>10, <3>1, <3>2, <3>3, <3>4, <3>5
  <2>4. ReportInv'
    <3>1. ~Acting'
      <4>1. \A j \in Places' : j >= ci + 1 => Before(ci, j) # next
        BY <1>1, <1>7 DEF Before
      <4>. HIDE DEF next
      <4>. QED  BY <1>2, <1>19, <4>1 DEF Acting, Serves
    <3>2. \A j \in Places' : (FileAhead(j))' /\ clients'[j].file \in fds'.read =>
            (clients'[j].file \in fds'.write <=> clients'[j].file \in fds'.wbuf)
      BY <1>8, <1>9, <1>22, <2>1 DEF SetsInv, ReportInv
    <3>3. \A j \in Places' : (SendAhead(j))' /\ clients'[j].fd \in fds'.write =>
            /\ clients'[j].fd \in fds'.wbuf
            /\ {clients'[j].file, clients'[j].cgi} \cap (fds'.read \cup fds'.write) = {}
      BY <1>8, <1>9, <1>22, <2>1 DEF SetsInv, ReportInv
    <3>. QED  BY <3>1, <3>2, <3>3 DEF ReportInv
  <2>. QED  BY <2>2, <2>3, <2>4 DEF SetsInv
<1>. QED  BY <1>7, <1>15, <1>16, <1>17, <1>20, <1>21, <1>23, <1>24 DEF IInv

\* The end of the loop's body.
LEMMA PassTurnInv ==
  ASSUME IInv, PassTurn
  PROVE  IInv'
<1>1. /\ stop = "none" /\ pc = "expire" /\ NextClient
      /\ UNCHANGED <<net, buffer, check, stop, blind, failed, reused, mixed, served>>
  BY DEF PassTurn, Running
<1>2. CASE ~check
  <2>1. UNCHANGED <<clients, open, fds, lost, left>>
    BY <1>2 DEF PassTurn
  <2>. QED  BY <1>1, <2>1, TurnKept DEF history
<1>3. CASE check /\ ~(fds.age[Current.fd] >= TIME_OUT)
  <2>1. /\ clients' = update_active_client(clients, ci)
        /\ UNCHANGED <<open, fds, lost, left>>
    BY <1>3 DEF PassTurn
  <2>. QED  BY <1>1, <1>3, <2>1, TurnGoesOn DEF history
<1>4. CASE check /\ fds.age[Current.fd] >= TIME_OUT
  BY <1>4, TimedOut
<1>. QED  BY <1>2, <1>3, <1>4

-----------------------------------------------------------------------------
\* Every step keeps the invariant, whoever takes it.
LEMMA IInvStep == IInv /\ [Next]_vars => IInv'
<1>. SUFFICES ASSUME IInv, [Next]_vars PROVE IInv'
  OBVIOUS
<1>1. CASE Select
  BY <1>1, SelectInv
<1>2. CASE SelectFails
  BY <1>2, SelectFailsInv
<1>3. CASE NoAccept
  BY <1>3, NoAcceptInv
<1>4. CASE Accept
  BY <1>4, AcceptInv
<1>5. CASE AcceptFails
  BY <1>5, AcceptFailsInv
<1>6. CASE LoopEnds
  BY <1>6, LoopEndsInv
<1>7. CASE SkipInactive
  BY <1>7, SkipInactiveInv
<1>8. CASE NothingRead
  BY <1>8, NothingReadInv
<1>9. CASE ReadThrows
  BY <1>9, ReadThrowsInv
<1>10. CASE ReadRequest
  BY <1>10, ReadRequestInv
<1>11. CASE Match
  BY <1>11, MatchInv
<1>12. CASE Verify
  BY <1>12, VerifyInv
<1>13. CASE HandleRequest
  BY <1>13, HandleRequestInv
<1>14. CASE NoFile
  BY <1>14, NoFileInv
<1>15. CASE WriteBody
  BY <1>15, WriteBodyInv
<1>16. CASE WritingFails
  BY <1>16, FileFailsInv
<1>17. CASE ReadFile
  BY <1>17, ReadFileInv
<1>18. CASE ReadFails
  BY <1>18, FileFailsInv
<1>19. CASE OutputThrows
  BY <1>19, EndsInv
<1>20. CASE FileDone
  BY <1>20, FileDoneInv
<1>21. CASE NotWritable
  BY <1>21, NotWritableInv
<1>22. CASE SendPart
  BY <1>22, SendPartInv
<1>23. CASE SendRest
  BY <1>23, SendRestInv
<1>24. CASE SendThrows
  BY <1>24, SendThrowsInv
<1>25. CASE SigPipe
  BY <1>25, EndsInv
<1>26. CASE PassTurn
  BY <1>26, PassTurnInv
<1>27. CASE sync_maxFD
  BY <1>27, SyncInv
<1>28. CASE Peers
  BY <1>28, PeersInv
<1>29. CASE Tick
  BY <1>29, TickInv
<1>30. CASE UNCHANGED vars
  <2>1. UNCHANGED <<net, process, history>>
    BY <1>30 DEF vars
  <2>2. NetInv' /\ ClientsInv' /\ BufferInv' /\ TableInv'
    BY <2>1, Stays DEF net, process, history
  <2>3. ControlInv'
    BY <2>1 DEF IInv, ControlInv, process, history
  <2>4. TurnInv' /\ FdsInv'
    BY <2>1 DEF IInv, TurnInv, FdsInv, Places, process, history
  <2>5. stop' = "none" => PassInv'
    BY <2>1 DEF IInv, PassInv, Places, Ahead, FileAhead, net, process
  <2>6. ~reused' /\ stop' = "none" => SetsInv'
    BY <2>1 DEF IInv, SetsInv, WaitsInv, WatchInv, ReportInv, Reads, Files, Sends, Idle, Acting,
                Places, Ahead, FileAhead, SendAhead, process, history
  <2>. QED  BY <2>2, <2>3, <2>4, <2>5, <2>6 DEF IInv
<1>. QED  BY <1>1, <1>2, <1>3, <1>4, <1>5, <1>6, <1>7, <1>8, <1>9, <1>10, <1>11, <1>12, <1>13, <1>14, <1>15, <1>16, <1>17, <1>18, <1>19, <1>20, <1>21, <1>22, <1>23, <1>24, <1>25, <1>26, <1>27, <1>28, <1>29, <1>30 DEF Next, Server

\* The descriptors of clients stay descriptors, no send buffer holds more than it
\* can, and the program counter is in a step of webserver::run, for every
\* configuration and whatever the peers send.
THEOREM TypeCorrect == Spec => []TypeOK
<1>. QED  BY IInvInit, IInvStep, IInvTypes, PTL DEF Spec

\* No descriptor is lost by an error or at the end of a response: those that are
\* open are the clients' and the files of clients that were timed out.
THEOREM DescriptorsAreKept == Spec => []DescriptorsKept
<1>. QED  BY IInvInit, IInvStep, IInvDescriptors, PTL DEF Spec

\* One client at a time has its turn, somebody has it unless an error removed the
\* one that had it, and only its file is worked on.
THEOREM TurnIsHeld == Spec => []TurnHeld
<1>. QED  BY IInvInit, IInvStep, IInvTurn, PTL DEF Spec

\* What select is asked to watch is what the clients wait for: each for one thing,
\* and nothing else unless an error or a time-out left it there.
THEOREM SetsAlwaysAgree == Spec => []SetsAgree
<1>. QED  BY IInvInit, IInvStep, IInvSets, PTL DEF Spec

-----------------------------------------------------------------------------
\* Methods.

\* The two requests that get past verify_method although nothing allows them.
Excused(turn, asked, auth) ==
  \/ asked.method = "POST" /\ verify_content_type(turn.file) = ".bla"
  \/ auth /\ asked.credentials = "right" /\ turn.status = 200

\* What verify_file_location leaves is what the location allows; a request that is
\* carried out is allowed or excused.
AllowInv ==
  /\ pc = "verify" =>
       LET h == clients[ci].h
       IN \A m \in h.turn.allow : Allows(h.turn, h.asked, m)
  /\ pc = "carry" =>
       LET h == clients[ci].h
       IN h.turn.status < 301 => \/ Allows(h.turn, h.asked, h.asked.method)
                                 \/ Excused(h.turn, h.asked, clients[ci].auth)

\* What MethodsKept says of a step.
MethodsStep ==
  files' # files =>
    /\ Running("carry")
    /\ LET turn  == Current.h.turn
           asked == Current.h.asked
       IN \/ Permitted(turn, asked)
          \/ asked.method = "POST" /\ verify_content_type(turn.file) = ".bla"
          \/ Current.auth /\ asked.credentials = "right" /\ turn.status = 200

\* The files stay when the status is 301 or above, whatever page is sent for it,
\* and when the method is none of the three that change them.
LEMMA FilesStay ==
  ASSUME NEW t, NEW rq, NEW fs, NEW length, t.status \in Int,
         ~(t.status < 301) \/ rq.method \notin {"PUT", "POST", "DELETE"}
  PROVE  Outcome(Carry(t, rq, fs, length), t, rq).files = fs
<1>1. \E status, kind : Carry(t, rq, fs, length) = Done(fs, status, kind)
  <2>1. CASE ~(t.status < 301)
    <3>1. t.status >= 301
      BY <2>1
    <3>2. Carry(t, rq, fs, length) = Done(fs, t.status, "gone")
      BY <3>1 DEF Carry
    <3>. QED  BY <3>2
  <2>2. CASE t.status < 301 /\ rq.method \notin {"PUT", "POST", "DELETE"}
    <3>1. ~(t.status >= 301)
      BY <2>2
    <3>2. Carry(t, rq, fs, length)
            = IF IsCgi(t) THEN Done(fs, t.status, "script") ELSE OpenedToRead(t, fs)
      BY <2>2, <3>1 DEF Carry
    <3>. QED  BY <3>2 DEF OpenedToRead
  <2>. QED  BY <2>1, <2>2
<1>2. PICK status, kind : Carry(t, rq, fs, length) = Done(fs, status, kind)
  BY <1>1
<1>3. \A k : [Done(fs, status, kind) EXCEPT !.kind = k].files = fs
  BY DEF Done
<1>4. Done(fs, status, kind).files = fs
  BY DEF Done
<1>. HIDE DEF Done
<1>5. \A d : (d.files = fs /\ \A k : [d EXCEPT !.kind = k].files = fs) => Outcome(d, t, rq).files = fs
  BY DEF Outcome
<1>. QED  BY <1>2, <1>3, <1>4, <1>5

\* When the status is set the rest stays.
LEMMA StatusOnly ==
  ASSUME NEW t \in Turn, NEW status \in 200..417, NEW v, v = [t EXCEPT !.status = status]
  PROVE  v \in Turn /\ v.status = status /\ v.index = t.index /\ v.file = t.file
BY DEF Turn

\* A request that is not answered by an error or led elsewhere is one that the
\* handler has noted as allowed, or excused.
LEMMA Allowed ==
  ASSUME NEW t \in Turn, NEW rq, NEW auth \in BOOLEAN, NEW proved,
         proved = verify_authorization(verify_method(t, rq), rq, auth)
  PROVE  /\ proved.turn.index = t.index /\ proved.turn.file = t.file
         /\ proved.turn.status < 301 => rq.method \in t.allow \/ Excused(proved.turn, rq, proved.auth)
<1>. DEFINE allowed == verify_method(t, rq)
<1>2. 200 \in 200..417 /\ 401 \in 200..417 /\ 403 \in 200..417 /\ 405 \in 200..417
  OBVIOUS
<1>3. /\ allowed \in Turn /\ allowed.index = t.index /\ allowed.file = t.file
      /\ allowed.status < 301 => \/ rq.method \in t.allow
                                 \/ rq.method = "POST" /\ verify_content_type(t.file) = ".bla"
  <2>4. ~(405 < 301)
    OBVIOUS
  <2>1. CASE allowed = t /\ t.status \notin {301, 307}
    <3>1. CASE \/ rq.method \in t.allow
               \/ rq.method = "POST" /\ verify_content_type(t.file) = ".bla"
      BY <2>1, <3>1
    <3>2. CASE ~(\/ rq.method \in t.allow
                 \/ rq.method = "POST" /\ verify_content_type(t.file) = ".bla")
      <4>1. allowed = [t EXCEPT !.status = 405]
        BY <2>1, <3>2 DEF verify_method
      <4>2. PICK v : v = [t EXCEPT !.status = 405]
        OBVIOUS
      <4>3. v.status = 405 /\ v.index = t.index /\ v.file = t.file /\ v \in Turn
        BY <1>2, <4>2, StatusOnly
      <4>4. allowed = v
        BY <4>1, <4>2
      <4>. HIDE DEF allowed
      <4>. QED  BY <2>4, <4>3, <4>4
    <3>. QED  BY <3>1, <3>2
  <2>2. CASE allowed = t /\ t.status \in {301, 307}
    BY <2>2
  <2>3. CASE allowed = [t EXCEPT !.status = 405]
    <3>1. PICK v : v = [t EXCEPT !.status = 405]
      OBVIOUS
    <3>2. v.status = 405 /\ v.index = t.index /\ v.file = t.file /\ v \in Turn
      BY <1>2, <3>1, StatusOnly
    <3>3. allowed = v
      BY <2>3, <3>1
    <3>. HIDE DEF allowed
    <3>. QED  BY <2>4, <3>2, <3>3
  <2>. QED  BY <2>1, <2>2, <2>3 DEF verify_method
<1>. HIDE DEF allowed
<1>4. proved = verify_authorization(allowed, rq, auth)
  BY DEF allowed
<1>5. CASE Admitted(allowed, auth)
  <2>1. proved = [turn |-> allowed, auth |-> auth]
    BY <1>4, <1>5 DEF verify_authorization
  <2>2. proved.turn = allowed
    BY <2>1
  <2>. QED  BY <1>3, <2>2 DEF Excused
<1>6. CASE ~Admitted(allowed, auth)
  <2>1. \/ proved = [turn |-> [allowed EXCEPT !.status = 401], auth |-> auth]
        \/ /\ rq.credentials = "right"
           /\ proved = [turn |-> [allowed EXCEPT !.status = 200], auth |-> TRUE]
        \/ proved = [turn |-> [allowed EXCEPT !.status = 403], auth |-> FALSE]
    BY <1>4, <1>6 DEF verify_authorization
  <2>2. PICK u, v, w : /\ u = [allowed EXCEPT !.status = 401] /\ v = [allowed EXCEPT !.status = 200]
                       /\ w = [allowed EXCEPT !.status = 403]
    OBVIOUS
  <2>3. /\ u.status = 401 /\ u.index = allowed.index /\ u.file = allowed.file
        /\ v.status = 200 /\ v.index = allowed.index /\ v.file = allowed.file
        /\ w.status = 403 /\ w.index = allowed.index /\ w.file = allowed.file
    BY <1>2, <1>3, <2>2, StatusOnly
  <2>4. ~(401 < 301) /\ ~(403 < 301)
    OBVIOUS
  <2>5. \/ proved = [turn |-> u, auth |-> auth]
        \/ rq.credentials = "right" /\ proved = [turn |-> v, auth |-> TRUE]
        \/ proved = [turn |-> w, auth |-> FALSE]
    BY <2>1, <2>2
  <2>6. CASE proved = [turn |-> u, auth |-> auth]
    BY <1>3, <2>3, <2>4, <2>6
  <2>7. CASE rq.credentials = "right" /\ proved = [turn |-> v, auth |-> TRUE]
    <3>1. proved.turn = v /\ proved.auth = TRUE
      BY <2>7
    <3>. QED  BY <1>3, <2>3, <2>7, <3>1 DEF Excused
  <2>8. CASE proved = [turn |-> w, auth |-> FALSE]
    <3>1. proved.turn = w
      BY <2>8
    <3>. QED  BY <1>3, <2>3, <2>4, <3>1
  <2>. QED  BY <2>5, <2>6, <2>7, <2>8
<1>. QED  BY <1>5, <1>6

\* The invariant is kept: pc comes to "verify" by Match and to "carry" by Verify only.
LEMMA AllowInvStep == IInv /\ AllowInv /\ [Next]_vars => AllowInv'
<1>. SUFFICES ASSUME IInv, AllowInv, [Next]_vars PROVE AllowInv'
  OBVIOUS
<1>1. CASE Match
  <2>1. stop = "none" /\ pc = "match" /\ pc' = "verify" /\ ci' = ci
    BY <1>1 DEF Match, Running
  <2>2. ci \in Places /\ clients \in Seq(ClientType)
    BY <2>1 DEF IInv, TurnInv, Serves, ClientsInv
  <2>3. /\ Current = clients[ci] /\ Current \in ClientType /\ Current.h \in Handler
        /\ Current.h.asked \in Asked /\ Current.h.asked.uri # <<>>
    BY <2>2, ServedClient
  <2>4. PICK stale, turn :
          /\ turn = verify_file_location(
                match_location_block(FilesIn(Current.h.asked, files, stale), Current.h.asked), Current.h.asked)
          /\ clients' = [clients EXCEPT ![ci].h.turn = turn]
    BY <1>1 DEF Match
  <2>5. clients'[ci] = [Current EXCEPT !.h = [Current.h EXCEPT !.turn = turn]]
    <3>1. clients' = [clients EXCEPT ![ci] = [Current EXCEPT !.h = [Current.h EXCEPT !.turn = turn]]]
      BY <2>4 DEF Current
    <3>. QED  BY <2>2, <3>1, ExceptSeq DEF Places
  <2>6. clients'[ci].h.turn = turn /\ clients'[ci].h.asked = Current.h.asked
    <3>1. PICK h : h = [Current.h EXCEPT !.turn = turn]
      OBVIOUS
    <3>2. h.turn = turn /\ h.asked = Current.h.asked
      BY <2>3, <3>1 DEF Handler
    <3>3. clients'[ci].h = h
      BY <2>3, <2>5, <3>1 DEF ClientType
    <3>. QED  BY <3>2, <3>3
  <2>7. \A m \in turn.allow : Allows(turn, Current.h.asked, m)
    BY <2>3, <2>4, MatchAllows
  <2>. QED  BY <2>1, <2>6, <2>7 DEF AllowInv
<1>2. CASE Verify
  <2>1. stop = "none" /\ pc = "verify" /\ pc' = "carry" /\ ci' = ci
    BY <1>2 DEF Verify, Running
  <2>2. ci \in Places /\ clients \in Seq(ClientType)
    BY <2>1 DEF IInv, TurnInv, Serves, ClientsInv
  <2>3. Current = clients[ci] /\ Current \in ClientType /\ Current.h \in Handler
    BY <2>2, ServedClient
  <2>4. Current.h.turn \in Turn /\ Current.auth \in BOOLEAN
    BY <2>3 DEF Handler, ClientType
  <2>5. PICK proved :
          /\ proved = verify_authorization(verify_method(Current.h.turn, Current.h.asked),
                                           Current.h.asked, Current.auth)
          /\ clients' = [clients EXCEPT ![ci].h.turn = proved.turn, ![ci].auth = proved.auth]
    BY <1>2 DEF Verify
  <2>6. clients'[ci] = [Current EXCEPT !.h = [Current.h EXCEPT !.turn = proved.turn], !.auth = proved.auth]
    <3>1. clients' = [clients EXCEPT ![ci] =
            [Current EXCEPT !.h = [Current.h EXCEPT !.turn = proved.turn], !.auth = proved.auth]]
      BY <2>5 DEF Current
    <3>. QED  BY <2>2, <3>1, ExceptSeq DEF Places
  <2>7. /\ clients'[ci].h.turn = proved.turn /\ clients'[ci].auth = proved.auth
        /\ clients'[ci].h.asked = Current.h.asked
    <3>1. PICK h : h = [Current.h EXCEPT !.turn = proved.turn]
      OBVIOUS
    <3>2. h.turn = proved.turn /\ h.asked = Current.h.asked
      BY <2>3, <3>1 DEF Handler
    <3>3. clients'[ci].h = h /\ clients'[ci].auth = proved.auth
      BY <2>3, <2>6, <3>1 DEF ClientType
    <3>. QED  BY <3>2, <3>3
  <2>8. PICK turn, asked, auth : turn = Current.h.turn /\ asked = Current.h.asked /\ auth = proved.auth
    OBVIOUS
  <2>9. /\ proved.turn.index = turn.index /\ proved.turn.file = turn.file
        /\ proved.turn.status < 301 => asked.method \in turn.allow \/ Excused(proved.turn, asked, auth)
    BY <2>4, <2>5, <2>8, Allowed
  <2>10. \A m \in turn.allow : Allows(turn, asked, m)
    BY <2>1, <2>3, <2>8 DEF AllowInv
  <2>11. \A m : Allows(turn, asked, m) => Allows(proved.turn, asked, m)
    BY <2>9 DEF Allows
  <2>. QED  BY <2>1, <2>7, <2>8, <2>9, <2>10, <2>11 DEF AllowInv
<1>3. CASE Server /\ ~Match /\ ~Verify
  <2>1. pc' \in {"verify", "carry"} => UNCHANGED <<pc, clients, ci>>
    BY <1>3 DEF Server, Select, SelectFails, NoAccept, Accept, AcceptFails, LoopEnds, SkipInactive,
                NothingRead, ReadThrows, ReadRequest, ReadPart, ParseThrows, Parsed, NoFile,
                HandleRequest, HandleGone, HandleNowhere, HandleFile, HandleScript, OpenFails,
                InputFails, clean_up_after_error, NextClient,
                WriteBody, WritingFails, ReadFile, ReadFails, OutputThrows, FileDone, NotWritable,
                SendPart, SendRest, SendThrows, SigPipe, PassTurn, sync_maxFD
  <2>. QED  BY <2>1 DEF AllowInv
<1>4. CASE Peers \/ Tick \/ UNCHANGED vars
  <2>1. UNCHANGED <<pc, clients, ci>>
    BY <1>4 DEF Peers, Tick, Connect, PeerSends, PeerReads, PeerShuts, PeerResets, process, vars
  <2>. QED  BY <2>1 DEF AllowInv
<1>. QED  BY <1>1, <1>2, <1>3, <1>4 DEF Next

\* Every step does what MethodsKept says.
LEMMA MethodsStepHolds == IInv /\ AllowInv /\ [Next]_vars => [MethodsStep]_vars
<1>. SUFFICES ASSUME IInv, AllowInv, Next PROVE MethodsStep
  OBVIOUS
<1>1. CASE HandleRequest
  <2>1. stop = "none" /\ pc = "carry"
    BY <1>1 DEF HandleRequest, Running
  <2>2. ci \in Places
    BY <2>1 DEF IInv, TurnInv, Serves
  <2>3. Current = clients[ci] /\ Current.h.turn.status \in Int
    <3>1. Current = clients[ci] /\ Current.h \in Handler
      BY <2>2, ServedClient
    <3>2. Current.h.turn \in Turn
      BY <3>1 DEF Handler
    <3>3. Current.h.turn.status \in 200..417
      BY <3>2 DEF Turn
    <3>. QED  BY <3>1, <3>3
  <2>4. PICK turn, asked, auth : turn = Current.h.turn /\ asked = Current.h.asked /\ auth = Current.auth
    OBVIOUS
  <2>5. PICK done : /\ done = Outcome(Carry(turn, asked, files, Len(Current.h.body)), turn, asked)
                    /\ files' = done.files \/ files' = files
    BY <1>1, <2>4 DEF HandleRequest, HandleGone, HandleNowhere, HandleFile, HandleScript, OpenFails, InputFails
  <2>6. files' # files => turn.status < 301 /\ asked.method \in {"PUT", "POST", "DELETE"}
    BY <2>3, <2>4, <2>5, FilesStay
  <2>7. turn.status < 301 => Allows(turn, asked, asked.method) \/ Excused(turn, asked, auth)
    BY <2>1, <2>3, <2>4 DEF AllowInv
  <2>8. asked.method # "GET" /\ Allows(turn, asked, asked.method) => Permitted(turn, asked)
    BY DEF Allows, Permitted
  <2>. QED  BY <2>1, <2>4, <2>6, <2>7, <2>8 DEF MethodsStep, Running, Excused
<1>2. CASE Server /\ ~HandleRequest
  <2>1. files' = files
    BY <1>2 DEF Server, Select, SelectFails, NoAccept, Accept, AcceptFails, LoopEnds, SkipInactive,
                NothingRead, ReadThrows, ReadRequest, ReadPart, ParseThrows, Parsed, Match, Verify, NoFile,
                WriteBody, WritingFails, ReadFile, ReadFails, OutputThrows, FileDone, NotWritable,
                SendPart, SendRest, SendThrows, SigPipe, PassTurn, sync_maxFD, net
  <2>. QED  BY <2>1 DEF MethodsStep
<1>3. CASE Peers \/ Tick
  <2>1. files' = files
    BY <1>3 DEF Peers, Tick, Connect, PeerSends, PeerReads, PeerShuts, PeerResets, net
  <2>. QED  BY <2>1 DEF MethodsStep
<1>. QED  BY <1>1, <1>2, <1>3 DEF Next

\* Files change only for a request whose location allows its method, for DELETE of
\* a page of errors, for POST of a .bla, or for the request with which a client
\* proves itself (match_location_block, verify_method, verify_authorization,
\* handle_request).
THEOREM MethodsAreKept == Spec => MethodsKept
<1>1. [MethodsStep]_vars <=>
        [files' # files =>
           /\ Running("carry")
           /\ LET turn  == Current.h.turn
                  asked == Current.h.asked
              IN \/ Permitted(turn, asked)
                 \/ asked.method = "POST" /\ verify_content_type(turn.file) = ".bla"
                 \/ Current.auth /\ asked.credentials = "right" /\ turn.status = 200]_vars
  BY DEF MethodsStep
<1>2. Init => AllowInv
  BY DEF Init, AllowInv
<1>. QED  BY <1>1, <1>2, IInvInit, IInvStep, AllowInvStep, MethodsStepHolds, PTL DEF Spec, MethodsKept

-----------------------------------------------------------------------------
\* Whose request is handed over: the connections, what was written to them and
\* what has come from them.

\* No connection has two descriptors or waits twice to be accepted.
OnceInv ==
  /\ served \in [Conns -> Nat]
  /\ \A x, y \in DOMAIN open : open[x] = open[y] /\ open[x] # "file" => x = y
  /\ \A i, j \in 1..Len(backlog) : backlog[i] = backlog[j] => i = j
  /\ \A x \in DOMAIN open : \A i \in 1..Len(backlog) : open[x] # backlog[i]
  /\ \A c \in Conns : peer[c].st = "out" =>
       /\ \A x \in DOMAIN open : open[x] # c
       /\ \A i \in 1..Len(backlog) : backlog[i] # c

\* The steps in which a request is at hand.
Handles == {"match", "verify", "carry"}

\* What was written to a connection, in the unit of RLEN.
Given(c) == RLEN * peer[c].answers + peer[c].got + unread[c]

\* What a client has been given while its response is made, and while it is sent.
PaidFor(k) ==
  LET c == open[k.fd]
  IN /\ k.file \in fds.rbuf => Given(c) <= RLEN * (served[c] - 1)
     /\ k.fd \in fds.wbuf => Given(c) <= RLEN * (served[c] - 1) + k.h.written

\* There are no more answers than requests that were handed over.
PaidInv ==
  /\ \A c \in Conns : Given(c) <= RLEN * served[c]
  /\ \A i \in Places : PaidFor(clients[i])
  /\ pc \in Handles => LET c == open[clients[ci].fd] IN Given(c) <= RLEN * (served[c] - 1)

\* The bytes r of a connection are those of nothing, of the request the peer has
\* come to, or of what follows it when it was handed over.
Coming(c, r) ==
  LET wire == script[c][peer[c].req].wire
  IN /\ served[c] = peer[c].req - 1
     /\ \E lead \in Leads : r = Gathered(wire, lead, peer[c].seg)
Over(c, r) ==
  LET wire == script[c][peer[c].req].wire
  IN /\ served[c] = peer[c].req
     /\ \/ peer[c].seg = Len(wire) /\ \E lead \in Leads : r = Collected(NewBuffer, lead)
        \/ /\ peer[c].seg = Len(wire) - 1 /\ wire[Len(wire)] = <<"NL">>
           /\ r = Collected(NewBuffer, <<>>)
Underway(c, r) ==
  \/ peer[c].req = 1 /\ peer[c].seg = 0 /\ served[c] = 0 /\ r = NewBuffer
  \/ /\ peer[c].req \in 1..Len(script[c])
     /\ peer[c].seg \in 1..Len(script[c][peer[c].req].wire)
     /\ Coming(c, r) \/ Over(c, r)

Held(fd) == IF fd \in DOMAIN buffer THEN buffer[fd] ELSE NewBuffer

\* What the server has and has not read of a connection is of one request.
OwnInv ==
  /\ \A x \in DOMAIN open : \A c \in Conns \ mixed :
       open[x] = c => \A r : r = Collected(Held(x), inbox[c]) => Underway(c, r)
  /\ \A i \in 1..Len(backlog) : \A c \in Conns :
       backlog[i] = c => \A r : r = Collected(NewBuffer, inbox[c]) => Underway(c, r)
  /\ \A c \in Conns : peer[c].st = "out" =>
       peer[c].req = 1 /\ peer[c].seg = 0 /\ served[c] = 0 /\ inbox[c] = <<>>

\* A connection has sent the right credentials with a request it has made.
Proved(c) == \E q \in 1..served[c] : script[c][q].asked.credentials = "right"

\* What is at hand is what the connection has asked for; who is known to have
\* proved itself has; and what needs it is done for nobody else.
AuthInv ==
  /\ \A i \in Places : LET c == open[clients[i].fd]
                       IN clients[i].auth /\ c \notin mixed => Proved(c)
  /\ pc \in Handles =>
       LET c == open[clients[ci].fd]
       IN c \notin mixed => /\ served[c] \in 1..Len(script[c])
                            /\ clients[ci].h.asked = script[c][served[c]].asked
  /\ pc = "carry" =>
       LET turn == clients[ci].h.turn
       IN turn.index # 0 /\ turn.status < 300 =>
            Blocks[turn.index].auth_basic = "off" \/ clients[ci].auth

JInv ==
  /\ IInv /\ OnceInv
  /\ ~reused /\ stop = "none" => PaidInv /\ OwnInv
  /\ ~reused => AuthInv

\* The invariant begins with nobody connected.
LEMMA JInvInit == Init => JInv
<1>. SUFFICES ASSUME Init PROVE JInv
  OBVIOUS
<1>1. NetInv /\ Places = {} /\ pc = "select" /\ DOMAIN open = {} /\ backlog = <<>>
  BY IInvInit DEF Init, IInv, Places
<1>2. OnceInv
  BY <1>1 DEF Init, OnceInv
<1>3. PaidInv
  <2>1. \A c \in Conns : Given(c) = 0 /\ served[c] = 0
    BY <1>1, SelectLoopAssumption DEF Init, Given
  <2>2. \A c \in Conns : Given(c) <= RLEN * served[c]
    BY <2>1, SelectLoopAssumption
  <2>. QED  BY <1>1, <2>2 DEF PaidInv, Handles
<1>4. OwnInv
  BY <1>1 DEF Init, OwnInv
<1>5. AuthInv
  BY <1>1 DEF AuthInv, Handles
<1>. QED  BY IInvInit, <1>2, <1>3, <1>4, <1>5 DEF JInv

-----------------------------------------------------------------------------
\* What is gathered of a request.

\* Nothing collected is nothing.
LEMMA NewIs == /\ NewBuffer \in RequestBuf /\ Collected(NewBuffer, <<>>) = NewBuffer
               /\ Leads \subseteq Seq(Token)
<1>1. NewBuffer \in RequestBuf
  BY EmptySeq DEF NewBuffer, RequestBuf
<1>2. <<>> \o <<>> = <<>> /\ 1..Len(<<>>) = {}
  OBVIOUS
<1>3. HeaderEnd(<<>>) = 0
  BY <1>2 DEF HeaderEnd
<1>4. Collected(NewBuffer, <<>>) = [NewBuffer EXCEPT !.headers = <<>>]
  BY <1>2, <1>3 DEF Collected, headers_received, add_header_data, NewBuffer
<1>5. <<"NL">> \in Seq(Token) /\ <<>> \in Seq(Token)
  BY DEF Token
<1>. QED  BY <1>1, <1>4, <1>5 DEF NewBuffer, Leads

\* What is collected without anything new is what was collected.
LEMMA CollectsNothing ==
  ASSUME NEW r \in RequestBuf, NEW x \in Seq(Token)
  PROVE  Collected(Collected(r, x), <<>>) = Collected(r, x)
<1>1. <<>> \in Seq(Token) /\ x \o <<>> = x
  OBVIOUS
<1>. QED  BY <1>1, CollectedTogether

\* What is gathered is collected segment by segment.
LEMMA GatheredIs ==
  ASSUME NEW wire \in Seq(Seq(Token)), NEW lead \in Leads
  PROVE  /\ Gathered(wire, lead, 0) = Collected(NewBuffer, lead)
         /\ \A k \in 1..Len(wire) :
              Gathered(wire, lead, k) = Collected(Gathered(wire, lead, k - 1), wire[k])
         /\ \A k \in 0..Len(wire) : Gathered(wire, lead, k) \in RequestBuf
<1>. DEFINE n     == Len(wire)
            base  == Collected(NewBuffer, lead)
            at    == CHOOSE f : f = [i \in 0..n |-> IF i = 0 THEN base ELSE Collected(f[i - 1], wire[i])]
            step  == [i \in 1..n |-> [b \in RequestBuf |-> Collected(b, wire[i])]]
<1>1. n \in Nat /\ \A i \in 1..n : wire[i] \in Seq(Token)
  BY ElementOfSeq, LenProperties
<1>2. base \in RequestBuf
  BY NewIs, CollectedType
<1>3. step \in Steps(n, RequestBuf)
  BY <1>1, CollectedType DEF Steps
<1>4. \A k : Gathered(wire, lead, k) = at[k]
  BY DEF Gathered
<1>. HIDE DEF n, step, base
<1>5. PICK g \in [0..n -> RequestBuf] : Follows(g, base, step, n)
  BY <1>1, <1>2, <1>3, StepByStep
<1>6. g = [i \in 0..n |-> IF i = 0 THEN base ELSE Collected(g[i - 1], wire[i])]
  <2>1. \A i \in 0..n : g[i] = IF i = 0 THEN base ELSE Collected(g[i - 1], wire[i])
    <3>. TAKE i \in 0..n
    <3>1. CASE i = 0
      BY <1>5, <3>1 DEF Follows
    <3>2. CASE i # 0
      <4>1. i \in 1..n /\ i - 1 \in 0..n
        BY <1>1, <3>2
      <4>2. g[i - 1] \in RequestBuf /\ g[i] = step[i][g[i - 1]]
        BY <1>5, <4>1 DEF Follows
      <4>3. g[i] = Collected(g[i - 1], wire[i])
        BY <4>1, <4>2 DEF step
      <4>. QED  BY <3>2, <4>3
    <3>. QED  BY <3>1, <3>2
  <2>. QED  BY <2>1
<1>7. at = [i \in 0..n |-> IF i = 0 THEN base ELSE Collected(at[i - 1], wire[i])]
  BY <1>6
<1>. HIDE DEF at
<1>8. at[0] = base
  BY <1>1, <1>7
<1>9. \A i \in 1..n : at[i] = Collected(at[i - 1], wire[i])
  BY <1>1, <1>7
<1>. DEFINE P == {i \in 0..n : at[i] \in RequestBuf}
<1>10. 0 \in P
  BY <1>1, <1>2, <1>8
<1>11. \A i \in 1..n : i - 1 \in P => i \in P
  BY <1>1, <1>9, CollectedType
<1>12. \A i \in 0..n : i \in P
  <2>. HIDE DEF P
  <2>. QED  BY <1>1, <1>10, <1>11, UpTo
<1>. QED  BY <1>4, <1>8, <1>9, <1>12 DEF n, base

\* A request of a script.
LEMMA RequestIs ==
  ASSUME NetInv, NEW c \in Conns
  PROVE  /\ Len(script[c]) \in Nat
         /\ \A q \in 1..Len(script[c]) :
              LET wire == script[c][q].wire
              IN /\ wire \in Seq(Seq(Token)) /\ Len(wire) \in Nat \ {0}
                 /\ \A k \in 1..Len(wire) : wire[k] \in Seq(Token)
<1>1. script[c] \in Seq(Request)
  BY SelectLoopAssumption DEF NetInv
<1>2. Len(script[c]) \in Nat /\ \A q \in 1..Len(script[c]) : script[c][q] \in Request
  BY <1>1, ElementOfSeq, LenProperties
<1>3. \A w \in Seq(Seq(Token)) \ {<<>>} : Len(w) \in Nat \ {0} /\ \A k \in 1..Len(w) : w[k] \in Seq(Token)
  OBVIOUS
<1>4. \A rq \in Request : rq.wire \in Seq(Seq(Token)) \ {<<>>}
  BY DEF Request
<1>. QED  BY <1>2, <1>3, <1>4

-----------------------------------------------------------------------------
\* The peers, and what they are owed.

\* What is under way does not depend on anything else.
LEMMA UnderwayStays ==
  ASSUME NEW c, NEW r, Underway(c, r), script' = script, served'[c] = served[c],
         peer'[c].req = peer[c].req, peer'[c].seg = peer[c].seg
  PROVE  Underway(c, r)'
BY DEF Underway, Coming, Over

\* A segment that is sent continues what is under way; a new request is begun
\* when the one before it was handed over, since its answer was written.
LEMMA SegmentSent ==
  ASSUME NetInv, NEW c \in Conns, PeerSends(c), served[c] \in Nat, Given(c) <= RLEN * served[c],
         NEW b \in RequestBuf, Underway(c, Collected(b, inbox[c])),
         NEW r, r = Collected(b, inbox'[c])
  PROVE  Underway(c, r)'
<1>. DEFINE p    == peer[c]
            wire == script[c][p.req].wire
            more == p.seg < Len(wire)
            old  == Collected(b, inbox[c])
<1>1. /\ p \in PeerType /\ p.req \in Nat \ {0} /\ p.seg \in Nat /\ inbox[c] \in Seq(Token)
      /\ p.req <= Len(script[c]) /\ p.req \in 1..Len(script[c])
      /\ peer \in [Conns -> PeerType] /\ inbox \in [Conns -> Seq(Token)]
      /\ script' = script /\ served' = served
  <2>1. p \in PeerType /\ inbox[c] \in Seq(Token) /\ peer \in [Conns -> PeerType] /\ inbox \in [Conns -> Seq(Token)]
    BY DEF NetInv
  <2>2. p.req \in Nat \ {0} /\ p.seg \in Nat
    BY <2>1 DEF PeerType
  <2>3. p.req <= Len(script[c]) /\ script' = script /\ served' = served
    BY DEF PeerSends, history
  <2>4. p.req \in 1..Len(script[c])
    BY <2>2, <2>3, RequestIs
  <2>. QED  BY <2>1, <2>2, <2>3, <2>4
<1>2. /\ wire \in Seq(Seq(Token)) /\ Len(wire) \in Nat \ {0}
      /\ \A k \in 1..Len(wire) : wire[k] \in Seq(Token)
  BY <1>1, RequestIs
<1>5. \A req, seg : LET new == [peer EXCEPT ![c].req = req, ![c].seg = seg]
                    IN new[c].req = req /\ new[c].seg = seg
  BY <1>1 DEF PeerType
<1>3. CASE more
  <2>1. /\ peer'[c].req = p.req /\ peer'[c].seg = p.seg + 1
        /\ inbox'[c] = inbox[c] \o wire[p.seg + 1]
    <3>1. /\ peer' = [peer EXCEPT ![c].req = p.req, ![c].seg = p.seg + 1]
          /\ inbox' = [inbox EXCEPT ![c] = @ \o script[c][p.req].wire[p.seg + 1]]
      BY <1>3 DEF PeerSends
    <3>2. inbox'[c] = inbox[c] \o wire[p.seg + 1]
      BY <1>1, <3>1
    <3>. HIDE DEF p, wire, more
    <3>. QED  BY <1>5, <3>1, <3>2
  <2>2. p.seg + 1 \in 1..Len(wire) /\ wire[p.seg + 1] \in Seq(Token) /\ p.seg \in 0..Len(wire)
    <3>1. Len(wire) \in Nat /\ p.seg \in Nat /\ p.seg < Len(wire)
      BY <1>1, <1>2, <1>3
    <3>2. p.seg + 1 \in 1..Len(wire) /\ p.seg \in 0..Len(wire)
      BY <3>1
    <3>. QED  BY <1>2, <3>2
  <2>. HIDE DEF more, wire, old
  <2>3. r = Collected(old, wire[p.seg + 1])
    BY <1>1, <2>1, <2>2, CollectedTogether DEF old
  <2>4. script'[c][peer'[c].req].wire = wire /\ script'[c] = script[c]
    BY <1>1, <2>1 DEF wire
  <2>5. ASSUME NEW lead \in Leads, old = Gathered(wire, lead, p.seg), served[c] = p.req - 1
        PROVE  Underway(c, r)'
    <3>1. r = Gathered(wire, lead, p.seg + 1)
      <4>1. (p.seg + 1) - 1 = p.seg
        BY <1>1
      <4>. QED  BY <1>2, <2>2, <2>3, <2>5, <4>1, GatheredIs
    <3>2. Coming(c, r)'
      BY <1>1, <2>1, <2>4, <2>5, <3>1 DEF Coming
    <3>. QED  BY <1>1, <2>1, <2>2, <2>4, <3>2 DEF Underway
  <2>6. CASE p.req = 1 /\ p.seg = 0 /\ served[c] = 0 /\ old = NewBuffer
    <3>1. <<>> \in Leads /\ old = Gathered(wire, <<>>, 0)
      BY <1>2, <2>6, NewIs, GatheredIs DEF Leads
    <3>. QED  BY <2>5, <2>6, <3>1
  <2>7. CASE Coming(c, old)
    BY <2>5, <2>7 DEF Coming, wire
  <2>8. CASE Over(c, old)
    <3>1. p.seg # Len(wire)
      BY <1>1, <1>2, <1>3 DEF more
    <3>2. /\ served[c] = p.req /\ p.seg = Len(wire) - 1 /\ wire[Len(wire)] = <<"NL">>
          /\ old = Collected(NewBuffer, <<>>)
      BY <2>8, <3>1 DEF Over, wire
    <3>3. p.seg + 1 = Len(wire)
      BY <1>1, <1>2, <3>2
    <3>4. r = Collected(NewBuffer, <<"NL">>) /\ <<"NL">> \in Leads
      BY <2>3, <3>2, <3>3, NewIs DEF Leads
    <3>5. Over(c, r)'
      BY <1>1, <2>1, <2>4, <3>2, <3>3, <3>4 DEF Over
    <3>. QED  BY <1>1, <2>1, <2>2, <2>4, <3>5 DEF Underway
  <2>. QED  BY <2>6, <2>7, <2>8 DEF Underway, old
<1>4. CASE ~more
  <2>1. /\ Answered(c) /\ p.req < Len(script[c])
        /\ peer'[c].req = p.req + 1 /\ peer'[c].seg = 1
        /\ inbox'[c] = inbox[c] \o script[c][p.req + 1].wire[1]
    <3>1. /\ peer' = [peer EXCEPT ![c].req = p.req + 1, ![c].seg = 1]
          /\ inbox' = [inbox EXCEPT ![c] = @ \o script[c][p.req + 1].wire[1]]
          /\ Answered(c) /\ p.req < Len(script[c])
      BY <1>4 DEF PeerSends
    <3>2. inbox'[c] = inbox[c] \o script[c][p.req + 1].wire[1]
      BY <1>1, <3>1
    <3>. HIDE DEF p, wire, more
    <3>. QED  BY <1>5, <3>1, <3>2
  <2>. DEFINE next == script[c][p.req + 1].wire
  <2>2. p.req + 1 \in 1..Len(script[c])
    BY <1>1, <2>1, RequestIs
  <2>3. next \in Seq(Seq(Token)) /\ Len(next) \in Nat \ {0} /\ next[1] \in Seq(Token) /\ 1 \in 1..Len(next)
    BY <2>2, RequestIs
  <2>4. script'[c][peer'[c].req].wire = next /\ script'[c] = script[c]
    BY <1>1, <2>1
  <2>. HIDE DEF more, wire, old, next
  <2>5. served[c] >= p.req
    <3>1. RLEN * p.req <= RLEN * served[c]
      <4>1. RLEN \in Nat \ {0} /\ unread[c] \in Int /\ p.answers \in Nat /\ p.got \in Int
        BY <1>1, SelectLoopAssumption DEF NetInv, PeerType
      <4>2. Given(c) \in Int /\ Given(c) >= RLEN * p.req
        BY <1>1, <2>1, <4>1 DEF Answered, Given
      <4>. QED  BY <1>1, <4>1, <4>2
    <3>. QED  BY <1>1, <3>1, SelectLoopAssumption
  <2>6. Over(c, old)
    <3>1. ~(p.req = 1 /\ p.seg = 0 /\ served[c] = 0 /\ old = NewBuffer)
      BY <1>1, <2>5
    <3>2. ~Coming(c, old)
      BY <1>1, <2>5 DEF Coming
    <3>. QED  BY <3>1, <3>2 DEF Underway, old
  <2>7. served[c] = p.req /\ \E lead \in Leads : old = Collected(NewBuffer, lead)
    BY <1>1, <2>6, <1>2 DEF Over, wire, Leads
  <2>8. r = Collected(old, next[1])
    BY <1>1, <2>1, <2>3, CollectedTogether DEF old, next
  <2>9. PICK lead \in Leads : old = Collected(NewBuffer, lead)
    BY <2>7
  <2>10. r = Gathered(next, lead, 1)
    <3>1. 1 - 1 = 0
      OBVIOUS
    <3>. QED  BY <2>3, <2>8, <2>9, <3>1, GatheredIs
  <2>11. Coming(c, r)'
    BY <1>1, <2>1, <2>4, <2>7, <2>10 DEF Coming
  <2>. QED  BY <1>1, <2>1, <2>2, <2>3, <2>4, <2>11 DEF Underway
<1>. QED  BY <1>3, <1>4

-----------------------------------------------------------------------------
\* Steps that leave a connection's bytes and requests as they are.

\* Nobody comes, nothing comes, and the descriptors that stay are the same.
LEMMA NetQuiet ==
  ASSUME NetInv, OnceInv, UNCHANGED <<script, inbox, backlog, buffer, mixed, served>>,
         \A c \in Conns : /\ peer'[c].req = peer[c].req /\ peer'[c].seg = peer[c].seg
                          /\ peer'[c].st = "out" <=> peer[c].st = "out",
         \A x \in DOMAIN open' : open'[x] # "file" => x \in DOMAIN open /\ open'[x] = open[x]
  PROVE  OnceInv' /\ (OwnInv => OwnInv')
<1>. DEFINE Out(c) == peer[c].st = "out"
<1>1. OnceInv'
  <2>1. \A c \in Conns : c # "file"
    BY SelectLoopAssumption
  <2>2. \A c \in Conns : Out(c)' => Out(c)
    OBVIOUS
  <2>3. \A x, y \in DOMAIN open' : open'[x] = open'[y] /\ open'[x] # "file" => x = y
    BY DEF OnceInv
  <2>4. \A x \in DOMAIN open' : \A i \in 1..Len(backlog) : open'[x] # backlog[i]
    <3>1. \A i \in 1..Len(backlog) : backlog[i] # "file"
      BY <2>1, ElementOfSeq, LenProperties DEF NetInv
    <3>. QED  BY <3>1 DEF OnceInv
  <2>. HIDE DEF Out
  <2>5. \A c \in Conns : Out(c)' => /\ \A x \in DOMAIN open' : open'[x] # c
                                    /\ \A i \in 1..Len(backlog) : backlog[i] # c
    BY <2>1, <2>2 DEF OnceInv, Out
  <2>. QED  BY <2>3, <2>4, <2>5 DEF OnceInv, Out
<1>2. \A c \in Conns : \A r : Underway(c, r) => Underway(c, r)'
  BY UnderwayStays
<1>3. ASSUME OwnInv PROVE OwnInv'
  <2>1. \A c \in Conns : c # "file"
    BY SelectLoopAssumption
  <2>2. \A x : Held(x)' = Held(x)
    BY DEF Held
  <2>3. \A x \in DOMAIN open' : \A c \in Conns \ mixed :
          open'[x] = c => \A r : r = Collected(Held(x), inbox[c]) => Underway(c, r)'
    BY <1>2, <1>3, <2>1 DEF OwnInv
  <2>4. \A i \in 1..Len(backlog) : \A c \in Conns :
          backlog[i] = c => \A r : r = Collected(NewBuffer, inbox[c]) => Underway(c, r)'
    BY <1>2, <1>3 DEF OwnInv
  <2>5. \A c \in Conns : peer'[c].st = "out" =>
          peer'[c].req = 1 /\ peer'[c].seg = 0 /\ served[c] = 0 /\ inbox[c] = <<>>
    BY <1>3 DEF OwnInv
  <2>. QED  BY <2>2, <2>3, <2>4, <2>5 DEF OwnInv
<1>. QED  BY <1>1, <1>3

\* What a client has been given is bounded as before.
LEMMA PaidSame ==
  ASSUME NEW i, NEW j, clients'[j].fd = clients[i].fd, clients'[j].file = clients[i].file,
         clients'[j].h.written = clients[i].h.written,
         NEW c, c = open[clients[i].fd], c = open'[clients[i].fd], Given(c)' = Given(c), served' = served,
         clients[i].file \in fds'.rbuf => clients[i].file \in fds.rbuf,
         clients[i].fd \in fds'.wbuf => clients[i].fd \in fds.wbuf
  PROVE  PaidFor(clients[i]) => PaidFor(clients[j])'
BY DEF PaidFor

\* The connection of a client.
LEMMA ConnectionOf ==
  IInv => \A i \in Places : clients[i].fd \in DOMAIN open /\ open[clients[i].fd] \in Conns
BY OwnApart DEF IInv, TableInv

\* No request is at hand behind the step, and each client that is left is one
\* that was there.
LEMMA Quiet ==
  ASSUME JInv, IInv', stop = "none", reused => reused', pc' \notin Handles,
         UNCHANGED <<script, peer, inbox, unread, backlog, buffer, mixed, served>>,
         \A x \in DOMAIN open' : open'[x] # "file" => x \in DOMAIN open /\ open'[x] = open[x],
         \A j \in Places' : \E i \in Places :
           /\ clients'[j].fd = clients[i].fd /\ clients'[j].auth = clients[i].auth
           /\ ~reused' => (PaidFor(clients[i]) => PaidFor(clients[j])')
  PROVE  JInv'
<1>1. OnceInv' /\ (OwnInv => OwnInv')
  BY NetQuiet DEF JInv, IInv
<1>2. \A j \in Places' : open'[clients'[j].fd] = open[clients'[j].fd]
  <2>1. (\A i \in Places : clients[i].fd \in DOMAIN open /\ open[clients[i].fd] \in Conns)'
    BY ConnectionOf, PTL
  <2>. QED  BY <2>1, SelectLoopAssumption
<1>3. ~reused' /\ stop' = "none" => PaidInv' /\ OwnInv'
  <2>. SUFFICES ASSUME ~reused' PROVE PaidInv' /\ OwnInv'
    OBVIOUS
  <2>1. \A c : Given(c)' = Given(c)
    BY DEF Given
  <2>2. PaidInv /\ OwnInv
    BY DEF JInv
  <2>. QED  BY <1>1, <2>1, <2>2 DEF PaidInv
<1>4. ~reused' => AuthInv'
  <2>1. \A c : Proved(c)' = Proved(c)
    BY DEF Proved
  <2>. SUFFICES ASSUME ~reused' PROVE AuthInv'
    OBVIOUS
  <2>2. AuthInv
    BY DEF JInv
  <2>3. pc' # "carry"
    BY DEF Handles
  <2>. QED  BY <1>2, <2>1, <2>2, <2>3 DEF AuthInv
<1>. QED  BY <1>1, <1>3, <1>4 DEF JInv

\* Clients, descriptors and what the peers have sent are as before.
LEMMA Still ==
  ASSUME JInv, [Next]_vars, stop = "none", pc' \notin Handles, reused' = reused,
         UNCHANGED <<script, inbox, backlog, open, clients, buffer, mixed, served>>,
         fds'.rbuf \subseteq fds.rbuf, fds'.wbuf \subseteq fds.wbuf,
         UNCHANGED <<peer, unread>>
  PROVE  JInv'
<1>1. IInv'
  BY IInvStep DEF JInv
<1>2. Places' = Places
  BY DEF Places
<1>3. \A c : Given(c)' = Given(c)
  BY DEF Given
<1>4. \A i \in Places : PaidFor(clients[i]) => PaidFor(clients[i])'
  BY <1>3, PaidSame
<1>. QED  BY <1>1, <1>2, <1>4, Quiet

\* What only waits, reports, ends or tells the time.
LEMMA StillSteps ==
  ASSUME JInv,
         \/ Select \/ SelectFails \/ NoAccept \/ AcceptFails \/ LoopEnds \/ SkipInactive
         \/ NothingRead \/ NoFile \/ NotWritable \/ SigPipe \/ OutputThrows \/ sync_maxFD \/ Tick
  PROVE  JInv'
<1>. DEFINE Same == /\ stop = "none" /\ reused' = reused
                    /\ UNCHANGED <<script, inbox, backlog, open, clients, buffer, mixed, served>>
                    /\ UNCHANGED <<peer, unread>>
            Kept == fds'.rbuf \subseteq fds.rbuf /\ fds'.wbuf \subseteq fds.wbuf
<1>1. fds \in SetsType /\ [Next]_vars
  BY DEF JInv, IInv, FdsInv, Next, Server
<1>. USE DEF Running, Serving, net, history
<1>2. CASE Select
  <2>1. Same /\ pc' = "accept"
    BY <1>2 DEF Select
  <2>2. Kept
    BY <1>1, <1>2 DEF Select, SetsType
  <2>. QED  BY <1>1, <2>1, <2>2, Still DEF Handles
<1>3. CASE SelectFails
  <2>1. Same /\ pc' = "select"
    BY <1>3 DEF SelectFails
  <2>2. Kept
    BY <1>1, <1>3 DEF SelectFails, SetsType
  <2>. QED  BY <1>1, <2>1, <2>2, Still DEF Handles
<1>4. CASE NoAccept \/ AcceptFails \/ LoopEnds \/ SkipInactive
  <2>1. Same /\ fds' = fds /\ pc' \in {"client", "sync"}
    BY <1>4 DEF NoAccept, AcceptFails, LoopEnds, SkipInactive, NextClient
  <2>. QED  BY <1>1, <2>1, Still DEF Handles
<1>5. CASE NothingRead \/ NoFile \/ NotWritable
  <2>1. Same /\ fds' = fds /\ pc' \in {"file", "send", "expire"}
    BY <1>5 DEF NothingRead, NoFile, NotWritable, InFile
  <2>. QED  BY <1>1, <2>1, Still DEF Handles
<1>6. CASE SigPipe \/ OutputThrows
  <2>1. Same /\ fds' = fds /\ pc' \in {"file", "send"}
    BY <1>6 DEF SigPipe, Sending, OutputThrows, AfterWriting, InFile
  <2>. QED  BY <1>1, <2>1, Still DEF Handles
<1>7. CASE sync_maxFD
  <2>1. Same /\ pc' = "select"
    BY <1>7 DEF sync_maxFD
  <2>2. PICK m : fds' = [fds EXCEPT !.max = m]
    BY <1>7 DEF sync_maxFD
  <2>3. Kept
    BY <1>1, <2>2 DEF SetsType
  <2>. QED  BY <1>1, <2>1, <2>3, Still DEF Handles
<1>8. CASE Tick
  <2>1. Same /\ pc' \in {"select", "client"}
    BY <1>8 DEF Tick
  <2>2. PICK age : fds' = [fds EXCEPT !.age = age]
    BY <1>8 DEF Tick
  <2>3. Kept
    BY <1>1, <2>2 DEF SetsType
  <2>. QED  BY <1>1, <2>1, <2>3, Still DEF Handles
<1>. QED  BY <1>2, <1>3, <1>4, <1>5, <1>6, <1>7, <1>8

\* What a peer sends continues what is under way, of its own connection only.
LEMMA PeersOwn ==
  ASSUME JInv, Peers
  PROVE  JInv'
<1>. PICK c \in Conns :
       Connect(c) \/ PeerSends(c) \/ PeerReads(c) \/ PeerShuts(c) \/ PeerResets(c)
  BY DEF Peers
<1>1. /\ stop = "none" /\ pc \notin Handles /\ Looking
      /\ UNCHANGED <<script, process, history>> /\ Places' = Places
  BY DEF Peers, Looking, Running, Serving, Handles, Connect, PeerSends, PeerReads, PeerShuts, PeerResets,
         Places, process
<1>2. IInv /\ IInv' /\ NetInv /\ OnceInv
  BY PeersInv DEF JInv, IInv
<1>3. /\ peer \in [Conns -> PeerType] /\ inbox \in [Conns -> Seq(Token)]
      /\ unread \in [Conns -> Int] /\ peer[c] \in PeerType
  BY <1>2 DEF NetInv
<1>4. UNCHANGED <<open, fds, clients, buffer, pc, ci, stop, reused, mixed, served>>
  BY <1>1 DEF process, history
<1>5. AuthInv => AuthInv'
  <2>1. \A d : Proved(d)' = Proved(d)
    BY <1>1, <1>4 DEF Proved
  <2>2. pc # "carry"
    BY <1>1 DEF Handles
  <2>. QED  BY <1>1, <1>4, <2>1, <2>2 DEF AuthInv
<1>6. ASSUME PaidInv, \A d \in Conns : Given(d)' = Given(d)
      PROVE  PaidInv'
  <2>1. \A i \in Places : open[clients[i].fd] \in Conns
    BY <1>2, ConnectionOf
  <2>2. \A i \in Places : PaidFor(clients[i]) => PaidFor(clients[i])'
    <3>. TAKE i \in Places
    <3>1. PICK d \in Conns : d = open[clients[i].fd]
      BY <2>1
    <3>. QED  BY <1>4, <1>6, <3>1, PaidSame
  <2>. QED  BY <1>1, <1>4, <1>6, <2>2 DEF PaidInv
<1>7. ASSUME \A d \in Conns : Given(d)' = Given(d), OnceInv' /\ (PaidInv /\ OwnInv => OwnInv')
      PROVE  JInv'
  BY <1>2, <1>4, <1>5, <1>6, <1>7 DEF JInv
<1>8. CASE Connect(c)
  <2>1. /\ peer[c].st = "out" /\ backlog' = Append(backlog, c) /\ UNCHANGED <<inbox, unread>>
        /\ peer' = [peer EXCEPT ![c].st = "up"]
    BY <1>8 DEF Connect
  <2>2. /\ peer' \in [Conns -> PeerType]
        /\ \A d \in Conns : /\ peer'[d].req = peer[d].req /\ peer'[d].seg = peer[d].seg
                            /\ peer'[d].got = peer[d].got /\ peer'[d].answers = peer[d].answers
        /\ \A d \in Conns : peer'[d].st = "out" => peer[d].st = "out" /\ d # c
    BY <1>2, <1>3, <2>1 DEF PeerType, IInv, NetInv
  <2>3. \A d \in Conns : Given(d)' = Given(d)
    BY <2>1, <2>2 DEF Given
  <2>4. /\ Len(backlog) \in Nat /\ Len(backlog') = Len(backlog) + 1
        /\ \A i \in 1..Len(backlog) : backlog'[i] = backlog[i] /\ backlog[i] \in Conns
        /\ backlog'[Len(backlog) + 1] = c
    BY <1>2, <2>1, AppendProperties, ElementOfSeq, LenProperties DEF NetInv
  <2>5. \A i \in 1..Len(backlog') : i \in 1..Len(backlog) \/ i = Len(backlog) + 1
    BY <2>4
  <2>6. OnceInv'
    <3>1. /\ \A x \in DOMAIN open : open[x] # c
          /\ \A i \in 1..Len(backlog) : backlog[i] # c
      BY <1>2, <2>1 DEF OnceInv
    <3>2. \A i, j \in 1..Len(backlog') : backlog'[i] = backlog'[j] => i = j
      BY <1>2, <2>4, <2>5, <3>1 DEF OnceInv
    <3>3. \A x \in DOMAIN open : \A i \in 1..Len(backlog') : open[x] # backlog'[i]
      BY <1>2, <2>4, <2>5, <3>1 DEF OnceInv
    <3>4. \A d \in Conns : peer'[d].st = "out" => \A i \in 1..Len(backlog') : backlog'[i] # d
      BY <1>2, <2>2, <2>4, <2>5 DEF OnceInv
    <3>. QED  BY <1>2, <1>4, <2>2, <3>2, <3>3, <3>4 DEF OnceInv
  <2>7. ASSUME OwnInv PROVE OwnInv'
    <3>1. \A d \in Conns : \A r : Underway(d, r) => Underway(d, r)'
      BY <1>1, <1>4, <2>2, UnderwayStays
    <3>2. Underway(c, NewBuffer)'
      BY <1>4, <2>1, <2>2, <2>7 DEF OwnInv, Underway
    <3>3. inbox[c] = <<>> /\ Collected(NewBuffer, <<>>) = NewBuffer
      BY <2>1, <2>7, NewIs DEF OwnInv
    <3>4. \A r : r = Collected(NewBuffer, inbox[c]) => Underway(c, r)'
      BY <3>2, <3>3
    <3>5. \A i \in 1..Len(backlog') : \A d \in Conns :
            backlog'[i] = d => \A r : r = Collected(NewBuffer, inbox[d]) => Underway(d, r)'
      BY <2>4, <2>5, <2>7, <3>1, <3>4 DEF OwnInv
    <3>6. \A x : Held(x)' = Held(x)
      BY <1>4 DEF Held
    <3>7. \A x \in DOMAIN open : \A d \in Conns \ mixed :
            open[x] = d => \A r : r = Collected(Held(x), inbox[d]) => Underway(d, r)'
      BY <2>7, <3>1 DEF OwnInv
    <3>8. \A d \in Conns : peer'[d].st = "out" =>
            peer'[d].req = 1 /\ peer'[d].seg = 0 /\ served[d] = 0 /\ inbox[d] = <<>>
      BY <2>2, <2>7 DEF OwnInv
    <3>. QED  BY <1>4, <2>1, <3>5, <3>6, <3>7, <3>8 DEF OwnInv
  <2>. QED  BY <1>7, <2>3, <2>6, <2>7
<1>9. CASE PeerSends(c)
  <2>1. \E req, seg, tokens :
          /\ peer' = [peer EXCEPT ![c].req = req, ![c].seg = seg]
          /\ inbox' = [inbox EXCEPT ![c] = @ \o tokens]
    BY <1>9, Zenon DEF PeerSends
  <2>2. /\ peer[c].st = "up" /\ ~Closed(c) /\ UNCHANGED <<unread, backlog>>
    BY <1>9 DEF PeerSends
  <2>3. /\ \A d \in Conns \ {c} : peer'[d] = peer[d] /\ inbox'[d] = inbox[d]
        /\ \A d \in Conns : /\ peer'[d].st = peer[d].st
                            /\ peer'[d].got = peer[d].got /\ peer'[d].answers = peer[d].answers
    BY <1>3, <2>1 DEF PeerType
  <2>4. \A d \in Conns : Given(d)' = Given(d)
    BY <2>2, <2>3 DEF Given
  <2>5. OnceInv'
    BY <1>2, <1>4, <2>2, <2>3 DEF OnceInv
  <2>6. ASSUME PaidInv, OwnInv PROVE OwnInv'
    <3>1. \A d \in Conns \ {c} : \A r : Underway(d, r) => Underway(d, r)'
      BY <1>1, <1>4, <2>3, UnderwayStays
    <3>2. \A b \in RequestBuf : \A r :
            Underway(c, Collected(b, inbox[c])) /\ r = Collected(b, inbox'[c]) => Underway(c, r)'
      BY <1>2, <1>9, <2>6, SegmentSent DEF OnceInv, PaidInv
    <3>3. \A x : Held(x)' = Held(x) /\ Held(x) \in RequestBuf
      BY <1>2, <1>4, NewIs DEF Held, IInv, BufferInv
    <3>4. \A x \in DOMAIN open : \A d \in Conns \ mixed :
            open[x] = d => \A r : r = Collected(Held(x), inbox'[d]) => Underway(d, r)'
      <4>1. \A x \in DOMAIN open : \A d \in Conns \ mixed :
              open[x] = d => Underway(d, Collected(Held(x), inbox[d]))
        BY <2>6 DEF OwnInv
      <4>. QED  BY <2>3, <3>1, <3>2, <3>3, <4>1
    <3>5. \A i \in 1..Len(backlog) : \A d \in Conns :
            backlog[i] = d => \A r : r = Collected(NewBuffer, inbox'[d]) => Underway(d, r)'
      <4>1. \A i \in 1..Len(backlog) : \A d \in Conns :
              backlog[i] = d => Underway(d, Collected(NewBuffer, inbox[d]))
        BY <2>6 DEF OwnInv
      <4>. QED  BY <2>3, <3>1, <3>2, NewIs, <4>1
    <3>6. \A d \in Conns : peer'[d].st = "out" =>
            peer'[d].req = 1 /\ peer'[d].seg = 0 /\ served[d] = 0 /\ inbox'[d] = <<>>
      <4>1. \A d \in Conns : peer'[d].st = "out" => d # c
        BY <2>2, <2>3
      <4>. QED  BY <2>3, <2>6, <4>1 DEF OwnInv
    <3>. QED  BY <1>4, <2>2, <3>3, <3>4, <3>5, <3>6 DEF OwnInv
  <2>. QED  BY <1>7, <2>4, <2>5, <2>6
<1>10. CASE PeerReads(c)
  <2>1. /\ UNCHANGED <<inbox, backlog>> /\ unread' = [unread EXCEPT ![c] = 0]
        /\ LET got == peer[c].got + unread[c]
           IN peer' = [peer EXCEPT ![c].got = got % RLEN, ![c].answers = @ + got \div RLEN]
    BY <1>10 DEF PeerReads
  <2>2. PICK got \in Int : got = peer[c].got + unread[c]
    BY <1>3 DEF PeerType
  <2>3. peer' = [peer EXCEPT ![c].got = got % RLEN, ![c].answers = @ + got \div RLEN]
    BY <2>1, <2>2
  <2>4. /\ \A d \in Conns : /\ peer'[d].req = peer[d].req /\ peer'[d].seg = peer[d].seg
                            /\ peer'[d].st = peer[d].st
        /\ \A d \in Conns \ {c} : peer'[d] = peer[d] /\ unread'[d] = unread[d]
        /\ peer'[c].got = got % RLEN /\ peer'[c].answers = peer[c].answers + got \div RLEN
        /\ unread'[c] = 0
    BY <1>3, <2>1, <2>3 DEF PeerType
  <2>5. Given(c)' = Given(c)
    <3>1. RLEN \in Nat \ {0} /\ peer[c].answers \in Nat /\ peer[c].got \in Int /\ unread[c] \in Int
      BY <1>3, SelectLoopAssumption DEF PeerType
    <3>2. got \div RLEN \in Int /\ got % RLEN \in Int /\ got = RLEN * (got \div RLEN) + (got % RLEN)
      BY <3>1
    <3>3. RLEN * (peer[c].answers + got \div RLEN) = RLEN * peer[c].answers + RLEN * (got \div RLEN)
      BY <3>1, <3>2
    <3>4. /\ Given(c)' = RLEN * (peer[c].answers + got \div RLEN) + (got % RLEN) + 0
          /\ Given(c) = RLEN * peer[c].answers + peer[c].got + unread[c]
      BY <2>4 DEF Given
    <3>5. PICK paid, more, rest \in Int : /\ paid = RLEN * peer[c].answers
                                          /\ more = RLEN * (got \div RLEN) /\ rest = got % RLEN
      BY <3>1, <3>2
    <3>6. Given(c)' = paid + more + rest + 0 /\ Given(c) = paid + peer[c].got + unread[c]
      BY <3>3, <3>4, <3>5
    <3>7. got = more + rest
      BY <3>2, <3>5
    <3>8. PICK g, u \in Int : g = peer[c].got /\ u = unread[c]
      BY <3>1
    <3>9. g + u = more + rest
      BY <2>2, <3>7, <3>8
    <3>10. Given(c)' = paid + more + rest + 0 /\ Given(c) = paid + g + u
      BY <3>6, <3>8
    <3>11. paid + more + rest + 0 = paid + g + u
      BY <3>9
    <3>. QED  BY <3>10, <3>11
  <2>6. \A d \in Conns : Given(d)' = Given(d)
    BY <2>4, <2>5 DEF Given
  <2>7. OnceInv' /\ (OwnInv => OwnInv')
    BY <1>1, <1>2, <1>4, <2>1, <2>4, NetQuiet
  <2>. QED  BY <1>7, <2>6, <2>7
<1>11. CASE PeerShuts(c) \/ PeerResets(c)
  <2>1. /\ UNCHANGED <<inbox, backlog, unread>> /\ peer[c].st # "out"
        /\ \E st \in {"shut", "reset"} : peer' = [peer EXCEPT ![c].st = st]
    BY <1>11 DEF PeerShuts, PeerResets
  <2>2. \A d \in Conns : /\ peer'[d].req = peer[d].req /\ peer'[d].seg = peer[d].seg
                         /\ peer'[d].got = peer[d].got /\ peer'[d].answers = peer[d].answers
                         /\ peer'[d].st = "out" <=> peer[d].st = "out"
    BY <1>3, <2>1 DEF PeerType
  <2>3. \A d \in Conns : Given(d)' = Given(d)
    BY <2>1, <2>2 DEF Given
  <2>4. OnceInv' /\ (OwnInv => OwnInv')
    BY <1>1, <1>2, <1>4, <2>1, <2>2, NetQuiet
  <2>. QED  BY <1>7, <2>3, <2>4
<1>. QED  BY <1>8, <1>9, <1>10, <1>11

-----------------------------------------------------------------------------
\* The client at ci works on its request.

\* What a connection was given is a number.
LEMMA GivenType ==
  ASSUME NetInv, OnceInv, NEW c \in Conns
  PROVE  Given(c) \in Int /\ served[c] \in Nat /\ RLEN * (served[c] - 1) \in Int /\ RLEN * served[c] \in Int
<1>1. RLEN \in Nat \ {0} /\ served[c] \in Nat
  BY SelectLoopAssumption DEF OnceInv
<1>2. peer[c].answers \in Nat /\ peer[c].got \in Int /\ unread[c] \in Int
  BY DEF NetInv, PeerType
<1>. QED  BY <1>1, <1>2 DEF Given

\* The sets that concern the others are no larger.
LEMMA OthersWait ==
  ASSUME IInv, IInv', ci \in Places,
         \A x \in DOMAIN open \ Own(Current) : /\ x \in fds'.rbuf => x \in fds.rbuf
                                               /\ x \in fds'.wbuf => x \in fds.wbuf
  PROVE  \A i \in Places : i # ci => /\ clients[i].file \in fds'.rbuf => clients[i].file \in fds.rbuf
                                     /\ clients[i].fd \in fds'.wbuf => clients[i].fd \in fds.wbuf
<1>1. unused \notin fds'.rbuf
  BY NoDescriptor DEF IInv, FdsInv, SetsType
<1>2. \A i \in Places : i # ci => /\ clients[i].fd \in DOMAIN open \ Own(Current)
                                  /\ clients[i].file \in (DOMAIN open \ Own(Current)) \cup {unused}
  BY OthersApart, OwnApart DEF IInv, TableInv
<1>. QED  BY <1>1, <1>2

\* The clients have their type.
LEMMA ClientsAre ==
  IInv => \A i \in Places : clients[i] \in ClientType /\ clients[i].h.asked.uri # <<>>
BY ClientIs DEF IInv, ClientsInv

\* The request the client works on is not answered yet.
LEMMA Owed ==
  ASSUME JInv, IInv', stop = "none", ci \in Places, reused => reused', pc' \notin Handles,
         UNCHANGED <<script, peer, inbox, unread, backlog, buffer, mixed, served>>,
         \A x \in DOMAIN open' : open'[x] # "file" => x \in DOMAIN open /\ open'[x] = open[x],
         NEW k \in ClientType, k.h.asked.uri # <<>>, k.fd = Current.fd, k.auth = Current.auth,
         clients' = [clients EXCEPT ![ci] = k],
         \A x \in DOMAIN open \ Own(Current) : /\ x \in fds'.rbuf => x \in fds.rbuf
                                               /\ x \in fds'.wbuf => x \in fds.wbuf,
         ~reused' => \A c : c = open[Current.fd] => Given(c) <= RLEN * (served[c] - 1)
  PROVE  JInv'
<1>1. IInv /\ NetInv /\ OnceInv /\ Current = clients[ci]
  BY DEF JInv, IInv, Current
<1>2. /\ Places' = Places /\ clients'[ci] = k
      /\ \A i \in Places : i # ci => clients'[i] = clients[i]
  BY <1>1, ReplacedBy
<1>3. \A c : Given(c)' = Given(c)
  BY DEF Given
<1>4. \A i \in Places : /\ open[clients[i].fd] \in Conns
                        /\ open'[clients[i].fd] = open[clients[i].fd]
  <2>1. (\A i \in Places : clients[i].fd \in DOMAIN open /\ open[clients[i].fd] \in Conns)'
    BY ConnectionOf, PTL
  <2>2. \A i \in Places : clients'[i].fd = clients[i].fd
    BY <1>1, <1>2
  <2>. QED  BY <1>1, <1>2, <2>1, <2>2, ConnectionOf, SelectLoopAssumption
<1>5. \A i \in Places : i # ci => (PaidFor(clients[i]) => PaidFor(clients[i])')
  <2>. TAKE i \in Places
  <2>. HAVE i # ci
  <2>1. /\ clients[i].file \in fds'.rbuf => clients[i].file \in fds.rbuf
        /\ clients[i].fd \in fds'.wbuf => clients[i].fd \in fds.wbuf
    BY <1>1, OthersWait
  <2>. QED  BY <1>2, <1>3, <1>4, <2>1, PaidSame
<1>6. \A j : clients'[j] = k /\ ~reused' => PaidFor(clients[j])'
  <2>. PICK c \in Conns : c = open[Current.fd] /\ c = open'[k.fd]
    BY <1>1, <1>4
  <2>. SUFFICES ASSUME ~reused' PROVE \A j : clients'[j] = k => PaidFor(clients[j])'
    OBVIOUS
  <2>1. Given(c) <= RLEN * (served[c] - 1)
    OBVIOUS
  <2>2. k.h.written \in Nat
    BY DEF ClientType, Handler
  <2>3. Given(c) <= RLEN * (served[c] - 1) + k.h.written
    BY <1>1, <2>1, <2>2, GivenType
  <2>. QED  BY <1>3, <2>1, <2>3 DEF PaidFor
<1>7. \A j \in Places' : \E i \in Places :
        /\ clients'[j].fd = clients[i].fd /\ clients'[j].auth = clients[i].auth
        /\ ~reused' => (PaidFor(clients[i]) => PaidFor(clients[j])')
  <2>. TAKE j \in Places'
  <2>1. CASE j # ci
    BY <1>2, <1>5, <2>1
  <2>2. CASE j = ci
    BY <1>1, <1>2, <1>6, <2>2
  <2>. QED  BY <2>1, <2>2
<1>. QED  BY <1>7, Quiet

\* A client whose file was reported has not been answered.
LEMMA AtFile ==
  ASSUME JInv, stop = "none", pc = "file", Current.file \in fds.read, ~reused
  PROVE  \A c : c = open[Current.fd] => Given(c) <= RLEN * (served[c] - 1)
<1>1. IInv /\ PaidInv /\ ci \in Places /\ Current = clients[ci]
  BY DEF JInv, IInv, TurnInv, Serves, Current
<1>2. Current.file \in fds.rbuf
  BY <1>1 DEF IInv, PassInv, FileAhead
<1>. QED  BY <1>1, <1>2 DEF PaidInv, PaidFor

\* Writing the body, running the script and reading the file answer nothing yet.
LEMMA FileOwn ==
  ASSUME JInv, WriteBody \/ ReadFile \/ FileDone
  PROVE  JInv'
<1>1. IInv /\ [Next]_vars
  BY DEF JInv, Next, Server
<1>2. IInv'
  BY <1>1, IInvStep
<1>3. /\ stop = "none" /\ pc = "file" /\ Current.file \in fds.read /\ pc' \in {"client", "send"}
      /\ UNCHANGED <<script, peer, inbox, unread, backlog, open, buffer, reused, mixed, served>>
  BY DEF WriteBody, Writing, ReadFile, FileDone, AfterWriting, InFile, Running, NextClient, net, history
<1>4. ci \in Places /\ Current \in ClientType /\ Current = clients[ci] /\ Current.h \in Handler
      /\ clients \in Seq(ClientType) /\ fds \in SetsType /\ Current.fd \in Own(Current)
  <2>1. ci \in Places
    BY <1>1, <1>3 DEF IInv, TurnInv, Serves
  <2>. QED  BY <1>1, <2>1, ServedClient, OwnApart DEF IInv, ClientsInv, FdsInv
<1>5. \E h : clients' = [clients EXCEPT ![ci].h = h]
  <2>1. CASE WriteBody
    <3>1. clients' = [clients EXCEPT ![ci].h.written = Len(Current.h.body),
                                     ![ci].h.toFile = (Current.h.body = <<>>)]
      BY <2>1 DEF WriteBody
    <3>2. clients' = [clients EXCEPT ![ci] = [Current EXCEPT !.h.written = Len(Current.h.body),
                                                            !.h.toFile = (Current.h.body = <<>>)]]
      BY <1>4, <3>1
    <3>3. clients' = [clients EXCEPT ![ci].h = [Current.h EXCEPT !.written = Len(Current.h.body),
                                                                !.toFile = (Current.h.body = <<>>)]]
      BY <1>4, <3>2
    <3>. QED  BY <3>3
  <2>2. CASE ReadFile
    <3>1. clients' = [clients EXCEPT ![ci].h = [Written(clients[ci].h) EXCEPT !.begun = TRUE]]
      BY <2>2 DEF ReadFile
    <3>. QED  BY <3>1
  <2>3. CASE FileDone
    BY <2>3, Zenon DEF FileDone
  <2>. QED  BY <2>1, <2>2, <2>3
<1>6. PICK k : /\ k \in ClientType /\ k.h.asked.uri # <<>> /\ k.fd = Current.fd /\ k.auth = Current.auth
               /\ clients' = [clients EXCEPT ![ci] = k]
  <2>1. PICK h : clients' = [clients EXCEPT ![ci].h = h]
    BY <1>5
  <2>2. PICK k : k = [Current EXCEPT !.h = h]
    OBVIOUS
  <2>3. clients' = [clients EXCEPT ![ci] = k]
    BY <1>4, <2>1, <2>2
  <2>4. clients'[ci] = k /\ ci \in Places'
    BY <1>4, <2>3 DEF Places
  <2>5. (\A i \in Places : clients[i] \in ClientType /\ clients[i].h.asked.uri # <<>>)'
    BY <1>2, ClientsAre, PTL
  <2>6. k.fd = Current.fd /\ k.auth = Current.auth
    BY <1>4, <2>2 DEF ClientType
  <2>. QED  BY <2>3, <2>4, <2>5, <2>6
<1>7. \A x \in DOMAIN open \ Own(Current) : /\ x \in fds'.rbuf => x \in fds.rbuf
                                            /\ x \in fds'.wbuf => x \in fds.wbuf
  <2>1. CASE WriteBody \/ ReadFile
    BY <2>1 DEF WriteBody, ReadFile
  <2>2. CASE FileDone
    <3>1. PICK W, R : /\ fds' = [fds EXCEPT !.wbuf = W, !.rbuf = R]
                      /\ R \subseteq fds.rbuf /\ W \subseteq fds.wbuf \cup {Current.fd}
      <4>. DEFINE W == ((fds.wbuf \ ({Current.file} \cap fds.write)) \cup {Current.fd}) \ {Current.cgi}
                  R == fds.rbuf \ {Current.file}
      <4>1. fds' = [fds EXCEPT !.wbuf = W, !.rbuf = R]
        BY <2>2 DEF FileDone, read_request_update
      <4>2. R \subseteq fds.rbuf /\ W \subseteq fds.wbuf \cup {Current.fd}
        OBVIOUS
      <4>. HIDE DEF R, W
      <4>. QED  BY <4>1, <4>2
    <3>2. fds'.wbuf = W /\ fds'.rbuf = R
      BY <1>4, <3>1 DEF SetsType
    <3>. QED  BY <1>4, <3>1, <3>2
  <2>. QED  BY <2>1, <2>2
<1>8. ~reused' => \A c : c = open[Current.fd] => Given(c) <= RLEN * (served[c] - 1)
  BY <1>3, AtFile
<1>9. pc' \notin Handles
  BY <1>3 DEF Handles
<1>. QED  BY <1>2, <1>3, <1>4, <1>6, <1>7, <1>8, <1>9, Owed

-----------------------------------------------------------------------------
\* A client is removed by an error.

\* What is left of the others is as before.
LEMMA CleanedOwn ==
  ASSUME JInv, IInv', stop = "none", ci \in Places, reused => reused',
         NEW k, NEW sets, NEW op, clean_up_after_error(k, sets, op), sets \in SetsType,
         Own(Current) \subseteq Own(k),
         \A x \in DOMAIN op \ Own(k) : x \in DOMAIN open /\ op[x] = open[x],
         \A x \in DOMAIN open \ Own(Current) : /\ x \in sets.rbuf => x \in fds.rbuf
                                               /\ x \in sets.wbuf => x \in fds.wbuf,
         UNCHANGED <<script, peer, inbox, unread, backlog, buffer, mixed, served>>
  PROVE  JInv'
<1>1. /\ clients' = RemoveAt(clients, ci) /\ pc' = "client" /\ open' = Without(op, Own(k))
      /\ fds' = [sets EXCEPT !.rbuf = @ \ (Own(k) \cap fds.read), !.wbuf = @ \ (Own(k) \cap fds.write)]
  BY DEF clean_up_after_error, NextClient, Own
<1>2. IInv /\ clients \in Seq(ClientType) /\ \A i \in Places : clients[i].h.asked.uri # <<>>
  BY DEF JInv, IInv, ClientsInv
<1>3. \A j \in Places' : \E i \in Places : i # ci /\ clients'[j] = clients[i]
  BY <1>1, <1>2, Dropped DEF Places
<1>4. fds'.rbuf \subseteq sets.rbuf /\ fds'.wbuf \subseteq sets.wbuf
  BY <1>1 DEF SetsType
<1>5. \A x \in DOMAIN open' : x \in DOMAIN open /\ open'[x] = open[x]
  BY <1>1 DEF Without
<1>6. \A i \in Places : i # ci => /\ clients[i].file \in fds'.rbuf => clients[i].file \in fds.rbuf
                                  /\ clients[i].fd \in fds'.wbuf => clients[i].fd \in fds.wbuf
  BY <1>2, <1>4, OthersWait
<1>7. (\A i \in Places : clients[i].fd \in DOMAIN open /\ open[clients[i].fd] \in Conns)'
  BY ConnectionOf, PTL
<1>8. \A c : Given(c)' = Given(c)
  BY DEF Given
<1>9. \A j \in Places' : \E i \in Places :
        /\ clients'[j].fd = clients[i].fd /\ clients'[j].auth = clients[i].auth
        /\ ~reused' => (PaidFor(clients[i]) => PaidFor(clients[j])')
  <2>. TAKE j \in Places'
  <2>1. PICK i \in Places : i # ci /\ clients'[j] = clients[i]
    BY <1>3
  <2>2. open'[clients[i].fd] = open[clients[i].fd]
    BY <1>5, <1>7, <2>1
  <2>3. PaidFor(clients[i]) => PaidFor(clients[j])'
    BY <1>6, <1>8, <2>1, <2>2, PaidSame
  <2>. QED  BY <2>1, <2>3
<1>10. pc' \notin Handles
  BY <1>1 DEF Handles
<1>. QED  BY <1>5, <1>9, <1>10, Quiet

\* An error of the client at ci, when nothing else was done.
LEMMA ErrorOwn ==
  ASSUME JInv, ReadThrows \/ WritingFails \/ ReadFails \/ SendThrows
  PROVE  JInv'
<1>1. IInv /\ [Next]_vars
  BY DEF JInv, Next, Server
<1>2. IInv'
  BY <1>1, IInvStep
<1>3. /\ stop = "none" /\ clean_up_after_error(Current, fds, open)
      /\ pc \in {"file", "send"} \/ ci <= Len(clients)
      /\ UNCHANGED <<script, peer, inbox, unread, backlog, buffer, reused, mixed, served>>
  BY DEF ReadThrows, Serving, WritingFails, Writing, ReadFails, AfterWriting, InFile, SendThrows, Sending, Running,
         net
<1>4. ci \in Places /\ fds \in SetsType
  <2>1. ci \in Nat \ {0} /\ Len(clients) \in Nat
    BY <1>1, ClientIs DEF IInv, ControlInv
  <2>2. pc \in {"file", "send"} => ci \in Places
    BY <1>1 DEF IInv, TurnInv, Serves
  <2>. QED  BY <1>1, <1>3, <2>1, <2>2 DEF Places, IInv, FdsInv
<1>. QED  BY <1>2, <1>3, <1>4, CleanedOwn

\* handle_request does something, opens files or fails.
LEMMA HandleOwn ==
  ASSUME JInv, HandleRequest
  PROVE  JInv'
<1>1. IInv /\ [Next]_vars
  BY DEF JInv, Next, Server
<1>2. IInv'
  BY <1>1, IInvStep
<1>3. /\ Running("carry") /\ stop = "none" /\ pc = "carry"
      /\ reused' = (reused \/ (DOMAIN open' \ DOMAIN open) \cap (fds.rbuf \cup fds.wbuf) # {})
      /\ UNCHANGED <<script, peer, inbox, unread, backlog, buffer, mixed, served>>
  BY DEF HandleRequest, Running
<1>4. PICK done : /\ done = Outcome(Carry(Current.h.turn, Current.h.asked, files, Len(Current.h.body)),
                                    Current.h.turn, Current.h.asked)
                  /\ \/ HandleGone(done) \/ HandleNowhere(done)
                     \/ HandleFile(done) \/ HandleScript(done)
                     \/ OpenFails(done) \/ InputFails(done)
  BY DEF HandleRequest
<1>5. /\ ci \in Places /\ Current \in ClientType /\ Current = clients[ci] /\ Current.fd \in Fds
      /\ Current.h.asked.uri # <<>> /\ Current.fd \in Own(Current) /\ fds \in SetsType
      /\ Current.h.turn \in Turn /\ Current.file = unused /\ Current.cgi = unused
      /\ Current.fd # unused /\ Own(Current) = {Current.fd}
  <2>1. ci \in Places /\ Current.file = unused /\ Current.cgi = unused
    BY <1>1, <1>3, AtHand
  <2>2. /\ Current \in ClientType /\ Current = clients[ci] /\ Current.fd \in Fds /\ Current.h \in Handler
        /\ Current.h.asked.uri # <<>>
    BY <1>1, <2>1, ServedClient
  <2>3. Current.h.turn \in Turn
    BY <2>2 DEF Handler
  <2>. QED  BY <1>1, <2>1, <2>2, <2>3, NoDescriptor DEF IInv, FdsInv, Own
<1>6. done.kind \in Kind
  BY <1>4, <1>5, OutcomeKind
<1>7. reused => reused'
  BY <1>3
<1>8. ~reused' => \A c : c = open[Current.fd] => Given(c) <= RLEN * (served[c] - 1)
  BY <1>3, <1>5 DEF JInv, PaidInv, Handles
<1>9. \A file, cgi, kind : LET k == [Current EXCEPT !.file = file, !.cgi = cgi, !.h.kind = kind]
                           IN /\ k.h.asked = Current.h.asked /\ k.fd = Current.fd /\ k.auth = Current.auth
                              /\ k.file = file /\ k.cgi = cgi
  BY <1>5 DEF ClientType, Handler
<1>10. ASSUME NEW file \in Fds \cup {unused}, NEW cgi \in Fds \cup {unused}, NEW new,
              new \cap DOMAIN open = {},
              clients' = [clients EXCEPT ![ci] = [Current EXCEPT !.file = file, !.cgi = cgi, !.h.kind = done.kind]],
              \A x \in DOMAIN open' : x \in DOMAIN open \cup new /\ open'[x] = IF x \in new THEN "file" ELSE open[x],
              fds'.rbuf \subseteq fds.rbuf \cup new, fds'.wbuf \subseteq fds.wbuf \cup new \cup {Current.fd},
              pc' = "file"
       PROVE  JInv'
  <2>. DEFINE k == [Current EXCEPT !.file = file, !.cgi = cgi, !.h.kind = done.kind]
  <2>. HIDE DEF Kind
  <2>1. k \in ClientType
    BY <1>5, <1>6, <1>10 DEF ClientType, Handler
  <2>2. k.h.asked.uri # <<>> /\ k.fd = Current.fd /\ k.auth = Current.auth
    <3>1. PICK kind : kind = done.kind
      OBVIOUS
    <3>2. k = [Current EXCEPT !.file = file, !.cgi = cgi, !.h.kind = kind]
      BY <3>1
    <3>3. /\ k.h.asked = Current.h.asked /\ k.fd = Current.fd /\ k.auth = Current.auth
      <4>. HIDE DEF k
      <4>. QED  BY <1>9, <3>2
    <3>. HIDE DEF k
    <3>. QED  BY <1>5, <3>3
  <2>3. clients' = [clients EXCEPT ![ci] = k]
    BY <1>10
  <2>. HIDE DEF k
  <2>4. \A x \in DOMAIN open \ Own(Current) : /\ x \in fds'.rbuf => x \in fds.rbuf
                                              /\ x \in fds'.wbuf => x \in fds.wbuf
    BY <1>5, <1>10
  <2>5. \A x \in DOMAIN open' : open'[x] # "file" => x \in DOMAIN open /\ open'[x] = open[x]
    BY <1>10
  <2>6. pc' \notin Handles
    BY <1>10 DEF Handles
  <2>. QED  BY <1>2, <1>3, <1>5, <1>7, <1>8, <2>1, <2>2, <2>3, <2>4, <2>5, <2>6, Owed
<1>11. CASE HandleGone(done)
  <2>. HIDE DEF Kind
  <2>1. /\ clients' = [clients EXCEPT ![ci] = [Current EXCEPT !.file = unused, !.cgi = unused, !.h.kind = done.kind]]
        /\ open' = open /\ pc' = "file"
        /\ fds' = handled_request_update(fds, "gone", unused, Current.fd)
    BY <1>11 DEF HandleGone, Handled
  <2>2. "gone" \in Kind /\ "gone" \notin Writes
    BY DEF Kind, Writes
  <2>3. fds'.rbuf = (fds.rbuf \ {Current.fd}) \cup ({unused} \ {unused}) /\ fds'.wbuf = fds.wbuf \cup {Current.fd}
    BY <1>1, <1>5, <2>1, <2>2, HandledSets
  <2>4. PICK new : new = {}
    OBVIOUS
  <2>5. /\ new \cap DOMAIN open = {}
        /\ \A x \in DOMAIN open' : x \in DOMAIN open \cup new /\ open'[x] = IF x \in new THEN "file" ELSE open[x]
        /\ fds'.rbuf \subseteq fds.rbuf \cup new /\ fds'.wbuf \subseteq fds.wbuf \cup new \cup {Current.fd}
    BY <2>1, <2>3, <2>4
  <2>. QED  BY <1>10, <2>1, <2>5
<1>12. CASE HandleNowhere(done)
  <2>1. UNCHANGED <<open, fds, clients, pc, ci>> /\ stop' = "undefined"
    BY <1>12 DEF HandleNowhere
  <2>2. OnceInv'
    BY <1>1, <1>3, <2>1, NetQuiet DEF JInv, IInv
  <2>3. AuthInv => AuthInv'
    <3>1. \A c : Proved(c)' = Proved(c)
      BY <1>3 DEF Proved
    <3>2. Places' = Places
      BY <2>1 DEF Places
    <3>. QED  BY <1>3, <2>1, <3>1, <3>2 DEF AuthInv
  <2>. QED  BY <1>2, <1>7, <2>1, <2>2, <2>3 DEF JInv
<1>13. CASE HandleFile(done)
  <2>. DEFINE file == Lowest(Free)
  <2>1. file \in Fds \ DOMAIN open /\ file # unused
    <3>1. Free # {} /\ Free \in SUBSET Fds
      BY <1>13 DEF HandleFile, Free
    <3>. QED  BY <3>1, LowestIn, NoDescriptor DEF Free
  <2>2. /\ open' = AsFiles({file})
        /\ clients' = [clients EXCEPT ![ci] = [Current EXCEPT !.file = file, !.cgi = unused, !.h.kind = done.kind]]
        /\ fds' = handled_request_update(fds, done.kind, file, Current.fd) /\ pc' = "file"
    BY <1>13 DEF HandleFile, Handled
  <2>. HIDE DEF file, Kind
  <2>3. /\ fds'.rbuf = (fds.rbuf \ {Current.fd}) \cup ({file} \ {unused})
        /\ fds'.wbuf = fds.wbuf \cup (IF file = unused THEN {Current.fd} ELSE IF done.kind \in Writes THEN {file} ELSE {})
    BY <1>1, <1>5, <1>6, <2>1, <2>2, HandledSets
  <2>4. PICK new : new = {file}
    OBVIOUS
  <2>5. /\ new \cap DOMAIN open = {}
        /\ fds'.rbuf \subseteq fds.rbuf \cup new /\ fds'.wbuf \subseteq fds.wbuf \cup new \cup {Current.fd}
    BY <2>1, <2>3, <2>4
  <2>6. \A x \in DOMAIN open' : x \in DOMAIN open \cup new /\ open'[x] = IF x \in new THEN "file" ELSE open[x]
    BY <2>2, <2>4 DEF AsFiles
  <2>. QED  BY <1>10, <2>1, <2>2, <2>5, <2>6
<1>14. CASE HandleScript(done)
  <2>. DEFINE file == Lowest(Free)
              cgi  == Lowest(Free \ {file})
              sets == handled_request_update(fds, "script", file, Current.fd)
  <2>1. file \in Free /\ cgi \in Free \ {file}
    BY <1>14, TwoFree DEF HandleScript
  <2>2. /\ open' = AsFiles({file, cgi})
        /\ clients' = [clients EXCEPT ![ci] = [Current EXCEPT !.file = file, !.cgi = cgi, !.h.kind = done.kind]]
        /\ fds' = [sets EXCEPT !.wbuf = @ \cup {cgi}, !.max = update_max(@, cgi)] /\ pc' = "file"
    BY <1>14 DEF HandleScript, Handled
  <2>. HIDE DEF file, cgi, Kind
  <2>3. file \in Fds \ DOMAIN open /\ cgi \in Fds \ DOMAIN open /\ file # unused
    BY <2>1, NoDescriptor DEF Free
  <2>4. "script" \in Kind /\ "script" \in Writes
    BY DEF Kind, Writes
  <2>5. /\ sets \in SetsType /\ sets.rbuf = (fds.rbuf \ {Current.fd}) \cup ({file} \ {unused})
        /\ sets.wbuf = fds.wbuf \cup {file}
    <3>. HIDE DEF Writes
    <3>. QED  BY <1>1, <1>5, <2>3, <2>4, HandledSets
  <2>. HIDE DEF sets
  <2>6. fds'.rbuf = sets.rbuf /\ fds'.wbuf = sets.wbuf \cup {cgi}
    BY <2>2, <2>5 DEF SetsType
  <2>7. PICK new : new = {file, cgi}
    OBVIOUS
  <2>8. /\ new \cap DOMAIN open = {}
        /\ fds'.rbuf \subseteq fds.rbuf \cup new /\ fds'.wbuf \subseteq fds.wbuf \cup new \cup {Current.fd}
    BY <2>3, <2>5, <2>6, <2>7
  <2>9. \A x \in DOMAIN open' : x \in DOMAIN open \cup new /\ open'[x] = IF x \in new THEN "file" ELSE open[x]
    BY <2>2, <2>7 DEF AsFiles
  <2>. QED  BY <1>10, <2>2, <2>3, <2>8, <2>9
<1>15. CASE OpenFails(done)
  <2>1. clean_up_after_error(Current, fds, open)
    BY <1>15 DEF OpenFails
  <2>. QED  BY <1>2, <1>3, <1>5, <1>7, <2>1, CleanedOwn
<1>16. CASE InputFails(done)
  <2>. DEFINE file == Lowest(Free)
              k    == Handled(done, file, unused)
              sets == handled_request_update(fds, "script", file, Current.fd)
              op   == AsFiles({file})
  <2>1. file \in Fds \ DOMAIN open /\ file # unused
    <3>1. Free # {} /\ Free \in SUBSET Fds
      BY <1>16 DEF InputFails, Free
    <3>. QED  BY <3>1, LowestIn, NoDescriptor DEF Free
  <2>2. clean_up_after_error(k, sets, op)
    BY <1>16 DEF InputFails
  <2>. HIDE DEF file
  <2>3. k.fd = Current.fd /\ k.file = file /\ k.cgi = unused
    BY <1>5 DEF Handled, ClientType
  <2>. HIDE DEF k
  <2>4. Own(k) = {Current.fd, file}
    BY <1>5, <2>1, <2>3 DEF Own
  <2>5. "script" \in Kind /\ "script" \in Writes
    BY DEF Kind, Writes
  <2>. HIDE DEF Kind, Writes
  <2>6. /\ sets \in SetsType /\ sets.rbuf = (fds.rbuf \ {Current.fd}) \cup ({file} \ {unused})
        /\ sets.wbuf = fds.wbuf \cup {file}
    BY <1>1, <1>5, <2>1, <2>5, HandledSets
  <2>. HIDE DEF sets
  <2>7. \A x \in DOMAIN op \ Own(k) : x \in DOMAIN open /\ op[x] = open[x]
    BY <2>4 DEF AsFiles
  <2>8. \A x \in DOMAIN open \ Own(Current) : /\ x \in sets.rbuf => x \in fds.rbuf
                                              /\ x \in sets.wbuf => x \in fds.wbuf
    BY <2>1, <2>6
  <2>9. Own(Current) \subseteq Own(k)
    BY <1>5, <2>4
  <2>. HIDE DEF op
  <2>. QED  BY <1>2, <1>3, <1>5, <1>7, <2>2, <2>6, <2>7, <2>8, <2>9, CleanedOwn
<1>. QED  BY <1>4, <1>11, <1>12, <1>13, <1>14, <1>15, <1>16

-----------------------------------------------------------------------------
\* What the client at hand asks for is checked.

\* Who is let in where something is asked of him has proved himself.
LEMMA Admits ==
  ASSUME NEW t \in Turn, NEW rq, NEW auth \in BOOLEAN, NEW proved, proved = verify_authorization(t, rq, auth)
  PROVE  /\ proved.auth => auth \/ rq.credentials = "right"
         /\ proved.turn.index # 0 /\ proved.turn.status < 300 =>
              Blocks[proved.turn.index].auth_basic = "off" \/ proved.auth
<1>1. \A s \in 200..417 : [t EXCEPT !.status = s].status = s
  BY DEF Turn
<1>2. CASE Admitted(t, auth)
  <2>1. proved = [turn |-> t, auth |-> auth]
    BY <1>2 DEF verify_authorization
  <2>2. proved.turn = t /\ proved.auth = auth
    BY <2>1
  <2>3. t.status < 300 => t.status \notin 300..310
    BY DEF Turn
  <2>. QED  BY <1>2, <2>2, <2>3 DEF Admitted
<1>3. CASE ~Admitted(t, auth)
  <2>1. proved = CASE rq.credentials = "none"  -> [turn |-> [t EXCEPT !.status = 401], auth |-> auth]
                   [] rq.credentials = "right" -> [turn |-> [t EXCEPT !.status = 200], auth |-> TRUE]
                   [] OTHER                    -> [turn |-> [t EXCEPT !.status = 403], auth |-> FALSE]
    BY <1>3 DEF verify_authorization
  <2>2. ~auth
    BY <1>3 DEF Admitted
  <2>3. 401 \in 200..417 /\ 403 \in 200..417 /\ ~(401 < 300) /\ ~(403 < 300)
    OBVIOUS
  <2>4. CASE rq.credentials = "none"
    <3>1. proved = [turn |-> [t EXCEPT !.status = 401], auth |-> auth]
      BY <2>1, <2>4
    <3>2. proved.turn.status = 401 /\ proved.auth = auth
      <4>1. PICK u : u = [t EXCEPT !.status = 401]
        OBVIOUS
      <4>2. u.status = 401
        BY <1>1, <2>3, <4>1
      <4>3. proved = [turn |-> u, auth |-> auth]
        BY <3>1, <4>1
      <4>. QED  BY <4>2, <4>3
    <3>. QED  BY <2>2, <2>3, <3>2
  <2>5. CASE rq.credentials = "right"
    <3>1. proved = [turn |-> [t EXCEPT !.status = 200], auth |-> TRUE]
      BY <2>1, <2>5
    <3>2. proved.auth
      BY <3>1
    <3>. QED  BY <2>5, <3>2
  <2>6. CASE rq.credentials \notin {"none", "right"}
    <3>1. proved = [turn |-> [t EXCEPT !.status = 403], auth |-> FALSE]
      BY <2>1, <2>6
    <3>2. proved.turn.status = 403 /\ ~proved.auth
      <4>1. PICK u : u = [t EXCEPT !.status = 403]
        OBVIOUS
      <4>2. u.status = 403
        BY <1>1, <2>3, <4>1
      <4>3. proved = [turn |-> u, auth |-> FALSE]
        BY <3>1, <4>1
      <4>. QED  BY <4>2, <4>3
    <3>. QED  BY <2>3, <3>2
  <2>. QED  BY <2>4, <2>5, <2>6
<1>. QED  BY <1>2, <1>3

\* Only what is done for the client at hand, and what is known of it, changes.
LEMMA TurnSetOwn ==
  ASSUME JInv, IInv', ci \in Places, NEW turn \in Turn, NEW auth \in BOOLEAN,
         clients' = [clients EXCEPT ![ci] = [Current EXCEPT !.h = [Current.h EXCEPT !.turn = turn], !.auth = auth]],
         pc \in {"match", "verify"}, pc' \in {"verify", "carry"}, stop = "none",
         UNCHANGED <<net, open, fds, buffer, check, ci, stop, history>>,
         auth => Current.auth \/ (Current.h.asked.credentials = "right" /\ pc = "verify"),
         pc' = "carry" => (turn.index # 0 /\ turn.status < 300 => Blocks[turn.index].auth_basic = "off" \/ auth)
  PROVE  JInv'
<1>. DEFINE h == [Current.h EXCEPT !.turn = turn]
            k == [Current EXCEPT !.h = h, !.auth = auth]
<1>1. /\ Current \in ClientType /\ Current = clients[ci] /\ Current.h \in Handler
      /\ Current.h.asked.uri # <<>> /\ IInv /\ NetInv /\ OnceInv /\ open[Current.fd] \in Conns
  BY ServedClient DEF JInv, IInv
<1>2. /\ h \in Handler /\ h.asked = Current.h.asked /\ h.written = Current.h.written /\ h.turn = turn
  BY <1>1 DEF Handler
<1>3. clients' = [clients EXCEPT ![ci] = k]
  OBVIOUS
<1>. HIDE DEF h
<1>4. /\ k \in ClientType /\ k.h = h /\ k.fd = Current.fd /\ k.file = Current.file /\ k.auth = auth
  BY <1>1, <1>2 DEF ClientType
<1>. HIDE DEF k
<1>5. /\ Places' = Places /\ clients'[ci] = k
      /\ \A i \in Places : i # ci => clients'[i] = clients[i]
  BY <1>1, <1>2, <1>3, <1>4, ReplacedBy
<1>6. UNCHANGED <<script, peer, inbox, unread, backlog, mixed, served, reused>>
  BY DEF net, history
<1>7. OnceInv' /\ (OwnInv => OwnInv')
  BY <1>1, <1>6, NetQuiet
<1>8. PaidInv => PaidInv'
  <2>. SUFFICES ASSUME PaidInv PROVE PaidInv'
    OBVIOUS
  <2>1. \A c : Given(c)' = Given(c)
    BY <1>6 DEF Given
  <2>2. \A i \in Places : open[clients[i].fd] \in Conns
    BY <1>1, ConnectionOf
  <2>3. \A i \in Places : PaidFor(clients[i]) => PaidFor(clients[i])'
    <3>. TAKE i \in Places
    <3>0. /\ clients'[i].fd = clients[i].fd /\ clients'[i].file = clients[i].file
          /\ clients'[i].h.written = clients[i].h.written
      BY <1>1, <1>2, <1>4, <1>5
    <3>1. PICK d \in Conns : d = open[clients[i].fd]
      BY <2>2
    <3>. QED  BY <1>6, <2>1, <3>0, <3>1, PaidSame
  <2>4. clients'[ci].fd = clients[ci].fd /\ pc \in Handles
    BY <1>1, <1>4, <1>5 DEF Handles
  <2>. QED  BY <1>5, <1>6, <2>1, <2>3, <2>4 DEF PaidInv
<1>9. AuthInv => AuthInv'
  <2>. SUFFICES ASSUME AuthInv PROVE AuthInv'
    OBVIOUS
  <2>1. \A c : Proved(c)' = Proved(c)
    BY <1>6 DEF Proved
  <2>2. \A i \in Places : clients'[i].fd = clients[i].fd
    BY <1>1, <1>4, <1>5
  <2>3. pc \in Handles /\ pc' \in Handles
    BY DEF Handles
  <2>4. PICK c \in Conns : c = open[Current.fd]
    BY <1>1
  <2>5. c \notin mixed => /\ served[c] \in 1..Len(script[c])
                          /\ Current.h.asked = script[c][served[c]].asked
    BY <1>1, <2>3, <2>4 DEF AuthInv
  <2>6. auth /\ c \notin mixed => Proved(c)
    <3>1. CASE Current.auth
      BY <1>1, <2>4, <3>1 DEF AuthInv
    <3>2. CASE Current.h.asked.credentials = "right"
      <4>. SUFFICES ASSUME c \notin mixed PROVE Proved(c)
        OBVIOUS
      <4>1. served[c] \in 1..served[c]
        BY <1>1 , <2>5
      <4>. QED  BY <2>5, <3>2, <4>1 DEF Proved
    <3>. QED  BY <3>1, <3>2
  <2>7. \A i \in Places : clients'[i].auth /\ open[clients[i].fd] \notin mixed => Proved(open[clients[i].fd])
    <3>. TAKE i \in Places
    <3>1. CASE i = ci
      BY <1>1, <1>4, <1>5, <2>4, <2>6, <3>1
    <3>2. CASE i # ci
      BY <1>5, <3>2 DEF AuthInv
    <3>. QED  BY <3>1, <3>2
  <2>8. /\ clients'[ci].h.asked = Current.h.asked /\ clients'[ci].h.turn = turn /\ clients'[ci].auth = auth
        /\ clients'[ci].fd = Current.fd
    BY <1>2, <1>4, <1>5
  <2>. QED  BY <1>5, <1>6, <2>1, <2>2, <2>4, <2>5, <2>7, <2>8 DEF AuthInv
<1>. QED  BY <1>6, <1>7, <1>8, <1>9 DEF JInv

\* match_location_block and the two verify functions.
LEMMA CheckedOwn ==
  ASSUME JInv, Match \/ Verify
  PROVE  JInv'
<1>1. IInv /\ [Next]_vars /\ IInv'
  BY IInvStep DEF JInv, Next, Server
<1>2. /\ stop = "none" /\ pc \in {"match", "verify"} /\ pc' \in {"verify", "carry"}
      /\ UNCHANGED <<net, open, fds, buffer, check, ci, stop, history>>
  BY DEF Match, Verify, Running
<1>3. ci \in Places
  BY <1>1, <1>2 DEF IInv, TurnInv, Serves
<1>4. /\ Current \in ClientType /\ Current = clients[ci] /\ Current.h \in Handler
      /\ Current.auth \in BOOLEAN /\ Current.h.turn \in Turn /\ clients \in Seq(ClientType)
  BY <1>1, <1>3, ServedClient DEF ClientType, Handler, IInv, ClientsInv
<1>5. CASE Match
  <2>1. PICK turn \in Turn : clients' = [clients EXCEPT ![ci].h.turn = turn]
    <3>1. PICK stale \in BOOLEAN :
            clients' = [clients EXCEPT ![ci].h.turn =
              verify_file_location(match_location_block(FilesIn(Current.h.asked, files, stale),
                                                        Current.h.asked), Current.h.asked)]
      BY <1>5 DEF Match
    <3>. QED  BY <1>1, <1>3, <3>1, ServedClient, MatchType
  <2>2. [Current EXCEPT !.h = [Current.h EXCEPT !.turn = turn]]
          = [Current EXCEPT !.h = [Current.h EXCEPT !.turn = turn], !.auth = Current.auth]
    BY <1>4 DEF ClientType
  <2>3. clients' = [clients EXCEPT ![ci] = [Current EXCEPT !.h = [Current.h EXCEPT !.turn = turn], !.auth = Current.auth]]
    BY <1>4, <2>1, <2>2
  <2>4. pc' # "carry"
    BY <1>5 DEF Match
  <2>. QED  BY <1>1, <1>2, <1>3, <1>4, <2>3, <2>4, TurnSetOwn
<1>6. CASE Verify
  <2>. DEFINE allowed == verify_method(Current.h.turn, Current.h.asked)
  <2>1. PICK proved :
          /\ proved = verify_authorization(allowed, Current.h.asked, Current.auth)
          /\ clients' = [clients EXCEPT ![ci].h.turn = proved.turn, ![ci].auth = proved.auth]
    BY <1>6 DEF Verify
  <2>2. allowed \in Turn
    BY <1>4, VerifiedType
  <2>. HIDE DEF allowed
  <2>3. proved.turn \in Turn /\ proved.auth \in BOOLEAN
    BY <1>4, <2>1, <2>2, VerifiedType
  <2>4. /\ proved.auth => Current.auth \/ Current.h.asked.credentials = "right"
        /\ proved.turn.index # 0 /\ proved.turn.status < 300 =>
             Blocks[proved.turn.index].auth_basic = "off" \/ proved.auth
    BY <1>4, <2>1, <2>2, Admits
  <2>5. clients' = [clients EXCEPT ![ci] =
          [Current EXCEPT !.h = [Current.h EXCEPT !.turn = proved.turn], !.auth = proved.auth]]
    BY <2>1 DEF Current
  <2>6. PICK turn, auth : turn = proved.turn /\ auth = proved.auth
    OBVIOUS
  <2>7. pc = "verify"
    BY <1>6 DEF Verify, Running
  <2>. QED  BY <1>1, <1>2, <1>3, <2>3, <2>4, <2>5, <2>6, <2>7, TurnSetOwn
<1>. QED  BY <1>5, <1>6

-----------------------------------------------------------------------------
\* The turn is passed.

\* What is known of the clients passes with them.
LEMMA AuthPassed ==
  ASSUME NEW cs \in Seq(ClientType), NEW i \in 1..Len(cs)
  PROVE  \A j \in 1..Len(cs) : update_active_client(cs, i)[j].auth = cs[j].auth
<1>. DEFINE next == IF i < Len(cs) THEN i + 1 ELSE 1
            new  == update_active_client(cs, i)
<1>1. \A j \in 1..Len(cs) : new[j] = [cs[j] EXCEPT !.active = (j = next)]
  BY TurnPassed
<1>2. \A j \in 1..Len(cs) : cs[j] \in ClientType
  BY ElementOfSeq
<1>. HIDE DEF next, new
<1>3. \A k \in ClientType : \A b \in BOOLEAN : [k EXCEPT !.active = b].auth = k.auth
  BY DEF ClientType
<1>4. \A j \in 1..Len(cs) : new[j].auth = cs[j].auth
  <2>. TAKE j \in 1..Len(cs)
  <2>1. (j = next) \in BOOLEAN /\ cs[j] \in ClientType /\ new[j] = [cs[j] EXCEPT !.active = (j = next)]
    BY <1>1, <1>2
  <2>. QED  BY <1>3, <2>1, Zenon
<1>. QED  BY <1>4 DEF new

\* Whoever is left is owed what it was.
LEMMA PassTurnOwn ==
  ASSUME JInv, PassTurn
  PROVE  JInv'
<1>1. IInv /\ [Next]_vars /\ IInv'
  BY IInvStep DEF JInv, Next, Server
<1>2. /\ stop = "none" /\ pc = "expire" /\ pc' = "client"
      /\ UNCHANGED <<script, peer, inbox, unread, backlog, buffer, reused, mixed, served>>
  BY DEF PassTurn, Running, NextClient, net
<1>3. /\ ci \in Places /\ clients \in Seq(ClientType) /\ Places = 1..Len(clients) /\ fds \in SetsType
      /\ \A i \in Places : clients[i].h.asked.uri # <<>>
  BY <1>1, <1>2 DEF IInv, TurnInv, Serves, ClientsInv, Places, FdsInv
<1>4. \A i \in Places : clients[i].fd \in DOMAIN open /\ open[clients[i].fd] \in Conns
  BY <1>1, ConnectionOf
<1>5. (\A i \in Places : clients[i].fd \in DOMAIN open /\ open[clients[i].fd] \in Conns)'
  BY <1>1, ConnectionOf, PTL
<1>6. PICK cs : cs = update_active_client(clients, ci)
  OBVIOUS
<1>7. /\ cs \in Seq(ClientType) /\ Len(cs) = Len(clients)
      /\ \A i \in Places : /\ cs[i].fd = clients[i].fd /\ cs[i].file = clients[i].file
                           /\ cs[i].h = clients[i].h /\ cs[i].auth = clients[i].auth
  BY <1>3, <1>6, PassedOn, AuthPassed
<1>8. /\ \A x \in DOMAIN open' : x \in DOMAIN open /\ open'[x] = open[x]
      /\ fds'.rbuf \subseteq fds.rbuf /\ fds'.wbuf \subseteq fds.wbuf
  <2>1. CASE open' = open /\ fds' = fds
    BY <2>1
  <2>2. CASE open' = Without(open, {Current.fd}) /\ fds' = [fds EXCEPT !.rbuf = @ \ {Current.fd}]
    BY <1>3, <2>2 DEF Without, SetsType
  <2>. QED  BY <2>1, <2>2 DEF PassTurn
<1>9. \A j \in Places' : \E i \in Places :
        /\ clients'[j].fd = clients[i].fd /\ clients'[j].auth = clients[i].auth
        /\ clients'[j].file = clients[i].file /\ clients'[j].h = clients[i].h
  <2>1. CASE clients' = clients
    BY <2>1 DEF Places
  <2>2. CASE clients' = cs
    BY <1>3, <1>7, <2>2 DEF Places
  <2>3. CASE clients' = RemoveAt(cs, ci)
    <3>1. ci \in 1..Len(cs) /\ \A i \in 1..Len(cs) : cs[i].h.asked.uri # <<>>
      BY <1>3, <1>7
    <3>2. \A j \in Places' : clients'[j] = cs[Before(ci, j)] /\ Before(ci, j) \in 1..Len(cs)
      BY <1>7, <2>3, <3>1, Dropped
    <3>. QED  BY <1>3, <1>7, <3>2
  <2>. QED  BY <1>6, <2>1, <2>2, <2>3 DEF PassTurn
<1>10. \A c : Given(c)' = Given(c)
  BY <1>2 DEF Given
<1>11. \A j \in Places' : \E i \in Places :
         /\ clients'[j].fd = clients[i].fd /\ clients'[j].auth = clients[i].auth
         /\ ~reused' => (PaidFor(clients[i]) => PaidFor(clients[j])')
  <2>. TAKE j \in Places'
  <2>1. PICK i \in Places : /\ clients'[j].fd = clients[i].fd /\ clients'[j].auth = clients[i].auth
                            /\ clients'[j].file = clients[i].file /\ clients'[j].h = clients[i].h
    BY <1>9
  <2>2. open'[clients[i].fd] = open[clients[i].fd]
    BY <1>5, <1>8, <2>1
  <2>3. PICK d \in Conns : d = open[clients[i].fd]
    BY <1>4
  <2>4. PaidFor(clients[i]) => PaidFor(clients[j])'
    BY <1>2, <1>8, <1>10, <2>1, <2>2, <2>3, PaidSame
  <2>. QED  BY <2>1, <2>4
<1>12. pc' \notin Handles
  BY <1>2 DEF Handles
<1>. QED  BY <1>1, <1>2, <1>8, <1>11, <1>12, Quiet

-----------------------------------------------------------------------------
\* A response is written.

\* What is written to the connection of the client at ci is of the answer to the
\* request that was handed over last.
LEMMA SentOwn ==
  ASSUME JInv, IInv', stop = "none", stop' = "none", pc = "send", pc' \notin Handles, Current.fd \in fds.write,
         NEW c \in Conns, c = open[Current.fd], unread' = [unread EXCEPT ![c] = @ + Sent],
         UNCHANGED <<script, peer, inbox, backlog, buffer, reused, mixed, served>>,
         \A x \in DOMAIN open' : x \in DOMAIN open /\ open'[x] = open[x],
         Places' = Places,
         \A i \in Places : /\ clients'[i].fd = clients[i].fd /\ clients'[i].auth = clients[i].auth
                           /\ i # ci => /\ clients'[i].file = clients[i].file /\ clients'[i].h = clients[i].h
                                        /\ clients[i].file \in fds'.rbuf => clients[i].file \in fds.rbuf
                                        /\ clients[i].fd \in fds'.wbuf => clients[i].fd \in fds.wbuf,
         ~reused => clients'[ci].file \notin fds'.rbuf,
         Current.fd \in fds'.wbuf => clients'[ci].h.written = Current.h.written + Sent
  PROVE  JInv'
<1>1. /\ IInv /\ NetInv /\ OnceInv /\ ci \in Places /\ Sent \in Int /\ Current.h.written \in Nat
      /\ Current.h.written + Sent <= RLEN /\ (~reused => Sent \in Nat /\ Sends(Current))
      /\ Current = clients[ci]
  BY SentIs DEF JInv, IInv, Current
<1>2. \A i \in Places : clients[i].fd \in DOMAIN open /\ open[clients[i].fd] \in Conns
  BY <1>1, ConnectionOf
<1>3. \A i \in Places : open'[clients[i].fd] = open[clients[i].fd]
  <2>1. (\A i \in Places : clients[i].fd \in DOMAIN open /\ open[clients[i].fd] \in Conns)'
    BY ConnectionOf, PTL
  <2>. QED  BY <2>1
<1>4. OnceInv' /\ (OwnInv => OwnInv')
  BY <1>1, NetQuiet
<1>5. AuthInv => AuthInv'
  <2>1. \A d : Proved(d)' = Proved(d)
    BY DEF Proved
  <2>2. pc' # "carry"
    BY DEF Handles
  <2>. QED  BY <1>3, <2>1, <2>2 DEF AuthInv
<1>6. ASSUME ~reused, PaidInv PROVE PaidInv'
  <2>1. /\ Sent \in Nat /\ Current.fd \in fds.wbuf /\ Given(c) <= RLEN * (served[c] - 1) + Current.h.written
    BY <1>1, <1>6 DEF Sends, PaidInv, PaidFor
  <2>2. Given(c)' = Given(c) + Sent
    <3>1. peer[c].answers \in Nat /\ peer[c].got \in Int /\ unread[c] \in Int /\ RLEN \in Nat
      <4>1. peer[c] \in PeerType /\ unread[c] \in Int
        BY <1>1 DEF NetInv
      <4>2. RLEN \in Nat
        BY SelectLoopAssumption
      <4>. QED  BY <4>1, <4>2 DEF PeerType
    <3>2. unread'[c] = unread[c] + Sent
      BY <1>1 DEF NetInv
    <3>3. PICK paid \in Int : paid = RLEN * peer[c].answers
      BY <3>1
    <3>. HIDE DEF Sent
    <3>4. Given(c)' = paid + peer[c].got + (unread[c] + Sent) /\ Given(c) = paid + peer[c].got + unread[c]
      BY <3>2, <3>3 DEF Given
    <3>5. PICK g, u \in Int : g = peer[c].got /\ u = unread[c]
      BY <3>1
    <3>6. paid + g + (u + Sent) = paid + g + u + Sent
      BY <1>1, <3>5
    <3>. QED  BY <3>4, <3>5, <3>6
  <2>3. \A d \in Conns \ {c} : Given(d)' = Given(d)
    <3>1. \A d \in Conns \ {c} : unread'[d] = unread[d]
      BY <1>1 DEF NetInv
    <3>. QED  BY <3>1 DEF Given
  <2>. HIDE DEF Sent
  <2>4. /\ Given(c)' <= RLEN * (served[c] - 1) + (Current.h.written + Sent)
        /\ Given(c)' <= RLEN * served[c]
    <3>1. Given(c) \in Int /\ served[c] \in Nat /\ RLEN \in Nat
      BY <1>1, GivenType, SelectLoopAssumption
    <3>2. RLEN * (served[c] - 1) + RLEN = RLEN * served[c]
      BY <3>1
    <3>3. PICK paid, all \in Int : paid = RLEN * (served[c] - 1) /\ all = RLEN * served[c]
      BY <3>1
    <3>4. paid + RLEN = all /\ Given(c) <= paid + Current.h.written
      BY <2>1, <3>2, <3>3
    <3>5. PICK w \in Int : w = Current.h.written
      BY <1>1
    <3>6. w + Sent <= RLEN /\ Given(c) <= paid + w
      BY <1>1, <3>4, <3>5
    <3>7. Given(c) + Sent <= paid + (w + Sent) /\ Given(c) + Sent <= all
      BY <1>1, <3>1, <3>3, <3>4, <3>5, <3>6
    <3>. QED  BY <2>2, <3>3, <3>5, <3>7
  <2>5. \A d \in Conns : Given(d)' <= RLEN * served[d]
    BY <1>6, <2>3, <2>4 DEF PaidInv
  <2>6. \A i \in Places : i # ci => PaidFor(clients[i])'
    <3>. TAKE i \in Places
    <3>. HAVE i # ci
    <3>1. PICK d \in Conns : d = open[clients[i].fd]
      BY <1>2
    <3>2. d # c
      <4>1. clients[i].fd \notin Own(Current) /\ Current.fd \in Own(Current)
        BY <1>1, OthersApart, OwnApart
      <4>2. c # "file" /\ clients[i].fd \in DOMAIN open /\ Current.fd \in DOMAIN open
        BY <1>1, <1>2, SelectLoopAssumption
      <4>. QED  BY <1>1, <3>1, <4>1, <4>2 DEF OnceInv
    <3>3. PaidFor(clients[i]) => PaidFor(clients[i])'
      BY <1>3, <2>3, <3>1, <3>2, PaidSame
    <3>. QED  BY <1>6, <3>3 DEF PaidInv
  <2>7. \A i \in Places : i = ci => PaidFor(clients[i])'
    <3>. TAKE i \in Places
    <3>. HAVE i = ci
    <3>1. clients'[i].fd = Current.fd /\ open'[Current.fd] = c /\ clients'[i].file \notin fds'.rbuf
      BY <1>1, <1>3, <1>6
    <3>2. Current.fd \in fds'.wbuf => clients'[i].h.written = Current.h.written + Sent
      OBVIOUS
    <3>. QED  BY <2>4, <3>1, <3>2 DEF PaidFor
  <2>. QED  BY <2>5, <2>6, <2>7 DEF PaidInv
<1>. QED  BY <1>4, <1>5, <1>6 DEF JInv

\* write takes a part of the response.
LEMMA SendPartOwn ==
  ASSUME JInv, SendPart
  PROVE  JInv'
<1>1. IInv /\ [Next]_vars /\ IInv'
  BY IInvStep DEF JInv, Next, Server
<1>2. /\ stop = "none" /\ stop' = "none" /\ pc = "send" /\ pc' = "client" /\ Current.fd \in fds.write
      /\ UNCHANGED <<script, peer, inbox, backlog, open, fds, buffer, reused, mixed, served>>
      /\ unread' = [unread EXCEPT ![open[Current.fd]] = @ + Sent]
      /\ clients' = [clients EXCEPT ![ci].h.written = @ + Sent]
  BY DEF SendPart, Sending, Running, NextClient, history
<1>3. PICK c \in Conns : c = open[Current.fd]
  BY <1>1, <1>2, SentIs
<1>4. PICK sent \in Int : sent = Sent
  BY <1>1, <1>2, SentIs
<1>. HIDE DEF Sent
<1>5. /\ ci \in Places /\ Current \in ClientType /\ Current.h \in Handler /\ Current = clients[ci]
      /\ clients \in Seq(ClientType) /\ (~reused => Sends(Current))
  BY <1>1, <1>2, SentIs, ServedClient DEF IInv, ClientsInv
<1>6. PICK k : k = [Current EXCEPT !.h = [Current.h EXCEPT !.written = Current.h.written + sent]]
  OBVIOUS
<1>7. clients' = [clients EXCEPT ![ci] = k]
  BY <1>2, <1>4, <1>5, <1>6
<1>8. k.fd = Current.fd /\ k.file = Current.file /\ k.auth = Current.auth /\ k.h.written = Current.h.written + sent
  BY <1>4, <1>5, <1>6 DEF ClientType, Handler
<1>9. Places' = Places /\ clients'[ci] = k /\ \A i \in Places : i # ci => clients'[i] = clients[i]
  BY <1>5, <1>7, ExceptSeq DEF Places
<1>10. ~reused => Current.file \notin fds.rbuf
  BY <1>5 DEF Sends
<1>11. pc' \notin Handles
  BY <1>2 DEF Handles
<1>12. /\ \A i \in Places : clients'[i].fd = clients[i].fd /\ clients'[i].auth = clients[i].auth
       /\ ~reused => clients'[ci].file \notin fds'.rbuf
       /\ clients'[ci].h.written = Current.h.written + Sent
  BY <1>2, <1>4, <1>5, <1>8, <1>9, <1>10
<1>. QED  BY <1>1, <1>2, <1>3, <1>9, <1>11, <1>12, SentOwn

\* write takes the rest of it; the client may send its next request.
LEMMA SendRestOwn ==
  ASSUME JInv, SendRest
  PROVE  JInv'
<1>1. IInv /\ [Next]_vars /\ IInv'
  BY IInvStep DEF JInv, Next, Server
<1>. DEFINE rbuf == fds.rbuf \cup {Current.fd}
            wbuf == fds.wbuf \ {Current.fd}
<1>2. /\ stop = "none" /\ stop' = "none" /\ pc = "send" /\ pc' = "expire" /\ Current.fd \in fds.write
      /\ UNCHANGED <<script, peer, inbox, backlog, buffer, reused, mixed, served>>
      /\ unread' = [unread EXCEPT ![open[Current.fd]] = @ + Sent]
      /\ open' = Without(open, {Current.file, Current.cgi})
      /\ fds' = [fds EXCEPT !.wbuf = wbuf, !.rbuf = rbuf]
      /\ clients' = update_active_client([clients EXCEPT ![ci] =
                                         [NewClient(@.fd, TRUE) EXCEPT !.auth = Current.auth]], ci)
  BY DEF SendRest, Sending, Running, history
<1>3. PICK c \in Conns : c = open[Current.fd]
  BY <1>1, <1>2, SentIs
<1>4. /\ ci \in Places /\ Current \in ClientType /\ Current = clients[ci] /\ Current.fd \in Fds
      /\ Current.auth \in BOOLEAN /\ clients \in Seq(ClientType) /\ Places = 1..Len(clients) /\ fds \in SetsType
  BY <1>1, <1>2, SentIs, ServedClient DEF IInv, ClientsInv, FdsInv, ClientType, Places
<1>5. PICK k : k = [NewClient(Current.fd, TRUE) EXCEPT !.auth = Current.auth]
  OBVIOUS
<1>6. k \in ClientType /\ k.fd = Current.fd /\ k.file = unused /\ k.auth = Current.auth
  <2>1. /\ NewClient(Current.fd, TRUE) \in ClientType /\ NewClient(Current.fd, TRUE).fd = Current.fd
        /\ NewClient(Current.fd, TRUE).file = unused
    BY <1>4, NewClientType
  <2>. HIDE DEF NewClient
  <2>. QED  BY <1>4, <1>5, <2>1 DEF ClientType
<1>7. PICK cs : cs = [clients EXCEPT ![ci] = k]
  OBVIOUS
<1>8. clients' = update_active_client(cs, ci)
  <2>1. [clients EXCEPT ![ci] = [NewClient(@.fd, TRUE) EXCEPT !.auth = Current.auth]] = cs
    BY <1>4, <1>5, <1>7
  <2>. QED  BY <1>2, <2>1
<1>9. /\ cs \in Seq(ClientType) /\ Len(cs) = Len(clients) /\ cs[ci] = k
      /\ \A i \in Places : i # ci => cs[i] = clients[i]
  BY <1>4, <1>6, <1>7, ExceptSeq
<1>10. /\ Places' = Places
       /\ \A j \in Places : /\ clients'[j].fd = cs[j].fd /\ clients'[j].file = cs[j].file
                            /\ clients'[j].h = cs[j].h /\ clients'[j].auth = cs[j].auth
  <2>1. ci \in 1..Len(cs)
    BY <1>4, <1>9
  <2>. QED  BY <1>4, <1>8, <1>9, <2>1, PassedOn, AuthPassed DEF Places
<1>11. fds'.rbuf = rbuf /\ fds'.wbuf = wbuf
  BY <1>2, <1>4 DEF SetsType
<1>12. \A i \in Places : i # ci => clients[i].file # Current.fd
  <2>1. Current.fd \in Own(Current)
    BY <1>1, <1>4, OwnApart
  <2>. QED  BY <1>1, <1>4, <2>1, OthersApart
<1>13. unused \notin fds'.rbuf
  BY <1>1, NoDescriptor DEF IInv, FdsInv, SetsType
<1>14. \A x \in DOMAIN open' : x \in DOMAIN open /\ open'[x] = open[x]
  BY <1>2 DEF Without
<1>15. pc' \notin Handles
  BY <1>2 DEF Handles
<1>16. /\ clients'[ci].file \notin fds'.rbuf /\ Current.fd \notin fds'.wbuf
       /\ \A i \in Places : /\ clients'[i].fd = clients[i].fd /\ clients'[i].auth = clients[i].auth
                            /\ i # ci => /\ clients'[i].file = clients[i].file /\ clients'[i].h = clients[i].h
                                         /\ clients[i].file \in fds'.rbuf => clients[i].file \in fds.rbuf
                                         /\ clients[i].fd \in fds'.wbuf => clients[i].fd \in fds.wbuf
  BY <1>4, <1>6, <1>9, <1>10, <1>11, <1>12, <1>13
<1>. HIDE DEF Sent
<1>. QED  BY <1>1, <1>2, <1>3, <1>10, <1>14, <1>15, <1>16, SentOwn

-----------------------------------------------------------------------------
\* A connection is accepted.

\* The next connection gets a descriptor nobody has, and what it has sent so far
\* is behind nothing, unless bytes of an earlier connection lie at this number.
LEMMA AcceptOwn ==
  ASSUME JInv, Accept
  PROVE  JInv'
<1>. DEFINE fd == Lowest(Free)
            c  == Head(backlog)
            k  == NewClient(fd, clients = <<>>)
            n  == Len(clients)
<1>1. IInv /\ [Next]_vars /\ IInv' /\ NetInv /\ OnceInv
  BY IInvStep DEF JInv, IInv, Next, Server
<1>2. /\ stop = "none" /\ stop' = "none" /\ pc = "accept" /\ pc' = "client" /\ Listen \in fds.read
      /\ open' = With(open, fd, c)
      /\ fds' = [fds EXCEPT !.age[fd] = 0, !.rbuf = @ \cup {fd}, !.max = update_max(@, fd)]
      /\ clients' = Append(clients, k)
      /\ reused' = (reused \/ fd \in fds.rbuf \cup fds.wbuf)
      /\ mixed' = IF fd \in DOMAIN buffer THEN mixed \cup {c} ELSE mixed
      /\ backlog' = Tail(backlog)
      /\ UNCHANGED <<script, peer, inbox, unread, buffer, served>>
  BY DEF Accept, Running
<1>3. fd \in Fds /\ fd \notin DOMAIN open
  <2>1. Free # {} /\ Free \in SUBSET Fds
    BY DEF Accept, Free
  <2>2. fd \in Free
    BY <2>1, LowestIn
  <2>. QED  BY <2>2 DEF Free
<1>4. /\ c \in Conns /\ c = backlog[1] /\ 1 \in 1..Len(backlog) /\ Len(backlog) \in Nat
      /\ \A i \in 1..Len(backlog') : backlog'[i] = backlog[i + 1] /\ i + 1 \in 1..Len(backlog) /\ i + 1 # 1
      /\ \A i, j \in 1..Len(backlog') : i + 1 = j + 1 => i = j
  <2>1. backlog # <<>> /\ backlog \in Seq(Conns)
    BY <1>1, <1>2 DEF IInv, PassInv, NetInv
  <2>2. c \in Conns /\ Tail(backlog) \in Seq(Conns) /\ Len(backlog') = Len(backlog) - 1 /\ Len(backlog) \in Nat \ {0}
        /\ c = backlog[1] /\ \A i \in 1..Len(backlog') : backlog'[i] = backlog[i + 1]
    BY <1>2, <2>1, HeadTailProperties, LenProperties
  <2>. QED  BY <2>2
<1>5. k \in ClientType /\ k.fd = fd /\ k.file = unused /\ ~k.auth
  BY <1>3, NewClientType DEF NewClient
<1>. HIDE DEF fd, c, k
<1>6. /\ n \in Nat /\ clients'[n + 1] = k /\ Places' = Places \cup {n + 1}
      /\ \A i \in Places : clients'[i] = clients[i]
  <2>1. clients \in Seq(ClientType)
    BY <1>1 DEF IInv, ClientsInv
  <2>2. /\ n \in Nat /\ Len(clients') = n + 1 /\ clients'[n + 1] = k
        /\ \A i \in 1..n : clients'[i] = clients[i]
    BY <1>2, <1>5, <2>1, AppendProperties, LenProperties
  <2>. QED  BY <2>2 DEF Places
<1>7. /\ \A x \in DOMAIN open' : x \in DOMAIN open \/ x = fd
      /\ \A x \in DOMAIN open : open'[x] = open[x] /\ x # fd
      /\ open'[fd] = c
  BY <1>2, <1>3 DEF With
<1>8. \A d \in Conns : d # "file"
  BY SelectLoopAssumption
<1>9. OnceInv'
  <2>1. \A x \in DOMAIN open : open[x] # c
    BY <1>1, <1>4 DEF OnceInv
  <2>2. \A x, y \in DOMAIN open' : open'[x] = open'[y] /\ open'[x] # "file" => x = y
    BY <1>1, <1>7, <2>1 DEF OnceInv
  <2>3. \A i, j \in 1..Len(backlog') : backlog'[i] = backlog'[j] => i = j
    <3>1. \A i, j \in 1..Len(backlog) : backlog[i] = backlog[j] => i = j
      BY <1>1 DEF OnceInv
    <3>. QED  BY <1>4, <3>1
  <2>4. \A i \in 1..Len(backlog') : backlog'[i] # c
    BY <1>1, <1>4 DEF OnceInv
  <2>5. \A x \in DOMAIN open' : \A i \in 1..Len(backlog') : open'[x] # backlog'[i]
    BY <1>1, <1>4, <1>7, <2>4 DEF OnceInv
  <2>6. \A d \in Conns : peer[d].st = "out" => /\ \A x \in DOMAIN open' : open'[x] # d
                                               /\ \A i \in 1..Len(backlog') : backlog'[i] # d
    <3>1. \A d \in Conns : peer[d].st = "out" => d # c
      BY <1>1, <1>4 DEF OnceInv
    <3>. QED  BY <1>1, <1>4, <1>7, <3>1 DEF OnceInv
  <2>. QED  BY <1>1, <1>2, <2>2, <2>3, <2>5, <2>6 DEF OnceInv
<1>10. ASSUME OwnInv PROVE OwnInv'
  <2>1. \A d \in Conns : \A r : Underway(d, r) => Underway(d, r)'
    BY <1>2, UnderwayStays
  <2>2. \A x : Held(x)' = Held(x)
    BY <1>2 DEF Held
  <2>3. c \notin mixed' => Held(fd) = NewBuffer
    BY <1>2 DEF Held
  <2>4. mixed \subseteq mixed'
    BY <1>2
  <2>5. \A x \in DOMAIN open' : \A d \in Conns \ mixed' :
          open'[x] = d => \A r : r = Collected(Held(x), inbox[d]) => Underway(d, r)'
    <3>. TAKE x \in DOMAIN open'
    <3>. TAKE d \in Conns \ mixed'
    <3>. HAVE open'[x] = d
    <3>1. CASE x = fd
      <4>1. d = c /\ Held(x) = NewBuffer
        BY <1>7, <2>3, <3>1
      <4>2. \A r : r = Collected(NewBuffer, inbox[c]) => Underway(c, r)
        BY <1>4, <1>10 DEF OwnInv
      <4>. QED  BY <1>4, <2>1, <4>1, <4>2
    <3>2. CASE x # fd
      <4>1. x \in DOMAIN open /\ open[x] = d /\ d \in Conns \ mixed
        BY <1>7, <2>4, <3>2
      <4>. QED  BY <1>10, <2>1, <4>1 DEF OwnInv
    <3>. QED  BY <3>1, <3>2
  <2>6. \A i \in 1..Len(backlog') : \A d \in Conns :
          backlog'[i] = d => \A r : r = Collected(NewBuffer, inbox[d]) => Underway(d, r)'
    BY <1>4, <1>10, <2>1 DEF OwnInv
  <2>7. \A d \in Conns : peer[d].st = "out" =>
          peer[d].req = 1 /\ peer[d].seg = 0 /\ served[d] = 0 /\ inbox[d] = <<>>
    BY <1>10 DEF OwnInv
  <2>. QED  BY <1>2, <2>2, <2>5, <2>6, <2>7 DEF OwnInv
<1>11. \A i \in Places : clients[i].fd \in DOMAIN open /\ open[clients[i].fd] \in Conns
  BY <1>1, ConnectionOf
<1>12. ASSUME PaidInv, ~reused' PROVE PaidInv'
  <2>1. \A d : Given(d)' = Given(d)
    BY <1>2 DEF Given
  <2>2. fds'.rbuf = fds.rbuf \cup {fd} /\ fds'.wbuf = fds.wbuf
    <3>1. fds \in SetsType
      BY <1>1 DEF IInv, FdsInv
    <3>. QED  BY <1>2, <3>1 DEF SetsType
  <2>3. \A i \in Places : PaidFor(clients[i])'
    <3>. TAKE i \in Places
    <3>1. PICK d \in Conns : d = open[clients[i].fd]
      BY <1>11
    <3>2. clients[i].file # fd
      <4>1. clients[i].file \in DOMAIN open \cup {unused}
        BY <1>1, OwnApart DEF IInv, TableInv
      <4>. QED  BY <1>3, <4>1, NoDescriptor
    <3>3. open'[clients[i].fd] = d
      BY <1>7, <1>11, <3>1
    <3>4. PaidFor(clients[i]) => PaidFor(clients[i])'
      BY <1>2, <1>6, <2>1, <2>2, <3>1, <3>2, <3>3, PaidSame
    <3>. QED  BY <1>12, <3>4 DEF PaidInv
  <2>4. fd \notin fds'.wbuf /\ unused \notin fds'.rbuf
    <3>1. unused \notin fds'.rbuf
      BY <1>1, NoDescriptor DEF IInv, FdsInv, SetsType
    <3>. QED  BY <1>2, <1>12, <2>2, <3>1
  <2>5. \A j : clients'[j] = k => PaidFor(clients[j])'
    BY <1>5, <2>4 DEF PaidFor
  <2>6. \A j \in Places' : PaidFor(clients[j])'
    BY <1>6, <2>3, <2>5
  <2>7. \A d \in Conns : Given(d)' <= RLEN * served'[d]
    BY <1>2, <1>12, <2>1 DEF PaidInv
  <2>. QED  BY <1>2, <2>6, <2>7 DEF PaidInv, Handles
<1>13. ASSUME AuthInv PROVE AuthInv'
  <2>1. \A d : Proved(d)' = Proved(d)
    BY <1>2 DEF Proved
  <2>2. mixed \subseteq mixed'
    BY <1>2
  <2>3. \A i \in Places' : clients'[i].auth /\ open'[clients'[i].fd] \notin mixed' => Proved(open'[clients'[i].fd])
    <3>. TAKE i \in Places'
    <3>1. CASE i \in Places
      BY <1>6, <1>7, <1>11, <1>13, <2>2, <3>1 DEF AuthInv
    <3>2. CASE i = n + 1
      BY <1>5, <1>6, <3>2
    <3>. QED  BY <1>6, <3>1, <3>2
  <2>. QED  BY <1>2, <2>1, <2>3 DEF AuthInv, Handles
<1>. QED  BY <1>1, <1>2, <1>9, <1>10, <1>12, <1>13 DEF JInv

-----------------------------------------------------------------------------
\* A request is read.

\* What is complete is the request the peer has come to, all but a line break.
LEMMA HandedOver ==
  ASSUME Tells, NetInv, NEW c \in Conns, NEW r, Underway(c, r), Complete(r)
  PROVE  LET request == script[c][peer[c].req]
             n       == Len(request.wire)
         IN /\ served[c] = peer[c].req - 1 /\ peer[c].req \in 1..Len(script[c])
            /\ peer[c].seg \in 1..n
            /\ peer[c].seg = n \/ (peer[c].seg = n - 1 /\ request.wire[n] = <<"NL">>)
            /\ parse_first_line(r) = request.asked
            /\ Plain(request) => parse_body(r).data = request.payload
<1>. DEFINE request == script[c][peer[c].req]
            n       == Len(request.wire)
<1>1. \A lead \in Leads : r # Collected(NewBuffer, lead)
  BY NothingComplete DEF Leads
<1>2. r # NewBuffer
  BY <1>1, NewIs DEF Leads
<1>3. peer[c].req \in 1..Len(script[c]) /\ peer[c].seg \in 1..n /\ (Coming(c, r) \/ Over(c, r))
  BY <1>2 DEF Underway
<1>4. ~Over(c, r)
  BY <1>1 DEF Over, Leads
<1>5. PICK lead \in Leads : r = Gathered(request.wire, lead, peer[c].seg)
  BY <1>3, <1>4 DEF Coming
<1>6. served[c] = peer[c].req - 1
  BY <1>3, <1>4 DEF Coming
<1>7. Told(request)
  BY <1>3 DEF Tells
<1>. HIDE DEF request
<1>8. /\ peer[c].seg = n \/ (peer[c].seg = n - 1 /\ request.wire[n] = <<"NL">>)
      /\ parse_first_line(r) = request.asked
      /\ Plain(request) => parse_body(r).data = request.payload
  BY <1>3, <1>5, <1>7 DEF Told
<1>. QED  BY <1>3, <1>6, <1>8 DEF request

\* The client that is read from: it has no file, and what is read comes behind
\* what is held for it.
LEMMA ReadsFrom ==
  ASSUME JInv, ReadRequest
  PROVE  /\ stop = "none" /\ ci \in Places /\ Current.file = unused /\ Current.fd \in DOMAIN open
         /\ open[Current.fd] \in Conns /\ Held(Current.fd) \in RequestBuf
         /\ inbox[open[Current.fd]] \in Seq(Token)
         /\ Received = Collected(Held(Current.fd), inbox[open[Current.fd]])
         /\ \A c \in Conns \ mixed : c = open[Current.fd] /\ ~reused => Underway(c, Received)
<1>1. IInv /\ stop = "none" /\ pc = "client" /\ ci <= Len(clients) /\ Current.fd \in fds.read
  BY DEF JInv, ReadRequest, Serving, Running
<1>2. ci \in Places
  <2>1. ci \in Nat \ {0} /\ Len(clients) \in Nat
    BY <1>1, ClientIs DEF IInv, ControlInv
  <2>. QED  BY <1>1, <2>1 DEF Places
<1>3. /\ Current.fd \in DOMAIN open /\ open[Current.fd] \in Conns /\ Current = clients[ci]
  BY <1>1, <1>2, ServedClient
<1>4. Current.file = unused
  <2>1. ci >= ci
    BY <1>1 DEF IInv, ControlInv
  <2>2. Current.fd \in fds.rbuf
    BY <1>1, <1>2, <1>3, <2>1 DEF IInv, PassInv, Ahead
  <2>. QED  BY <1>1, <1>2, <1>3, <2>2 DEF IInv, FdsInv
<1>5. Held(Current.fd) \in RequestBuf
  BY <1>1, NewIs DEF Held, IInv, BufferInv
<1>6. inbox[open[Current.fd]] \in Seq(Token)
  BY <1>1, <1>3 DEF IInv, NetInv
<1>7. Received = Collected(Held(Current.fd), inbox[open[Current.fd]])
  BY DEF Received, Held
<1>8. \A c \in Conns \ mixed : c = open[Current.fd] /\ ~reused => Underway(c, Received)
  <2>1. ~reused => OwnInv
    BY <1>1 DEF JInv
  <2>. HIDE DEF Received
  <2>. QED  BY <1>3, <1>7, <2>1 DEF OwnInv
<1>. QED  BY <1>1, <1>2, <1>3, <1>4, <1>5, <1>6, <1>7, <1>8

\* The bytes of the others are as they were, and those of the one that was read
\* are what is held for it.
LEMMA ReadOwn ==
  ASSUME JInv, ReadRequest, OwnInv, NEW fd, fd = Current.fd,
         UNCHANGED <<script, peer, backlog, open, mixed>>,
         \A d \in Conns : d # open[Current.fd] => served'[d] = served[d],
         \A x : x # fd => Held(x)' = Held(x),
         \A c \in Conns \ mixed : c = open[Current.fd] =>
           \A r : r = Collected(Held(fd)', <<>>) => Underway(c, r)'
  PROVE  OwnInv'
<1>1. /\ Current.fd \in DOMAIN open /\ open[Current.fd] \in Conns /\ NetInv /\ OnceInv
  BY ReadsFrom DEF JInv, IInv
<1>2. inbox' = [inbox EXCEPT ![open[Current.fd]] = <<>>]
  BY DEF ReadRequest
<1>3. /\ \A d \in Conns : d # open[Current.fd] => inbox'[d] = inbox[d]
      /\ inbox'[open[Current.fd]] = <<>>
  BY <1>1, <1>2 DEF NetInv
<1>4. \A d \in Conns : d # open[Current.fd] => \A r : Underway(d, r) => Underway(d, r)'
  BY UnderwayStays
<1>5. \A x \in DOMAIN open : \A d \in Conns \ mixed :
        open[x] = d => \A r : r = Collected(Held(x)', inbox'[d]) => Underway(d, r)'
  <2>. TAKE x \in DOMAIN open
  <2>. TAKE d \in Conns \ mixed
  <2>. HAVE open[x] = d
  <2>1. CASE x = Current.fd
    BY <1>3, <2>1
  <2>2. CASE x # Current.fd
    <3>1. d # open[Current.fd]
      BY <1>1, <2>2, SelectLoopAssumption DEF OnceInv
    <3>. QED  BY <1>3, <1>4, <2>2, <3>1 DEF OwnInv
  <2>. QED  BY <2>1, <2>2
<1>6. \A i \in 1..Len(backlog) : \A d \in Conns :
        backlog[i] = d => \A r : r = Collected(NewBuffer, inbox'[d]) => Underway(d, r)'
  <2>1. \A i \in 1..Len(backlog) : backlog[i] # open[Current.fd]
    BY <1>1 DEF OnceInv
  <2>. QED  BY <1>3, <1>4, <2>1 DEF OwnInv
<1>7. \A d \in Conns : peer[d].st = "out" =>
        peer[d].req = 1 /\ peer[d].seg = 0 /\ served'[d] = 0 /\ inbox'[d] = <<>>
  <2>1. \A d \in Conns : peer[d].st = "out" => d # open[Current.fd]
    BY <1>1 DEF OnceInv
  <2>. QED  BY <1>3, <2>1 DEF OwnInv
<1>. QED  BY <1>5, <1>6, <1>7 DEF OwnInv

\* Nothing is handed over yet, or never.
LEMMA NotHandedOwn ==
  ASSUME JInv, ReadRequest, ReadPart(Received) \/ ParseThrows(Received)
  PROVE  JInv'
<1>1. IInv /\ [Next]_vars /\ IInv' /\ NetInv /\ OnceInv
  BY IInvStep DEF JInv, IInv, Next, Server
<1>2. PICK fd : fd = Current.fd
  OBVIOUS
<1>3. PICK c \in Conns : c = open[fd]
  BY <1>2, ReadsFrom
<1>4. PICK r : r = Received
  OBVIOUS
<1>5. /\ ci \in Places /\ fd \in DOMAIN open /\ r = Collected(Held(fd), inbox[c])
      /\ Held(fd) \in RequestBuf /\ inbox[c] \in Seq(Token) /\ stop = "none"
      /\ c \notin mixed /\ ~reused => Underway(c, r)
  BY <1>2, <1>3, <1>4, ReadsFrom
<1>6. /\ buffer' = With(buffer, fd, r) /\ fds' = Aged /\ pc' \notin Handles
      /\ UNCHANGED <<script, peer, unread, backlog, open, clients, ci, reused, mixed, served>>
      /\ stop' = "none" \/ ParseThrows(r)
  <2>. HIDE DEF Received
  <2>1. pc = "client"
    BY DEF ReadRequest, Serving, Running
  <2>2. CASE ReadPart(r)
    BY <1>2, <1>4, <1>5, <2>2 DEF ReadPart, Handles, history
  <2>3. CASE ParseThrows(r)
    BY <1>2, <1>4, <2>1, <2>3 DEF ParseThrows, Handles, history
  <2>. QED  BY <1>4, <2>2, <2>3
<1>7. OnceInv'
  BY <1>1, <1>6 DEF OnceInv
<1>8. \A d : Proved(d)' = Proved(d)
  BY <1>6 DEF Proved
<1>9. AuthInv => AuthInv'
  <2>1. pc' # "carry" /\ Places' = Places
    BY <1>6 DEF Handles, Places
  <2>. QED  BY <1>6, <1>8, <2>1 DEF AuthInv
<1>10. PaidInv => PaidInv'
  <2>1. fds'.rbuf = fds.rbuf /\ fds'.wbuf = fds.wbuf
    BY <1>1, <1>5, <1>6, AgedType
  <2>2. \A d : Given(d)' = Given(d)
    BY <1>6 DEF Given
  <2>3. \A i \in Places : open[clients[i].fd] \in Conns
    BY <1>1, ConnectionOf
  <2>4. \A i \in Places : PaidFor(clients[i]) => PaidFor(clients[i])'
    <3>. TAKE i \in Places
    <3>1. PICK d \in Conns : d = open[clients[i].fd]
      BY <2>3
    <3>. QED  BY <1>6, <2>1, <2>2, <3>1, PaidSame
  <2>. QED  BY <1>6, <2>2, <2>4 DEF PaidInv, Places
<1>11. ASSUME OwnInv, ~reused PROVE OwnInv'
  <2>1. \A x : x # fd => Held(x)' = Held(x)
    BY <1>6 DEF Held, With
  <2>2. Held(fd)' = r
    BY <1>6 DEF Held, With
  <2>3. Collected(r, <<>>) = r
    BY <1>5, CollectsNothing
  <2>4. Underway(c, r) => Underway(c, r)'
    BY <1>6, UnderwayStays
  <2>5. \A d \in Conns \ mixed : d = open[Current.fd] =>
          \A s : s = Collected(Held(fd)', <<>>) => Underway(d, s)'
    BY <1>2, <1>3, <1>5, <1>11, <2>2, <2>3, <2>4
  <2>. QED  BY <1>2, <1>6, <1>11, <2>1, <2>5, ReadOwn
<1>. QED  BY <1>1, <1>5, <1>6, <1>7, <1>9, <1>10, <1>11 DEF JInv

\* A request is handed over: it is the one that was to be handed over next.
LEMMA HandedOwn ==
  ASSUME Tells, JInv, ReadRequest, Parsed(Received)
  PROVE  JInv'
<1>1. IInv /\ [Next]_vars /\ IInv' /\ NetInv /\ OnceInv
  BY IInvStep DEF JInv, IInv, Next, Server
<1>2. PICK fd : fd = Current.fd
  OBVIOUS
<1>3. PICK c \in Conns : c = open[fd]
  BY <1>2, ReadsFrom
<1>4. PICK r : r = Received
  OBVIOUS
<1>5. /\ ci \in Places /\ fd \in DOMAIN open /\ r \in RequestBuf /\ stop = "none" /\ Current.file = unused
      /\ c \notin mixed /\ ~reused => Underway(c, r)
      /\ Current \in ClientType /\ Current = clients[ci] /\ Current.h \in Handler
  BY <1>1, <1>2, <1>3, <1>4, ReadsFrom, ReceivedType, ServedClient
<1>6. /\ Complete(r) /\ buffer' = Without(buffer, {fd}) /\ fds' = Aged /\ pc' = "match"
      /\ clients' = [clients EXCEPT
           ![ci].h = [FreshHandler EXCEPT !.asked = parse_first_line(r), !.body = parse_body(r).data]]
      /\ served' = [served EXCEPT ![c] = @ + 1]
      /\ UNCHANGED <<script, peer, unread, backlog, open, ci, stop, reused, mixed>>
  <2>. HIDE DEF Received
  <2>. QED  BY <1>2, <1>3, <1>4 DEF Parsed, remove_handled_request
<1>7. PICK h : h = [FreshHandler EXCEPT !.asked = parse_first_line(r), !.body = parse_body(r).data]
  OBVIOUS
<1>8. h \in Handler /\ h.asked = parse_first_line(r) /\ h.asked.uri # <<>>
  <2>1. parse_first_line(r) \in Asked /\ parse_first_line(r).uri # <<>> /\ parse_body(r).data \in Seq(Token)
    BY <1>5, <1>6, ParsedType
  <2>. HIDE DEF FreshHandler
  <2>2. PICK asked, data : asked = parse_first_line(r) /\ data = parse_body(r).data
    OBVIOUS
  <2>3. h = [FreshHandler EXCEPT !.asked = asked, !.body = data]
    BY <1>7, <2>2
  <2>. QED  BY <2>1, <2>2, <2>3, FreshType DEF Handler
<1>9. PICK k : k = [Current EXCEPT !.h = h]
  OBVIOUS
<1>10. /\ k \in ClientType /\ k.h = h /\ k.fd = fd /\ k.file = unused /\ k.auth = Current.auth
       /\ clients' = [clients EXCEPT ![ci] = k]
  <2>1. clients' = [clients EXCEPT ![ci].h = h]
    BY <1>6, <1>7
  <2>2. clients' = [clients EXCEPT ![ci] = k]
    BY <1>5, <1>9, <2>1
  <2>. QED  BY <1>2, <1>5, <1>8, <1>9, <2>2 DEF ClientType
<1>11. Places' = Places /\ clients'[ci] = k /\ \A i \in Places : i # ci => clients'[i] = clients[i]
  BY <1>1, <1>5, <1>8, <1>10, ReplacedBy
<1>12. /\ served \in [Conns -> Nat] /\ served' \in [Conns -> Nat] /\ served'[c] = served[c] + 1
       /\ \A d \in Conns : d # c => served'[d] = served[d]
  BY <1>1, <1>6 DEF OnceInv
<1>13. OnceInv'
  BY <1>1, <1>6, <1>12 DEF OnceInv
<1>14. ASSUME c \notin mixed, ~reused
       PROVE  /\ served[c] = peer[c].req - 1 /\ peer[c].req \in 1..Len(script[c])
              /\ peer[c].seg \in 1..Len(script[c][peer[c].req].wire)
              /\ \/ peer[c].seg = Len(script[c][peer[c].req].wire)
                 \/ /\ peer[c].seg = Len(script[c][peer[c].req].wire) - 1
                    /\ script[c][peer[c].req].wire[Len(script[c][peer[c].req].wire)] = <<"NL">>
              /\ parse_first_line(r) = script[c][peer[c].req].asked
  BY <1>1, <1>5, <1>6, <1>14, HandedOver
<1>15. ASSUME c \notin mixed, ~reused
       PROVE  served'[c] = peer[c].req /\ served'[c] \in 1..Len(script[c])
  <2>1. peer[c].req \in Nat
    BY <1>1 DEF NetInv, PeerType
  <2>. QED  BY <1>12, <1>14, <1>15, <2>1
<1>16. ASSUME OwnInv, ~reused PROVE OwnInv'
  <2>1. \A x : x # fd => Held(x)' = Held(x)
    BY <1>6 DEF Held, Without
  <2>2. Held(fd)' = NewBuffer
    BY <1>6 DEF Held, Without
  <2>3. Collected(NewBuffer, <<>>) = NewBuffer /\ <<>> \in Leads
    BY NewIs DEF Leads
  <2>4. c \notin mixed => Underway(c, NewBuffer)'
    <3>. SUFFICES ASSUME c \notin mixed PROVE Underway(c, NewBuffer)'
      OBVIOUS
    <3>1. Over(c, NewBuffer)'
      BY <1>6, <1>14, <1>15, <1>16, <2>3 DEF Over
    <3>. QED  BY <1>6, <1>14, <1>16, <3>1 DEF Underway
  <2>5. \A d \in Conns \ mixed : d = open[Current.fd] =>
          \A s : s = Collected(Held(fd)', <<>>) => Underway(d, s)'
    BY <1>2, <1>3, <2>2, <2>3, <2>4
  <2>. QED  BY <1>2, <1>3, <1>6, <1>12, <1>16, <2>1, <2>5, ReadOwn
<1>17. \A i \in Places : clients[i].fd \in DOMAIN open /\ open[clients[i].fd] \in Conns
  BY <1>1, ConnectionOf
<1>18. ASSUME PaidInv PROVE PaidInv'
  <2>1. fds'.rbuf = fds.rbuf /\ fds'.wbuf = fds.wbuf
    BY <1>1, <1>5, <1>6, AgedType
  <2>2. \A d : Given(d)' = Given(d)
    BY <1>6 DEF Given
  <2>3. Given(c) <= RLEN * (served'[c] - 1)
    <3>1. (served[c] + 1) - 1 = served[c]
      BY <1>12
    <3>. QED  BY <1>12, <1>18, <3>1 DEF PaidInv
  <2>4. \A d \in Conns : Given(d)' <= RLEN * served'[d]
    <3>1. Given(c) <= RLEN * served'[c]
      <4>1. served'[c] \in Nat /\ RLEN \in Nat \ {0} /\ Given(c) \in Int
        BY <1>1, <1>12, GivenType, SelectLoopAssumption
      <4>2. RLEN * (served'[c] - 1) + RLEN = RLEN * served'[c] /\ RLEN * served'[c] \in Int
            /\ RLEN * (served'[c] - 1) \in Int
        BY <4>1
      <4>3. PICK low, high \in Int : low = RLEN * (served'[c] - 1) /\ high = RLEN * served'[c]
        BY <4>2
      <4>4. low + RLEN = high /\ Given(c) <= low
        BY <2>3, <4>2, <4>3
      <4>5. Given(c) <= high
        BY <4>1, <4>4
      <4>. QED  BY <4>3, <4>5
    <3>. QED  BY <1>12, <1>18, <2>2, <3>1 DEF PaidInv
  <2>5. unused \notin fds'.rbuf
    BY <1>1, NoDescriptor DEF IInv, FdsInv, SetsType
  <2>6. \A j : clients'[j] = k => PaidFor(clients[j])'
    <3>. TAKE j
    <3>. HAVE clients'[j] = k
    <3>1. clients'[j].fd = fd /\ clients'[j].file = unused /\ open'[fd] = c /\ k.h.written = 0
      BY <1>3, <1>6, <1>7, <1>10 DEF FreshHandler
    <3>2. Given(c)' <= RLEN * (served'[c] - 1) + 0
      <4>1. RLEN * (served'[c] - 1) \in Int
        BY <1>12, SelectLoopAssumption
      <4>. QED  BY <2>2, <2>3, <4>1
    <3>. QED  BY <2>5, <3>1, <3>2 DEF PaidFor
  <2>7. \A i \in Places : i # ci => PaidFor(clients[i])'
    <3>. TAKE i \in Places
    <3>. HAVE i # ci
    <3>1. PICK d \in Conns : d = open[clients[i].fd]
      BY <1>17
    <3>2. d # c
      <4>1. clients[i].fd # fd
        BY <1>1, <1>2, <1>5, OthersApart, OwnApart
      <4>2. c # "file"
        BY SelectLoopAssumption
      <4>. QED  BY <1>1, <1>3, <1>5, <1>17, <3>1, <4>1, <4>2 DEF OnceInv
    <3>3. PaidFor(clients[i])
      BY <1>18 DEF PaidInv
    <3>4. clients'[i] = clients[i] /\ open'[clients[i].fd] = d /\ served'[d] = served[d]
      BY <1>6, <1>11, <1>12, <3>1, <3>2
    <3>. QED  BY <2>1, <2>2, <3>1, <3>3, <3>4 DEF PaidFor
  <2>8. clients'[ci'].fd = fd /\ open'[fd] = c
    BY <1>3, <1>6, <1>10, <1>11
  <2>9. \A d : d = open'[clients'[ci'].fd] => Given(d)' <= RLEN * (served'[d] - 1)
    BY <2>2, <2>3, <2>8
  <2>. QED  BY <1>11, <2>4, <2>6, <2>7, <2>9 DEF PaidInv
<1>19. ASSUME AuthInv, ~reused PROVE AuthInv'
  <2>1. \A d \in Conns : Proved(d) => Proved(d)'
    <3>. TAKE d \in Conns
    <3>. HAVE Proved(d)
    <3>1. served[d] \in Nat /\ served'[d] \in Nat /\ served[d] <= served'[d]
      BY <1>12
    <3>2. PICK q \in 1..served[d] : script[d][q].asked.credentials = "right"
      BY DEF Proved
    <3>3. q \in 1..served'[d]
      BY <3>1
    <3>. QED  BY <1>6, <3>2, <3>3 DEF Proved
  <2>2. \A i \in Places : clients'[i].fd = clients[i].fd /\ clients'[i].auth = clients[i].auth
    BY <1>2, <1>5, <1>10, <1>11
  <2>3. \A i \in Places : clients'[i].auth /\ open[clients[i].fd] \notin mixed => Proved(open[clients[i].fd])
    BY <1>19, <2>2 DEF AuthInv
  <2>4. \A i \in Places : \A d \in Conns :
          d = open[clients[i].fd] => (clients'[i].auth /\ d \notin mixed => Proved(d)')
    BY <1>17, <2>1, <2>3
  <2>5. \A i \in Places' : \A d : d = open'[clients'[i].fd] => (clients'[i].auth /\ d \notin mixed' => Proved(d)')
    BY <1>6, <1>11, <1>17, <2>2, <2>4
  <2>6. clients'[ci'].fd = fd /\ open'[fd] = c /\ clients'[ci'].h.asked = parse_first_line(r)
    BY <1>3, <1>6, <1>8, <1>10, <1>11
  <2>7. c \notin mixed' => /\ served'[c] \in 1..Len(script'[c])
                           /\ clients'[ci'].h.asked = script'[c][served'[c]].asked
    BY <1>6, <1>14, <1>15, <1>19, <2>6
  <2>. QED  BY <1>6, <2>5, <2>6, <2>7 DEF AuthInv
<1>. QED  BY <1>1, <1>5, <1>6, <1>13, <1>16, <1>18, <1>19 DEF JInv

-----------------------------------------------------------------------------
\* Every step keeps it.
LEMMA JInvStep == Tells /\ JInv /\ [Next]_vars => JInv'
<1>. SUFFICES ASSUME Tells, JInv, [Next]_vars PROVE JInv'
  OBVIOUS
<1>1. CASE \/ Select \/ SelectFails \/ NoAccept \/ AcceptFails \/ LoopEnds \/ SkipInactive
           \/ NothingRead \/ NoFile \/ NotWritable \/ SigPipe \/ OutputThrows \/ sync_maxFD \/ Tick
  BY <1>1, StillSteps
<1>2. CASE Peers
  BY <1>2, PeersOwn
<1>3. CASE Accept
  BY <1>3, AcceptOwn
<1>4. CASE ReadRequest
  <2>1. ReadPart(Received) \/ ParseThrows(Received) \/ Parsed(Received)
    BY <1>4 DEF ReadRequest
  <2>. QED  BY <1>4, <2>1, NotHandedOwn, HandedOwn
<1>5. CASE Match \/ Verify
  BY <1>5, CheckedOwn
<1>6. CASE HandleRequest
  BY <1>6, HandleOwn
<1>7. CASE WriteBody \/ ReadFile \/ FileDone
  BY <1>7, FileOwn
<1>8. CASE ReadThrows \/ WritingFails \/ ReadFails \/ SendThrows
  BY <1>8, ErrorOwn
<1>9. CASE SendPart
  BY <1>9, SendPartOwn
<1>10. CASE SendRest
  BY <1>10, SendRestOwn
<1>11. CASE PassTurn
  BY <1>11, PassTurnOwn
<1>12. CASE UNCHANGED vars
  <2>1. IInv'
    BY IInvStep DEF JInv
  <2>2. UNCHANGED <<script, peer, inbox, unread, backlog, open, fds, clients, buffer, pc, ci, stop, reused, mixed, served>>
    BY <1>12 DEF vars, net, process, history
  <2>3. OnceInv' /\ (OwnInv => OwnInv')
    BY <2>2, NetQuiet DEF JInv, IInv
  <2>4. PaidInv => PaidInv'
    <3>1. \A d : Given(d)' = Given(d)
      BY <2>2 DEF Given
    <3>. QED  BY <2>2, <3>1 DEF PaidInv, PaidFor, Places
  <2>5. AuthInv => AuthInv'
    <3>1. \A d : Proved(d)' = Proved(d)
      BY <2>2 DEF Proved
    <3>. QED  BY <2>2, <3>1 DEF AuthInv, Places
  <2>. QED  BY <2>1, <2>2, <2>3, <2>4, <2>5 DEF JInv
<1>. QED  BY <1>1, <1>2, <1>3, <1>4, <1>5, <1>6, <1>7, <1>8, <1>9, <1>10, <1>11, <1>12 DEF Next, Server

\* The scripts stay what they are.
LEMMA TellsStays == [Next]_vars => (Tells <=> Tells')
<1>. SUFFICES ASSUME [Next]_vars PROVE script' = script
  BY DEF Tells
<1>1. CASE Server
  BY <1>1 DEF Server, Select, SelectFails, NoAccept, Accept, AcceptFails, LoopEnds, SkipInactive,
              NothingRead, ReadThrows, ReadRequest, ReadPart, ParseThrows, Parsed, Match, Verify,
              HandleRequest, NoFile, WriteBody, WritingFails, ReadFile, ReadFails, OutputThrows,
              FileDone, NotWritable, SendPart, SendRest, SendThrows, SigPipe, PassTurn, sync_maxFD, net
<1>2. CASE Peers \/ Tick \/ UNCHANGED vars
  BY <1>2 DEF Peers, Tick, Connect, PeerSends, PeerReads, PeerShuts, PeerResets, net, vars
<1>. QED  BY <1>1, <1>2 DEF Next

\* Who is admitted has proved itself.
LEMMA JInvAuthorised == JInv => Authorised
<1>. SUFFICES ASSUME JInv, pc = "carry", ~reused,
                     Current.h.turn.index # 0, Current.h.turn.status < 300, open[Current.fd] \notin mixed
              PROVE  \/ Blocks[Current.h.turn.index].auth_basic = "off"
                     \/ \E q \in 1 .. served[open[Current.fd]] :
                          script[open[Current.fd]][q].asked.credentials = "right"
  BY DEF Authorised
<1>1. ci \in Places /\ Current = clients[ci] /\ AuthInv
  BY DEF JInv, IInv, TurnInv, Serves, Current
<1>2. Blocks[Current.h.turn.index].auth_basic = "off" \/ clients[ci].auth
  BY <1>1 DEF AuthInv
<1>. QED  BY <1>1, <1>2 DEF AuthInv, Proved

\* What OwnRequests says of a step.
OwnStep ==
  \A c \in Conns : (served'[c] # served[c] /\ c \notin mixed /\ ~reused /\ Tells) =>
     LET request == script[c][peer[c].req]
     IN /\ served'[c] = peer[c].req
        /\ parse_first_line(Received) = request.asked
        /\ Plain(request) => parse_body(Received).data = request.payload

\* A request is handed over in one step only.
LEMMA OwnStepHolds == Tells /\ JInv /\ [Next]_vars => [OwnStep]_vars
<1>. SUFFICES ASSUME Tells, JInv, Next PROVE OwnStep
  OBVIOUS
<1>1. CASE ReadRequest /\ Parsed(Received)
  <2>. SUFFICES ASSUME NEW c \in Conns, served'[c] # served[c], c \notin mixed, ~reused
                PROVE  LET request == script[c][peer[c].req]
                       IN /\ served'[c] = peer[c].req
                          /\ parse_first_line(Received) = request.asked
                          /\ Plain(request) => parse_body(Received).data = request.payload
    BY DEF OwnStep
  <2>1. NetInv /\ OnceInv /\ peer[c].req \in Nat
    BY DEF JInv, IInv, NetInv, PeerType
  <2>2. /\ Complete(Received) /\ served' = [served EXCEPT ![open[Current.fd]] = @ + 1]
    BY <1>1 DEF Parsed, remove_handled_request
  <2>3. c = open[Current.fd] /\ served'[c] = served[c] + 1 /\ served[c] \in Nat
    BY <2>1, <2>2 DEF OnceInv
  <2>4. Underway(c, Received)
    BY <1>1, <2>3, ReadsFrom
  <2>5. PICK r : r = Received
    OBVIOUS
  <2>6. LET request == script[c][peer[c].req]
        IN /\ served[c] = peer[c].req - 1
           /\ parse_first_line(r) = request.asked
           /\ Plain(request) => parse_body(r).data = request.payload
    <3>1. Complete(r) /\ Underway(c, r)
      BY <2>2, <2>4, <2>5
    <3>. QED  BY <2>1, <3>1, HandedOver
  <2>. HIDE DEF Received
  <2>7. served'[c] = peer[c].req
    BY <2>1, <2>3, <2>6
  <2>. QED  BY <2>5, <2>6, <2>7
<1>2. CASE ~(ReadRequest /\ Parsed(Received))
  <2>1. served' = served
    <3>1. CASE ReadRequest
      BY <1>2, <3>1 DEF ReadRequest, ReadPart, ParseThrows, history
    <3>2. CASE Server /\ ~ReadRequest
      BY <3>2 DEF Server, Select, SelectFails, NoAccept, Accept, AcceptFails, LoopEnds, SkipInactive,
                  NothingRead, ReadThrows, Match, Verify, HandleRequest, NoFile,
                  WriteBody, WritingFails, ReadFile, ReadFails, OutputThrows, FileDone, NotWritable,
                  SendPart, SendRest, SendThrows, SigPipe, PassTurn, sync_maxFD, history
    <3>3. CASE Peers \/ Tick
      BY <3>3 DEF Peers, Tick, Connect, PeerSends, PeerReads, PeerShuts, PeerResets, history
    <3>. QED  BY <3>1, <3>2, <3>3 DEF Next
  <2>. QED  BY <2>1 DEF OwnStep
<1>. QED  BY <1>1, <1>2

\* If no request is taken for complete too early, each is handed over once, in the
\* order sent, with what it asks for and its own payload, whatever order the clients
\* are served in (read_browser_request, update_request_buffer, remove_handled_
\* request): the bytes of a connection that did not inherit any are those of the one
\* request its peer has come to, since it waits for the answer to the one before.
THEOREM RequestsAreOwn == Spec => OwnRequests
<1>1. [OwnStep]_vars <=>
        [\A c \in Conns : (served'[c] # served[c] /\ c \notin mixed /\ ~reused /\ Tells) =>
           LET request == script[c][peer[c].req]
           IN /\ served'[c] = peer[c].req
              /\ parse_first_line(Received) = request.asked
              /\ Plain(request) => parse_body(Received).data = request.payload]_vars
  BY DEF OwnStep
<1>2. (Tells => JInv) /\ [Next]_vars => (Tells => JInv)'
  BY JInvStep, TellsStays
<1>3. (Tells => JInv) /\ [Next]_vars => [OwnStep]_vars
  BY OwnStepHolds DEF OwnStep
<1>. QED  BY <1>1, <1>2, <1>3, JInvInit, PTL DEF Spec, OwnRequests

\* What a location with auth_basic asks for is done only for a connection that
\* has sent the right credentials, with this request or an earlier one of its own
\* (verify_authorization, _authorization_status), if no request is taken for
\* complete too early, and but for the connections that were given the bytes an
\* earlier one had left behind: those are served with what these bytes say.
THEOREM ProvedIsServed == Spec => []Authorised
<1>1. (Tells => JInv) /\ [Next]_vars => (Tells => JInv)'
  BY JInvStep, TellsStays
<1>2. (Tells => JInv) => Authorised
  BY JInvAuthorised DEF Authorised
<1>. QED  BY <1>1, <1>2, JInvInit, PTL DEF Spec
=============================================================================
