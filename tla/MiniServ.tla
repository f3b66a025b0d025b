------------------------------- MODULE MiniServ -------------------------------
(***************************************************************************)
(* The chat server of exam06: mini_serv_original.c ("chat"), and the main  *)
(* of mini_serv.c ("echo"), which has the same functions but sends what it *)
(* receives back to its sender and keeps who left in its list.  Between    *)
(* them and their peers are sockets whose send blocks when the receiver    *)
(* does not read.                                                          *)
(*                                                                         *)
(* A handler of the loop is one step, up to its sends; each send is one    *)
(* more, and the step after the last is the rest of the handler.  Letters  *)
(* are strings and "NL" ends a line.                                       *)
(***************************************************************************)
EXTENDS Integers, FiniteSetsExt, SequencesExt, Functions

CONSTANTS Conns,     \* connections the peers may make
          NFDS,      \* descriptors the process may open besides sock_fd
          ROOM,      \* messages the kernel keeps for a peer that does not read
          Programs,  \* of "chat" and "echo", those that are looked at
          Scripts    \* what the peers may send: the segments of each

ASSUME MiniServAssumption ==
  /\ NFDS \in Nat \ {0} /\ ROOM \in Nat \ {0}
  /\ Programs \subseteq {"chat", "echo"}
  /\ Scripts \subseteq [Conns -> Seq(Seq(STRING) \ {<<>>})]

Fds     == 1..NFDS
sock_fd == 0

VARIABLES
  program, script,
  \* peers and network
  peer,       \* connection -> [st, sent: how many of its segments]
  inbox,      \* connection -> letters the server has not received
  unread,     \* connection -> messages it has not read
  backlog,    \* connections not accepted yet
  open,       \* open descriptor -> connection
  \* process
  g_clients,  \* the list: [fd, id]
  g_id, curr_sock, cpy_read, cpy_write,
  str, tmp,
  pc,         \* "select", "scan" or "send"
  at,         \* the descriptor the scan has come to
  sends,      \* what the handler has still to send: [to, msg]
  rest,       \* what it does then: [close: the descriptors, break]
  stop,       \* "none", or what ended the process
  \* history
  joined,     \* connections in the order they were accepted
  said,       \* connection -> the lines made of what it sent
  told,       \* connection -> the messages sent to it
  torn        \* some recv has ended within a line

net     == <<program, script, peer, inbox, unread, backlog>>
table   == <<open, g_clients, g_id, curr_sock>>
copies  == <<cpy_read, cpy_write>>
buffers == <<str, tmp>>
process == <<table, copies, buffers, pc, at, sends, rest, stop>>
history == <<joined, said, told, torn>>
vars    == <<net, process, history>>

Message(what, id, text) == [what |-> what, id |-> id, text |-> text]

Segments == UNION {UNION {Range(s[c]) : c \in Conns} : s \in Scripts}
Letters  == UNION {Range(segment) : segment \in Segments}

-----------------------------------------------------------------------------
\* The functions both programs have.

Entries(fd) == {i \in DOMAIN g_clients : g_clients[i].fd = fd}

get_id(fd) == IF Entries(fd) = {} THEN -1 ELSE g_clients[Min(Entries(fd))].id

Bug_FirstFd(list) == IF list = <<>> THEN sock_fd ELSE list[1].fd

get_max_fd(list) == Max({sock_fd} \cup {e.fd : e \in Range(list)})

\* The descriptors of the list that are among these, in its order.
Listed(list, these) ==
  LET found[i \in 0..Len(list)] ==
        CASE i = 0                               -> <<>>
          [] i # 0 /\ list[i].fd \in these -> Append(found[i - 1], list[i].fd)
          [] OTHER                               -> found[i - 1]
  IN found[Len(list)]

Bug_ToAll(list, fd, msgs) ==
  LET all == Listed(list, cpy_write)
      To(msg) == [i \in DOMAIN all |-> [to |-> all[i], msg |-> msg]]
  IN FlattenSeq([k \in DOMAIN msgs |-> To(msgs[k])])

\* send_all, for several texts one after the other: to everybody in the list but
\* fd whose bit is in cpy_write.
send_all(list, fd, msgs) ==
  LET others == Listed(list, cpy_write \ {fd})
      To(msg) == [i \in DOMAIN others |-> [to |-> others[i], msg |-> msg]]
  IN FlattenSeq([k \in DOMAIN msgs |-> To(msgs[k])])

\* add_client_to_list
add_client_to_list(fd) == Append(g_clients, [fd |-> fd, id |-> g_id])

Bug_LastRemoved(fd) == Front(g_clients)

\* rm_client: the first entry with this descriptor.
rm_client(fd) == RemoveAt(g_clients, Min(Entries(fd)))

Bug_Behind(text, buf) == buf \o text

\* What is in a buffer when text was written over its beginning.
Over(text, buf) == text \o SubSeq(buf, Len(text) + 1, Len(buf))

\* ex_msg: str goes letter by letter to tmp, over what tmp still holds.  A line
\* break sends all that is in tmp and clears it.
CopyLetter(ex, letter) ==
  IF letter = "NL"
  THEN [line |-> <<>>, old |-> <<>>,
        sent |-> Append(ex.sent, Over(Append(ex.line, letter), ex.old))]
  ELSE [ex EXCEPT !.line = Append(@, letter)]

Copied(ex, text) ==
  LET upTo[i \in 0..Len(text)] == IF i = 0 THEN ex ELSE CopyLetter(upTo[i - 1], text[i])
  IN upTo[Len(text)]

Bug_FromOldEnd(text) == Copied([line |-> tmp, old |-> <<>>, sent |-> <<>>], text)

ex_msg(text) == Copied([line |-> <<>>, old |-> tmp, sent |-> <<>>], text)

-----------------------------------------------------------------------------
\* Peers: they may be slow to read, leave, or be gone at once.

Init ==
  /\ program \in Programs /\ script \in Scripts
  /\ peer = [c \in Conns |-> [st |-> "out", sent |-> 0]]
  /\ inbox = [c \in Conns |-> <<>>]
  /\ unread = [c \in Conns |-> 0]
  /\ backlog = <<>>
  /\ open = [fd \in {} |-> {}]
  /\ g_clients = <<>> /\ g_id = 0
  /\ curr_sock = {sock_fd} /\ cpy_read = {} /\ cpy_write = {}
  /\ str = <<>> /\ tmp = <<>>
  /\ pc = "select" /\ at = sock_fd
  /\ sends = <<>> /\ rest = [close |-> {}, break |-> FALSE]
  /\ stop = "none"
  /\ joined = <<>>
  /\ said = [c \in Conns |-> <<>>] /\ told = [c \in Conns |-> <<>>]
  /\ torn = FALSE

Connect(c) ==
  /\ peer[c].st = "out"
  /\ peer' = [peer EXCEPT ![c].st = "up"]
  /\ backlog' = Append(backlog, c)
  /\ UNCHANGED <<program, script, inbox, unread, process, history>>

PeerSends(c) ==
  /\ peer[c].st = "up" /\ peer[c].sent < Len(script[c])
  /\ peer' = [peer EXCEPT ![c].sent = @ + 1]
  /\ inbox' = [inbox EXCEPT ![c] = @ \o script[c][peer[c].sent + 1]]
  /\ UNCHANGED <<program, script, unread, backlog, process, history>>

PeerReads(c) ==
  /\ peer[c].st = "up" /\ unread[c] > 0
  /\ unread' = [unread EXCEPT ![c] = 0]
  /\ UNCHANGED <<program, script, peer, inbox, backlog, process, history>>

\* close: what was sent before still arrives.
PeerCloses(c) ==
  /\ peer[c].st = "up"
  /\ peer' = [peer EXCEPT ![c].st = "closed"]
  /\ unread' = [unread EXCEPT ![c] = 0]
  /\ UNCHANGED <<program, script, inbox, backlog, process, history>>

\* A reset, as also the answer to a message for a peer that has closed.
PeerResets(c) ==
  /\ peer[c].st \in {"up", "closed"} /\ c \in Range(open)
  /\ peer' = [peer EXCEPT ![c].st = "reset"]
  /\ inbox' = [inbox EXCEPT ![c] = <<>>]
  /\ unread' = [unread EXCEPT ![c] = 0]
  /\ UNCHANGED <<program, script, backlog, process, history>>

-----------------------------------------------------------------------------
\* The loop of main.

Running(phase) == stop = "none" /\ pc = phase

Without(f, S)  == [x \in DOMAIN f \ S |-> f[x]]
With(f, x, v)  == [y \in DOMAIN f \cup {x} |-> IF y = x THEN v ELSE f[y]]

Readable(fd) == IF fd = sock_fd THEN backlog # <<>>
                ELSE inbox[open[fd]] # <<>> \/ peer[open[fd]].st \in {"closed", "reset"}

\* cpy_write = cpy_read = curr_sock, and select, which is given only the second:
\* who is able to take a message is not asked.
Select ==
  /\ Running("select")
  /\ LET ready == {fd \in curr_sock : fd <= get_max_fd(g_clients) /\ Readable(fd)}
     IN ready # {} /\ cpy_read' = ready
  /\ cpy_write' = curr_sock
  /\ pc' = "scan" /\ at' = sock_fd
  /\ UNCHANGED <<net, table, buffers, sends, rest, stop, history>>

Ahead == {fd \in cpy_read : at <= fd /\ fd <= get_max_fd(g_clients)}

ScanEnds ==
  /\ Running("scan") /\ Ahead = {}
  /\ pc' = "select"
  /\ UNCHANGED <<net, table, copies, buffers, at, sends, rest, stop, history>>

Scans(fd) == Running("scan") /\ Ahead # {} /\ fd = Min(Ahead)

Free == Fds \ DOMAIN open

\* add_client; the chat breaks off the scan, the echo goes on.
Accept ==
  /\ Scans(sock_fd) /\ Free # {}
  /\ LET fd == Min(Free) c == Head(backlog)
     IN /\ open' = With(open, fd, c)
        /\ g_clients' = add_client_to_list(fd)
        /\ sends' = send_all(g_clients', fd, <<Message("arrived", g_id, <<>>)>>)
        /\ curr_sock' = curr_sock \cup {fd}
        /\ joined' = Append(joined, c)
  /\ g_id' = g_id + 1
  /\ backlog' = Tail(backlog)
  /\ pc' = "send" /\ at' = sock_fd + 1
  /\ rest' = [close |-> {}, break |-> program = "chat"]
  /\ UNCHANGED <<program, script, peer, inbox, unread, copies, buffers, stop, said,
                 told, torn>>

\* accept fails for want of a descriptor, or calloc: fatal.
AcceptFails ==
  /\ Scans(sock_fd) /\ Free = {}
  /\ stop' = "fatal"
  /\ UNCHANGED <<net, table, copies, buffers, pc, at, sends, rest, history>>

\* recv answers 0 or -1.
Gone(fd) == inbox[open[fd]] = <<>>

\* The chat tells the others and breaks off the scan; what is closed is closed
\* when they were told.
Leaves(fd) ==
  /\ Scans(fd) /\ fd # sock_fd /\ Gone(fd) /\ program = "chat"
  /\ g_clients' = rm_client(fd)
  /\ sends' = send_all(g_clients', fd, <<Message("left", get_id(fd), <<>>)>>)
  /\ rest' = [close |-> {fd}, break |-> TRUE]
  /\ pc' = "send" /\ at' = fd + 1
  /\ UNCHANGED <<net, open, g_id, curr_sock, copies, buffers, stop, history>>

\* The echo only closes: the entry stays in the list.
LeavesEcho(fd) ==
  /\ Scans(fd) /\ fd # sock_fd /\ Gone(fd) /\ program = "echo"
  /\ curr_sock' = curr_sock \ {fd}
  /\ open' = Without(open, {fd})
  /\ at' = fd + 1
  /\ UNCHANGED <<net, g_clients, g_id, copies, buffers, pc, sends, rest, stop, history>>

\* recv takes all there is, and ex_msg sends every line that is complete.
Says(fd) ==
  /\ Scans(fd) /\ fd # sock_fd /\ ~Gone(fd) /\ program = "chat"
  /\ \E c \in {open[fd]} : \E ex \in {ex_msg(inbox[c])} :
        /\ tmp' = Over(ex.line, ex.old)
        /\ sends' = send_all(g_clients, fd,
                     [i \in DOMAIN ex.sent |-> Message("said", get_id(fd), ex.sent[i])])
        /\ said' = [said EXCEPT ![c] = @ \o ex.sent]
        /\ torn' = (torn \/ Last(inbox[c]) # "NL")
        /\ inbox' = [inbox EXCEPT ![c] = <<>>]
  /\ rest' = [close |-> {}, break |-> FALSE]
  /\ pc' = "send" /\ at' = fd + 1
  /\ UNCHANGED <<program, script, peer, unread, backlog, table, copies, str, stop,
                 joined, told>>

\* The echo sends str back, which it never clears.
SaysEcho(fd) ==
  /\ Scans(fd) /\ fd # sock_fd /\ ~Gone(fd) /\ program = "echo"
  /\ str' = Over(inbox[open[fd]], str)
  /\ sends' = <<[to |-> fd, msg |-> Message("echo", -1, str')]>>
  /\ inbox' = [inbox EXCEPT ![open[fd]] = <<>>]
  /\ rest' = [close |-> {}, break |-> FALSE]
  /\ pc' = "send" /\ at' = fd + 1
  /\ UNCHANGED <<program, script, peer, unread, backlog, table, copies, tmp, stop,
                 history>>

\* A send to a peer that has room for it, or has closed; it waits for the others.
Send ==
  /\ Running("send") /\ sends # <<>>
  /\ LET c == open[Head(sends).to]
     IN /\ \/ peer[c].st = "closed" /\ UNCHANGED unread
           \/ peer[c].st = "up" /\ unread[c] < ROOM /\ unread' = [unread EXCEPT ![c] = @ + 1]
        /\ told' = [told EXCEPT ![c] = Append(@, Head(sends).msg)]
  /\ sends' = Tail(sends)
  /\ UNCHANGED <<program, script, peer, inbox, backlog, table, copies, buffers, pc,
                 at, rest, stop, joined, said, torn>>

\* To a peer that is gone: send answers -1, or the signal comes first.
SendFails ==
  /\ Running("send") /\ sends # <<>>
  /\ peer[open[Head(sends).to]].st = "reset"
  /\ stop' \in {"fatal", "SIGPIPE"}
  /\ UNCHANGED <<net, table, copies, buffers, pc, at, sends, rest, history>>

\* FD_CLR and close of who has left, and break.
SendsEnd ==
  /\ Running("send") /\ sends = <<>>
  /\ open' = Without(open, rest.close)
  /\ curr_sock' = curr_sock \ rest.close
  /\ rest' = [rest EXCEPT !.close = {}]
  /\ pc' = IF rest.break THEN "select" ELSE "scan"
  /\ UNCHANGED <<net, g_clients, g_id, copies, buffers, at, sends, stop, history>>

Server ==
  \/ Select \/ ScanEnds
  \/ Accept \/ AcceptFails
  \/ \E fd \in Fds : Leaves(fd) \/ LeavesEcho(fd) \/ Says(fd) \/ SaysEcho(fd)
  \/ Send \/ SendFails \/ SendsEnd

Peers == \E c \in Conns :
  Connect(c) \/ PeerSends(c) \/ PeerReads(c) \/ PeerCloses(c) \/ PeerResets(c)

Next == Server \/ Peers

Spec == Init /\ [][Next]_vars

FairSpec == Spec /\ WF_vars(Server)

-----------------------------------------------------------------------------
\* Properties.

MessageType == [what : {"arrived", "left", "said", "echo"}, id : Nat \cup {-1}, text : Seq(Letters)]

\* The state keeps its types, and no peer has more unread than there is room for.
TypeOK ==
  /\ peer \in [Conns -> [st : {"out", "up", "closed", "reset"}, sent : Nat]]
  /\ inbox \in [Conns -> Seq(Letters)]
  /\ unread \in [Conns -> 0..ROOM]
  /\ backlog \in Seq(Conns)
  /\ DOMAIN open \subseteq Fds /\ Range(open) \subseteq Conns
  /\ g_clients \in Seq([fd : Fds, id : Nat]) /\ g_id \in Nat
  /\ {curr_sock, cpy_read, cpy_write} \subseteq SUBSET (Fds \cup {sock_fd})
  /\ str \in Seq(Letters) /\ tmp \in Seq(Letters \ {"NL"})
  /\ pc \in {"select", "scan", "send"} /\ at \in 0 .. NFDS + 1
  /\ sends \in Seq([to : Fds, msg : MessageType])
  /\ rest \in [close : SUBSET Fds, break : BOOLEAN]
  /\ stop \in {"none", "fatal", "SIGPIPE"}

\* The list, the descriptors that are open and those that are watched are of the
\* same clients, each with its own number, though descriptors are used again.
\* In the echo the list may have more, but its newest entry is the right one.
\* And the state keeps its types.
TableAgrees ==
  LET listed == {e.fd : e \in Range(g_clients)}
      newest(fd) == g_clients[Max(Entries(fd))]
  IN /\ TypeOK
     /\ curr_sock = {sock_fd} \cup DOMAIN open
     /\ DOMAIN open \subseteq listed \cup rest.close
     /\ \A fd \in DOMAIN open \ rest.close : joined[newest(fd).id + 1] = open[fd]
     /\ program = "chat" => /\ listed = DOMAIN open \ rest.close
                            /\ Len(g_clients) = Cardinality(listed)

\* What of a list of sends goes to these descriptors.
Addressed(list, these) ==
  LET found[i \in 0..Len(list)] ==
        CASE i = 0                               -> <<>>
          [] i # 0 /\ list[i].to \in these -> Append(found[i - 1], list[i].msg)
          [] OTHER                               -> found[i - 1]
  IN found[Len(list)]
Owed(c) == Addressed(sends, {fd \in DOMAIN open : open[fd] = c})

\* The chat as a ChatRoom; the echo shows an empty one.
Shown(state, nothing) == IF program = "chat" THEN state ELSE nothing
Room == INSTANCE ChatRoom WITH
          People  <- Conns,
          joined  <- Shown(joined, <<>>),
          gone    <- Shown({c \in Conns : peer[c].st \in {"closed", "reset"}}, {}),
          members <- Shown({open[e.fd] : e \in Range(g_clients)}, {}),
          owed    <- [c \in Conns |-> Shown(Owed(c), <<>>)],
          told    <- [c \in Conns |-> Shown(told[c], <<>>)]

\* The chat is a chat room: whoever is there is told of every arrival, departure
\* and line of the others, once each, with the right number and in the order in
\* which they happened, although clients come and go in between; and nobody
\* leaves but who has hung up.
ServesRoom == Room!RoomSpec

\* As far as its end, a line is a piece of what its client has sent; behind the end,
\* where there is no other, may be what an unfinished line left in tmp.
Sent(c) == FlattenSeq(SubSeq(script[c], 1, peer[c].sent))

LineOf(c, line) ==
  \E end \in DOMAIN line :
    /\ line[end] = "NL" /\ \A i \in DOMAIN line : line[i] = "NL" => i = end
    /\ \E from \in 1 .. Len(Sent(c)) - end + 1 :
         SubSeq(Sent(c), from, from + end - 1) = SubSeq(line, 1, end)

OwnLines == \A c \in Conns : \A i \in DOMAIN said[c] : LineOf(c, said[c][i])

\* As long as every recv has ended with a line, nothing is behind the ends, and the
\* lines together are what was received.
LinesWhole ==
  program = "chat" /\ ~torn => \A c \in Conns :
    /\ \A i \in DOMAIN said[c] : Last(said[c][i]) = "NL"
    /\ peer[c].st # "reset" => FlattenSeq(said[c]) \o inbox[c] = Sent(c)

\* As long as no recv of anybody has ended within a line, the chat passes on under
\* the number of a client the lines of this client, whole, all of them and nothing
\* else, however many come at once.  From then on the code keeps only this: what
\* it passes on begins with a piece of what the client has sent, as far as an end
\* of line, whatever all the others left in tmp (ex_msg).  That the piece begins
\* where a line does, and that nobody else's letters are behind it, it does not
\* keep, though subject.en.txt:27 has every message sent on.
LinesKept == OwnLines /\ LinesWhole

\* The echo answers each recv of a client that has not reset with what was received,
\* nothing lost, twice or out of order; behind it, what longer messages have left in
\* str may follow, those of other clients too: it is not only its own that a client
\* gets back (mini_serv.c:307-316).
EchoesBack ==
  program = "echo" => \A c \in Conns : peer[c].st # "reset" =>
    LET msgs == told[c] \o Owed(c)
    IN \E n \in [DOMAIN msgs -> 0 .. Len(Sent(c))] :
         /\ \A k \in DOMAIN msgs : n[k] <= Len(msgs[k].text)
         /\ FlattenSeq([k \in DOMAIN msgs |-> SubSeq(msgs[k].text, 1, n[k])]) \o inbox[c]
              = Sent(c)

\* Who waits to be accepted, heard or told is served, unless the process has
\* ended or waits for ever for a peer that does not read.
Waits(c) == c \in Range(backlog) \/ inbox[c] # <<>> \/ Owed(c) # <<>>
Blocked  == /\ Running("send") /\ sends # <<>>
            /\ LET c == open[Head(sends).to] IN peer[c].st = "up" /\ unread[c] = ROOM
EachServed == (\A c \in Conns : Waits(c) ~> (~Waits(c) \/ stop # "none")) \/ <>[]Blocked
===============================================================================
