----------------------------- MODULE SelectLoop -----------------------------
(***************************************************************************)
(* The select loop of webserv: webserver::run with file_descriptors,       *)
(* server and the parts of header_handler that open, write and read files, *)
(* for one server block, and peers that connect, send requests one after   *)
(* the other, read, shut down and reset.                                   *)
(*                                                                         *)
(* One pass of run is                                                      *)
(*   select   synchronize and select                                       *)
(*   accept   one connection                                               *)
(*   client   for each client of the block: only the active one is served, *)
(*            in the four blocks of the loop's body (client: read the      *)
(*            request; file; send; expire)                                 *)
(*   sync     sync_maxFD                                                   *)
(* Descriptors are numbers, the lowest free one is given out.  The sets    *)
(* that select fills are kept for the whole pass.                          *)
(***************************************************************************)
EXTENDS RequestBuffer

CONSTANTS Conns,      \* connections the peers may make
          NFDS,       \* descriptors the process may open besides Listen
          TIME_OUT,   \* time_out of the server block
          RLEN,       \* length of a response
          ROOM,       \* size of a socket's send buffer, in the same unit
          Scripts,    \* what the peers may send
          InitialFiles  \* the regular files at the beginning

\* A script is the sequence of requests of a peer: the segments on the wire, and
\* what they ask for and the payload they stand for.
Request == [wire : Seq(Seq(Token)) \ {<<>>}, asked : Asked, payload : Seq(Token)]

ASSUME SelectLoopAssumption ==
  /\ NFDS \in Nat \ {0}
  /\ TIME_OUT \in Nat \ {0}
  /\ RLEN \in Nat \ {0} /\ ROOM \in Nat \ {0}
  /\ Scripts \subseteq [Conns -> Seq(Request)]
  /\ "file" \notin Conns

Fds    == 1..NFDS
Listen == 0
unused == -1

VARIABLES
  \* peers, network and files
  script,
  files,      \* the regular files
  peer,       \* connection -> [st, req, seg, got, answers]
  inbox,      \* connection -> tokens not read by the server
  unread,     \* connection -> what the server wrote and the peer has not read
  backlog,    \* connections not accepted yet
  \* kernel
  open,       \* open descriptor -> connection or "file"
  \* process
  fds,        \* file_descriptors: [read, write, rbuf, wbuf, max, age]
  clients,    \* server::_clients
  buffer,     \* server::_request_buffer
  check,      \* webserver::_time_out_check
  pc,         \* where in the loop
  ci,         \* client_index
  stop,       \* "none", or what ended the process
  \* history
  blind,      \* select failed while there were clients
  failed,     \* an exception removed one of several clients
  lost,       \* files of clients that were timed out
  left,       \* descriptors closed by an error or a time-out, and still watched
  reused,     \* a number was given out again that was still watched
  mixed,      \* connections on a descriptor with another one's bytes
  served      \* connection -> requests handed over

net     == <<script, files, peer, inbox, unread, backlog>>
process == <<open, fds, clients, buffer, check, pc, ci, stop>>
history == <<blind, failed, lost, left, reused, mixed, served>>
vars    == <<net, process, history>>

\* header_handler
Handler == [asked : Asked, turn : Turn, kind : Kind, body : Seq(Token), written : Nat,
            begun : BOOLEAN, toFile : BOOLEAN, fromFile : BOOLEAN]

\* header_handler::reset_handler
FreshHandler ==
  [asked |-> NoRequest, kind |-> "page", body |-> <<>>, written |-> 0,
   turn |-> [status |-> 200, index |-> 0, file |-> <<>>, allow |-> {}, max |-> 0],
   begun |-> FALSE, toFile |-> FALSE, fromFile |-> FALSE]

\* client::client
NewClient(fd, active) == [fd |-> fd, file |-> unused, cgi |-> unused,
                          active |-> active, auth |-> FALSE, h |-> FreshHandler]

Free == Fds \ DOMAIN open
Lowest(S) == CHOOSE x \in S : \A y \in S : x <= y

Without(f, S) == [x \in DOMAIN f \ S |-> f[x]]
With(f, x, v) == [y \in DOMAIN f \cup {x} |-> IF y = x THEN v ELSE f[y]]

Running(phase) == stop = "none" /\ pc = phase

Init ==
  /\ script \in Scripts
  /\ files = InitialFiles
  /\ peer = [c \in Conns |-> [st |-> "out", req |-> 1, seg |-> 0, got |-> 0, answers |-> 0]]
  /\ inbox = [c \in Conns |-> <<>>]
  /\ unread = [c \in Conns |-> 0]
  /\ backlog = <<>>
  /\ open = [fd \in {} |-> "file"]
  /\ fds = [read |-> {}, write |-> {}, rbuf |-> {}, wbuf |-> {}, max |-> Listen,
            age |-> [fd \in Fds |-> 0]]
  /\ clients = <<>>
  /\ buffer = [fd \in {} |-> NewBuffer]
  /\ check = FALSE
  /\ pc = "select"
  /\ ci = 1
  /\ stop = "none"
  /\ blind = FALSE /\ failed = FALSE /\ lost = {} /\ left = {}
  /\ reused = FALSE /\ mixed = {}
  /\ served = [c \in Conns |-> 0]

-----------------------------------------------------------------------------
\* Peers.  A peer sends its next request when the answer to the one
\* before it was written, though it may not have read all of it.

Connected(c) == peer[c].st # "out"
Closed(c) == /\ Connected(c)
             /\ c \notin Range(open)
             /\ c \notin Range(backlog)

\* The answer to the request the peer has come to was written.
Answered(c) == RLEN * peer[c].answers + peer[c].got + unread[c] >= RLEN * peer[c].req

Connect(c) ==
  /\ peer[c].st = "out"
  /\ peer' = [peer EXCEPT ![c].st = "up"]
  /\ backlog' = Append(backlog, c)
  /\ UNCHANGED <<script, files, inbox, unread, process, history>>

PeerSends(c) ==
  /\ peer[c].st = "up" /\ ~Closed(c) /\ peer[c].req <= Len(script[c])
  /\ LET p    == peer[c]
         more == p.seg < Len(script[c][p.req].wire)
         req  == IF more THEN p.req ELSE p.req + 1
         seg  == IF more THEN p.seg + 1 ELSE 1
     IN /\ more \/ (Answered(c) /\ p.req < Len(script[c]))
        /\ peer' = [peer EXCEPT ![c].req = req, ![c].seg = seg]
        /\ inbox' = [inbox EXCEPT ![c] = @ \o script[c][req].wire[seg]]
  /\ UNCHANGED <<script, files, unread, backlog, process, history>>

PeerReads(c) ==
  /\ peer[c].st \in {"up", "shut"} /\ unread[c] > 0
  /\ LET got == peer[c].got + unread[c]
     IN peer' = [peer EXCEPT ![c].got = got % RLEN, ![c].answers = @ + got \div RLEN]
  /\ unread' = [unread EXCEPT ![c] = 0]
  /\ UNCHANGED <<script, files, inbox, backlog, process, history>>

PeerShuts(c) ==
  /\ peer[c].st = "up" /\ ~Closed(c)
  /\ peer' = [peer EXCEPT ![c].st = "shut"]
  /\ UNCHANGED <<script, files, inbox, unread, backlog, process, history>>

PeerResets(c) ==
  /\ peer[c].st \in {"up", "shut"} /\ ~Closed(c)
  /\ peer' = [peer EXCEPT ![c].st = "reset"]
  /\ UNCHANGED <<script, files, inbox, unread, backlog, process, history>>

-----------------------------------------------------------------------------
\* select, accept and the end of a pass.

Readable(fd) ==
  \/ open[fd] = "file"
  \/ inbox[open[fd]] # <<>> \/ peer[open[fd]].st \in {"shut", "reset"}

Writable(fd) ==
  \/ open[fd] = "file"
  \/ unread[open[fd]] < ROOM \/ peer[open[fd]].st = "reset"

\* file_descriptors::synchronize and select(_max + 1, ...).
Watched == {fd \in fds.rbuf \cup fds.wbuf : fd <= fds.max}

Select ==
  /\ Running("select")
  /\ Watched \subseteq DOMAIN open
  /\ LET read  == {fd \in fds.rbuf \cap Watched : Readable(fd)}
                    \cup (IF backlog # <<>> THEN {Listen} ELSE {})
         write == {fd \in fds.wbuf \cap Watched : Writable(fd)}
     IN /\ read \cup write # {}
        /\ fds' = [fds EXCEPT !.read = read, !.write = write]
  /\ pc' = "accept"
  /\ UNCHANGED <<net, open, clients, buffer, check, ci, stop, history>>

\* A descriptor that is not open: select answers -1, clr_fd_sets, continue.
SelectFails ==
  /\ Running("select")
  /\ ~(Watched \subseteq DOMAIN open)
  /\ fds' = [fds EXCEPT !.rbuf = {}, !.wbuf = {}]
  /\ blind' = (blind \/ clients # <<>>)
  /\ UNCHANGED <<net, open, clients, buffer, check, pc, ci, stop,
                 failed, lost, left, reused, mixed, served>>

\* file_descriptors::update_max
update_max(max, fd) == IF max > fd THEN max ELSE fd

NoAccept ==
  /\ Running("accept")
  /\ Listen \notin fds.read
  /\ pc' = "client" /\ ci' = 1
  /\ UNCHANGED <<net, open, fds, clients, buffer, check, stop, history>>

\* accept, set_time_out, accepted_request_update and the new client.
Accept ==
  /\ Running("accept")
  /\ Listen \in fds.read
  /\ Free # {}
  /\ LET fd == Lowest(Free) c == Head(backlog)
     IN /\ open' = With(open, fd, c)
        /\ fds' = [fds EXCEPT !.age[fd] = 0, !.rbuf = @ \cup {fd}, !.max = update_max(@, fd)]
        /\ clients' = Append(clients, NewClient(fd, clients = <<>>))
        /\ reused' = (reused \/ fd \in fds.rbuf \cup fds.wbuf)
        /\ mixed' = IF fd \in DOMAIN buffer THEN mixed \cup {c} ELSE mixed
  /\ backlog' = Tail(backlog)
  /\ pc' = "client" /\ ci' = 1
  /\ UNCHANGED <<script, files, peer, inbox, unread, buffer, check, stop,
                 blind, failed, lost, left, served>>

\* accept fails for want of a descriptor: continue, past every client.
AcceptFails ==
  /\ Running("accept")
  /\ Listen \in fds.read
  /\ Free = {}
  /\ pc' = "sync"
  /\ UNCHANGED <<net, open, fds, clients, buffer, check, ci, stop, history>>

ClientFds == UNION {{clients[i].fd, clients[i].file, clients[i].cgi} : i \in 1..Len(clients)}

\* file_descriptors::sync_maxFD
sync_maxFD ==
  /\ Running("sync")
  /\ LET highest == CHOOSE x \in ClientFds \cup {Listen} :
                      \A y \in ClientFds \cup {Listen} : x >= y
     IN fds' = [fds EXCEPT !.max = highest + 1]
  /\ pc' = "select"
  /\ UNCHANGED <<net, open, clients, buffer, check, ci, stop, history>>

-----------------------------------------------------------------------------
\* The body of the loop over the clients.

Current == clients[ci]

\* set_time_out_check: nothing of a body is buffered, nothing is half written.
set_time_out_check ==
  ~(\/ Current.fd \in DOMAIN buffer /\ buffer[Current.fd].body # <<>>
    \/ Current.h.written # 0)

NextClient == pc' = "client" /\ ci' = ci + 1

\* The first one has its turn as well when another's begins.
Bug_FirstToo(cs, i) ==
  LET turn == IF i < Len(cs) THEN i + 1 ELSE 1
  IN [j \in 1..Len(cs) |-> [cs[j] EXCEPT !.active = (j \in {1, turn})]]

\* file_descriptors::update_active_client: the next one, or the first.
update_active_client(cs, i) ==
  LET turn == IF i < Len(cs) THEN i + 1 ELSE 1
  IN [j \in 1..Len(cs) |-> [cs[j] EXCEPT !.active = (j = turn)]]

\* The file is not closed.
Bug_FileNotClosed(k, sets, op) ==
  LET own  == {k.fd, k.file, k.cgi} \ {unused}
      only == Len(clients) = 1
  IN /\ fds' = [sets EXCEPT !.rbuf = @ \ (own \cap fds.read), !.wbuf = @ \ (own \cap fds.write)]
     /\ open' = Without(op, {k.fd, k.cgi})
     /\ clients' = RemoveAt(clients, ci)
     /\ failed' = (failed \/ ~only)
     /\ left' = left \cup (own \cap (fds'.rbuf \cup fds'.wbuf))
     /\ stop' = IF ~only /\ ci = Len(clients) THEN "undefined" ELSE stop
     /\ NextClient

\* clean_up_after_error, with what the block had changed when it threw: the
\* client k, the descriptors op.  A descriptor leaves the kept sets only if
\* select had reported it.  remove_client erases the element its iterator
\* stands on and increments it: past the end, if that was the last of several.
clean_up_after_error(k, sets, op) ==
  LET own  == {k.fd, k.file, k.cgi} \ {unused}
      only == Len(clients) = 1
  IN /\ fds' = [sets EXCEPT !.rbuf = @ \ (own \cap fds.read), !.wbuf = @ \ (own \cap fds.write)]
     /\ open' = Without(op, own)
     /\ clients' = RemoveAt(clients, ci)
     /\ failed' = (failed \/ ~only)
     /\ left' = left \cup (own \cap (fds'.rbuf \cup fds'.wbuf))
     /\ stop' = IF ~only /\ ci = Len(clients) THEN "undefined" ELSE stop
     /\ NextClient

LoopEnds ==
  /\ Running("client")
  /\ ci > Len(clients)
  /\ pc' = "sync"
  /\ UNCHANGED <<net, open, fds, clients, buffer, check, ci, stop, history>>

SkipInactive ==
  /\ Running("client")
  /\ ci <= Len(clients) /\ ~Current.active
  /\ check' = set_time_out_check
  /\ NextClient
  /\ UNCHANGED <<net, open, fds, clients, buffer, stop, history>>

Serving == Running("client") /\ ci <= Len(clients) /\ Current.active

\* Not ready for reading, or the end of the stream: read returns no bytes.
NothingRead ==
  /\ Serving
  /\ LET c == open[Current.fd]
     IN Current.fd \in fds.read => inbox[c] = <<>> /\ peer[c].st # "reset"
  /\ check' = set_time_out_check
  /\ pc' = "file"
  /\ UNCHANGED <<net, open, fds, clients, buffer, ci, stop, history>>

\* read_browser_request throws on a connection that was reset.
ReadThrows ==
  /\ Serving
  /\ Current.fd \in fds.read
  /\ LET c == open[Current.fd] IN inbox[c] = <<>> /\ peer[c].st = "reset"
  /\ check' = set_time_out_check
  /\ clean_up_after_error(Current, fds, open)
  /\ UNCHANGED <<net, buffer, blind, lost, reused, mixed, served>>

\* server::_request_buffer[fd] with what was read added.
Received ==
  Collected(IF Current.fd \in DOMAIN buffer THEN buffer[Current.fd] ELSE NewBuffer,
            inbox[open[Current.fd]])

\* set_time_out for the client that sent something.
Aged == [fds EXCEPT !.age[Current.fd] = 0]

\* The request is not complete yet.
ReadPart(r) ==
  /\ ~Complete(r)
  /\ buffer' = With(buffer, Current.fd, r)
  /\ fds' = Aged
  /\ pc' = "file"
  /\ UNCHANGED <<script, files, peer, unread, backlog, open, clients, ci, stop, history>>

\* Requests whose file descriptor is watched for writing as well.
Writes == {"upload", "replace", "refused", "script"}

\* With nothing to read first, the client is not watched for writing.
Bug_NotWatched(sets, kind, file, fd) ==
  [sets EXCEPT !.rbuf = (@ \ {fd}) \cup ({file} \ {unused}),
               !.wbuf = @ \cup (IF kind \in Writes THEN {file} ELSE {}),
               !.max = update_max(@, file)]

\* file_descriptors::handled_request_update
handled_request_update(sets, kind, file, fd) ==
  [sets EXCEPT !.rbuf = (@ \ {fd}) \cup ({file} \ {unused}),
               !.wbuf = @ \cup (IF file = unused THEN {fd} ELSE {})
                          \cup (IF kind \in Writes THEN {file} ELSE {}),
               !.max = update_max(@, file)]

\* parse_body throws an exception that run does not catch.
ParseThrows(r) ==
  /\ Complete(r) /\ parse_body(r).thrown
  /\ buffer' = With(buffer, Current.fd, r)
  /\ fds' = Aged
  /\ stop' = "out_of_range"
  /\ UNCHANGED <<script, files, peer, unread, backlog, open, clients, pc, ci, history>>

\* The bytes of a request stay in the buffer when it was handed over.
Bug_NotRemoved(fd) == With(buffer, fd, Received)

remove_handled_request(fd) == Without(buffer, {fd})

\* parse_request and remove_handled_request.
Parsed(r) ==
  /\ Complete(r) /\ ~parse_body(r).thrown
  /\ buffer' = remove_handled_request(Current.fd)
  /\ clients' = [clients EXCEPT
       ![ci].h = [FreshHandler EXCEPT !.asked = parse_first_line(r), !.body = parse_body(r).data]]
  /\ fds' = Aged
  /\ served' = [served EXCEPT ![open[Current.fd]] = @ + 1]
  /\ pc' = "match"
  /\ UNCHANGED <<script, files, peer, unread, backlog, open, ci, stop,
                 blind, failed, lost, left, reused, mixed>>

\* read_browser_request and update_request_buffer, then one of these.
ReadRequest ==
  /\ Serving
  /\ Current.fd \in fds.read
  /\ inbox[open[Current.fd]] # <<>>
  /\ inbox' = [inbox EXCEPT ![open[Current.fd]] = <<>>]
  /\ check' = FALSE
  /\ \E r \in {Received} : ReadPart(r) \/ ParseThrows(r) \/ Parsed(r)

\* handle_request in three steps, between which nobody else acts.  The first is
\* match_location_block and verify_file_location, with a bit that may be anything.
Match ==
  /\ Running("match")
  /\ \E stale \in BOOLEAN :
       \E file \in {FilesIn(Current.h.asked, files, stale)} :
         \E found \in {match_location_block(file, Current.h.asked)} :
           clients' = [clients EXCEPT ![ci].h.turn = verify_file_location(found, Current.h.asked)]
  /\ pc' = "verify"
  /\ UNCHANGED <<net, open, fds, buffer, check, ci, stop, history>>

\* verify_method and verify_authorization
Verify ==
  /\ Running("verify")
  /\ \E allowed \in {verify_method(Current.h.turn, Current.h.asked)} :
       \E proved \in {verify_authorization(allowed, Current.h.asked, Current.auth)} :
         clients' = [clients EXCEPT ![ci].h.turn = proved.turn, ![ci].auth = proved.auth]
  /\ pc' = "carry"
  /\ UNCHANGED <<net, open, fds, buffer, check, ci, stop, history>>

AsFiles(S) == [x \in DOMAIN open \cup S |-> IF x \in S THEN "file" ELSE open[x]]

\* The client whose request this is carried out for.
Handled(done, file, cgi) ==
  [Current EXCEPT !.file = file, !.cgi = cgi, !.h.kind = done.kind]

\* handle_request deletes a file, or redirects: nothing is opened.
HandleGone(done) ==
  /\ done.kind = "gone"
  /\ files' = done.files
  /\ clients' = [clients EXCEPT ![ci] = Handled(done, unused, unused)]
  /\ fds' = handled_request_update(fds, "gone", unused, Current.fd)
  /\ pc' = "file"
  /\ UNCHANGED <<open, ci, stop, failed, left>>

\* Nothing is opened, and FD_SET is given -1.
HandleNowhere(done) ==
  /\ done.kind = "nowhere"
  /\ files' = done.files
  /\ stop' = "undefined"
  /\ UNCHANGED <<open, fds, clients, pc, ci, failed, left>>

\* handle_request opens a file, of the request or of the error.
HandleFile(done) ==
  /\ done.kind \notin {"gone", "nowhere", "unopened", "script"}
  /\ files' = done.files
  /\ Free # {}
  /\ LET file == Lowest(Free)
     IN /\ open' = AsFiles({file})
        /\ clients' = [clients EXCEPT ![ci] = Handled(done, file, unused)]
        /\ fds' = handled_request_update(fds, done.kind, file, Current.fd)
  /\ pc' = "file"
  /\ UNCHANGED <<ci, stop, failed, left>>

\* The output of a script and, after the update of the sets, its input.
HandleScript(done) ==
  /\ done.kind = "script"
  /\ Cardinality(Free) >= 2
  /\ LET file == Lowest(Free)
         cgi  == Lowest(Free \ {file})
         sets == handled_request_update(fds, "script", file, Current.fd)
     IN /\ open' = AsFiles({file, cgi})
        /\ clients' = [clients EXCEPT ![ci] = Handled(done, file, cgi)]
        /\ fds' = [sets EXCEPT !.wbuf = @ \cup {cgi}, !.max = update_max(@, cgi)]
  /\ pc' = "file"
  /\ UNCHANGED <<files, ci, stop, failed, left>>

\* The file cannot be opened, for want of a descriptor or otherwise.
OpenFails(done) ==
  /\ done.kind \notin {"gone", "nowhere"}
  /\ clean_up_after_error(Current, fds, open)
  /\ UNCHANGED files

\* The input of a script cannot be: its output is in the kept sets, but select
\* has not reported it, so that it stays there.
InputFails(done) ==
  /\ done.kind = "script"
  /\ Free # {}
  /\ LET file == Lowest(Free)
     IN clean_up_after_error(Handled(done, file, unused),
                             handled_request_update(fds, "script", file, Current.fd),
                             AsFiles({file}))
  /\ UNCHANGED files

\* The rest of handle_request, and what run does after it.
HandleRequest ==
  /\ Running("carry")
  /\ \E carried \in {Carry(Current.h.turn, Current.h.asked, files, Len(Current.h.body))} :
       \E done \in {Outcome(carried, Current.h.turn, Current.h.asked)} :
         \/ HandleGone(done) \/ HandleNowhere(done)
         \/ HandleFile(done) \/ HandleScript(done)
         \/ OpenFails(done) \/ InputFails(done)
  /\ reused' = (reused \/ (DOMAIN open' \ DOMAIN open) \cap (fds.rbuf \cup fds.wbuf) # {})
  /\ UNCHANGED <<script, peer, inbox, unread, backlog, buffer, check,
                 blind, lost, mixed, served>>

-----------------------------------------------------------------------------
\* The file of the request.

InFile == Running("file")

NoFile ==
  /\ InFile
  /\ Current.file \notin fds.read
  /\ pc' = "send"
  /\ UNCHANGED <<net, open, fds, clients, buffer, check, ci, stop, history>>

\* The body is still to be written, or a script to be run.
Writing ==
  /\ InFile
  /\ Current.file \in fds.read \cap fds.write
  /\ Current.h.kind # "refused" /\ ~Current.h.toFile

Unwritten == Current.h.written < Len(Current.h.body) \/ Current.h.body = <<>>

\* write_body_to_file, which takes the whole body, or execute_cgi, which waits for
\* the script, and so for one that ends; continue.
WriteBody ==
  /\ Writing
  /\ Unwritten
  /\ clients' = [clients EXCEPT ![ci].h.written = Len(Current.h.body),
                                ![ci].h.toFile = (Current.h.body = <<>>)]
  /\ NextClient
  /\ UNCHANGED <<net, open, fds, buffer, check, stop, history>>

\* write fails, or fork does, or the script exits with EXIT_FAILURE.
WritingFails ==
  /\ Writing
  /\ Unwritten
  /\ Current.h.kind = "script" \/ Current.h.body # <<>>
  /\ clean_up_after_error(Current, fds, open)
  /\ UNCHANGED <<net, buffer, check, blind, lost, reused, mixed, served>>

\* What follows the writing in the same pass: the count of written bytes is
\* set back, since it counts the response from now on.
Written(h) == IF /\ Current.file \in fds.write
                 /\ h.kind # "refused" /\ ~h.toFile
              THEN [h EXCEPT !.written = 0, !.toFile = TRUE] ELSE h

AfterWriting ==
  /\ InFile
  /\ Current.file \in fds.read
  /\ ~(Writing /\ Unwritten)

\* read_requested_file or read_cgi_output_file returns bytes; continue.
ReadFile ==
  /\ AfterWriting
  /\ Current.h.kind \notin {"replace", "folder"} /\ ~Current.h.fromFile /\ ~Current.h.begun
  /\ clients' = [clients EXCEPT ![ci].h = [Written(@) EXCEPT !.begun = TRUE]]
  /\ check' = IF Written(Current.h) # Current.h THEN FALSE ELSE check
  /\ NextClient
  /\ UNCHANGED <<net, open, fds, buffer, stop, history>>

\* read answers -1 for a directory.
ReadFails ==
  /\ AfterWriting
  /\ Current.h.kind = "folder"
  /\ clean_up_after_error(Current, fds, open)
  /\ UNCHANGED <<net, buffer, check, blind, lost, reused, mixed, served>>

\* read_cgi_output_file at the end of the output: without an empty line in it
\* the first three bytes are cut off.  Fewer make substr throw, out of run.
OutputThrows ==
  /\ AfterWriting
  /\ Current.h.kind = "script" /\ Current.h.begun /\ ~Current.h.fromFile
  /\ Current.h.asked.method = "POST" /\ verify_content_type(Current.h.turn.file) = ".bla"
  /\ stop' = "out_of_range"
  /\ UNCHANGED <<net, open, fds, clients, buffer, check, pc, ci, history>>

Bug_ScriptInputKept(sets, k) ==
  [sets EXCEPT !.wbuf = (@ \ ({k.file} \cap sets.write)) \cup {k.fd},
               !.rbuf = @ \ {k.file}]

\* file_descriptors::read_request_update and the descriptor for the script.
read_request_update(sets, k) ==
  [sets EXCEPT !.wbuf = ((@ \ ({k.file} \cap sets.write)) \cup {k.fd}) \ {k.cgi},
               !.rbuf = @ \ {k.file}]

\* The file has been read, or is not to be read (204).
FileDone ==
  /\ AfterWriting
  /\ Current.h.kind # "folder"
  /\ LET reads == Current.h.kind # "replace" /\ ~Current.h.fromFile
         h     == Written(Current.h)
     IN /\ clients' = [clients EXCEPT ![ci].h =
                         IF reads THEN [h EXCEPT !.begun = FALSE, !.fromFile = TRUE] ELSE h]
        /\ check' = IF reads \/ h # Current.h THEN FALSE ELSE check
  /\ fds' = read_request_update(fds, Current)
  /\ pc' = "send"
  /\ UNCHANGED <<net, open, buffer, ci, stop, history>>

-----------------------------------------------------------------------------
\* The response, and the end of the turn.

NotWritable ==
  /\ Running("send")
  /\ Current.fd \notin fds.write
  /\ pc' = "expire"
  /\ UNCHANGED <<net, open, fds, clients, buffer, check, ci, stop, history>>

Sending ==
  /\ Running("send")
  /\ Current.fd \in fds.write
  /\ check' = FALSE

\* What write takes: as much as there is room for.
Sent == LET room == ROOM - unread[open[Current.fd]]
            rest == RLEN - Current.h.written
        IN IF room < rest THEN room ELSE rest

SendPart ==
  /\ Sending
  /\ peer[open[Current.fd]].st # "reset"
  /\ Current.h.written + Sent < RLEN
  /\ unread' = [unread EXCEPT ![open[Current.fd]] = @ + Sent]
  /\ clients' = [clients EXCEPT ![ci].h.written = @ + Sent]
  /\ NextClient
  /\ UNCHANGED <<script, files, peer, inbox, backlog, open, fds, buffer, stop, history>>

\* send_response resets the handler; send_response_update and
\* update_active_client.
SendRest ==
  /\ Sending
  /\ peer[open[Current.fd]].st # "reset"
  /\ Current.h.written + Sent = RLEN
  /\ unread' = [unread EXCEPT ![open[Current.fd]] = @ + Sent]
  /\ open' = Without(open, {Current.file, Current.cgi})
  /\ fds' = [fds EXCEPT !.wbuf = @ \ {Current.fd}, !.rbuf = @ \cup {Current.fd}]
  /\ clients' = update_active_client([clients EXCEPT ![ci] = 
                                     [NewClient(@.fd, TRUE) EXCEPT !.auth = Current.auth]], ci)
  /\ pc' = "expire"
  /\ UNCHANGED <<script, files, peer, inbox, backlog, buffer, ci, stop, history>>

\* write on a connection that was reset: an error, or SIGPIPE.
SendThrows ==
  /\ Sending
  /\ peer[open[Current.fd]].st = "reset"
  /\ clean_up_after_error(Current, fds, open)
  /\ UNCHANGED <<net, buffer, blind, lost, reused, mixed, served>>

SigPipe ==
  /\ Sending
  /\ peer[open[Current.fd]].st = "reset"
  /\ stop' = "SIGPIPE"
  /\ UNCHANGED <<net, open, fds, clients, buffer, pc, ci, history>>

\* Nothing happened: the turn goes on, and a client that is too old is closed.
\* Only its own descriptor is closed, and only for reading is it forgotten.
PassTurn ==
  /\ Running("expire")
  /\ IF check
     THEN LET cs == update_active_client(clients, ci)
              fd == Current.fd
          IN IF fds.age[fd] >= TIME_OUT
             THEN /\ clients' = RemoveAt(cs, ci)
                  /\ open' = Without(open, {fd})
                  /\ fds' = [fds EXCEPT !.rbuf = @ \ {fd}]
                  /\ lost' = lost \cup ({Current.file, Current.cgi} \ {unused})
                  /\ left' = left \cup ({fd} \cap fds.wbuf)
             ELSE /\ clients' = cs
                  /\ UNCHANGED <<open, fds, lost, left>>
     ELSE UNCHANGED <<clients, open, fds, lost, left>>
  /\ NextClient
  /\ UNCHANGED <<net, buffer, check, stop, blind, failed, reused, mixed, served>>

-----------------------------------------------------------------------------
Server ==
  \/ Select \/ SelectFails
  \/ NoAccept \/ Accept \/ AcceptFails
  \/ LoopEnds \/ SkipInactive
  \/ NothingRead \/ ReadThrows \/ ReadRequest
  \/ Match \/ Verify \/ HandleRequest
  \/ NoFile \/ WriteBody \/ WritingFails \/ ReadFile \/ ReadFails
  \/ OutputThrows \/ FileDone
  \/ NotWritable \/ SendPart \/ SendRest \/ SendThrows \/ SigPipe
  \/ PassTurn
  \/ sync_maxFD

\* gettimeofday advances; ages from TIME_OUT on are alike, and nobody looks at
\* the age of a descriptor that is no client's.
Young == {i \in 1..Len(clients) : fds.age[clients[i].fd] < TIME_OUT}
Tick ==
  /\ Running("select") \/ Serving
  /\ Young # {}
  /\ fds' = [fds EXCEPT !.age = [fd \in Fds |->
               IF \E i \in Young : clients[i].fd = fd THEN @[fd] + 1 ELSE @[fd]]]
  /\ UNCHANGED <<net, open, clients, buffer, check, pc, ci, stop, history>>

\* The server looks at what the peers do in these three places; a step they take
\* elsewhere is the same as one before the next of them.
Looking ==
  \/ Running("select")
  \/ Serving /\ Current.fd \in fds.read
  \/ Running("send") /\ Current.fd \in fds.write

Peers == Looking /\ \E c \in Conns :
  Connect(c) \/ PeerSends(c) \/ PeerReads(c) \/ PeerShuts(c) \/ PeerResets(c)

Next == Server \/ Peers \/ Tick

Spec == Init /\ [][Next]_vars

\* Nobody but the server steps at "match", and Match is all it does there: fairness
\* of Match, told by pc alone, and of the rest is fairness of the server.
FairSpec == /\ Spec
            /\ WF_vars(pc # "match" /\ Server)
            /\ WF_pc(Running("match") /\ pc' = "verify")

-----------------------------------------------------------------------------
\* Properties.

ClientType == [fd : Fds, file : Fds \cup {unused}, cgi : Fds \cup {unused},
               active : BOOLEAN, auth : BOOLEAN, h : Handler]
PeerType == [st : {"out", "up", "shut", "reset"}, req : Nat \ {0}, seg : Nat,
             got : 0 .. RLEN - 1, answers : Nat]
SetsType == [read : SUBSET (Fds \cup {Listen}), write : SUBSET Fds,
             rbuf : SUBSET Fds, wbuf : SUBSET Fds,
             max : 0 .. NFDS + 1, age : [Fds -> 0 .. TIME_OUT]]

\* The state keeps its types: the descriptors of clients are descriptors, and
\* no send buffer holds more than it can.  Once a number was given out that was
\* still watched, a response may begin with the count of another write.
TypeOK ==
  /\ peer \in [Conns -> PeerType]
  /\ inbox \in [Conns -> Seq(Token)]
  /\ unread \in [Conns -> Int]
  /\ \A c \in Conns : unread[c] <= ROOM /\ (~reused => unread[c] >= 0)
  /\ backlog \in Seq(Conns)
  /\ DOMAIN open \subseteq Fds /\ Range(open) \subseteq Conns \cup {"file"}
  /\ fds \in SetsType
  /\ clients \in Seq(ClientType)
  /\ DOMAIN buffer \subseteq Fds /\ Range(buffer) \subseteq RequestBuf
  /\ {check, reused} \subseteq BOOLEAN /\ lost \subseteq Fds /\ left \subseteq Fds
  /\ pc \in {"select", "accept", "client", "match", "verify", "carry", "file", "send", "expire", "sync"}
  /\ ci \in Nat \ {0}
  /\ stop \in {"none", "undefined", "out_of_range", "SIGPIPE"}

\* The state keeps its types, and the open descriptors are those of the clients
\* and the files of clients that were timed out: none is lost by an error or at
\* the end of a response, and none is used after it was closed
\* (clean_up_after_error, send_response_update, check_time_out).
DescriptorsKept ==
  /\ TypeOK
  /\ DOMAIN open = (ClientFds \ {unused}) \cup lost

\* Each client waits for one thing, which select looks at.  A number that is given
\* out again while it is still watched has a client that waits for two.
Waits(k) == ({"read"} \X ({k.fd, k.file} \cap fds.rbuf))
              \cup ({"write"} \X ({k.fd} \cap fds.wbuf))
WaitsForOne ==
  (~blind /\ ~reused /\ stop = "none") =>
    \A i \in 1..Len(clients) :
      /\ Cardinality(Waits(clients[i])) = 1
      /\ pc = "select" => \A w \in Waits(clients[i]) : w[2] <= fds.max

\* Every watched number has a client, or was left there by an error or a
\* time-out; nothing else makes select fail.
WatchedForClients ==
  /\ ~reused /\ stop = "none" => fds.rbuf \cup fds.wbuf \subseteq ClientFds \cup left
  /\ blind => left # {}

\* Clients and kept sets agree.  A client waits for its peer, for its file or for
\* room to answer, for one of the three at a time, below what select looks at;
\* and no number is watched because of a client that is gone, unless an error or
\* a time-out closed it (handled_request_update, read_request_update,
\* clr_from_write_buffer, clean_up_after_error, _max).
SetsAgree == WaitsForOne /\ WatchedForClients

\* One client at a time has its turn, and somebody has it unless an error
\* removed the one that had it.  Only its files are worked on:
\* the two files of the scripts, which all clients share, have one user.
TurnHeld ==
  LET active == {i \in 1..Len(clients) : clients[i].active}
  IN /\ Cardinality(active) <= 1
     /\ ~failed /\ clients # <<>> => active # {}
     /\ \A i \in 1..Len(clients) : clients[i].file \in fds.rbuf => i \in active

\* One chunk at most.
Plain(request) ==
  LET bytes == FlattenSeq(request.wire)
  IN Cardinality({i \in 1..Len(bytes) : bytes[i] = "NL"}) <= 4

\* What may be left of a request that was handed over: nothing, or a line break.
Leads == {<<>>, <<"NL">>}

\* What is collected of the first k segments of a request, behind what was left
\* of the one before.
Gathered(wire, lead, k) ==
  LET at[i \in 0..Len(wire)] ==
        IF i = 0 THEN Collected(NewBuffer, lead) ELSE Collected(at[i - 1], wire[i])
  IN at[k]

\* The segments of a request say what it asks for and what its payload is: if it
\* is taken for complete, no more than a line break is still to come.  A chunk
\* whose data is the byte 0, cut behind the data, is taken for the last one.
Told(request) ==
  \A lead \in Leads : \A k \in 1..Len(request.wire) :
    LET n == Len(request.wire)
        r == Gathered(request.wire, lead, k)
    IN Complete(r) =>
         /\ k = n \/ (k = n - 1 /\ request.wire[n] = <<"NL">>)
         /\ parse_first_line(r) = request.asked
         /\ Plain(request) => parse_body(r).data = request.payload

\* No peer sends a request that is taken for complete too early.
Tells == \A c \in Conns : \A q \in 1..Len(script[c]) : Told(script[c][q])

\* A request is handed over once, in the order sent, with its own payload, in
\* whatever segments it comes, and although a line break can be left over from the
\* one before (update_request_buffer, remove_handled_request).  Not so when the end
\* of a segment is taken for the end of a request, see Tells; when the descriptor
\* had bytes of an earlier connection; and for the payload of several chunks.
OwnRequests ==
  [][\A c \in Conns : (served'[c] # served[c] /\ c \notin mixed /\ ~reused /\ Tells) =>
       LET request == script[c][peer[c].req]
       IN /\ served'[c] = peer[c].req
          /\ parse_first_line(Received) = request.asked
          /\ Plain(request) => parse_body(Received).data = request.payload]_vars

\* What a location with auth_basic asks for is done only for a connection that
\* has sent the right credentials, with this request or an earlier one of its
\* own: _authorization_status outlives the requests, not the connection, though
\* descriptors and handlers are used again (verify_authorization).  Not so for a
\* connection that was given the number, and with it the buffer, of one that left
\* part of a request behind: it is served, and stays admitted, with the credentials
\* of that part (server::update_request_buffer).  Once a peer was sent what it did
\* not ask for, its requests are no longer told apart.
Authorised ==
  pc = "carry" /\ ~reused =>
    LET turn == Current.h.turn
        c    == open[Current.fd]
    IN turn.index # 0 /\ turn.status < 300 =>
         \/ Blocks[turn.index].auth_basic = "off"
         \/ \E q \in 1 .. served[c] : script[c][q].asked.credentials = "right"
         \/ c \in mixed
         \/ ~Tells

\* Files change only for a request whose location allows its method, from the
\* lines of the configuration to the file (match_location_block, verify_method,
\* verify_authorization, handle_request), but for three that the code lets pass:
\* DELETE of a page of errors by its name, which no location has; POST of a .bla,
\* where those are no scripts; and the request with which a client proves itself,
\* of which right credentials make 200 again whatever verify_method has found.
Permitted(turn, asked) ==
  IF turn.index # 0 THEN asked.method \in Blocks[turn.index].allowed
  ELSE asked.method = "DELETE" /\ turn.file = ErrorFolder \o <<Last(asked.uri)>>
MethodsKept ==
  [][files' # files =>
       /\ Running("carry")
       /\ LET turn  == Current.h.turn
              asked == Current.h.asked
          IN \/ Permitted(turn, asked)
             \/ asked.method = "POST" /\ verify_content_type(turn.file) = ".bla"
             \/ Current.auth /\ asked.credentials = "right" /\ turn.status = 200]_vars

\* The peer has sent a request to the end, and read the answer before it; the
\* server has written the answer or closed the connection, or the process or
\* the peer is gone.
Whole(c) == /\ Connected(c)
            /\ peer[c].req <= Len(script[c])
            /\ peer[c].seg = Len(script[c][peer[c].req].wire)
            /\ peer[c].answers >= peer[c].req - 1
Ended(c) == \/ Answered(c)
            \/ Closed(c)
            \/ peer[c].st = "reset"
            \/ stop # "none"

\* What keeps everybody waiting: a turn nobody has, or that is kept for a peer
\* that sends no more of its body or reads no more of its answer; a full table
\* of descriptors with somebody at the door; sets that were cleared.
Stuck ==
  \/ clients # <<>> /\ \A i \in 1..Len(clients) : ~clients[i].active
  \/ \E i \in 1..Len(clients) :
       /\ clients[i].active
       /\ \/ clients[i].h.written # 0
          \/ clients[i].fd \in DOMAIN buffer /\ buffer[clients[i].fd].body # <<>>
  \/ backlog # <<>> /\ Free = {}
  \/ blind

\* A whole request is answered, in turn, unless the server is stuck for good
\* for one of these reasons.
EachAnswered ==
  (\A c \in Conns : Whole(c) ~> (Ended(c) \/ c \in mixed)) \/ <>[]Stuck

=============================================================================
