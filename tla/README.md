# Verification of cursus42-webServer

The repository holds two HTTP servers written for the 42 project *webserv*, a
small chat server of an exam and experiments. This directory holds TLA+ models
of its core logic, their TLC configurations and TLAPS proofs. Source lines below
are those of `src/`.

## 1. The system

### A. ATwebserv (`ATwebserv/`), the epoll server

| part | state | operations |
|---|---|---|
| request recognition (`client_handler.cpp:13-34, 101-227`) | per client `rqst`, `post_boundary`, `_cLen` | `is_request_fulfilled` and the recognisers of POST and CHUNK requests; they edit the buffer they examine |
| client table (`client_handler.cpp`) | `std::map<int, client_info>`: the above, `resp`, `rqst_time_start`, `time_out` | `add`, `remove_fd`, `rearm`, `time_reset`, `handle_chunks`, `chunked_rqst`, `chunked_resp`, `fill_resp`, `check_all_timeout` |
| event loop (`server.cpp`) | listening sockets, `struct_epoll` with **one** `epoll_event` shared by every `epoll_ctl` | `initialize`, `run`, `response_handler` |
| response construction (`request_handler.cpp`) | one object for all clients: parsed header, server id, path, response | `reader`, `writer`, `set_server_id`, `resolve_path`, `handle_*_rqst` |
| CGI (`cgi_handler.cpp`) | a child and two pipes, for one request | `is_cgi`, `go_cgi`, `extract_env` |
| configuration (`config_checker.cpp`) | vector of `server_info`, locations | one recursive-descent pass before the loop starts |

`main` builds a `server` from a configuration file and calls `run`, which never
returns. Any exception that leaves `run` is caught in `main` (`main.cpp:21-28`):
the process ends. One pass of `run` is: `handle_chunks` over all clients;
`response_handler` for those found complete; `epoll_wait` with a timeout of 0;
for each event `add`, or `recv` and `response_handler` or `rearm`;
`check_all_timeout`. There are no threads. The interleaving is with the peers
(bytes, FIN, RST and new connections between any two system calls), with time
and with the kernel's descriptor numbers, which are reused.

What makes it correct: a request is handed over when it is complete and never
before, with the bytes the peer sent; clients, epoll and the descriptor table
agree; nobody's bytes reach another connection; every request ends in an answer
or a closed connection; no peer ends the process; an idle client is closed.

### B. webserv (`webserv/webserver/`), the select server

| part | state | operations |
|---|---|---|
| select loop (`server/webserver.cpp`, `file_descriptors.cpp`) | four `fd_set`s, a time-out counter per descriptor, the active client | `run`, `establish_connection`, `set_time_out_check`, `clean_up_after_error` |
| servers and clients (`server/server.cpp`, `client.cpp`) | clients, queue of handled requests, request buffer per descriptor | `create_new_server`, `reset`, `remove_client`, `update_request_buffer` |
| parsing (`request_buf.cpp`, `header_handler.cpp`) | header fields, body, status | `parse_request`, `reset_handler` |
| locations (`header_handler.cpp`, `location_context.cpp`, `helper/verify_file_location_functions.cpp`) | the blocks, the files, the authorization of a connection | `handle_request` and what it calls |
| configuration (`server/webserver.cpp:25-81`, `server.cpp`, `location_context.cpp`, `helper/parse_functions.cpp`, `check_functions.cpp`) | the lines of a block, one `server` and one `location_context` for all blocks, the servers so far | `load_configuration`, `create_new_server`, `configure_location_block`, `validate_configuration`, `establish_connection` |
| responses, other helpers (`response.cpp`, `helper/`, `gnl/`) | per request | formatting and file access |

`main` reads the configuration, checks it, makes the sockets and calls `run`.

The descriptor sets are shared by all server blocks; one active client of a block
is served per pass, and a request may own a file and the input of a script. One
pass of `run` is: `synchronize` and `select` without timeout; for each block
`accept`, then for each client read, file, send and time-out, in this order, left
by `continue` or by a string that is thrown; `sync_maxFD`. A string ends in
`clean_up_after_error`, any other exception ends the process.

What makes it correct: descriptors are neither lost nor used after they were
closed; each client waits for one thing that select looks at; somebody has the
turn; a request is taken once, with its own body, carried out if its location
allows it and the client has proved itself; each is answered.

### C. The rest

`exam06/mini_serv_original.c` is a chat server in one file; `mini_serv.c` has its
functions, and a `main` that echoes instead. Their state is a list of clients with
numbers, three descriptor sets and the buffers `str` and `tmp`, all global. One
pass of the loop is `select` on the sets, then a scan over the numbers: `accept`,
or `recv` and either `rm_client` or `ex_msg`, each with a `send` to every other
client. The sockets block. What makes it correct: whoever is there is told of
everything once, under the right number, and nobody waits for ever. `POC/` holds experiments, `static/` and the `files`
directories pages that are served. None of them interacts with A or B.

### What is hard here

The list is in `PROJECT.json` under `hazards`, each at its line. In short: TCP
cuts a request anywhere, and the recognisers keep derived values between calls
(`_cLen`, `post_boundary`, the method rewritten to CHUNK); the shared
`epoll_event` goes stale; descriptors are reused while events still name them;
maps are edited while they are iterated; `rearm` restarts the clock it is
measured with; `accept`, `send` and `close` fail at the wrong moment. In webserv
the turn is lost or kept, closed descriptors stay watched, and one counter serves
the body and the response; its configuration is read into objects that are used
again, by keywords that may stand anywhere. In `mini_serv` a `send` waits for a
client that does not read, and all clients share two buffers.

## 2. Modules

| module | what it is |
|---|---|
| `ClientRequest` | the recognisers as operators on a client record |
| `WholeRequest` | when a request is complete by RFC 7230 as the repository keeps it in `notes_RFC.txt`; only properties use it |
| `MessageFraming` | abstract specification: a request is handed over once, when all of it was read |
| `RequestAssembly` | one connection, from its first byte to the request handler; implements `MessageFraming` |
| `EventLoop` | `server::run`, `client_handler`, the kernel's tables and the peers |
| `ConnectionLifecycle` | abstract specification of what each peer is promised; `EventLoop` implements it |
| `RequestHandler` | the one `request_handler` through any sequence of requests, with the files they change |
| `ConfigChecker` | `check_conFile`: the words of a configuration file, taken or refused |
| `Startup` | `main`: `ConfigChecker`, then `RequestHandler` with the servers that were read |
| `ChunkedResponse` | one response on its way through a socket whose buffer fills |
| `CgiPipe` | `handle_cgi`, `go_cgi`, the child it forks and the script, joined by two pipes |
| `RequestBuffer` | what webserv collects of a request, and the body it takes from it, as operators |
| `Locations` | what webserv's `handle_request` makes of it: location, file, method, authorization, and what is done to the files, as operators |
| `SelectLoop` | webserv's `run`, `file_descriptors`, clients, files and scripts, and the peers |
| `ServerBlocks` | how webserv reads a server block and its locations, as operators |
| `LoadConfiguration` | webserv's `main` up to `run`: the file line by line, the checks, the sockets |
| `ChatRoom` | abstract specification of a chat server |
| `MiniServ` | `mini_serv_original.c` and the `main` of `mini_serv.c`, with their peers; the chat implements `ChatRoom` |
| `MC...` | the constants of the runs |
| `ClientRequestProofs`, `RequestAssemblyProofs`, `EventLoopProofs`, `RequestHandlerProofs`, `CgiPipeProofs`, `RequestBufferProofs`, `SelectLoopProofs`, `MiniServProofs` | theorems |

`EventLoop` is composed of the operators of `ClientRequest`. It knows a response
as a number of chunks; `ChunkedResponse` is what happens inside one such chunk,
`RequestHandler` what happens inside the step that makes the response (reader
and writer run between two steps of any peer, in one thread), and `CgiPipe` what
happens inside `handle_cgi`. A `CgiPipe` that does not return is an `EventLoop`
that takes no further step.

### ClientRequest and RequestAssembly

A buffer is a sequence of tokens of one unit of length each: request line,
header lines the code looks at, the empty line, pieces of body, occurrences of
the boundary, the last chunk. The header of `ClientRequest.tla` lists them. A
header line is one token except where a cut inside it matters to the code: a
Content-Length whose digits are split (`CL`, `DIGITS`) and a boundary split after
`boundary=` and none, one, two, or three and more characters (`BKEY`, `BND`): with
less than two `substr` throws, with two nothing is recorded, and with three and more
`post_boundary` is the part that has arrived, for good (`Recorded`), and is looked for
wherever it occurs (`BoundaryPlaces`). Lengths are counted
in tokens, so a bound such as `_cLen <= rqst.length()` compares tokens with
tokens; `MAX_LEN` (8192 bytes in the code) is 8 tokens. The number read by
`ss >> _cLen` does not overflow in the model.

`is_post_rqst_fulfilled`, `is_chunked_rqst_fulfilled` and `is_request_fulfilled`
return what they leave in the client, the answer, and whether `substr` threw. In
`RequestAssembly` the peer sends one token at a time and may shut down its side
after the last. `EventRead` is an event of the socket (`recv`, append, one
examination). `Poll` is a pass of `handle_chunks` for a client with a partial
request: it examines the buffer with or without new bytes, and when the answer
is yes `response_handler` examines it *again*. With `Available` tokens read at
once or not at all, every segmentation is covered because the peer's steps
interleave.

### EventLoop

| model | code |
|---|---|
| `clients`, `watch`, `owner` | `client_handler::clients`, epoll's interest list with the registered data, open descriptors |
| `evfd` | `_epoll._event.data.fd` |
| `pc` | the five phases of a pass |
| `it` | the iterator of `handle_chunks` and `check_all_timeout` |
| `ready`, `events` | `chunks` and the rest of `_epoll._events` |
| `stop` | the exception or signal that ended the process |
| `net`, `sent`, `read`, `backlog` | each peer, its bytes on the way, the queue of `listen` |
| `fate` | why the server closed a connection (history) |

Each server action is one iteration of a loop of the code, with every call it
makes; peers and time step in between. Some outcomes are left open because the
build leaves them open: the order of epoll's events; whether a send fails while
a send buffer is full; `recv` on a reset connection (ECONNRESET once, then end of
stream); where `it++` lands after its element was erased (the freed node still
points into the tree, so it lands on a live element or the end).

Abstractions: one listening socket and one server block (`serv_id` only selects
a `time_out`, which is the constant `TIME_OUT`); `MAX_EVENTS` (1000) is never
reached; a response is a number of chunks (`Blocks`), 0 for one `send`; a send is
whole or fails; `age` is the time since `rqst_time_start`, capped at
`TIME_OUT + 1`, above which all ages behave alike. `server::initialize` is
`Init`.

### RequestHandler

| model | code |
|---|---|
| `handler` | the fields the object keeps from one `writer` to the next reader: `_s_id`, `_l_id`, `_path`, `_body`, `_hrx` |
| `files` | regular files below the working directory; the page of errors has the status `gen_startLine` wrote into it |
| `last` | the request just answered, its server, location and response |
| `stop` | an exception no one catches below `main`, or a read outside a vector |
| a *turn* | the local state of one `reader` and `writer`, handed from function to function |

A path is a sequence of names and `/`, names being such that none continues
another (`/downloads` and `/downloadsX` do not both occur). `env` holds what the
program does not decide: whether `fork` succeeds, and what `add_body` reads from
the vector that `go_cgi` emptied. `_s_id` and `_l_id` are not initialised: 0
stands for whatever is not an index. `remove`, `stat` and the streams are modelled
by the file they find; sizes are in units. Header text is left out but for
Content-Length. The listing is one page, whatever perl prints.

### ConfigChecker and Startup

A word is a record of its text and of whether it has a `;` at its end, or one
elsewhere. `pos`, `block`, `word`, `_si` are the stream, which of the three
functions runs, its `word` and the servers so far; a step is one turn of a loop
with the values it takes. At the end of the file `>>` leaves its word alone, so
that a turn sees the word of the turn before (`Read`); a value that is missing
there makes an exception (`extract_to_string`) or a loop without end
(`extract_to_vector`, `outcome = "endless"`). An opening bracket at the end is
counted again and again until the count, an `int`, overflows: the build may go on
for ever or leave the loop (`CountBracket`). `ValidPorts` stands for the digits in
range that `valid_port` accepts. `display_server` is left out.

`Startup` runs `RequestHandler` after it. `Configured` turns the values of `_si`,
which are words, into the paths and sizes `RequestHandler` works with, and `Run`
goes on only for the file whose servers these are; for the others the question
is what becomes of the file.

### ChunkedResponse

The unit is a token: a header, a piece of body, a size line, a CR LF. `Send` is
the pattern of each of the four sends (`client_handler.cpp:274-281`): -1 when the
connection was reset or the buffer is full, else what there is room for. `short`
records that a send took less than it was given, which the code does not notice.
`pc` says which send comes next; `"chunk"` and `"last"` are inside one call of
`chunked_resp`, between two sends, where the peer may read or reset. `rqst` says that
the client has sent the beginning of something else: `handle_chunks` then looks at that
and does not call `chunked_resp` (`Called`). A piece of the body may be text that starts
with `HTTP`; where a later chunk starts with it, it goes out as a header (`Misread`).

### CgiPipe

`pc` and `open` are the server, `child` and `held` the child; `in` is `bfd`, `out`
is `fd`. A step of the child is the write or the read of one unit, so that the
two processes interleave at every unit. What the script does is data: how much it
reads (or to the end) and what it prints, in any order. A read meets the end of a
pipe when it is empty and nobody holds the other end.

### RequestBuffer, Locations and SelectLoop

Tokens as in `ClientRequest`; a request line stands for what it asks (`Asks`): the
method, the path, and the lines of the header that `handle_request` looks at, the
referer and the credentials (none, right, wrong). A path is a sequence of names,
an empty one at its end for a `/`; the endings of names are given by `Ending`. A
block of `Blocks` has what `location_context` has.

`handle_request` is three actions, between which nobody else acts: `Match`
(`match_location_block`, `verify_file_location`), `Verify` (`verify_method`,
`verify_authorization`) and `HandleRequest`, which does what the method asks of
`files` and opens what `run` goes on with. Its kind says how `run` goes on: `page`
a file is read, `folder` a directory is opened and cannot be, `gone` nothing is
opened, `nowhere` nothing is opened and the number -1 is watched, `upload` and
`replace` a file is written and read back (`replace` is 204 and not read),
`refused` a page of errors for a PUT or POST, `script` two files, `unopened` the
page of the error is missing. `location_of_uploaded_file` reads a `stat` that
failed: the bit it tests is chosen (`stale`).

| model | code |
|---|---|
| `fds` | `file_descriptors`: `_read`, `_write`, the two buffers, `_max`, and the time since `_time_out_monitor` |
| `clients`, `ci` | `server::_clients` and `client_index`; `h` has the fields of the handler that `run` reads |
| `buffer` | `server::_request_buffer`, by descriptor number |
| `check` | `webserver::_time_out_check` |
| `h.asked`, `h.turn` | of the handler: what was parsed; `_status`, `_location_index`, `_file_location`, `_allow`, `_max_file_size` |
| `files` | the regular files of the server's directory |
| `pc` | the blocks of a pass: `select`, `accept`, `client` (read), `match`, `verify`, `carry`, `file`, `send`, `expire`, `sync` |
| `open` | the process's descriptors; the lowest free number is given out |
| `stop` | past the end of the clients, an exception nobody catches, or SIGPIPE |
| `blind`, `failed`, `lost`, `left`, `reused`, `mixed`, `served` | history |

`SelectFails` is `select` with a closed number in its sets. `clean_up_after_error`
is given what the block had changed when the string was thrown, since a
descriptor that was opened in the same pass is not in `_read` and stays in the
kept sets. Left out: other server blocks, `fcntl` that fails, files without the
right to read them, a PUT of the name of a script (which `run` would execute as
its own body), sizes of files (a response has `RLEN` units), the age of a
descriptor that is no client's. A peer
sends its next request when the answer to the last was written, whether it has
read it or not; pipelined requests are not modelled. Peers step only where the
server looks at them next (`Looking`): a step they take elsewhere commutes with
what the server does until then.

`WritingFails` is a `write` of a body, a `fork` or a script that fails. A `write` to a
file takes the whole body or fails (`_bytes_written` of a short one would be written
again from the start), and `waitpid` returns: a script that never ends keeps everybody
waiting (`header_handler.cpp:513`), which is not in the model.

`OutputThrows` is `read_cgi_output_file` at the end of a script's output that has
no empty line and less than three bytes: `substr` throws what `run` does not catch.

### ServerBlocks and LoadConfiguration

A line is the sequence of its words. `find` sees a keyword also inside a word, as
`port` in `/import`: `Within` gives what a word contains. `parse_string` is what
stands behind the first space, or the whole line when there is none, as in the
code. `NumberOf` stands for `ft_atoi`, `PathOf` for the words that are paths. A
location is read when its first line is met and its lines are then met again as
lines of the server (`create_new_server` does not move past them), which is why
keywords in names matter. `made` has the two objects that are used for all
blocks. A step is a line of the file, or of the block that is being made, a check
or a socket; an exception ends in `ended`, which is `main`'s catch.

The files are written from descriptions (servers with lines of their own, then
locations), whole, cut behind any line, or without any one line; `Means` says
what a description says. Between the two models there is an assumption that TLC
evaluates: `BlocksAreRead` of `MCSelectLoop`, that the blocks `SelectTurns` runs
with are what `ServerBlocks` makes of the lines of its configuration.

Left out: what `debug_log` prints, `fcntl` and `listen` that fail, and
the bytes below a line: a last line without line break is read like the others,
and `BUFFER_SIZE` is 1, so that the static buffer of `get_next_line` is empty
between two lines and the user file of a location does not begin with the rest
of the configuration.

### ChatRoom and MiniServ

| model | code |
|---|---|
| `g_clients`, `g_id`, `curr_sock`, `cpy_read`, `cpy_write`, `str`, `tmp` | the globals of these names |
| `open` | the kernel's table; the lowest free number is given out |
| `pc`, `at` | `select`, the scan and the number it has come to |
| `sends`, `rest` | the sends of `send_all` still to come, and what follows them: `close`, `FD_CLR` and `break` |
| `inbox`, `unread`, `backlog`, `peer` | the kernel's buffers in both directions, the queue of `listen`, the peers |
| `joined`, `said`, `told`, `torn` | history |

A handler is a step up to its first send, each send is a step, and the rest is
the last, so that a peer may read, close or reset between any two sends. A send
to a peer with `ROOM` unread messages is not taken: the process waits in it, as the
sockets block and `select` is asked for readers only. `Over` is what writing a text
over the beginning of a buffer leaves in it: `tmp` is cleared at the end of a line,
`str` at the end of `ex_msg`, and in the echo never. A segment is shorter than the
buffers. `socket`, `bind` and `listen` succeed; `AcceptFails` stands also for `calloc`.

## 3. Runs

Bounds are small because what matters is small: two descriptors suffice for
reuse and mix-ups, three connections for one of them to wait or to take a number
over, a time-out of one tick for a client to expire or not; a `MAX_LEN` of two
tokens and a send buffer of five for a chunk that fits, one that fits in part and
none at all; pipes of four units for requests and pages that fit exactly, or not.

| run | shows | bounds |
|---|---|---|
| `RequestMessages` | `BytesKept`: the buffer is the peer's bytes in order, whatever the cuts and rewritings; `MethodRestored`: the request handler never sees CHUNK or a damaged POST; `FramingRespected`: `MessageFraming` is implemented; `UploadComplete`: no piece of an uploaded file is missing at hand-over, unless the recorded part of a boundary occurs in it; `CompleteIsTaken`: a request that has arrived, and of which something was read, is eventually handed over (or `substr` threw) | thirteen kinds of message |
| `EventLoopSafety` | `DescriptorsAgree`, `OwnBytes`, `OneDescriptor`; `StreamNotRestarted`: only further bytes of its own client begin a response again | 3 connections, 2 descriptors, a response of 3 chunks to a peer that sends an empty line behind its request, one silent peer |
| `EventLoopPair` | `LifecycleRespected`: `ConnectionLifecycle` is implemented; `WholeRequestEnds` | 2 connections at once |
| `SelectTurns` | `DescriptorsKept`; `SetsAgree`: each client waits for one thing, which `select` looks at (`WaitsForOne`), and no number is watched without a client (`WatchedForClients`); `TurnHeld`, `OwnRequests`, `EachAnswered`; `Authorised`: what a location with `auth_basic` asks for is done only for a connection that has proved itself, or was given bytes of one; `MethodsKept`: a method its location does not allow changes no file, but in three ways | 2 connections, 3 descriptors, ten pairs of scripts of one or two requests each, which ask for fifteen things of six locations after `default.conf` and `test.conf` and come to every kind; one has a chunk that is the byte 0, cut behind it |
| `HandlerSequence` | `LongestLocation`, `MethodsRespected`; `OwnResponse`: of a GET or POST answered with a file all of it is sent (`GetComplete`) and a page of errors has the status of its response (`ErrorPageShowsStatus`); `Independent`: what an earlier client asked for does not change a response; `TakenOrRefused`: a configuration whose brackets nest and whose statements end is taken value by value as it is written, or refused (`TakenAsWritten`), one that is cut short is refused (`TruncationRefused`), and of any that is accepted each block with its word is a server (`HeadedTaken`) | some 400 files: one of three servers, whole, cut behind any word, with any word left out or twice, with a `;` left out, doubled or apart; 22 requests in any order and number, 3 servers after `default.conf` |
| `StreamWhole` | `BodyArrives`: nothing is repeated or reordered (`InOrder`), and a client decodes the body if no send was short (`DecodesWhenWhole`); `StreamEnds`, unless the client begins another request | bodies of one to six pieces, and with text like a header at four places |
| `CgiReturn` | `CgiReturns` and `ReturnsOnlyIfFits`: a script returns exactly when what passes through the pipes fits; `LinesKept`, `DescriptorsBack` | 7 requests, 20 scripts |
| `ConfigurationRead` | `ReadAsWritten`: what is read of a file is what it says; `DamageRefused`: one with a bracket too few is never served; `ServedIffValid`: a whole file is served exactly if ports, time-outs, pages of errors, codes, user files and the ports of the machine allow it | 14 descriptions after the files of `configuration_files`, with every cut and every line left out; a port that is taken or not |
| `ChatServed` | `ServesRoom`: the chat implements `ChatRoom`; `TableAgrees`: list, sets and descriptors are of the same clients, with their numbers; `LinesKept`: as long as every `recv` ended with a line, the lines passed on for a client are its own, whole and all of them; afterwards what is passed on begins with a piece of what it has sent; `EchoesBack`: what each `recv` took is at the beginning of what is sent back for it; `EachServed`: whoever waits to be accepted, heard or told is served | 3 peers over 2 descriptors, room for one message, two scripts: two lines at once and an unfinished one of another, and two lines cut within the second; both programs |

Type correctness of each module is `TypeOK`, on its own or as the first part of an
invariant (`DescriptorsKept`, `LongestLocation`, `BodyArrives`, `DamageRefused`,
`TableAgrees`).

Three runs are expected to fail. Each is a disagreement between the code and a
sentence of the repository, quoted under `findings`:

| run | the code |
|---|---|
| `RequestLength` | counts the header into the length of the body |
| `EventLoopSurvival` | two clients at once end the process, through the stale `_event.data.fd` in `rearm` |
| `EventLoopTimeout` | never times out a partial request: `rearm` restarts its clock |

Six more disagreements are in the models without a run of their own. ATwebserv
answers a name no server has with the last server of the port
(`request_handler.cpp:277-279`, `set_server_id`), where the comment below it and
`test.sh:7` say the first. The last data chunk goes out without the CR LF behind its
data (`client_handler.cpp:304-309`, `SendFinal`) that `notes_RFC.txt:323-324` asks for: every
response that is streamed lacks it, and `Decode`, otherwise the grammar of
`notes_RFC.txt:318-328`, lets it be missing in front of the last chunk only. A boundary
that a segment cuts behind its third character is recorded as that part of it
(`client_handler.cpp:112`, `204`, `BoundaryRead`), and an upload whose file contains the part,
some dashes for instance, is handed over before it is complete. webserv admits a
connection that was given the number of another with the credentials the other left in
the buffer (`server/server.cpp:142`, `mixed`). `mini_serv` loses the first half of a line
that comes in two segments, and may send letters of one client behind the line of
another (`mini_serv_original.c:140-154`, `torn`), where `subject.en.txt:27` says of a message
that "it must resend it to all the other client". And `mini_serv` waits in `send` for a client that does not read
(`mini_serv_original.c:71`, `Send`), where `subject.en.txt:13` says "Your program must be
non-blocking but client can be lazy".

The conditions in the properties that pass are where the code stops keeping them,
so they are part of what the runs say:

- `Framed` (of `FramingRespected`) leaves out requests with a Content-Length
  (`RequestLength`), a header line or a piece of body that ends in 0, which passes
  for the last chunk, and a boundary that is named before the transfer coding, whose own line ends the
  request.
- `EndSeen` (of `CompleteIsTaken`) leaves out a chunked POST without boundary: the
  examination of `response_handler` undoes the one of `chunked_rqst`, in every pass,
  and it is never answered.
- `Misled` (of `UploadComplete`): a cut made the server record a part of the boundary that
  is also in the file. It occurs in the run.
- `Measured` (of `UploadComplete`) leaves out short bodies, handed over early for
  the same reason as `RequestLength`: the length must reach past the first
  boundary, counted from the request line. It also leaves out lengths above `MAX_LEN`,
  which the code takes for a chunked body, lengths that are cut in two by the segments or
  that come behind the boundary, and a second file, whose boundary is taken for the
  last.
- `CompleteIsTaken` begins with a buffer that holds something: a client of which nothing
  was read yet is reached by an event only, and `rearm` may have lost that to another
  number (`EventLoopSurvival`).
- `WholeRequestEnds` ends with "or the process ended".
- `StreamNotRestarted` has one exception, which is in the run: an empty line or a request
  sent behind the first, read while the response is streamed, begins the response
  again from its first byte.
- `OnItsOwn` (of `Independent`) names the three ways in which one request does reach
  the next: the server, when no server has the port; the location of a URL under
  `/error_pages/`, which may not even be one of this server; a listing that 413
  left in `_body`. All three occur in the run.
- `GetComplete` leaves out 413, which is sent without body, the `.php` pages,
  which `add_all_field` drops, and a server whose `error_page` names a file, for
  which `file_type` looks for `error_4xx.htmlerror_4xx.html`. It speaks of GET and
  POST: a PUT is answered with a length and no body.
- `HeadedTaken` (of `TakenOrRefused`) is all that is said of two files that are accepted
  although they are damaged: a block without the word `server` is skipped
  (`config_checker.cpp:101-108`), and an opening bracket too many is counted and forgotten.
- `DecodesWhenWhole` holds while no send was short, for a client that does not
  insist on the CR LF in front of the last chunk, and for a body that has no `HTTP` where a
  later chunk starts (`Misread`, which is in the run).
- `StreamEnds` ends with "or the client has begun another request": as long as that is
  not whole, `handle_chunks` neither sends the rest nor lets the client be timed out.
- `CgiReturns` is for `InputFits` and `ScriptFits`, and `ReturnsOnlyIfFits` says that
  for nothing else does `go_cgi` get as far as reading. What the child feeds is
  the beginning of the whole request, header included, since `reader` stores
  `ss_1.str()`.
- `DescriptorsBack` is about scripts that were started; when `pipe` or `fork` fails,
  two or four descriptors stay open.

- `EndsOpen` (of `TruncationRefused`) leaves out a file that ends in a list, which is
  read for ever, or behind an opening bracket, which is counted until the `int`
  overflows. Both occur in the run.
- `MethodsKept` has three exceptions that the code makes: DELETE of a page of errors by its
  name, which no location has (`header_handler.cpp:357-360`); POST of a `.bla`; and right
  credentials write 200 over the 405 of `verify_method`, so the request with which a
  client proves itself is carried out. The first and the last change files in the run;
  there a `.bla` is a script, which changes none, so that the second matters only to
  configurations without that type, which the theorem is about as well.
- `lost` (of `DescriptorsKept`) is the set of files `check_time_out` left open: of a client that read so little of
  one answer that there was no room for the next.
- `left` (of `WatchedForClients`) are the numbers an error or a time-out closed
  without taking them from the kept sets; they are the only reason for `select`
  to fail.
- `reused` (of `SetsAgree`, `OwnRequests` and `Authorised`): a number was given out again that
  was still watched. `check_time_out` takes a descriptor out of the read set
  only; a client that waited to send stays in the write set, and `sync_maxFD` lowers
  `_max` below it, so that `select` does not fail. When a later client gets the
  number it waits for two things, and is sent what it did not ask for. That takes
  five descriptors (connection 5, its file 4, then clients at 2, 3 and 5), more than
  the run has; the attempt to prove `SetsAgree` without the condition showed it, and
  TLC confirmed it from a state with five. `reused` is false in every state of
  `SelectTurns`.
- `failed` (of `TurnHeld`): an exception removed the client whose turn it was, and
  gave the turn to nobody.
- `mixed` (of `OwnRequests`, `Authorised` and `EachAnswered`) are the connections whose
  number still had bytes of another in the request buffer. Their first request is the
  other's, and if that came with right credentials they are served with them, and stay
  admitted: of these connections the two properties say nothing.
- `Tells` (of `OwnRequests` and `Authorised`): every request says what it asks for wherever
  it is cut. A chunk that is the byte 0 does not: cut behind it, it is taken for the last
  one (`request_buf.cpp:47-58`), and what follows becomes a request nobody sent.
- `Plain` (of `OwnRequests`) leaves out the data of a second chunk, which `parse_body` takes
  from the first. `OwnRequests` is false in the run without any one of the three,
  `Authorised` without `mixed`; `Tells` it needs for other scripts only.
- `LocationMeans` (of `ReadAsWritten`) gives a location the redirections of those in
  front of it, since `clean_location_instance` leaves `_return`: in `default.conf`
  `put_test` stands behind `redirect` and answers `/put_test` with 301, as it does in
  `SelectTurns`. `PlainText` leaves out names that contain a keyword; such files are
  read in the run, and refused or read as something else. A file without any
  server is accepted, and served by nobody.
- `torn` (of `LinesKept`): a `recv` that ends within a line leaves it in `tmp`, where
  the next line of any client is written over it. From then on the property says only
  that what is passed on is, up to the end of line, a piece of what its client has sent:
  it may begin within a line, whose first half is lost, and have somebody else's letters
  behind it. The run has both.
- `EchoesBack` says what is at the beginning of what is sent back; `str` is never cleared, so
  the end of a longer message, of anybody, follows.
- `TableAgrees` lets the list of the echo have entries of clients that left, which
  it never takes out; the newest entry for a number is the right one.
- `EachServed` ends with "or the process ended" (a send to a peer that is gone, no
  descriptor left), "or it waits in a send for ever".
- `Stuck` (of `EachAnswered`) lists what keeps every peer waiting: nobody's turn,
  the turn of one that sends or reads no more, a full table of descriptors, sets
  that were cleared. A request that is whole is answered in all other cases the model
  has; a script that never ends is one it does not have. `TurnHeld` and `EachAnswered` are
  for one server block: with several, two clients could use the files of scripts at once.

`CHECK_DEADLOCK FALSE` is set because the models may stop: a connection whose
request was handed over has nothing left to do, nor has a response that was sent,
a process that ended, or a script and a server that wait for each other (which is
what `ReturnsOnlyIfFits` is about).

### Fairness

`RequestAssembly` assumes weak fairness of `Poll`, `EventLoop` of
the server as a whole and of time. `epoll_wait` is called with a timeout of 0 and
every `recv` and `send` with `MSG_DONTWAIT`: a pass never blocks, and `handle_chunks`
visits every client that holds a partial request, by its own descriptor, as long as the
process lives. Nothing is assumed of `EventRead`: with a second client there, `rearm`
may have registered the socket under another number, and its events are lost. No
fairness is assumed of the peers.
`ChunkedResponse` assumes it of the server only: a response ends although its
client reads nothing. It is fairness of sending while `handle_chunks` calls
`chunked_resp`, which it does in every pass but for a client that holds the beginning of
another request (`Called`). `CgiPipe` assumes it of each of its two processes, which the
scheduler of the system gives. `SelectLoop` assumes it of the server, which runs
when `select` returns, and neither of time nor of the peers. It is written in two
parts that say the same: nobody else steps at `match`, and `Match` is the only step there,
so that its fairness is told by `pc`; TLC would otherwise search the location blocks
for each state once more, only to know that it can. `LoadConfiguration` is
one process that waits for nobody, `MiniServ` one that waits for its peers: weak
fairness of each, and none of the peers, so that one may never read.

## 4. Proofs

`tlapm` checks every obligation; the proofs use Z3, Zenon and LS4.

*ClientRequestProofs* establishes, for every buffer, that an examination changes
at most the first token and the three fields (`Examination`), and that what it
calls fulfilled is not empty and does not start with CHUNK. The places found by
`find` and `rfind` are CHOOSE expressions; `LeastNatural` and `FirstPlaceIsPlace`
show the first exists.

*RequestAssemblyProofs*, assuming only `MAX_LEN` positive and `Messages` sequences
of tokens:

- `TypeCorrect`, `BytesAreKept`: `TypeOK /\ BytesKept` is inductive. A segment
  continues the message where the buffer ends (`ReceivedHolds`), and one or two
  examinations keep it (`ExaminationHolds`).
- `MethodIsRestored` has a hypothesis, `Regular`: no message carries both
  Transfer-Encoding and Content-Length. Without it the code writes CHUNK over
  CHUNK when the length exceeds `MAX_LEN`, and restores POSTK. The invariant
  needed is `Method`: the request line reads CHUNK only while a length is
  recorded, or for a chunked message, in which case no length is ever looked for
  again.
- `FramingIsRespected`, the refinement of `MessageFraming`, and `UploadIsComplete`
  are for messages that are `Built` like a request: framing fields before the empty
  line and bodies behind it, what names a boundary complete, chunked requests with
  POST. TLC evaluates that the messages of the runs are (`MessagesBuilt`).
  The buffer is the beginning of the message but for the method (`Alike`), so that
  what the code finds in it is in the message at the same place. For the first,
  `FInv` says that while a framed request is read no length is recorded, and a
  boundary only when the last chunk is waited for (`Quiet`): neither of the two
  early ends of an upload can be taken for its own. For the second, `Measuring` says
  that the method is never rewritten and that a boundary, or a part of one, is recorded
  only from its own line, behind the length; then what is found of it behind so much of
  the body is at the end of the file, or, if a part was recorded, in the file (`Misled`).

*EventLoopProofs*, for any set of connections, any number of descriptors, any
scripts and response lengths: `TypeCorrect`, `DescriptorsAlwaysAgree`,
`BytesStayOwn`, `OneDescriptorEach`. None is inductive alone. The invariant
`IInv` adds: reads stay behind sends and sends within the script (so that a
segment is part of the script); an owned connection was made and not closed; a
waiting connection was made, has no descriptor, and waits once (so that `Accept`
cannot give a connection a second descriptor); the control variables have their
types (so that an event or an entry of `ready` is a descriptor at all). The
functions of `client_handler` are handled once: `Settled` is what `rearm`,
`remove_fd`, `chunked_resp` and `response_handler` leave behind, `MapGood` what
they need of the map they are given. The actions follow from these lemmas.

`ResponsesRunOn` is `StreamNotRestarted`, for whatever the peers send: each step that
serves a descriptor leaves the others as they are, and a response that is there already
is begun again only by an examination that finds a request, for which the buffer was not
empty or is filled by this step (an empty buffer is never complete).

`LivesAsPromised` is the refinement of `ConnectionLifecycle`. It has a
hypothesis, `SingleRequests`: each peer sends one
request of a method other than POST, without a body, or the beginning of one (as the
peers of `EventLoopPair` do). The code needs it. A second request sent behind the first is
still unread when the response begins; an event that names the wrong descriptor
(`evfd`) reads it, and begins another response over the one being streamed. And the
body of a request that is not a POST is not waited for, so that it is answered before
it is whole. TLC finds both within a few steps on scripts that break the hypothesis.

`LifeInv` adds what makes the step go through: what is held for a descriptor is the end
of what its connection sent, the first token included (for single requests nothing is
rewritten, `SoundExamined`); and while a response is being streamed nothing is held and
nothing is to come, so that an event or a second entry of `ready` for that descriptor
finds an empty buffer, which is never complete. `Lived` lists what serving a descriptor
can come to (nothing, a response begins, goes on, or the connection is closed),
`ReadsOn` when something is read at the same time; `LivedStep` turns them into a
`Listen`, `Respond` or `Finish` of that one connection and shows that no other moves,
since descriptors and connections correspond one to one (`OneDescriptor`). `Accept` is
an `Open`, `CloseExpired` an `Expire`, the rest a stutter.

*RequestHandlerProofs*, for any servers, requests and files: `TypeCorrect`,
`OnlyAllowedChangeFiles`, `RequestsIndependent`, `LongestIsTaken`, `ResponseIsOwn`. A
turn goes through some twenty functions; each has a lemma about what it leaves
(`Lined`, `Handles`, `Answers`). `IInv` says what the object and the files keep from
one request to the next: only the page of errors is one, `_body` holds a listing at
most, and that only after a 413 (`OnlyListing`), and the last response was made as it
should be (`LastFine`). Then:

- a file is created or removed in one place, behind the test of the method;
- two turns that differ in what `resolve_path` sets are `Alike`, and those are resolved
  to the same turn, unless the request goes to the pages of errors; the server and
  `_body` are the other two of the ways `OnItsOwn` names;
- after n turns of the loop over the locations the longest so far that fits is taken
  (`Longest`, by steps), under `ReturnsLead`: each `return` names a location of its
  server. Where it names none, the code stays at the location it had so far;
- a response has the length that was announced before its file was read, and the page
  of its own status, under `FolderPageStays`: no DELETE takes away the page that
  stands for a folder, which the code opens without looking.

TLC evaluates both hypotheses for the servers and requests of the run
(`ReturnsAndFolderPage`).

*CgiPipeProofs*, for pipes of every size and every set of requests and scripts:
`TypeCorrect`, `OnlyWhatFitsReturns`, `DescriptorsAreBack`, `LinesAreKept`. `IInv` has three parts.
`Waits`: while the child lives the server is in `waitpid` with every descriptor
open, so that the script can never meet the end of its input. `Counted`: nothing
leaves `out` meanwhile, so that all that was printed is in it, and what was fed is
in `in` or was eaten. `ExitFits` puts the two together: a script that exits has
printed no more than a pipe holds and read no more than it was fed. For `LinesAreKept`,
`Lines` says that a dead child has printed everything, that what is in `out` is the end
of it, and that `BODY` and the line being read are what reading made of the part
before (`ReadTo`, whose value at each place is found by steps, `ReadToIs`).

*RequestBufferProofs* are facts about the operators of `RequestBuffer` and
`Locations`: what was collected stays tokens, what is parsed is a request, the file
that is found has a path, a status is one the code has, and what kinds
`handle_request` can come to. The recursive functions (`Chunks`, `Named`) need two
steps each, since no prover here takes an induction rule with a predicate: that
the function exists (a least place from which it does not would have a smaller
one), and that its values have their type, in the same way. `CollectedTogether` says
that it does not matter how bytes are cut: to collect two segments one after the
other is to collect both at once. `NothingComplete` says that nothing, or a line break
alone, is no request.

*SelectLoopProofs*, for any number of connections and descriptors, any blocks,
files, requests and time-outs: `TypeCorrect`, `DescriptorsAreKept`, `TurnIsHeld`,
`SetsAlwaysAgree`, `ProvedIsServed`, and the action properties `MethodsAreKept` and
`RequestsAreOwn`. The invariant `IInv` has nine parts:

- `NetInv`, `ClientsInv`, `BufferInv`, `ControlInv` are types; a request that is there
  has a path, so that `Head` and `Last` of it are names.
- `TableInv`: every open descriptor has one use, and two clients share none. That
  is `DescriptorsKept` made inductive: who closes what is its own closes nothing of
  another.
- `TurnInv`: at most one active client, and in the steps of a pass it is the one at
  `ci`, unless it is only looked at for its time-out.
- `FdsInv`: a client that is read from has no file; so accepting a request cannot
  lose one.
- `PassInv`: what `select` reported and the pass has not come to is still in the kept
  sets. Without it a file could be read whose client was removed by `sync` in between.
- `SetsInv` (while not `reused`): each client reads, works on its files, sends, or is
  idle after an error (`WaitsInv`); every watched number is some client's (`WatchInv`);
  and a number that was reported is in the kept set it was reported for
  (`ReportInv`), so that `handled_request_update` exchanges one wait for the other.

There is a lemma for each action and part where the part can be disturbed, and
the closing of descriptors, which five actions do in the same way, is one lemma.
`MethodsAreKept` adds `AllowInv`: the methods that `Match` leaves in `allow` are those of the
block it has found, or DELETE for a page of errors (`Allows`), so that `MethodsKept` is
about the configuration and not about what the code has noted of it; and what comes to
`HandleRequest` with a status below 301 is allowed or `Excused`.

`RequestsAreOwn` and `ProvedIsServed` compare what is done with what a script asks for
(`asked`, `payload`). Both properties have the condition `Tells`: the bytes of each request
(`wire`) say what it asks for and what its payload is as soon as they pass for
complete, which is at the end, or before the line break that ends a last chunk. The
scripts do not change (`TellsStays`), so that `JInv` is proved under it. `JInv` adds to
`IInv`:

- `OnceInv`: a connection has one descriptor or waits once to be accepted, and one that
  was not made has neither; so a descriptor stands for one connection.
- `PaidInv`, while no number was `reused` and the process lives: the units written to
  a connection are at most `RLEN` for each request of it that was handed over, and
  while one is at hand or being answered, fewer by what is still to be written
  (`PaidFor`). So a peer that was answered has had its request taken, and what it
  sends next is a new one.
- `OwnInv`: what was read of a connection, with what is on the way, is `Underway`: the
  segments sent so far of the request its peer has come to (`Coming`), behind a line
  break of the one before or nothing, or what follows it when it was handed over
  (`Over`). `ReadRequest` moves bytes from one place to the other, which
  `CollectedTogether` makes no change at all; `PeerSends` needs `PaidInv`.
- `AuthInv`, while no number was `reused`, for the connections that are not `mixed`: who is
  known to have proved itself has
  asked with right credentials (`Proved`), the request at hand is the one its
  connection has come to, and what a location asks for was tested.

Without `~reused` a peer would be
sent an answer to nothing and go on to its next request, and the server would join the
bytes of both.

The assumptions are those of `Locations` (values of a block have the types that
`configure_*` give them, `retour.code` is 0 or 300..310), of `RequestBuffer` (a request
has a path) and of `SelectLoop` (numbers are positive). `LiteralsAssumption` says that
three literals are strings, which the provers do not know.

*MiniServProofs*, for any number of peers and descriptors, any scripts, and both
programs: `TypeCorrect`, `TableAlwaysAgrees`, `LinesAreKept`, `EchoGivesBack`, and the
refinement `ChatIsRoom`. The difficulty is that numbers of
descriptors are given out again, and that a client that left is off the list before
its descriptor is closed: between the two come the sends. `Kept` is what is open and
not about to be closed, and `IInv` says of it, besides types (`NetInv`, `BufferInv`,
`TableInv`):

- `ListInv`: every kept descriptor has an entry whose number is that of its client in
  `joined`, and no entry behind it has the same descriptor; all numbers are below
  `g_id`. In the chat nothing else is listed, and each descriptor once, so that
  `rm_client` and `get_id`, which take the first entry they find, take the right one.
- `ScanInv`: what the scan has not come to was not closed since `select`, because
  whoever closes has been passed or breaks off the scan; so `recv` is of an open
  descriptor. At the start of a scan `cpy_write` has open descriptors only.
- `SendsInv`: what `send_all` still has to send goes to kept descriptors.

`ChatIsRoom` says that every step of the chat is one of `ChatRoom` or none. `RoomInv`
adds to `IInv`:

- `JoinedInv`, `OpenInv`: nobody is accepted twice, and each connection has one
  descriptor; so what is addressed to a descriptor is what its client is owed.
- `ReadyInv`: during a scan all that is open is in `cpy_write`, so that `send_all`
  leaves out nobody (it would leave out a client accepted since `select`, were it not
  for the break); and what `select` found readable has still letters or has hung up,
  so that a `recv` that returns nothing is of a peer that left.
- `HeardInv`: types of the history.

`SendAllAddresses` is the heart of it: in what `send_all` makes of a list in which no
descriptor is twice, exactly the messages, in their order, are for each descriptor but
the one left out. `Accept`, `Leaves` and `Says` use it through `Announces`; `Send` is a
`Hear` by `HeadAddressed`. `Say` takes what `ex_msg` made of the letters, whatever it
is. What it is, is said by `KeptInv`, which adds to `RoomInv`:

- `OwnInv`: what is on the way from a peer is a piece of what it has sent, up to the last
  letter, and what was said for it are lines of that (`LineOf`): a piece up to an end of
  line, whatever `tmp` adds behind. What a `recv` takes is the end of what was sent
  (`EndsArePieces`), each line `ex_msg` finds is a piece of it (`LinesOfPiece`), and a piece of a
  piece is one (`PieceOfPiece`); `LineMade` shows that a line written over the rest of
  another is its own up to its end.
- `WholeInv`, for the chat until a `recv` ended within a line: `tmp` is empty, and what
  was said, with what is on the way, is what the peer has sent.
- `EchoInv`: some beginnings of the messages for a client, joined, are what was received
  of it. Each `recv` adds one message, and `Over` leaves its beginning in place, however
  much longer `str` already was.

`UpTo` and `StepByStep` are induction and definition by recursion for sets of
numbers, in a form that needs no predicate as a parameter; the lemmas about `Listed`,
`Copied`, `Addressed` and `FlattenSeq` follow from them.

Only model-checked:

- the liveness properties (`CompleteIsTaken`, `WholeRequestEnds`, `EachAnswered`,
  `EachServed`, `StreamEnds`, `CgiReturns`, `ServedIffValid`), since no prover
  here handles fairness;
- `TakenOrRefused`, `ReadAsWritten` and `DamageRefused`: what a program reads of a text
  is compared with what a description of any shape says, which would need induction
  over nested lists of statements;
- `BodyArrives`: what a client decodes of a stream, a recursive function over all that
  was sent, in whatever pieces.

## 5. Not modelled yet

In the order planned:

1. The rest of webserv: several server blocks in one `SelectLoop`, pipelined
   requests.
2. Proofs: `BodyArrives`, and `DamageRefused` by counting brackets.

Not planned: header and page formatting, `display_server`, the static content,
`exam06/main.c` (the functions the exam hands out) and `POC/`. `client_handler::remove` and `no_chunk` are never called.
