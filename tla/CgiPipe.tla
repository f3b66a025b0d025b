-------------------------------- MODULE CgiPipe --------------------------------
(***************************************************************************)
(* One script of ATwebserv: handle_cgi and go_cgi in the server, the child *)
(* it forks, and the script that the child becomes.  Two pipes join them:  *)
(* "in", from which the script reads, and "out", to which it prints.  The  *)
(* child itself fills "in" before the script runs, and the server waits    *)
(* for the child to die before it reads "out".                             *)
(*                                                                         *)
(* The text of a request and what a script prints are counted in units;    *)
(* "nl" ends a line, "type" is a place where a line has "Content-type: ",  *)
(* "powered" one where it has "X-Powered-By:", "t" any other text.         *)
(***************************************************************************)
EXTENDS Naturals, SequencesExt, Functions

CONSTANTS
  PipeSize,   \* what a pipe holds
  Calls,      \* requests: header, body, and the length declared, 0 for none
  Scripts     \* what a script reads, a number or to the end, and prints

ASSUME PipeSizeAssumption == PipeSize \in Nat \ {0}

Unit == {"head", "body"}
Char == {"t", "type", "powered", "nl"}

ASSUME CallsAssumption ==
  Calls \subseteq [header : Seq({"head"}), body : Seq({"body"}), cLen : Nat]

ASSUME ScriptsAssumption ==
  Scripts \subseteq [eats : Nat, toEnd : BOOLEAN, prints : Seq(Char)]

Ends == {"in0", "in1", "out0", "out1", "save0", "save1"}

VARIABLES
  rq, script,   \* the request and the script of this behaviour
  pc,           \* the server: "start", "wait", "read", "done"
  open,         \* the descriptors handle_cgi and go_cgi have open
  stdin,        \* what descriptor 0 of the server is: "server" or "out0"
  child,        \* the child: "none", "feed", "script", "dead"
  held,         \* the ends of pipes it holds
  in, out,      \* the pipes
  fed,          \* units the child has written into "in"
  eaten,        \* what the script has read
  printed,      \* units it has printed
  ran,          \* execve succeeded
  BODY          \* mp["BODY"]: the text of the request, then the lines read

vars == <<rq, script, pc, open, stdin, child, held, in, out, fed, eaten, printed, ran, BODY>>

parent == <<pc, open, stdin, BODY>>
input == <<rq, script>>

Init == /\ rq \in Calls /\ script \in Scripts
        /\ pc = "start" /\ open = {} /\ stdin = "server"
        /\ child = "none" /\ held = {}
        /\ in = <<>> /\ out = <<>> /\ fed = 0 /\ eaten = <<>> /\ printed = 0
        /\ ran = FALSE
        /\ BODY = <<rq.header \o rq.body>>

-------------------------------------------------------------------------------
(* The kernel *)

Room(pipe) == Len(pipe) < PipeSize

\* read() answers 0 : the pipe is empty and nobody holds the end to write to.
AtEnd(pipe, end) == pipe = <<>> /\ end \notin open \cup held

-------------------------------------------------------------------------------
(* The server *)

\* handle_cgi's two dup, two pipes and a fork.
Start == /\ pc = "start" /\ pc' = "wait"
         /\ open' = Ends
         /\ child' = "feed" /\ held' = {"in0", "in1", "out1"}
         /\ UNCHANGED <<input, stdin, in, out, fed, eaten, printed, ran, BODY>>

\* A call fails: go_cgi returns without closing what it has opened.
Leaks == {{}, {"out0", "out1"}, {"out0", "out1", "in0", "in1"}}
StartFails == /\ pc = "start" /\ pc' = "done"
              /\ open' \in Leaks
              /\ UNCHANGED <<input, stdin, child, held, in, out, fed, eaten, printed, ran, BODY>>

\* A bug: the read end keeps its first number beside descriptor 0.
Bug_ReadEndKept == /\ pc = "wait" /\ child = "dead" /\ pc' = "read"
                   /\ open' = {"out0", "save0", "save1"} /\ stdin' = "out0"
                   /\ BODY' = <<>>
                   /\ UNCHANGED <<input, child, held, in, out, fed, eaten, printed, ran>>

\* A bug: the server keeps an end to write to its own "out".
Bug_WriterKept == /\ pc = "wait" /\ child = "dead" /\ pc' = "read"
                  /\ open' = {"out1", "save0", "save1"} /\ stdin' = "out0"
                  /\ BODY' = <<>>
                  /\ UNCHANGED <<input, child, held, in, out, fed, eaten, printed, ran>>

\* A bug: the server does not wait for the child.
Bug_NoWait == /\ pc = "wait" /\ pc' = "read"
              /\ open' = {"save0", "save1"} /\ stdin' = "out0"
              /\ BODY' = <<>>
              /\ UNCHANGED <<input, child, held, in, out, fed, eaten, printed, ran>>

\* waitpid returns: the pipes are closed, and descriptor 0 reads "out".
WaitPid == /\ pc = "wait" /\ child = "dead" /\ pc' = "read"
           /\ open' = {"save0", "save1"} /\ stdin' = "out0"
           /\ BODY' = <<>>
           /\ UNCHANGED <<input, child, held, in, out, fed, eaten, printed, ran>>

\* A bug: only the type is taken out.
Bug_PoweredKept(line) == "type" \in Range(line)

\* A line that does not become part of BODY, wherever the text stands in it.
Diverted(line) == {"type", "powered"} \cap Range(line) # {}

\* rec_gnl reads up to the first end of a line, which is at n.
rec_gnl(n) == out[n] = "nl" /\ "nl" \notin Range(SubSeq(out, 1, n - 1))

\* It finds one.
ReadLine ==
  /\ pc = "read"
  /\ \E n \in DOMAIN out :
       /\ rec_gnl(n)
       /\ LET line == SubSeq(out, 1, n - 1)
          IN  BODY' = IF Diverted(line) THEN BODY ELSE Append(BODY, line)
       /\ out' = SubSeq(out, n + 1, Len(out))
  /\ UNCHANGED <<input, pc, open, stdin, child, held, in, fed, eaten, printed, ran>>

\* It comes to the end of "out" instead, and what it has read of a line is
\* lost; handle_cgi gives descriptors 0 and 1 back.
ReadEnd ==
  /\ pc = "read" /\ "nl" \notin Range(out) /\ AtEnd(<<>>, "out1")
  /\ pc' = "done"
  /\ out' = <<>> /\ open' = open \ {"save0", "save1"} /\ stdin' = "server"
  /\ UNCHANGED <<input, child, held, in, fed, eaten, printed, ran, BODY>>

Server == Start \/ StartFails \/ WaitPid \/ ReadLine \/ ReadEnd

-------------------------------------------------------------------------------
(* The child *)

Text == rq.header \o rq.body

\* A bug: the length that was declared is not looked at.
Bug_FeedAll == Len(Text)

\* What the child writes into "in".
ToFeed == IF Len(Text) > rq.cLen THEN rq.cLen ELSE Len(Text)

\* write() of a unit, into a pipe whose other end nobody reads yet.
Feed == /\ child = "feed" /\ fed < ToFeed /\ Room(in)
        /\ in' = Append(in, Text[fed + 1]) /\ fed' = fed + 1
        /\ UNCHANGED <<input, parent, child, held, out, eaten, printed, ran>>

\* The child gives up its end to write to "in" and becomes the script.
Exec == /\ child = "feed" /\ fed = ToFeed /\ child' = "script"
        /\ held' = held \ {"in1"} /\ ran' = TRUE
        /\ UNCHANGED <<input, parent, in, out, fed, eaten, printed>>

\* execve fails, and the child exits.
ExecFails == /\ child = "feed" /\ fed = ToFeed /\ child' = "dead"
             /\ held' = {}
             /\ UNCHANGED <<input, parent, in, out, fed, eaten, printed, ran>>

Eats == /\ child = "script" /\ in # <<>>
        /\ script.toEnd \/ Len(eaten) < script.eats
        /\ eaten' = Append(eaten, Head(in)) /\ in' = Tail(in)
        /\ UNCHANGED <<input, parent, child, held, out, fed, printed, ran>>

Prints == /\ child = "script" /\ printed < Len(script.prints) /\ Room(out)
          /\ out' = Append(out, script.prints[printed + 1]) /\ printed' = printed + 1
          /\ UNCHANGED <<input, parent, child, held, in, fed, eaten, ran>>

\* The script has read what it wants, or all there is, and printed it all.
Sated == \/ AtEnd(in, "in1")
         \/ ~script.toEnd /\ Len(eaten) = script.eats
Exit == /\ child = "script" /\ Sated /\ printed = Len(script.prints)
        /\ child' = "dead" /\ held' = {}
        /\ UNCHANGED <<input, parent, in, out, fed, eaten, printed, ran>>

Child == Feed \/ Exec \/ ExecFails \/ Eats \/ Prints \/ Exit

Next == Server \/ Child

\* Neither process waits for anything but the other.
Spec == Init /\ [][Next]_vars /\ WF_vars(Server) /\ WF_vars(Child)

-------------------------------------------------------------------------------
(* Properties *)

\* Types; a pipe never holds more than it can, and the script is never given
\* more than the request declared.
TypeOK == /\ pc \in {"start", "wait", "read", "done"} /\ open \subseteq Ends
          /\ stdin \in {"server", "out0"}
          /\ child \in {"none", "feed", "script", "dead"} /\ held \subseteq Ends
          /\ in \in Seq(Unit) /\ Len(in) <= PipeSize
          /\ out \in Seq(Char) /\ Len(out) <= PipeSize
          /\ fed \in 0..rq.cLen /\ eaten \in Seq(Unit) /\ ran \in BOOLEAN
          /\ printed \in 0..Len(script.prints)

\* What the two pipes can carry when each is filled before it is read: all of
\* what the child feeds, a script that reads no more than that and does not
\* look for the end, and all it prints.
InputFits  == ToFeed <= PipeSize
ScriptFits == /\ ~script.toEnd /\ script.eats <= ToFeed
              /\ Len(script.prints) <= PipeSize

\* The loop is held only by requests and scripts that do not fit: the others
\* return, whichever process runs first and whatever call fails.
CgiReturns == InputFits /\ ScriptFits => <>(pc = "done")

\* And those do hold it, for ever: no order of the two processes lets a
\* script that does not fit get as far as being read.
ReturnsOnlyIfFits ==
  pc \in {"read", "done"} /\ child # "none" => InputFits /\ (ran => ScriptFits)

\* What is known of a text so far: where its last line starts, which may go on,
\* and the lines before it that have no header of PHP.
NothingRead == [start |-> 1, kept |-> <<>>]
Further(known, text, n) ==
  LET line == SubSeq(text, known.start, n - 1)
  IN  IF text[n] # "nl" THEN known
      ELSE [start |-> n + 1,
            kept  |-> IF "type" \in Range(line) \/ "powered" \in Range(line)
                      THEN known.kept ELSE Append(known.kept, line)]
ReadTo(text) ==
  LET known[n \in 0..Len(text)] == IF n = 0 THEN NothingRead ELSE Further(known[n - 1], text, n)
  IN  known

\* When go_cgi returns, BODY has every line that the script ended, in order,
\* but those with a header of PHP, and nothing of the request.
LinesKept ==
  pc = "done" /\ child # "none" =>
    BODY = IF ran THEN ReadTo(script.prints)[Len(script.prints)].kept ELSE <<>>

\* Between two requests descriptor 0 is the server's own again, and a script
\* that was started leaves no descriptor open.
DescriptorsBack ==
  pc = "done" => stdin = "server" /\ (child # "none" => open = {} /\ held = {})
================================================================================
