---------------------------- MODULE ClientRequest ----------------------------
(***************************************************************************)
(* When does ATwebserv consider that a request has arrived?                *)
(*                                                                         *)
(* client_handler keeps, per connection, the bytes received so far         *)
(* (client_info::rqst) and two values it derives from them on the way      *)
(* (post_boundary and _cLen).  is_request_fulfilled() looks at the buffer  *)
(* after every recv() and at every pass of the event loop; it may rewrite  *)
(* the method of the request line, and what it recorded in an earlier call *)
(* changes what a later call answers.  The operators below are these       *)
(* functions.                                                              *)
(*                                                                         *)
(* A buffer is a sequence of tokens, each one unit of length long:         *)
(*   GET     the request line of any method but POST                       *)
(*   POST    the request line of a POST; CHUNK is what the code turns it   *)
(*           into while it waits for more (n counts the characters that    *)
(*           are left over from the method's name by that rewriting)       *)
(*   HDR     a header line the code does not look at                       *)
(*   TE      Transfer-Encoding: chunked                                    *)
(*   CL      Content-Length: with the digits of its value up to a possible *)
(*           end of segment, n the number they make; DIGITS is the rest of *)
(*           that line and carries the whole value                         *)
(*   BKEY    "boundary=" and the first n characters of the boundary (0, 1, *)
(*           2, or 3 for three and more), cut there by a possible end of   *)
(*           segment; BND is the rest of that line                         *)
(*   HEND    the empty line that ends the header; n = 1 when the line      *)
(*           before it ended in the digit 0                                *)
(*   BODY    a piece of body; n = 1 when it ends in "0", CR LF CR LF       *)
(*   HDR, BND, BODY, END with n = 2: what a BKEY with n = 3 has of the     *)
(*           boundary from the third character on occurs in it             *)
(*   DELIM   an occurrence of the boundary in the body                     *)
(*   END     what follows the boundary at the end of a multipart body      *)
(*   LAST    the last chunk of a chunked body, "0" CR LF CR LF             *)
(***************************************************************************)
EXTENDS Integers, Sequences

CONSTANT MAX_LEN    \* length above which a body is read as CHUNK

ASSUME MaxLenAssumption == MAX_LEN \in Nat \ {0}

Kind == {"GET", "POST", "CHUNK", "HDR", "TE", "CL", "DIGITS", "BKEY", "BND",
         "HEND", "BODY", "DELIM", "END", "LAST"}

Token == [k : Kind, n : Nat]

T(kind)       == [k |-> kind, n |-> 0]
TN(kind, num) == [k |-> kind, n |-> num]

\* What post_boundary holds: nothing, a part of the boundary, or the whole.
Boundary == {"", "part", "whole"}

\* The fields of client_info the recognition of a request depends on.
Client == [rqst : Seq(Token), bound : Boundary, cLen : Nat]

\* clients[fd] of a new connection.
NewClient == [rqst |-> <<>>, bound |-> "", cLen |-> 0]

-----------------------------------------------------------------------------

Places(s, kinds) == {i \in DOMAIN s : s[i].k \in kinds}

Has(s, kinds) == Places(s, kinds) # {}

FirstPlace(s, kinds) ==
  CHOOSE i \in Places(s, kinds) : \A j \in Places(s, kinds) : i <= j

\* rqst.substr(0, ...) == method
Starts(s, kind) == s # <<>> /\ s[1].k = kind

\* The number is not read.
Bug_ContentLengthUnread(s) == 0

\* find("Content-Length: ") and the number read after it: only the digits
\* that have arrived count.
ContentLength(s) ==
  LET i == FirstPlace(s, {"CL"})
  IN IF i < Len(s) /\ s[i + 1].k = "DIGITS" THEN s[i + 1].n ELSE s[i].n

\* rqst.replace(0, 4, "CHUNK") : exact on POST, leaves one character of an
\* earlier CHUNK behind.
MarkChunk(s) ==
  [s EXCEPT ![1] = TN("CHUNK", IF @.k = "CHUNK" THEN @.n + 1 ELSE 0)]

\* Two ways to get the next definition wrong: it is forgotten, or it puts
\* another method there.
Bug_RestoreForgotten(s) == s

Bug_RestoreOther(s) ==
  IF Starts(s, "CHUNK") THEN [s EXCEPT ![1] = TN("PUT", @.n)] ELSE s

\* if (rqst.substr(0, 5) == "CHUNK") rqst.replace(0, 5, "POST")
RestorePost(s) ==
  IF Starts(s, "CHUNK") THEN [s EXCEPT ![1] = TN("POST", @.n)] ELSE s

\* Any empty line counts as the last chunk.
Bug_AnyEmptyLine(s) == Has(s, {"HEND", "LAST"})

\* rfind("0\r\n\r\n") != npos, anywhere in the buffer.
HasZeroChunk(s) ==
  \E i \in DOMAIN s : \/ s[i].k = "LAST"
                      \/ s[i].k \in {"HEND", "BODY"} /\ s[i].n = 1

\* An empty buffer passes as well; any other buffer passes.
Bug_EmptyEnds(s) ==
  s = <<>> \/ s[Len(s)].k \in {"HEND", "LAST"}
Bug_AnyEnds(s)   == s # <<>>

\* The buffer ends in CR LF CR LF.
EndsInEmptyLine(s) ==
  /\ s # <<>>
  /\ LET last == s[Len(s)]
     IN \/ last.k \in {"HEND", "LAST"}
        \/ last.k = "BODY" /\ last.n = 1

-----------------------------------------------------------------------------
\* What a call writes into client_info; the other fields stay.
Update(c, rqst, bound, cLen) ==
  [c EXCEPT !.rqst = rqst, !.bound = bound, !.cLen = cLen]

\* post_boundary = rqst.substr(find("boundary=") + 11, ...) : out_of_range when
\* fewer than two characters follow "boundary=".
BoundaryThrows(s) ==
  /\ Has(s, {"BKEY"})
  /\ LET i == FirstPlace(s, {"BKEY"}) IN i = Len(s) /\ s[i].n < 2

\* Without '\r' behind it, find_first_of answers npos, and post_boundary is what
\* has arrived of the boundary: nothing, when just two characters have.
BoundaryRead(s) ==
  LET i == FirstPlace(s, {"BKEY"})
  IN IF ~Has(s, {"BKEY"}) THEN ""
     ELSE IF i < Len(s) THEN "whole"
     ELSE IF s[i].n = 3 THEN "part" ELSE ""

\* if (post_boundary.empty()) : once it holds something it is not read again.
Recorded(c, s) == IF c.bound = "" THEN BoundaryRead(s) ELSE c.bound

\* Where rfind(post_boundary) may find it; the line that declares the boundary
\* counts as well.
BoundaryPlaces(s, bound) ==
  {i \in DOMAIN s : \/ s[i].k \in {"DELIM", IF bound = "whole" THEN "BND" ELSE "BKEY"}
                    \/ bound = "part" /\ s[i].k \in {"HDR", "BND", "BODY", "END"} /\ s[i].n = 2}

\* The buffer up to the last of them is not shorter than cLen.
ReachesBoundary(s, bound, cLen) == \E last \in BoundaryPlaces(s, bound) : cLen <= last

\* Each of the three returns what the call leaves in the client, its answer,
\* and whether it threw instead (nobody looks at the client after that).
is_post_rqst_fulfilled(c) ==
  LET cLen == IF ~Has(c.rqst, {"TE"}) /\ Has(c.rqst, {"CL"})
              THEN ContentLength(c.rqst) ELSE 0
      rqst == IF Has(c.rqst, {"TE"}) \/ cLen > MAX_LEN
              THEN MarkChunk(c.rqst) ELSE c.rqst
      done == /\ c.bound # ""
              /\ ReachesBoundary(rqst, c.bound, cLen)
  IN [client    |-> Update(c, IF done THEN RestorePost(rqst) ELSE rqst,
                           Recorded(c, rqst), cLen),
      fulfilled |-> done,
      thrown    |-> c.bound = "" /\ BoundaryThrows(rqst)]

is_chunked_rqst_fulfilled(c) ==
  LET thrown == c.bound = "" /\ BoundaryThrows(c.rqst)
      cLen   == IF c.cLen = 0 /\ Has(c.rqst, {"CL"})
                THEN ContentLength(c.rqst) ELSE c.cLen
      rqst   == IF c.cLen = 0 /\ cLen > MAX_LEN
                THEN MarkChunk(c.rqst) ELSE c.rqst
      done   == ~thrown /\ (c.cLen \in 1..Len(rqst) \/ HasZeroChunk(rqst))
  IN [client    |-> Update(c, IF done THEN RestorePost(rqst) ELSE rqst,
                           Recorded(c, rqst), cLen),
      fulfilled |-> done,
      thrown    |-> thrown]

is_request_fulfilled(c) ==
  IF Starts(c.rqst, "POST") THEN is_post_rqst_fulfilled(c)
  ELSE IF Starts(c.rqst, "CHUNK") THEN is_chunked_rqst_fulfilled(c)
  ELSE [client |-> c, fulfilled |-> EndsInEmptyLine(c.rqst), thrown |-> FALSE]

\* The segment replaces what was received before, or is put in front of it.
Bug_Assign(c, tokens) == [c EXCEPT !.rqst = tokens]

Bug_Prepend(c, tokens) == [c EXCEPT !.rqst = tokens \o @]

\* client_handler::rqst_append
rqst_append(c, tokens) == [c EXCEPT !.rqst = @ \o tokens]
=============================================================================
