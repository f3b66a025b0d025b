------------------------ MODULE RequestAssemblyProofs ------------------------
(***************************************************************************)
(* The safety of RequestAssembly for all messages, all ways to cut them    *)
(* into segments and every MAX_LEN; what depends on how a request is       *)
(* framed, for messages that are Regular or Built.                         *)
(***************************************************************************)
EXTENDS RequestAssembly, ClientRequestProofs

\* The part of TypeOK and BytesKept one examination has to preserve: what is
\* held of the first n tokens of a message m.
Holds(c, m, n) == /\ c \in Client
                  /\ Len(c.rqst) = n
                  /\ \A i \in 2..n : c.rqst[i] = m[i]

\* Update leaves a client of the type.
LEMMA UpdateType ==
  ASSUME NEW c \in Client, NEW r \in Seq(Token), NEW b \in Boundary, NEW l \in Nat
  PROVE  Update(c, r, b, l) \in Client
BY DEF Update, Client

\* A client of the type can be examined.
LEMMA ClientExaminable ==
  ASSUME NEW c \in Client
  PROVE  Examinable(c)
BY DEF Client, Examinable

\* An examination neither drops nor changes a byte behind the request line.
LEMMA ExaminationHolds ==
  ASSUME NEW c, NEW m, NEW n \in Nat, Holds(c, m, n)
  PROVE  Holds(is_request_fulfilled(c).client, m, n)
<1>. DEFINE d == is_request_fulfilled(c).client
<1>1. c \in Client /\ Len(c.rqst) = n /\ \A i \in 2..n : c.rqst[i] = m[i]
  BY DEF Holds
<1>2. /\ Keeps(c.rqst, d.rqst)
      /\ \/ d = c
         \/ \E r \in Seq(Token), b \in Boundary, l \in Nat : d = Update(c, r, b, l)
  BY <1>1, ClientExaminable, Examination
<1>3. d \in Client
  BY <1>1, <1>2, UpdateType
<1>. HIDE DEF d
<1>4. Len(d.rqst) = n /\ \A i \in 2..n : d.rqst[i] = c.rqst[i]
  BY <1>1, <1>2 DEF Keeps
<1>. QED  BY <1>1, <1>3, <1>4 DEF Holds, d

\* A received segment continues the message where the buffer ended, and starts
\* it when the buffer was empty.
LEMMA ReceivedHolds ==
  ASSUME TypeOK, BytesKept
  PROVE  /\ Available \in Nat
         /\ read + Available \in 0..sent
         /\ Holds(Received, msg, read + Available)
         /\ Received.cLen = client.cLen
         /\ \A i \in 1..read : Received.rqst[i] = client.rqst[i]
         /\ Received.rqst # <<>> =>
              Received.rqst[1] = IF client.rqst = <<>> THEN msg[1] ELSE client.rqst[1]
<1>1. msg \in Seq(Token) /\ sent \in Nat /\ read \in Nat /\ read <= sent /\ sent <= Len(msg)
  BY MessagesAssumption, LenProperties DEF TypeOK
<1>2. Available \in Nat /\ read + Available <= sent
  BY <1>1, MaxLenAssumption DEF Available
<1>. DEFINE seg == SubSeq(msg, read + 1, read + Available)
<1>3. /\ seg \in Seq(Token)
      /\ Len(seg) = Available
      /\ \A i \in 1..Available : seg[i] = msg[read + i]
  <2>1. CASE Available = 0
    <3>1. seg = <<>>
      BY <1>1, <2>1, SubSeqProperties
    <3>2. seg \in Seq(Token) /\ Len(seg) = 0
      BY <3>1, EmptySeq
    <3>. HIDE DEF seg
    <3>. QED  BY <2>1, <3>2
  <2>2. CASE Available > 0
    <3>1. read + 1 \in 1..Len(msg) /\ read + Available \in 1..Len(msg)
      BY <1>1, <1>2, <2>2
    <3>2. seg \in Seq(Token)
      BY <1>1, <3>1, SubSeqProperties
    <3>. QED  BY <1>1, <1>2, <2>2, <3>1, <3>2, SubSeqProperties
  <2>. QED  BY <1>2, <2>1, <2>2
<1>4. client \in Client /\ client.rqst \in Seq(Token) /\ Len(client.rqst) = read
  BY DEF TypeOK, BytesKept, Client
<1>5. Received = [client EXCEPT !.rqst = client.rqst \o seg]
  BY DEF Received, rqst_append
<1>. HIDE DEF seg
<1>6. /\ client.rqst \o seg \in Seq(Token)
      /\ Len(client.rqst \o seg) = read + Available
      /\ \A i \in 1..read + Available :
           (client.rqst \o seg)[i] = IF i <= read THEN client.rqst[i] ELSE seg[i - read]
  <2>1. /\ client.rqst \o seg \in Seq(Token)
        /\ Len(client.rqst \o seg) = Len(client.rqst) + Len(seg)
        /\ \A i \in 1..Len(client.rqst) + Len(seg) :
             (client.rqst \o seg)[i] = IF i <= Len(client.rqst) THEN client.rqst[i]
                                       ELSE seg[i - Len(client.rqst)]
    BY <1>3, <1>4, ConcatProperties
  <2>. QED  BY <1>3, <1>4, <2>1
<1>. DEFINE all == client.rqst \o seg
<1>. HIDE DEF all
<1>7. Received \in Client /\ Received.rqst = all /\ Received.cLen = client.cLen
  BY <1>4, <1>5, <1>6 DEF Client, all
<1>8. \A i \in 2..read + Available : all[i] = msg[i]
  <2>. TAKE i \in 2..read + Available
  <2>1. CASE i <= read
    BY <1>1, <1>2, <1>6, <2>1 DEF all, BytesKept
  <2>2. CASE ~(i <= read)
    <3>1. i - read \in 1..Available /\ read + (i - read) = i
      BY <1>1, <1>2, <2>2
    <3>. QED  BY <1>3, <1>6, <1>1, <1>2, <2>2, <3>1 DEF all
  <2>. QED  BY <2>1, <2>2
<1>9. ASSUME all # <<>>
      PROVE  all[1] = IF client.rqst = <<>> THEN msg[1] ELSE client.rqst[1]
  <2>1. 1 \in 1..read + Available /\ Len(all) = read + Available
    BY <1>1, <1>2, <1>6, <1>9, EmptySeq DEF all
  <2>2. CASE client.rqst = <<>>
    <3>1. read = 0 /\ 1 \in 1..Available
      BY <1>4, <2>1, <2>2, <1>1, <1>2, EmptySeq
    <3>. QED  BY <1>3, <1>6, <2>1, <2>2, <3>1 DEF all
  <2>3. CASE client.rqst # <<>>
    <3>1. 1 <= read
      BY <1>1, <1>4, <2>3, EmptySeq
    <3>. QED  BY <1>6, <2>1, <2>3, <3>1 DEF all
  <2>. QED  BY <2>2, <2>3
<1>10. \A i \in 1..read : all[i] = client.rqst[i]
  BY <1>1, <1>2, <1>6 DEF all
<1>11. Holds(Received, msg, read + Available)
  BY <1>6, <1>7, <1>8 DEF Holds, all
<1>12. read + Available \in 0..sent
  BY <1>1, <1>2
<1>. QED  BY <1>2, <1>7, <1>9, <1>10, <1>11, <1>12

\* What the buffer had it still has.
LEMMA ReceivedHas ==
  ASSUME TypeOK, BytesKept, NEW K, Has(client.rqst, K)
  PROVE  Has(Received.rqst, K)
<1>1. /\ read \in Nat /\ Available \in Nat
      /\ Holds(Received, msg, read + Available)
      /\ \A i \in 1..read : Received.rqst[i] = client.rqst[i]
  BY ReceivedHolds, MessagesAssumption, LenProperties DEF TypeOK
<1>2. DOMAIN client.rqst = 1..read
  BY LenProperties DEF TypeOK, BytesKept, Client
<1>3. Received.rqst \in Seq(Token) /\ Len(Received.rqst) = read + Available
  BY <1>1 DEF Holds, Client
<1>4. DOMAIN Received.rqst = 1..(read + Available)
  BY <1>3, LenProperties
<1>5. PICK i : i \in 1..read /\ client.rqst[i].k \in K
  BY <1>2 DEF Has, Places
<1>6. i \in 1..(read + Available)
  BY <1>1, <1>5
<1>. QED  BY <1>1, <1>4, <1>5, <1>6 DEF Has, Places

-----------------------------------------------------------------------------
\* The client an action leaves when it concludes: examined once or twice.
Concluded(res) ==
  \/ res = is_request_fulfilled(Received)
  \/ res = is_request_fulfilled(is_request_fulfilled(Received).client)

\* EventRead and Poll both read what is available, examine it, and conclude.
LEMMA Concludes ==
  ASSUME EventRead \/ Poll
  PROVE  \E res : Concluded(res) /\ Conclude(res)
<1>1. CASE EventRead
  BY <1>1 DEF EventRead, Concluded
<1>2. CASE Poll
  <2>1. PICK asked \in {Received} :
               \E first \in {is_request_fulfilled(asked)} :
                 \E res \in {IF first.fulfilled
                             THEN is_request_fulfilled(first.client) ELSE first} :
                   Conclude(res)
    BY <1>2 DEF Poll, AskTwice
  <2>2. PICK res \in {IF is_request_fulfilled(Received).fulfilled
                      THEN is_request_fulfilled(is_request_fulfilled(Received).client)
                      ELSE is_request_fulfilled(Received)} : Conclude(res)
    BY <2>1
  <2>. QED  BY <2>2 DEF Concluded
<1>. QED  BY <1>1, <1>2

IInv == TypeOK /\ BytesKept

\* A new client's buffer is the first no bytes of its message.
LEMMA IInvInit == Init => IInv
<1>. SUFFICES ASSUME Init PROVE IInv
  OBVIOUS
<1>1. NewClient \in Client /\ Len(NewClient.rqst) = 0
  BY EmptySeq DEF NewClient, Client, Boundary
<1>2. Len(msg) \in Nat
  BY MessagesAssumption, LenProperties DEF Init
<1>3. TypeOK
  <2>1. sent \in 0..Len(msg) /\ read \in 0..sent
    BY <1>2 DEF Init
  <2>2. client \in Client
    BY <1>1 DEF Init
  <2>. QED  BY <2>1, <2>2 DEF Init, TypeOK
<1>4. Len(client.rqst) = read /\ read = 0
  BY <1>1 DEF Init
<1>. QED  BY <1>3, <1>4 DEF IInv, BytesKept

\* One step of the peer or of the server keeps the types and the bytes.
LEMMA IInvStep == IInv /\ [Next]_vars => IInv'
<1>. SUFFICES ASSUME IInv, [Next]_vars PROVE IInv'
  OBVIOUS
<1>0. msg \in Seq(Token) /\ Len(msg) \in Nat
  BY MessagesAssumption, LenProperties DEF IInv, TypeOK
<1>1. CASE PeerSends
  BY <1>0, <1>1 DEF PeerSends, IInv, TypeOK, BytesKept
<1>2. CASE PeerShuts
  BY <1>0, <1>2 DEF PeerShuts, IInv, TypeOK, BytesKept
<1>3. CASE EventRead \/ Poll
  <2>1. PICK res : Concluded(res) /\ Conclude(res)
    BY <1>3, Concludes
  <2>. DEFINE n == read + Available
  <2>2. n \in 0..sent /\ Holds(Received, msg, n)
    BY ReceivedHolds DEF IInv
  <2>3. n \in Nat /\ sent \in Nat
    BY <1>0, <2>2 DEF IInv, TypeOK
  <2>4. read' = n /\ client' = res.client /\ UNCHANGED <<msg, sent, shut>>
    BY <2>1 DEF Conclude
  <2>5. state' \in {"reading", "fulfilled", "thrown"}
    BY <2>1 DEF Conclude
  <2>. HIDE DEF n
  <2>6. Holds(is_request_fulfilled(Received).client, msg, n)
    BY <2>2, <2>3, ExaminationHolds
  <2>7. Holds(is_request_fulfilled(is_request_fulfilled(Received).client).client, msg, n)
    BY <2>3, <2>6, ExaminationHolds
  <2>8. Holds(client', msg, n)
    BY <2>1, <2>4, <2>6, <2>7 DEF Concluded
  <2>. QED  BY <2>2, <2>4, <2>5, <2>8 DEF IInv, TypeOK, BytesKept, Holds
<1>4. CASE UNCHANGED vars
  BY <1>4 DEF vars, IInv, TypeOK, BytesKept
<1>. QED  BY <1>1, <1>2, <1>3, <1>4 DEF Next

\* Every variable keeps its type, whatever the messages and the segments.
THEOREM TypeCorrect == Spec => []TypeOK
<1>1. IInv => TypeOK
  BY DEF IInv
<1>. QED  BY <1>1, IInvInit, IInvStep, PTL DEF Spec

\* The server's buffer is the peer's bytes in order, without a gap and without
\* repetition, up to the request line the code rewrites: no message, no
\* segmentation and no number of examinations makes is_request_fulfilled, which
\* edits the buffer it examines, lose or shift a byte.
THEOREM BytesAreKept == Spec => []BytesKept
<1>1. IInv => BytesKept
  BY DEF IInv
<1>. QED  BY <1>1, IInvInit, IInvStep, PTL DEF Spec

-----------------------------------------------------------------------------
\* What the buffer's request line may read, and when it may read CHUNK: once
\* the length was recorded, or when it is the coding that made the code write
\* CHUNK, in which case no length is ever looked for.
Method(c, m) ==
  c.rqst # <<>> =>
    \/ c.rqst[1] = m[1]
    \/ /\ m[1] = T("POST") /\ c.rqst[1] = T("CHUNK")
       /\ c.cLen = 0 => Has(m, {"TE"})

\* What follows the request line is in the message when it is in the buffer.
LEMMA HasInMessage ==
  ASSUME NEW c, NEW m \in Seq(Token), NEW n \in 0..Len(m), Holds(c, m, n),
         Has(c.rqst, {"TE"}) \/ Has(c.rqst, {"CL"}), NEW K \in {{"TE"}, {"CL"}},
         Starts(c.rqst, "POST") \/ Starts(c.rqst, "CHUNK"), Has(c.rqst, K)
  PROVE  Has(m, K)
<1>1. Len(m) \in Nat /\ DOMAIN m = 1..Len(m)
  BY LenProperties
<1>2. c.rqst \in Seq(Token) /\ DOMAIN c.rqst = 1..n
  BY LenProperties DEF Holds, Client
<1>3. PICK i \in 1..n : c.rqst[i].k \in K
  BY <1>2 DEF Has, Places
<1>4. i # 1
  BY <1>3 DEF Starts
<1>5. i \in 2..n /\ i \in DOMAIN m
  BY <1>1, <1>3, <1>4
<1>6. m[i].k \in K
  BY <1>3, <1>5 DEF Holds
<1>. QED  BY <1>5, <1>6 DEF Has, Places

\* MarkChunk on a POST and RestorePost on a CHUNK write the names exactly.
LEMMA Rewriting ==
  ASSUME NEW s \in Seq(Token), s # <<>>
  PROVE  /\ MarkChunk(s) # <<>> /\ RestorePost(s) # <<>>
         /\ s[1] = T("POST") => MarkChunk(s)[1] = T("CHUNK")
         /\ s[1] = T("CHUNK") => RestorePost(s)[1] = T("POST")
         /\ s[1] # T("CHUNK") /\ s[1].k # "CHUNK" => RestorePost(s) = s
<1>1. 1 \in DOMAIN s
  BY EmptySeq, LenProperties
<1>2. MarkChunk(s) # <<>> /\ RestorePost(s) # <<>>
  BY MarkChunkKeeps, RestorePostKeeps, EmptySeq DEF Keeps
<1>3. s[1] = T("POST") => MarkChunk(s)[1] = T("CHUNK")
  BY <1>1 DEF MarkChunk, T, TN
<1>4. s[1] = T("CHUNK") => RestorePost(s)[1] = T("POST")
  BY <1>1 DEF RestorePost, T, TN, Starts
<1>5. s[1].k # "CHUNK" => RestorePost(s) = s
  BY DEF RestorePost, Starts
<1>. QED  BY <1>2, <1>3, <1>4, <1>5

\* An examination of a buffer that starts with POST keeps Method: when it
\* writes CHUNK a length was recorded, or Transfer-Encoding was seen.
LEMMA MethodPost ==
  ASSUME NEW c, NEW m \in Seq(Token), NEW n \in 0..Len(m), Holds(c, m, n),
         Regular(m), Method(c, m), Starts(c.rqst, "POST")
  PROVE  Method(is_request_fulfilled(c).client, m)
<1>. DEFINE TEs == Has(c.rqst, {"TE"})
            l == IF ~TEs /\ Has(c.rqst, {"CL"}) THEN ContentLength(c.rqst) ELSE 0
            q == IF TEs \/ l > MAX_LEN THEN MarkChunk(c.rqst) ELSE c.rqst
            done == /\ c.bound # ""
                    /\ ReachesBoundary(q, c.bound, l)
            r == IF done THEN RestorePost(q) ELSE q
            b == Recorded(c, q)
<1>1. is_request_fulfilled(c).client = Update(c, r, b, l)
  BY DEF is_request_fulfilled, is_post_rqst_fulfilled
<1>2. \A x, y, z : Update(c, x, y, z).rqst = x /\ Update(c, x, y, z).cLen = z
  BY ClientExaminable, UpdateFields DEF Holds
<1>3. c.rqst \in Seq(Token) /\ c.rqst # <<>> /\ c.rqst[1] = m[1] /\ m[1] = T("POST")
  <2>1. c.rqst \in Seq(Token) /\ c.rqst # <<>> /\ c.rqst[1].k = "POST"
    BY DEF Holds, Client, Starts
  <2>2. T("CHUNK").k # "POST"
    BY DEF T
  <2>3. c.rqst[1] = m[1]
    BY <2>1, <2>2 DEF Method
  <2>4. m # <<>>
    BY <2>1, EmptySeq, LenProperties DEF Holds
  <2>. QED  BY <2>1, <2>3, <2>4 DEF Regular
<1>4. TEs => Has(m, {"TE"})
  BY HasInMessage
<1>5. MAX_LEN \in Nat \ {0}
  BY MaxLenAssumption
<1>6. l > MAX_LEN => l # 0
  BY <1>5
<1>7. q # <<>> /\ (q[1] = m[1] \/ (q[1] = T("CHUNK") /\ (l = 0 => Has(m, {"TE"}))))
  <2>. HIDE DEF l
  <2>. QED  BY <1>3, <1>4, <1>6, Rewriting
<1>8. q \in Seq(Token)
  BY <1>3, MarkChunkKeeps DEF Keeps
<1>. HIDE DEF q, l, done
<1>9. T("POST").k # "CHUNK" /\ T("POST") # T("CHUNK")
  BY DEF T
<1>10. r[1] = m[1] \/ (r[1] = T("CHUNK") /\ (l = 0 => Has(m, {"TE"})))
  BY <1>3, <1>7, <1>8, <1>9, Rewriting
<1>. HIDE DEF r, b
<1>. QED  BY <1>1, <1>2, <1>3, <1>10 DEF Method

\* An examination of a buffer that starts with CHUNK keeps Method.
LEMMA MethodChunk ==
  ASSUME NEW c, NEW m \in Seq(Token), NEW n \in 0..Len(m), Holds(c, m, n),
         Regular(m), Method(c, m), Starts(c.rqst, "CHUNK")
  PROVE  Method(is_request_fulfilled(c).client, m)
<1>. DEFINE l == IF c.cLen = 0 /\ Has(c.rqst, {"CL"}) THEN ContentLength(c.rqst) ELSE c.cLen
            q == IF c.cLen = 0 /\ l > MAX_LEN THEN MarkChunk(c.rqst) ELSE c.rqst
            done == /\ ~(c.bound = "" /\ BoundaryThrows(c.rqst))
                    /\ c.cLen \in 1..Len(q) \/ HasZeroChunk(q)
            r == IF done THEN RestorePost(q) ELSE q
            b == Recorded(c, q)
<1>1. is_request_fulfilled(c).client = Update(c, r, b, l)
  BY DEF is_request_fulfilled, is_chunked_rqst_fulfilled, Starts
<1>2. \A x, y, z : Update(c, x, y, z).rqst = x /\ Update(c, x, y, z).cLen = z
  BY ClientExaminable, UpdateFields DEF Holds
<1>3. /\ c.rqst \in Seq(Token) /\ c.rqst # <<>>
      /\ c.rqst[1] = T("CHUNK") /\ m[1] = T("POST")
      /\ c.cLen = 0 => Has(m, {"TE"})
  <2>1. c.rqst \in Seq(Token) /\ c.rqst # <<>> /\ c.rqst[1].k = "CHUNK"
    BY DEF Holds, Client, Starts
  <2>2. m # <<>>
    BY <2>1, EmptySeq, LenProperties DEF Holds
  <2>3. T("POST").k # "CHUNK"
    BY DEF T
  <2>4. c.rqst[1] # m[1]
    BY <2>1, <2>2, <2>3 DEF Regular
  <2>. QED  BY <2>1, <2>4 DEF Method
<1>4. c.cLen = 0 => ~Has(c.rqst, {"CL"})
  BY <1>3, HasInMessage DEF Regular
<1>5. l = c.cLen /\ q = c.rqst
  BY <1>4, MaxLenAssumption
<1>6. r = RestorePost(c.rqst) \/ r = c.rqst
  BY <1>5
<1>. HIDE DEF r, l, b
<1>7. r[1] = T("POST") \/ r[1] = T("CHUNK")
  BY <1>3, <1>6, Rewriting
<1>. QED  BY <1>1, <1>2, <1>3, <1>5, <1>7 DEF Method

\* One examination keeps Method.
LEMMA MethodExamination ==
  ASSUME NEW c, NEW m \in Seq(Token), NEW n \in 0..Len(m), Holds(c, m, n),
         Regular(m), Method(c, m)
  PROVE  LET d == is_request_fulfilled(c).client IN Holds(d, m, n) /\ Method(d, m)
<1>1. Holds(is_request_fulfilled(c).client, m, n)
  BY ExaminationHolds, LenProperties
<1>2. CASE Starts(c.rqst, "POST")
  BY <1>1, <1>2, MethodPost
<1>3. CASE Starts(c.rqst, "CHUNK")
  BY <1>1, <1>3, MethodChunk
<1>4. CASE ~Starts(c.rqst, "POST") /\ ~Starts(c.rqst, "CHUNK")
  BY <1>1, <1>4 DEF is_request_fulfilled
<1>. QED  BY <1>2, <1>3, <1>4

MInv == /\ IInv
        /\ Method(client, msg)
        /\ state = "fulfilled" => client.rqst # <<>> /\ ~Starts(client.rqst, "CHUNK")

\* Method holds of an empty buffer.
LEMMA MInvInit == Init => MInv
<1>. SUFFICES ASSUME Init PROVE MInv
  OBVIOUS
<1>1. client.rqst = <<>> /\ state # "fulfilled"
  BY DEF Init, NewClient
<1>. QED  BY <1>1, IInvInit DEF MInv, Method

\* Method and what the handler is given survive every segment and every
\* examination, when no message carries both a length and an encoding.
LEMMA MInvStep ==
  ASSUME \A m \in Messages : Regular(m)
  PROVE  MInv /\ [Next]_vars => MInv'
<1>. SUFFICES ASSUME MInv, [Next]_vars PROVE MInv'
  OBVIOUS
<1>0. /\ IInv'
      /\ msg \in Seq(Token) /\ Len(msg) \in Nat /\ Regular(msg)
      /\ sent \in 0..Len(msg)
  BY IInvStep, MessagesAssumption, LenProperties DEF MInv, IInv, TypeOK
<1>1. CASE UNCHANGED <<msg, client, state>>
  BY <1>0, <1>1 DEF MInv, Method
<1>2. CASE EventRead \/ Poll
  <2>1. PICK res : Concluded(res) /\ Conclude(res)
    BY <1>2, Concludes
  <2>. DEFINE n == read + Available
              d == is_request_fulfilled(Received).client
  <2>2. /\ n \in 0..Len(msg) /\ Holds(Received, msg, n)
        /\ Received.cLen = client.cLen
        /\ Received.rqst # <<>> =>
              Received.rqst[1] = IF client.rqst = <<>> THEN msg[1] ELSE client.rqst[1]
    BY <1>0, ReceivedHolds DEF MInv, IInv
  <2>3. Method(Received, msg)
    BY <2>2 DEF MInv, Method
  <2>. HIDE DEF n
  <2>4. Holds(d, msg, n) /\ Method(d, msg)
    BY <1>0, <2>2, <2>3, MethodExamination
  <2>5. Method(is_request_fulfilled(d).client, msg)
    BY <1>0, <2>2, <2>4, MethodExamination
  <2>6. Examinable(Received) /\ Examinable(d)
    BY <2>2, <2>4, ClientExaminable DEF Holds
  <2>7. \/ res = is_request_fulfilled(Received)
        \/ res = is_request_fulfilled(d)
    BY <2>1 DEF Concluded
  <2>. HIDE DEF d
  <2>8. Method(res.client, msg)
    BY <2>4, <2>5, <2>7 DEF d
  <2>9. res.fulfilled => res.client.rqst # <<>> /\ ~Starts(res.client.rqst, "CHUNK")
    BY <2>6, <2>7, Examination, FulfilledNonempty
  <2>10. client' = res.client /\ msg' = msg /\ (state' = "fulfilled" => res.fulfilled)
    BY <2>1 DEF Conclude
  <2>. QED  BY <1>0, <2>8, <2>9, <2>10 DEF MInv, Method
<1>3. CASE PeerSends \/ PeerShuts
  BY <1>1, <1>3 DEF PeerSends, PeerShuts
<1>4. CASE UNCHANGED vars
  BY <1>1, <1>4 DEF vars
<1>. QED  BY <1>2, <1>3, <1>4 DEF Next

\* Every request the peer may send comes out of the CHUNK state with its method
\* restored to the character, as long as no message carries both framing headers
\* (with both, MAX_LEN exceeded, the code writes CHUNK over CHUNK and leaves
\* POSTK).
THEOREM MethodIsRestored ==
  ASSUME \A m \in Messages : Regular(m)
  PROVE  Spec => []MethodRestored
<1>1. MInv => MethodRestored
  BY DEF MInv, Method, MethodRestored, Starts, T
<1>2. MInv /\ [Next]_vars => MInv'
  BY MInvStep
<1>. QED  BY <1>1, <1>2, MInvInit, PTL DEF Spec
-----------------------------------------------------------------------------
\* The first n tokens of m, but that the code may have written CHUNK for POST.
Alike(s, m, n) ==
  /\ s \in Seq(Token) /\ Len(s) = n
  /\ \A i \in 2..n : s[i] = m[i]
  /\ s # <<>> => s[1] = m[1] \/ (s[1].k = "CHUNK" /\ m[1].k = "POST")

Renamed == {"POST", "CHUNK"}

\* No other kind of token is anywhere else in it than in m.
LEMMA AlikePlaces ==
  ASSUME NEW m \in Seq(Token), NEW n \in 0..Len(m), NEW s, Alike(s, m, n),
         NEW K, K \cap Renamed = {}
  PROVE  Places(s, K) = {i \in Places(m, K) : i <= n}
<1>1. s \in Seq(Token) /\ Len(s) = n /\ Len(m) \in Nat /\ n \in Nat /\ n <= Len(m)
  BY LenProperties DEF Alike
<1>2. DOMAIN s = 1..n /\ DOMAIN m = 1..Len(m)
  BY <1>1, LenProperties
<1>3. \A i \in 1..n : s[i].k \in K <=> m[i].k \in K
  <2>. TAKE i \in 1..n
  <2>1. CASE i = 1
    <3>1. s # <<>>
      BY <1>1, <2>1, EmptySeq
    <3>. QED  BY <2>1, <3>1 DEF Alike, Renamed
  <2>2. CASE i # 1
    BY <2>2 DEF Alike
  <2>. QED  BY <2>1, <2>2
<1>4. \A i : i \in 1..n <=> i \in 1..Len(m) /\ i <= n
  BY <1>1
<1>. QED  BY <1>2, <1>3, <1>4 DEF Places

\* There is only one first place.
LEMMA FirstIs ==
  ASSUME NEW s \in Seq(Token), NEW K, NEW i \in Places(s, K), \A j \in Places(s, K) : i <= j
  PROVE  FirstPlace(s, K) = i
<1>1. \A j \in Places(s, K) : j \in Nat
  BY LenProperties DEF Places
<1>2. \A j \in Places(s, K) : (\A l \in Places(s, K) : j <= l) => j = i
  <2>. TAKE j \in Places(s, K)
  <2>. HAVE \A l \in Places(s, K) : j <= l
  <2>1. j <= i /\ i <= j /\ i \in Nat /\ j \in Nat
    BY <1>1
  <2>. QED  BY <2>1
<1>. QED  BY <1>2 DEF FirstPlace

\* And it is the same one in what was received.
LEMMA AlikeFirst ==
  ASSUME NEW m \in Seq(Token), NEW n \in 0..Len(m), NEW s, Alike(s, m, n),
         NEW K, K \cap Renamed = {}, Has(s, K)
  PROVE  FirstPlace(s, K) = FirstPlace(m, K) /\ FirstPlace(m, K) \in Places(s, K)
<1>1. Places(s, K) = {i \in Places(m, K) : i <= n} /\ s \in Seq(Token)
  BY AlikePlaces DEF Alike
<1>2. FirstPlace(s, K) \in Places(s, K) /\ \A j \in Places(s, K) : FirstPlace(s, K) <= j
  <2>1. Places(s, K) \in SUBSET Nat
    BY <1>1, LenProperties DEF Places
  <2>. QED  BY <2>1, LeastNatural DEF Has, FirstPlace
<1>3. \A j \in Places(m, K) : FirstPlace(s, K) <= j
  <2>. TAKE j \in Places(m, K)
  <2>1. j \in Nat /\ FirstPlace(s, K) \in Nat /\ FirstPlace(s, K) <= n /\ n \in Nat
    BY <1>1, <1>2, LenProperties DEF Places
  <2>2. CASE j <= n
    BY <1>1, <1>2, <2>2
  <2>3. CASE ~(j <= n)
    BY <2>1, <2>3
  <2>. QED  BY <2>2, <2>3
<1>. QED  BY <1>1, <1>2, <1>3, FirstIs

\* What the server has of a message is like it.
LEMMA HeldAlike ==
  ASSUME NEW c, NEW m \in Seq(Token), NEW n \in 0..Len(m), Holds(c, m, n), Method(c, m)
  PROVE  Alike(c.rqst, m, n)
<1>1. T("POST").k = "POST" /\ T("CHUNK").k = "CHUNK"
  BY DEF T
<1>. QED  BY <1>1 DEF Holds, Method, Alike, Client

\* The code's two rewritings of a request line keep it like the message.
LEMMA RewrittenAlike ==
  ASSUME NEW m \in Seq(Token), NEW n \in 0..Len(m), NEW s, Alike(s, m, n), s # <<>>,
         m[1] = T("POST"), s[1] \in {T("POST"), T("CHUNK")}
  PROVE  /\ Alike(RestorePost(s), m, n)
         /\ s[1] = T("POST") => Alike(MarkChunk(s), m, n) /\ Starts(MarkChunk(s), "CHUNK")
<1>1. T("POST").k = "POST" /\ T("CHUNK").k = "CHUNK"
  BY DEF T
<1>2. s \in Seq(Token) /\ Len(s) = n /\ \A i \in 2..n : s[i] = m[i]
  BY DEF Alike
<1>3. /\ RestorePost(s) \in Seq(Token) /\ Len(RestorePost(s)) = n
      /\ \A i \in 2..n : RestorePost(s)[i] = m[i]
  BY <1>2, RestorePostKeeps DEF Keeps
<1>4. /\ MarkChunk(s) \in Seq(Token) /\ Len(MarkChunk(s)) = n
      /\ \A i \in 2..n : MarkChunk(s)[i] = m[i]
  BY <1>2, MarkChunkKeeps DEF Keeps
<1>5. RestorePost(s)[1] = m[1]
  BY <1>1, <1>2, Rewriting
<1>6. s[1] = T("POST") => MarkChunk(s)[1] = T("CHUNK") /\ MarkChunk(s) # <<>>
  BY <1>2, Rewriting
<1>. QED  BY <1>1, <1>3, <1>4, <1>5, <1>6 DEF Alike, Starts

-----------------------------------------------------------------------------
\* The refinement of MessageFraming.

\* What of a framed request is whole when n tokens of it are there.
WholeAt(m, n) ==
  /\ \E i \in 1..n : m[i].k = "HEND"
  /\ Has(m, {"TE"}) => \E i \in 1..n : /\ m[i].k = "LAST"
                                       /\ \E j \in 1..(i - 1) : m[j].k = "HEND"

\* A boundary is recorded only once the code waits for the last chunk.
Quiet(c) == c.cLen = 0 /\ (~Starts(c.rqst, "CHUNK") => c.bound = "")

\* A framed request has no length, and its boundary, if any, comes behind the
\* transfer coding: what has the boundary has both.
LEMMA FramedHeld ==
  ASSUME NEW m \in Framed, Built(m), NEW n \in 0..Len(m), NEW s, Alike(s, m, n)
  PROVE  ~Has(s, {"CL"}) /\ (BoundaryRead(s) # "" => Has(s, {"TE"}))
<1>1. m \in Seq(Token) /\ DOMAIN m = 1..Len(m) /\ Len(m) \in Nat /\ n \in Nat /\ n <= Len(m)
  BY MessagesAssumption, LenProperties DEF Framed
<1>2. \A K : K \cap Renamed = {} => Places(s, K) = {i \in Places(m, K) : i <= n}
  BY <1>1, AlikePlaces
<1>3. {"CL"} \cap Renamed = {} /\ {"TE"} \cap Renamed = {} /\ {"BKEY"} \cap Renamed = {} /\ {"BND"} \cap Renamed = {}
  BY DEF Renamed
<1>4. ~Has(m, {"CL"})
  BY DEF Framed
<1>5. ~Has(s, {"CL"})
  BY <1>2, <1>3, <1>4 DEF Has
<1>6. ASSUME BoundaryRead(s) # ""
      PROVE  Has(s, {"TE"})
  <2>1. PICK i : i = FirstPlace(s, {"BKEY"})
    OBVIOUS
  <2>2. i \in Places(s, {"BKEY"}) /\ i <= n
    <3>1. Has(s, {"BKEY"})
      BY <1>6 DEF BoundaryRead
    <3>. QED  BY <1>1, <1>2, <1>3, <2>1, <3>1, AlikeFirst
  <2>3. i \in Places(m, {"BKEY"})
    BY <1>2, <1>3, <2>2
  <2>4. i \in 1..Len(m) /\ m[i].k = "BKEY"
    BY <1>1, <2>3 DEF Places
  <2>5. i + 1 \in Places(m, {"BND"}) /\ Has(m, {"TE"})
    BY <1>1, <1>4, <2>3, <2>4 DEF Built, Has, Places
  <2>6. FirstPlace(m, {"TE"}) < FirstPlace(m, {"BND"})
    BY <2>5 DEF Framed, Has
  <2>7. FirstPlace(m, {"BND"}) \in Nat /\ FirstPlace(m, {"BND"}) <= i + 1
    <3>1. Places(m, {"BND"}) \in SUBSET Nat
      BY <1>1 DEF Places
    <3>2. \E x \in Places(m, {"BND"}) : \A y \in Places(m, {"BND"}) : x <= y
      BY <2>5, <3>1, LeastNatural
    <3>. QED  BY <2>5, <3>1, <3>2 DEF FirstPlace
  <2>8. FirstPlace(m, {"TE"}) \in Places(m, {"TE"})
    BY <1>1, <2>5, FirstPlaceIsPlace
  <2>9. FirstPlace(m, {"TE"}) \in 1..Len(m) /\ m[FirstPlace(m, {"TE"})].k = "TE"
    BY <1>1, <2>8 DEF Places
  <2>10. FirstPlace(m, {"TE"}) # i
    BY <2>4, <2>9
  <2>11. FirstPlace(m, {"TE"}) <= n
    BY <1>1, <2>2, <2>4, <2>6, <2>7, <2>9, <2>10
  <2>. QED  BY <1>2, <1>3, <2>8, <2>11 DEF Has
<1>. QED  BY <1>5, <1>6

\* A POST with no boundary recorded is not handed over: it becomes CHUNK when
\* the transfer coding is there, and keeps no boundary before.
LEMMA FramedPost ==
  ASSUME NEW m \in Framed, Built(m), NEW n \in 0..Len(m), NEW c, Holds(c, m, n), Method(c, m),
         c.cLen = 0, Starts(c.rqst, "POST")
  PROVE  LET res == is_request_fulfilled(c)
         IN /\ res.client.cLen = 0
            /\ c.bound = "" => ~res.fulfilled /\ Quiet(res.client)
            /\ Has(c.rqst, {"TE"}) /\ ~res.fulfilled => Quiet(res.client)
<1>. DEFINE TEs == Has(c.rqst, {"TE"})
            q == IF TEs THEN MarkChunk(c.rqst) ELSE c.rqst
            done == /\ c.bound # ""
                    /\ ReachesBoundary(q, c.bound, 0)
            r == IF done THEN RestorePost(q) ELSE q
            b == Recorded(c, q)
<1>0. m \in Seq(Token) /\ c \in Client /\ c.rqst \in Seq(Token) /\ c.rqst # <<>> /\ c.bound \in Boundary
  BY MessagesAssumption DEF Framed, Holds, Client, Starts
<1>1. Alike(c.rqst, m, n)
  BY <1>0, HeldAlike
<1>2. ~Has(c.rqst, {"CL"}) /\ (BoundaryRead(c.rqst) # "" => TEs)
  BY <1>1, FramedHeld
<1>3. ~(0 > MAX_LEN)
  BY MaxLenAssumption
<1>4. is_request_fulfilled(c).client = Update(c, r, b, 0) /\ is_request_fulfilled(c).fulfilled = done
  BY <1>2, <1>3 DEF is_request_fulfilled, is_post_rqst_fulfilled
<1>5. \A x, y, z : /\ Update(c, x, y, z).rqst = x
                  /\ Update(c, x, y, z).bound = y
                  /\ Update(c, x, y, z).cLen = z
  BY <1>0, ClientExaminable, UpdateFields
<1>6. c.rqst[1] = T("POST") /\ m[1] = T("POST")
  <2>1. c.rqst[1].k = "POST" /\ T("CHUNK").k = "CHUNK" /\ m # <<>>
    BY <1>0, EmptySeq, LenProperties DEF Starts, T, Holds
  <2>2. c.rqst[1] = m[1]
    BY <1>0, <2>1 DEF Method
  <2>. QED  BY <2>1, <2>2 DEF Built, Regular
<1>7. TEs => Starts(MarkChunk(c.rqst), "CHUNK")
  BY <1>0, <1>1, <1>6, RewrittenAlike
<1>8. ~done => (~Starts(r, "CHUNK") => (c.bound = "" => b = ""))
  <2>1. CASE TEs
    BY <1>7, <2>1
  <2>2. CASE ~TEs
    BY <1>2, <2>2 DEF Recorded
  <2>. QED  BY <2>1, <2>2
<1>9. TEs /\ ~done => Starts(r, "CHUNK")
  BY <1>7
<1>10. c.bound = "" => ~done
  OBVIOUS
<1>. HIDE DEF TEs, q, done, r, b
<1>11. TEs <=> Has(c.rqst, {"TE"})
  BY DEF TEs
<1>12. /\ Update(c, r, b, 0).rqst = r
       /\ Update(c, r, b, 0).bound = b
       /\ Update(c, r, b, 0).cLen = 0
  BY <1>5
<1>. QED  BY <1>4, <1>8, <1>9, <1>10, <1>11, <1>12 DEF Quiet

\* What is read as CHUNK is handed over with the last chunk, and then the
\* transfer coding is there as well.
LEMMA FramedChunk ==
  ASSUME NEW m \in Framed, Built(m), NEW n \in 0..Len(m), NEW c, Holds(c, m, n), Method(c, m),
         c.cLen = 0, Starts(c.rqst, "CHUNK")
  PROVE  LET res == is_request_fulfilled(c)
         IN /\ res.client.cLen = 0
            /\ res.fulfilled => /\ WholeAt(m, n)
                                /\ Starts(res.client.rqst, "POST") /\ Has(res.client.rqst, {"TE"})
            /\ ~res.fulfilled => Quiet(res.client)
<1>. DEFINE thrown == c.bound = "" /\ BoundaryThrows(c.rqst)
            q == c.rqst
            done == ~thrown /\ (c.cLen \in 1..Len(q) \/ HasZeroChunk(q))
            r == IF done THEN RestorePost(q) ELSE q
            b == Recorded(c, q)
<1>0. /\ m \in Seq(Token) /\ c \in Client /\ c.rqst \in Seq(Token) /\ c.rqst # <<>>
      /\ Len(c.rqst) = n /\ n \in Nat /\ n <= Len(m) /\ Len(m) \in Nat
      /\ DOMAIN m = 1..Len(m) /\ DOMAIN c.rqst = 1..n
  BY MessagesAssumption, LenProperties DEF Framed, Holds, Client, Starts
<1>1. Alike(c.rqst, m, n)
  BY <1>0, HeldAlike
<1>2. ~Has(c.rqst, {"CL"})
  BY <1>1, FramedHeld
<1>3. ~(0 > MAX_LEN)
  BY MaxLenAssumption
<1>4. is_request_fulfilled(c).client = Update(c, r, b, 0) /\ is_request_fulfilled(c).fulfilled = done
  BY <1>2, <1>3 DEF is_request_fulfilled, is_chunked_rqst_fulfilled, Starts
<1>5. \A x, y, z : /\ Update(c, x, y, z).rqst = x
                  /\ Update(c, x, y, z).bound = y
                  /\ Update(c, x, y, z).cLen = z
  BY <1>0, ClientExaminable, UpdateFields
<1>6. c.rqst[1] = T("CHUNK") /\ m[1] = T("POST") /\ Has(m, {"TE"})
  <2>1. c.rqst[1].k = "CHUNK" /\ T("POST").k = "POST" /\ m # <<>>
    BY <1>0, EmptySeq DEF Starts, T
  <2>2. c.rqst[1] # m[1]
    BY <2>1 DEF Built, Regular
  <2>. QED  BY <1>0, <2>2 DEF Method
<1>7. ASSUME done
      PROVE  /\ WholeAt(m, n)
             /\ Starts(r, "POST") /\ Has(r, {"TE"})
  <2>1. HasZeroChunk(c.rqst)
    <3>1. ~(c.cLen \in 1..Len(c.rqst))
      BY <1>0
    <3>. QED  BY <1>7, <3>1
  <2>2. PICK i \in 1..n : \/ c.rqst[i].k = "LAST"
                          \/ c.rqst[i].k \in {"HEND", "BODY"} /\ c.rqst[i].n = 1
    BY <1>0, <2>1 DEF HasZeroChunk
  <2>3. i # 1
    BY <1>6, <2>2 DEF T
  <2>4. i \in 2..n
    BY <1>0, <2>2, <2>3
  <2>5. c.rqst[i] = m[i] /\ i \in DOMAIN m
    BY <1>0, <2>4 DEF Holds
  <2>6. m[i].k = "LAST"
    BY <1>6, <2>2, <2>5 DEF Framed
  <2>7. PICK j \in 1..(i - 1) : m[j].k = "HEND"
    BY <2>5, <2>6 DEF Built
  <2>8. j \in 1..n /\ i \in 1..n
    BY <1>0, <2>4, <2>7
  <2>9. WholeAt(m, n)
    BY <2>6, <2>7, <2>8 DEF WholeAt
  <2>10. PICK t \in DOMAIN m : m[t].k = "TE"
    BY <1>6 DEF Has, Places
  <2>11. t \in 1..Len(m) /\ \A l \in 1..(t - 1) : m[l].k # "HEND"
    BY <1>0, <2>10 DEF Built
  <2>12. ~(j \in 1..(t - 1)) /\ t # j
    BY <2>7, <2>10, <2>11
  <2>13. t <= n
    BY <1>0, <2>8, <2>11, <2>12
  <2>14. r = RestorePost(c.rqst)
    BY <1>7
  <2>15. Alike(RestorePost(c.rqst), m, n)
    BY <1>0, <1>1, <1>6, RewrittenAlike
  <2>16. Places(RestorePost(c.rqst), {"TE"}) = {l \in Places(m, {"TE"}) : l <= n}
    <3>1. {"TE"} \cap Renamed = {}
      BY DEF Renamed
    <3>. QED  BY <1>0, <2>15, <3>1, AlikePlaces
  <2>17. Has(r, {"TE"})
    BY <2>10, <2>13, <2>14, <2>16 DEF Has, Places
  <2>18. Starts(r, "POST")
    <3>1. RestorePost(c.rqst) # <<>> /\ RestorePost(c.rqst)[1] = T("POST")
      BY <1>0, <1>6, Rewriting
    <3>2. Starts(RestorePost(c.rqst), "POST")
      BY <3>1 DEF Starts, T
    <3>. HIDE DEF r
    <3>. QED  BY <2>14, <3>2
  <2>. QED  BY <2>9, <2>17, <2>18
<1>8. ~done => Starts(r, "CHUNK")
  OBVIOUS
<1>. HIDE DEF thrown, q, done, r, b
<1>9. /\ Update(c, r, b, 0).rqst = r
      /\ Update(c, r, b, 0).bound = b
      /\ Update(c, r, b, 0).cLen = 0
  BY <1>5
<1>. QED  BY <1>4, <1>7, <1>8, <1>9 DEF Quiet

\* Any other request is handed over as it is, with its empty line.
LEMMA FramedOther ==
  ASSUME NEW m \in Framed, Built(m), NEW n \in 0..Len(m), NEW c, Holds(c, m, n), Method(c, m),
         Quiet(c), ~Starts(c.rqst, "POST"), ~Starts(c.rqst, "CHUNK")
  PROVE  LET res == is_request_fulfilled(c)
         IN res.client = c /\ (res.fulfilled => WholeAt(m, n))
<1>0. /\ m \in Seq(Token) /\ c \in Client /\ c.rqst \in Seq(Token)
      /\ Len(c.rqst) = n /\ n \in Nat /\ n <= Len(m) /\ Len(m) \in Nat
      /\ DOMAIN m = 1..Len(m) /\ DOMAIN c.rqst = 1..n
  BY MessagesAssumption, LenProperties DEF Framed, Holds, Client
<1>1. is_request_fulfilled(c) = [client |-> c, fulfilled |-> EndsInEmptyLine(c.rqst), thrown |-> FALSE]
  BY DEF is_request_fulfilled
<1>2. ASSUME EndsInEmptyLine(c.rqst)
      PROVE  WholeAt(m, n)
  <2>1. c.rqst # <<>> /\ n # 0
    BY <1>0, <1>2, EmptySeq DEF EndsInEmptyLine
  <2>2. c.rqst[1] = m[1] /\ c.rqst[1].k # "POST"
    BY <2>1 DEF Method, T, Starts
  <2>3. \A i \in 1..n : c.rqst[i] = m[i]
    BY <1>0, <2>2 DEF Holds
  <2>4. ~Has(m, {"TE"})
    BY <2>2 DEF Built, Starts
  <2>5. c.rqst[n].k \in {"HEND", "LAST", "BODY"}
    BY <1>0, <1>2 DEF EndsInEmptyLine
  <2>6. n \in 1..n /\ n \in DOMAIN m
    BY <1>0, <2>1
  <2>7. m[n].k \in {"HEND", "LAST", "BODY"}
    BY <2>3, <2>5, <2>6
  <2>8. \E i \in 1..n : m[i].k = "HEND"
    <3>1. CASE m[n].k = "HEND"
      BY <2>6, <3>1
    <3>2. CASE m[n].k # "HEND"
      <4>1. PICK j \in 1..(n - 1) : m[j].k = "HEND"
        BY <2>6, <2>7, <3>2 DEF Built
      <4>. QED  BY <1>0, <4>1
    <3>. QED  BY <3>1, <3>2
  <2>. QED  BY <2>4, <2>8 DEF WholeAt
<1>. QED  BY <1>1, <1>2

\* So much of a framed request is handed over only when it is whole, when it is
\* examined once, and, as a pass of the loop does, twice.
LEMMA FramedExamined ==
  ASSUME NEW m \in Framed, Built(m), NEW n \in 0..Len(m), NEW c, Holds(c, m, n), Method(c, m), Quiet(c)
  PROVE  LET res   == is_request_fulfilled(c)
             again == is_request_fulfilled(res.client)
         IN /\ res.fulfilled => WholeAt(m, n)
            /\ ~res.fulfilled => Quiet(res.client)
            /\ res.fulfilled /\ ~again.fulfilled => Quiet(again.client)
<1>. DEFINE res == is_request_fulfilled(c)
            d   == res.client
<1>1. m \in Seq(Token) /\ c.bound \in Boundary
  BY MessagesAssumption DEF Framed, Holds, Client
<1>2. Holds(d, m, n) /\ Method(d, m)
  BY <1>1, MethodExamination DEF Built
<1>3. CASE Starts(c.rqst, "POST")
  <2>1. c.bound = ""
    BY <1>3 DEF Quiet, Starts
  <2>. QED  BY <1>3, <2>1, FramedPost DEF Quiet
<1>4. CASE Starts(c.rqst, "CHUNK")
  <2>1. /\ d.cLen = 0
        /\ res.fulfilled => WholeAt(m, n) /\ Starts(d.rqst, "POST") /\ Has(d.rqst, {"TE"})
        /\ ~res.fulfilled => Quiet(d)
    BY <1>4, FramedChunk DEF Quiet
  <2>. HIDE DEF res, d
  <2>2. res.fulfilled /\ ~is_request_fulfilled(d).fulfilled => Quiet(is_request_fulfilled(d).client)
    BY <1>2, <2>1, FramedPost
  <2>. QED  BY <2>1, <2>2 DEF res, d
<1>5. CASE ~Starts(c.rqst, "POST") /\ ~Starts(c.rqst, "CHUNK")
  <2>1. res.client = c /\ (res.fulfilled => WholeAt(m, n))
    BY <1>5, FramedOther
  <2>. HIDE DEF res
  <2>2. is_request_fulfilled(res.client) = res
    BY <2>1 DEF res
  <2>. QED  BY <2>1, <2>2 DEF res
<1>. QED  BY <1>3, <1>4, <1>5

\* The rule of RFC 7230 for what is whole, of the beginning of a message.
LEMMA WholeIs ==
  ASSUME NEW m \in Seq(Token), NEW n \in 0..Len(m), WholeAt(m, n), ~Has(m, {"CL"})
  PROVE  Framing!Whole(SubSeq(m, 1, n))
<1>. DEFINE s == SubSeq(m, 1, n)
<1>1. n \in Nat /\ n <= Len(m) /\ Len(m) \in Nat /\ DOMAIN m = 1..Len(m)
  BY LenProperties
<1>2. s \in Seq(Token) /\ Len(s) = n /\ \A i \in 1..n : s[i] = m[i]
  <2>1. \A i \in 1..n : m[i] \in Token
    BY <1>1, ElementOfSeq
  <2>2. s \in Seq(Token)
    BY <1>1, <2>1, SubSeqProperties
  <2>3. Len(s) = IF 1 <= n THEN n - 1 + 1 ELSE 0
    BY <1>1, <2>1, SubSeqProperties
  <2>4. \A i \in 1..(n - 1 + 1) : s[i] = m[1 + i - 1]
    BY <1>1, <2>1, SubSeqProperties
  <2>. HIDE DEF s
  <2>. QED  BY <1>1, <2>2, <2>3, <2>4
<1>. HIDE DEF s
<1>3. DOMAIN s = 1..n
  BY <1>2, LenProperties
<1>4. \A K : Framing!Places(s, K) = {i \in 1..n : m[i].k \in K}
  BY <1>2, <1>3 DEF Framing!Places
<1>5. Framing!HeaderEnded(s)
  BY <1>4 DEF WholeAt, Framing!HeaderEnded, Framing!Has
<1>6. ~Framing!Has(s, {"CL"})
  BY <1>1, <1>4 DEF Framing!Has, Has, Places
<1>7. ASSUME Framing!Has(s, {"TE"})
      PROVE  Framing!Has(Framing!BodyOf(s), {"LAST"})
  <2>1. Has(m, {"TE"})
    BY <1>1, <1>4, <1>7 DEF Framing!Has, Has, Places
  <2>2. PICK i \in 1..n : m[i].k = "LAST" /\ \E j \in 1..(i - 1) : m[j].k = "HEND"
    BY <2>1 DEF WholeAt
  <2>3. PICK j \in 1..(i - 1) : m[j].k = "HEND"
    BY <2>2
  <2>4. PICK h : h = Framing!FirstPlace(s, {"HEND"})
    OBVIOUS
  <2>5. j \in Framing!Places(s, {"HEND"}) /\ Framing!Places(s, {"HEND"}) \in SUBSET Nat
    BY <1>1, <1>4, <2>3
  <2>6. h \in Framing!Places(s, {"HEND"}) /\ h <= j
    <3>1. \E x \in Framing!Places(s, {"HEND"}) : \A y \in Framing!Places(s, {"HEND"}) : x <= y
      BY <2>5, LeastNatural
    <3>. QED  BY <2>4, <2>5, <3>1 DEF Framing!FirstPlace
  <2>7. h \in 1..n /\ h < i
    BY <1>1, <1>4, <2>3, <2>6
  <2>8. Framing!BodyOf(s) = SubSeq(s, h + 1, n)
    BY <1>2, <2>4 DEF Framing!BodyOf
  <2>9. /\ Len(SubSeq(s, h + 1, n)) = n - h
        /\ SubSeq(s, h + 1, n) \in Seq(Token)
        /\ SubSeq(s, h + 1, n)[i - h] = m[i]
    <3>1. h + 1 \in Int /\ n \in Int /\ h + 1 <= n /\ \A l \in (h + 1)..n : s[l] \in Token
      BY <1>1, <1>2, <2>7, ElementOfSeq
    <3>2. /\ SubSeq(s, h + 1, n) \in Seq(Token)
          /\ Len(SubSeq(s, h + 1, n)) = IF h + 1 <= n THEN n - (h + 1) + 1 ELSE 0
          /\ \A l \in 1..(n - (h + 1) + 1) : SubSeq(s, h + 1, n)[l] = s[h + 1 + l - 1]
      BY <3>1, SubSeqProperties
    <3>3. i - h \in 1..(n - (h + 1) + 1) /\ h + 1 + (i - h) - 1 = i /\ n - (h + 1) + 1 = n - h
      BY <1>1, <2>7
    <3>4. SubSeq(s, h + 1, n)[i - h] = s[i]
      BY <3>2, <3>3
    <3>. QED  BY <1>2, <3>1, <3>2, <3>3, <3>4
  <2>10. i - h \in DOMAIN SubSeq(s, h + 1, n)
    BY <1>1, <2>7, <2>9, LenProperties
  <2>. QED  BY <2>2, <2>8, <2>9, <2>10 DEF Framing!Has, Framing!Places
<1>8. Framing!Whole(s)
  BY <1>5, <1>6, <1>7 DEF Framing!Whole
<1>. QED  BY <1>8 DEF s

\* While a framed request is read, nothing is recorded that could end it early.
FInv == state = "reading" /\ msg \in Framed => Quiet(client)

FramingStep == [Framing!FramingNext]_(Framing!framingVars)

\* A new connection promises what MessageFraming does.
LEMMA FramingInitially == Init => FInv /\ Framing!FramingInit
<1>. SUFFICES ASSUME Init PROVE FInv /\ Framing!FramingInit
  OBVIOUS
<1>1. client.cLen = 0 /\ client.bound = ""
  BY DEF Init, NewClient
<1>. QED  BY <1>1 DEF Init, FInv, Quiet, Framing!FramingInit

\* The client an action leaves, and when it is the result of a second call.
LEMMA ConcludesAgain ==
  ASSUME EventRead \/ Poll
  PROVE  \E res : /\ Conclude(res)
                  /\ LET first == is_request_fulfilled(Received)
                     IN res = first \/ (first.fulfilled /\ res = is_request_fulfilled(first.client))
<1>1. CASE EventRead
  BY <1>1 DEF EventRead
<1>2. CASE Poll
  <2>1. PICK asked \in {Received} :
               \E first \in {is_request_fulfilled(asked)} :
                 \E res \in {IF first.fulfilled
                             THEN is_request_fulfilled(first.client) ELSE first} :
                   Conclude(res)
    BY <1>2 DEF Poll, AskTwice
  <2>2. PICK first \in {is_request_fulfilled(Received)} :
               \E res \in {IF first.fulfilled
                           THEN is_request_fulfilled(first.client) ELSE first} :
                 Conclude(res)
    BY <2>1
  <2>3. PICK res \in {IF first.fulfilled
                      THEN is_request_fulfilled(first.client) ELSE first} :
               Conclude(res)
    BY <2>2
  <2>. QED  BY <2>2, <2>3
<1>. QED  BY <1>1, <1>2

\* What is read next is examined with what was recorded before.
LEMMA ReceivedFields ==
  ASSUME TypeOK
  PROVE  /\ Received.bound = client.bound /\ Received.cLen = client.cLen
         /\ Received.rqst = client.rqst \o SubSeq(msg, read + 1, read + Available)
BY DEF TypeOK, Client, Received, rqst_append

\* A segment is read and examined.
LEMMA FramingReads ==
  ASSUME \A m \in Messages : Built(m), MInv, FInv, EventRead \/ Poll
  PROVE  FInv' /\ FramingStep
<1>0. /\ msg \in Messages /\ msg \in Seq(Token) /\ Len(msg) \in Nat /\ Built(msg) /\ Regular(msg)
      /\ sent \in 0..Len(msg) /\ read \in 0..sent /\ state = "reading"
      /\ IInv /\ TypeOK
  BY MessagesAssumption, LenProperties DEF MInv, IInv, TypeOK, Built, EventRead, Poll
<1>. DEFINE n     == read + Available
            first == is_request_fulfilled(Received)
            again == is_request_fulfilled(first.client)
<1>1. PICK res : Conclude(res) /\ (res = first \/ (first.fulfilled /\ res = again))
  BY ConcludesAgain
<1>2. /\ n \in 0..Len(msg) /\ n \in read..Len(msg) /\ Holds(Received, msg, n)
      /\ Received.rqst # <<>> =>
            Received.rqst[1] = IF client.rqst = <<>> THEN msg[1] ELSE client.rqst[1]
  BY <1>0, ReceivedHolds DEF IInv
<1>3. Received.bound = client.bound /\ Received.cLen = client.cLen
  BY <1>0, ReceivedFields
<1>4. Method(Received, msg)
  BY <1>2, <1>3 DEF MInv, Method
<1>5. read' = n /\ client' = res.client /\ msg' = msg
      /\ (state' = "fulfilled" => res.fulfilled) /\ (state' = "reading" => ~res.fulfilled)
  BY <1>1 DEF Conclude
<1>6. ASSUME msg \in Framed
      PROVE  /\ res.fulfilled => WholeAt(msg, n)
             /\ ~res.fulfilled => Quiet(res.client)
  <2>1. Quiet(client)
    BY <1>0, <1>6 DEF FInv
  <2>2. Quiet(Received)
    <3>1. CASE Starts(client.rqst, "CHUNK")
      <4>1. client.rqst # <<>> /\ client.rqst[1].k = "CHUNK" /\ client.rqst \in Seq(Token)
        BY <1>0, <3>1 DEF Starts, TypeOK, Client
      <4>2. SubSeq(msg, read + 1, read + Available) \in Seq(Token)
        <5>1. \A i \in (read + 1)..(read + Available) : msg[i] \in Token
          BY <1>0, <1>2, ElementOfSeq
        <5>2. read + 1 \in Int /\ read + Available \in Int
          BY <1>0, <1>2
        <5>. QED  BY <5>1, <5>2, SubSeqProperties
      <4>3. Received.rqst # <<>>
        <5>1. Received.rqst = client.rqst \o SubSeq(msg, read + 1, read + Available)
          BY <1>0, ReceivedFields
        <5>. QED  BY <4>1, <4>2, <5>1, ConcatEmptySeq, ConcatProperties, EmptySeq, LenProperties
      <4>4. Received.rqst[1].k = "CHUNK"
        BY <1>2, <4>1, <4>3
      <4>. QED  BY <1>3, <2>1, <4>3, <4>4 DEF Quiet, Starts
    <3>2. CASE ~Starts(client.rqst, "CHUNK")
      BY <1>3, <2>1, <3>2 DEF Quiet
    <3>. QED  BY <3>1, <3>2
  <2>. HIDE DEF n
  <2>. QED  BY <1>0, <1>1, <1>2, <1>4, <1>6, <2>2, FramedExamined
<1>. HIDE DEF n, first, again
<1>7. FInv'
  BY <1>5, <1>6 DEF FInv
<1>8. state' = "fulfilled" /\ msg \in Framed => Framing!Whole(SubSeq(msg, 1, n))
  BY <1>0, <1>2, <1>5, <1>6, WholeIs DEF Framed
<1>9. Framing!FramingNext
  BY <1>0, <1>2, <1>5, <1>8 DEF Framing!FramingNext
<1>. QED  BY <1>7, <1>9 DEF FramingStep

\* Every step is one of MessageFraming, or none.
LEMMA FramingSteps ==
  ASSUME \A m \in Messages : Built(m)
  PROVE  MInv /\ FInv /\ [Next]_vars => FInv' /\ FramingStep
<1>. SUFFICES ASSUME MInv, FInv, [Next]_vars PROVE FInv' /\ FramingStep
  OBVIOUS
<1>1. CASE EventRead \/ Poll
  BY <1>1, FramingReads
<1>2. CASE PeerSends \/ PeerShuts \/ UNCHANGED vars
  <2>1. UNCHANGED <<msg, read, client, state>>
    BY <1>2 DEF PeerSends, PeerShuts, vars
  <2>. QED  BY <2>1 DEF FInv, FramingStep, Framing!framingVars
<1>. QED  BY <1>1, <1>2 DEF Next

\* Reading a request implements MessageFraming: whatever the segments and
\* however often the buffer is examined, a request is handed over once, and one
\* without body, or with a chunked body, only when all of it is there.
THEOREM FramingIsRespected ==
  ASSUME \A m \in Messages : Built(m)
  PROVE  Spec => FramingRespected
<1>1. \A m \in Messages : Regular(m)
  BY DEF Built
<1>2. MInv /\ [Next]_vars => MInv'
  BY <1>1, MInvStep
<1>3. MInv /\ FInv /\ [Next]_vars => FInv' /\ FramingStep
  BY FramingSteps
<1>4. Init => MInv /\ FInv /\ Framing!FramingInit
  BY MInvInit, FramingInitially
<1>5. Spec => Framing!FramingInit /\ [][Framing!FramingNext]_(Framing!framingVars)
  BY <1>2, <1>3, <1>4, PTL DEF Spec, FramingStep
<1>. QED  BY <1>5 DEF FramingRespected, Framing!FramingSpec

-----------------------------------------------------------------------------
\* Uploads.

\* What the server has of an upload it can measure.
Measuring(c, m) ==
  /\ c.rqst # <<>> => c.rqst[1] = m[1]
  /\ c.bound # "" => Has(c.rqst, {"BKEY"})

\* Misled, of a client and a message.
MisledBy(c, m) == c.bound = "part" /\ \E i \in DOMAIN m : m[i].k = "BODY" /\ m[i].n = 2

\* Such an upload is never read as CHUNK, its length is there when a boundary
\* is, and a boundary behind so much of it is one behind the file.
LEMMA UploadExamined ==
  ASSUME NEW m \in Seq(Token), Built(m), Measured(m), NEW n \in 0..Len(m), NEW c, Holds(c, m, n),
         Measuring(c, m)
  PROVE  LET res == is_request_fulfilled(c)
         IN /\ Measuring(res.client, m)
            /\ res.fulfilled /\ ~MisledBy(res.client, m) =>
                 ~\E i \in n + 1 .. Len(m) : m[i].k = "BODY"
<1>. DEFINE TEs == Has(c.rqst, {"TE"})
            l == IF ~TEs /\ Has(c.rqst, {"CL"}) THEN ContentLength(c.rqst) ELSE 0
            q == IF TEs \/ l > MAX_LEN THEN MarkChunk(c.rqst) ELSE c.rqst
            done == /\ c.bound # ""
                    /\ ReachesBoundary(q, c.bound, l)
            r == IF done THEN RestorePost(q) ELSE q
            b == Recorded(c, q)
            declared == m[FirstPlace(m, {"CL"})].n
<1>0. /\ c \in Client /\ c.rqst \in Seq(Token) /\ Len(c.rqst) = n /\ n \in Nat /\ n <= Len(m)
      /\ Len(m) \in Nat /\ DOMAIN m = 1..Len(m) /\ DOMAIN c.rqst = 1..n
  BY LenProperties DEF Holds, Client
<1>1. CASE c.rqst = <<>>
  <2>1. is_request_fulfilled(c).client = c /\ ~is_request_fulfilled(c).fulfilled
    BY <1>1 DEF is_request_fulfilled, Starts, EndsInEmptyLine
  <2>. QED  BY <2>1
<1>2. CASE c.rqst # <<>>
  <2>1. c.rqst[1] = m[1] /\ m[1].k = "POST"
    BY <1>2 DEF Measuring, Measured, Starts
  <2>2. Starts(c.rqst, "POST")
    BY <1>2, <2>1 DEF Starts
  <2>3. Alike(c.rqst, m, n)
    BY <1>0, <2>1 DEF Alike, Holds
  <2>4. \A K : K \cap Renamed = {} => Places(c.rqst, K) = {i \in Places(m, K) : i <= n}
    BY <2>3, AlikePlaces
  <2>5. \A k \in {"TE", "CL", "DIGITS", "BKEY", "BND", "DELIM", "BODY"} : {k} \cap Renamed = {}
    BY DEF Renamed
  <2>6. ~TEs
    BY <2>4, <2>5 DEF Measured, Has
  <2>7. Has(c.rqst, {"CL"}) => ContentLength(c.rqst) = declared
    <3>. SUFFICES ASSUME Has(c.rqst, {"CL"}) PROVE ContentLength(c.rqst) = declared
      OBVIOUS
    <3>1. PICK i : i = FirstPlace(m, {"CL"})
      OBVIOUS
    <3>2. i = FirstPlace(c.rqst, {"CL"}) /\ i \in Places(c.rqst, {"CL"})
      BY <2>3, <2>5, <3>1, AlikeFirst
    <3>3. i \in 1..n /\ c.rqst[i].k = "CL"
      BY <1>0, <3>2 DEF Places
    <3>4. i # 1
      BY <2>1, <3>3
    <3>5. c.rqst[i] = m[i]
      BY <1>0, <3>3, <3>4 DEF Holds
    <3>6. ~(i < Len(c.rqst) /\ c.rqst[i + 1].k = "DIGITS")
      <4>. SUFFICES ASSUME i < Len(c.rqst), c.rqst[i + 1].k = "DIGITS" PROVE FALSE
        OBVIOUS
      <4>1. i + 1 \in 2..n /\ i + 1 \in DOMAIN m
        BY <1>0, <3>3
      <4>2. m[i + 1].k = "DIGITS"
        BY <4>1 DEF Holds
      <4>. QED  BY <4>1, <4>2 DEF Measured, Has, Places
    <3>. QED  BY <3>1, <3>2, <3>5, <3>6 DEF ContentLength
  <2>8. PICK first : first = FirstPlace(m, {"DELIM"})
    OBVIOUS
  <2>9. first \in Places(m, {"DELIM"}) /\ (\A j \in Places(m, {"DELIM"}) : first <= j)
        /\ declared \in first + 1 .. MAX_LEN /\ first \in 1..Len(m)
    <3>1. Places(m, {"DELIM"}) \in SUBSET Nat /\ Places(m, {"DELIM"}) \subseteq 1..Len(m)
      BY <1>0 DEF Places
    <3>2. \E x \in Places(m, {"DELIM"}) : \A y \in Places(m, {"DELIM"}) : x <= y
      BY <3>1, LeastNatural DEF Measured, Has
    <3>3. first \in Places(m, {"DELIM"}) /\ \A j \in Places(m, {"DELIM"}) : first <= j
      BY <2>8, <3>2 DEF FirstPlace
    <3>. QED  BY <2>8, <3>1, <3>3 DEF Measured
  <2>10. MAX_LEN \in Nat \ {0}
    BY MaxLenAssumption
  <2>11. ~(l > MAX_LEN)
    <3>1. CASE Has(c.rqst, {"CL"})
      BY <2>6, <2>7, <2>9, <2>10, <3>1
    <3>2. CASE ~Has(c.rqst, {"CL"})
      BY <2>10, <3>2
    <3>. QED  BY <3>1, <3>2
  <2>12. q = c.rqst
    BY <2>6, <2>11
  <2>13. r = c.rqst
    <3>1. ~Starts(c.rqst, "CHUNK")
      BY <2>2 DEF Starts
    <3>. QED  BY <2>12, <3>1 DEF RestorePost
  <2>14. is_request_fulfilled(c).client = Update(c, r, b, l) /\ is_request_fulfilled(c).fulfilled = done
    BY <2>2 DEF is_request_fulfilled, is_post_rqst_fulfilled
  <2>15. Update(c, r, b, l).rqst = c.rqst /\ Update(c, r, b, l).bound = b
    <3>1. \A x, y, z : Update(c, x, y, z).rqst = x /\ Update(c, x, y, z).bound = y
      BY <1>0, ClientExaminable, UpdateFields
    <3>. HIDE DEF r, b, l
    <3>. QED  BY <2>13, <3>1
  <2>16. b # "" => Has(c.rqst, {"BKEY"})
    BY <2>12 DEF Measuring, Recorded, BoundaryRead
  <2>17. ASSUME done, ~MisledBy(Update(c, r, b, l), m)
         PROVE  ~\E i \in n + 1 .. Len(m) : m[i].k = "BODY"
    <3>1. Has(c.rqst, {"BKEY"})
      BY <2>17 DEF Measuring
    <3>2. PICK k : k \in Places(c.rqst, {"BKEY"}) /\ k = FirstPlace(m, {"BKEY"})
      BY <2>3, <2>5, <3>1, AlikeFirst
    <3>3. k \in Places(m, {"BKEY"}) /\ k <= n
      BY <2>4, <2>5, <3>2
    <3>4. FirstPlace(m, {"CL"}) < k
      BY <3>2, <3>3 DEF Measured, Has
    <3>5. FirstPlace(m, {"CL"}) \in Places(m, {"CL"})
      BY FirstPlaceIsPlace DEF Measured
    <3>6. FirstPlace(m, {"CL"}) <= n
      <4>1. FirstPlace(m, {"CL"}) \in 1..Len(m) /\ k \in 1..Len(m)
        BY <1>0, <3>3, <3>5 DEF Places
      <4>. QED  BY <1>0, <3>3, <3>4, <4>1
    <3>7. Has(c.rqst, {"CL"})
      BY <2>4, <2>5, <3>5, <3>6 DEF Has
    <3>8. PICK j \in BoundaryPlaces(c.rqst, c.bound) : declared <= j
      BY <2>6, <2>7, <2>12, <2>17, <3>7 DEF ReachesBoundary
    <3>9. j \in 1..n /\ j \in 1..Len(m) /\ j # 1
      <4>1. j \in 1..n
        BY <1>0, <3>8 DEF BoundaryPlaces
      <4>2. j # 1
        BY <2>1, <3>8 DEF BoundaryPlaces
      <4>. QED  BY <1>0, <4>1, <4>2
    <3>10. c.rqst[j] = m[j]
      BY <1>0, <3>9 DEF Holds
    <3>11. \/ m[j].k \in {"DELIM", "BND", "BKEY", "HDR"}
           \/ m[j].k \in {"BODY", "END"} /\ c.bound = "part" /\ m[j].n = 2
      BY <3>8, <3>10 DEF BoundaryPlaces
    <3>12. m[j].k # "BODY"
      <4>1. b = c.bound
        BY <2>17 DEF Recorded
      <4>2. ~(c.bound = "part" /\ \E i \in DOMAIN m : m[i].k = "BODY" /\ m[i].n = 2)
        BY <2>15, <2>17, <4>1 DEF MisledBy
      <4>. QED  BY <1>0, <3>9, <3>11, <4>2
    <3>13. first < j /\ first \in 1..(j - 1)
      BY <2>9, <2>10, <3>8, <3>9
    <3>14. m[j].k \notin {"BND", "BKEY", "HDR"}
      <4>. SUFFICES ASSUME m[j].k \in {"BND", "BKEY", "HDR"} PROVE FALSE
        OBVIOUS
      <4>1. \A i \in 1..(j - 1) : m[i].k # "HEND"
        BY <1>0, <3>9 DEF Built
      <4>2. m[first].k = "DELIM" /\ first \in DOMAIN m
        BY <2>9 DEF Places
      <4>3. PICK h \in 1..(first - 1) : m[h].k = "HEND"
        BY <4>2 DEF Built
      <4>4. h \in 1..(j - 1)
        BY <2>9, <3>9, <3>13, <4>3
      <4>. QED  BY <4>1, <4>3, <4>4
    <3>15. j \in Places(m, {"DELIM"}) \/ j \in Places(m, {"END"})
      BY <1>0, <3>9, <3>11, <3>12, <3>14 DEF Places
    <3>17. ~\E i \in j + 1 .. Len(m) : m[i].k = "BODY"
      BY <2>9, <3>13, <3>15 DEF Measured
    <3>18. \A i \in n + 1 .. Len(m) : i \in j + 1 .. Len(m)
      BY <1>0, <3>9
    <3>. QED  BY <3>17, <3>18
  <2>. HIDE DEF TEs, l, q, done, r, b
  <2>. QED  BY <2>1, <2>14, <2>15, <2>16, <2>17 DEF Measuring
<1>. QED  BY <1>1, <1>2

UInv == Measured(msg) => Measuring(client, msg) /\ UploadComplete

\* A segment is read and examined.
LEMMA UploadReads ==
  ASSUME \A m \in Messages : Built(m), IInv, UInv, EventRead \/ Poll
  PROVE  UInv'
<1>0. /\ msg \in Messages /\ msg \in Seq(Token) /\ Len(msg) \in Nat /\ Built(msg)
      /\ sent \in 0..Len(msg) /\ read \in 0..sent /\ client \in Client /\ client.rqst \in Seq(Token)
      /\ TypeOK
  BY MessagesAssumption, LenProperties DEF IInv, TypeOK, Client
<1>. DEFINE n     == read + Available
            first == is_request_fulfilled(Received)
            again == is_request_fulfilled(first.client)
<1>1. PICK res : Conclude(res) /\ (res = first \/ res = again)
  BY Concludes DEF Concluded
<1>2. /\ n \in 0..Len(msg) /\ Holds(Received, msg, n) /\ n \in Nat /\ read <= n /\ Len(client.rqst) = read
      /\ Received.rqst # <<>> =>
            Received.rqst[1] = IF client.rqst = <<>> THEN msg[1] ELSE client.rqst[1]
  BY <1>0, ReceivedHolds DEF IInv, BytesKept
<1>3. Received.bound = client.bound
  BY <1>0, ReceivedFields
<1>4. read' = n /\ client' = res.client /\ msg' = msg /\ (state' = "fulfilled" => res.fulfilled)
  BY <1>1 DEF Conclude
<1>. HIDE DEF n, first, again
<1>5. ASSUME Measured(msg)
      PROVE  /\ Measuring(res.client, msg)
             /\ res.fulfilled /\ ~MisledBy(res.client, msg) =>
                  ~\E i \in n + 1 .. Len(msg) : msg[i].k = "BODY"
  <2>1. Measuring(client, msg)
    BY <1>5 DEF UInv
  <2>2. Received.rqst # <<>> => Received.rqst[1] = msg[1]
    BY <1>2, <2>1 DEF Measuring
  <2>3. Received.bound # "" => Has(Received.rqst, {"BKEY"})
    <3>. SUFFICES ASSUME Received.bound # "" PROVE Has(Received.rqst, {"BKEY"})
      OBVIOUS
    <3>1. Has(client.rqst, {"BKEY"})
      BY <1>3, <2>1 DEF Measuring
    <3>. QED  BY <3>1, ReceivedHas DEF IInv
  <2>4. Measuring(Received, msg)
    BY <2>2, <2>3 DEF Measuring
  <2>5. Holds(first.client, msg, n)
    BY <1>2, ExaminationHolds DEF first
  <2>6. Measuring(first.client, msg)
        /\ (first.fulfilled /\ ~MisledBy(first.client, msg) =>
              ~\E i \in n + 1 .. Len(msg) : msg[i].k = "BODY")
    BY <1>0, <1>2, <1>5, <2>4, UploadExamined DEF first
  <2>7. Measuring(again.client, msg)
        /\ (again.fulfilled /\ ~MisledBy(again.client, msg) =>
              ~\E i \in n + 1 .. Len(msg) : msg[i].k = "BODY")
    BY <1>0, <1>2, <1>5, <2>5, <2>6, UploadExamined DEF again
  <2>. QED  BY <1>1, <2>6, <2>7
<1>. QED  BY <1>4, <1>5 DEF UInv, UploadComplete, Misled, MisledBy

\* Whatever the segments, the boundaries and the lengths: an upload that the
\* server can measure is not handed over before its file is there, but when the
\* server has recorded a part of the boundary and the file contains that part.
THEOREM UploadIsComplete ==
  ASSUME \A m \in Messages : Built(m)
  PROVE  Spec => []UploadComplete
<1>1. Init => UInv
  <2>. SUFFICES ASSUME Init PROVE UInv
    OBVIOUS
  <2>1. client.rqst = <<>> /\ client.bound = "" /\ state # "fulfilled"
    BY DEF Init, NewClient
  <2>. QED  BY <2>1 DEF UInv, Measuring, UploadComplete
<1>2. IInv /\ UInv /\ [Next]_vars => UInv'
  <2>. SUFFICES ASSUME IInv, UInv, [Next]_vars PROVE UInv'
    OBVIOUS
  <2>1. CASE EventRead \/ Poll
    BY <2>1, UploadReads
  <2>2. CASE PeerSends \/ PeerShuts \/ UNCHANGED vars
    <3>1. UNCHANGED <<msg, read, client, state>>
      BY <2>2 DEF PeerSends, PeerShuts, vars
    <3>. QED  BY <3>1 DEF UInv, UploadComplete, Misled
  <2>. QED  BY <2>1, <2>2 DEF Next
<1>3. UInv => UploadComplete
  BY DEF UInv, UploadComplete
<1>. QED  BY <1>1, <1>2, <1>3, IInvInit, IInvStep, PTL DEF Spec
=============================================================================
