------------------------- MODULE ClientRequestProofs -------------------------
(***************************************************************************)
(* What the examination of a request may do to the client it examines, for *)
(* every buffer: the facts the invariants of RequestAssembly and EventLoop *)
(* rest on.                                                                *)
(***************************************************************************)
EXTENDS ClientRequest, SequenceTheorems, WellFoundedInduction, TLAPS

\* A nonempty set of naturals has a least element.
LEMMA LeastNatural ==
  ASSUME NEW S \in SUBSET Nat, S # {}
  PROVE  \E x \in S : \A y \in S : x <= y
<1> DEFINE R == OpToRel(<, Nat)
<1>1. PICK x \in S : \A y \in S : ~ (<<y, x>> \in R)
  BY NatLessThanWellFounded, WFMin
<1>2. \A y \in S : ~ (y < x)
  BY <1>1 DEF OpToRel
<1>. QED  BY <1>2

\* The tokens of a buffer are tokens, and the numbers they carry natural.
LEMMA TokensOfSeq ==
  ASSUME NEW s \in Seq(Token)
  PROVE  Len(s) \in Nat /\ \A i \in 1..Len(s) : s[i] \in Token /\ s[i].n \in Nat
<1>1. Len(s) \in Nat /\ \A i \in 1..Len(s) : s[i] \in Token
  BY ElementOfSeq, LenProperties
<1>2. \A t \in Token : t.n \in Nat
  BY DEF Token
<1>. QED  BY <1>1, <1>2

\* What find() returns, when there is something to find, is a place in the
\* buffer.
LEMMA FirstPlaceIsPlace ==
  ASSUME NEW s \in Seq(Token), NEW kinds, Has(s, kinds)
  PROVE  FirstPlace(s, kinds) \in Places(s, kinds)
<1>1. Places(s, kinds) \in SUBSET Nat
  BY LenProperties DEF Places
<1>. QED  BY <1>1, LeastNatural DEF Has, FirstPlace

\* The Content-Length is_post_rqst_fulfilled and is_chunked_rqst_fulfilled read
\* from a buffer that has the header is a natural number.
LEMMA ContentLengthType ==
  ASSUME NEW s \in Seq(Token), Has(s, {"CL"})
  PROVE  ContentLength(s) \in Nat
<1>1. FirstPlace(s, {"CL"}) \in 1..Len(s)
  BY FirstPlaceIsPlace, LenProperties DEF Places
<1>2. Len(s) \in Nat /\ \A i \in 1..Len(s) : s[i].n \in Nat
  BY TokensOfSeq
<1>. DEFINE i == FirstPlace(s, {"CL"})
<1>3. i \in 1..Len(s) /\ (i < Len(s) => i + 1 \in 1..Len(s))
  BY <1>1, <1>2
<1>. HIDE DEF i
<1>4. (IF i < Len(s) /\ s[i + 1].k = "DIGITS" THEN s[i + 1].n ELSE s[i].n) \in Nat
  BY <1>2, <1>3
<1>. QED  BY <1>4 DEF ContentLength, i

\* t is s with, at most, another first token.
Keeps(s, t) == /\ t \in Seq(Token)
               /\ Len(t) = Len(s)
               /\ \A i \in 2..Len(s) : t[i] = s[i]

\* A buffer that is not rewritten is kept.
LEMMA KeepsItself ==
  ASSUME NEW s \in Seq(Token)
  PROVE  Keeps(s, s)
BY DEF Keeps

\* Replacing the first token of a nonempty buffer keeps the rest.
LEMMA FirstReplaced ==
  ASSUME NEW s \in Seq(Token), s # <<>>, NEW t \in Token
  PROVE  Keeps(s, [s EXCEPT ![1] = t]) /\ [s EXCEPT ![1] = t] # <<>>
<1>1. Len(s) \in Nat \ {0}
  BY EmptySeq
<1>2. 1 \in 1..Len(s)
  BY <1>1
<1>3. /\ [s EXCEPT ![1] = t] \in Seq(Token)
      /\ Len([s EXCEPT ![1] = t]) = Len(s)
      /\ \A j \in 1..Len(s) : [s EXCEPT ![1] = t][j] = IF j = 1 THEN t ELSE s[j]
  BY <1>2, ExceptSeq
<1>. QED  BY <1>1, <1>3, EmptySeq DEF Keeps

\* Writing CHUNK over the method keeps the rest of the buffer.
LEMMA MarkChunkKeeps ==
  ASSUME NEW s \in Seq(Token), s # <<>>
  PROVE  Keeps(s, MarkChunk(s)) /\ MarkChunk(s) # <<>>
<1>. DEFINE m == TN("CHUNK", IF s[1].k = "CHUNK" THEN s[1].n + 1 ELSE 0)
<1>1. s[1].n \in Nat
  BY EmptySeq, TokensOfSeq
<1>2. m \in Token
  BY <1>1 DEF Token, TN, Kind
<1>3. MarkChunk(s) = [s EXCEPT ![1] = m]
  BY DEF MarkChunk, TN
<1>. HIDE DEF m
<1>. QED  BY <1>2, <1>3, FirstReplaced

\* Writing POST over CHUNK keeps the rest, and after it no CHUNK is left.
LEMMA RestorePostKeeps ==
  ASSUME NEW s \in Seq(Token)
  PROVE  Keeps(s, RestorePost(s)) /\ ~Starts(RestorePost(s), "CHUNK")
<1>1. CASE ~Starts(s, "CHUNK")
  BY <1>1, KeepsItself DEF RestorePost
<1>2. CASE Starts(s, "CHUNK")
  <2>. DEFINE m == TN("POST", s[1].n)
  <2>1. s # <<>> /\ 1 \in 1..Len(s)
    BY <1>2, EmptySeq DEF Starts
  <2>2. m \in Token
    BY <2>1, ElementOfSeq DEF Token, TN, Kind
  <2>3. RestorePost(s) = [s EXCEPT ![1] = m]
    BY <1>2 DEF RestorePost, TN
  <2>4. [s EXCEPT ![1] = m][1].k # "CHUNK"
    BY <2>1, LenProperties DEF TN
  <2>. HIDE DEF m
  <2>. QED  BY <2>1, <2>2, <2>3, <2>4, FirstReplaced DEF Starts
<1>. QED  BY <1>1, <1>2

\* The fields is_request_fulfilled works on have their types; the other fields
\* of the client are of no concern.
Examinable(c) ==
  /\ {"rqst", "bound", "cLen"} \subseteq DOMAIN c
  /\ c.rqst \in Seq(Token) /\ c.bound \in Boundary /\ c.cLen \in Nat

\* is_post_rqst_fulfilled rewrites at most the request line, changes only the
\* three fields, and never hands over a buffer that starts with CHUNK.
LEMMA PostExamination ==
  ASSUME NEW c, Examinable(c), Starts(c.rqst, "POST")
  PROVE  LET res == is_post_rqst_fulfilled(c)
         IN \E r \in Seq(Token), b \in Boundary, l \in Nat :
              /\ Keeps(c.rqst, r)
              /\ res.client = Update(c, r, b, l)
              /\ res.fulfilled => ~Starts(r, "CHUNK")
<1>. DEFINE l == IF ~Has(c.rqst, {"TE"}) /\ Has(c.rqst, {"CL"})
                 THEN ContentLength(c.rqst) ELSE 0
            m == IF Has(c.rqst, {"TE"}) \/ l > MAX_LEN
                 THEN MarkChunk(c.rqst) ELSE c.rqst
            done == /\ c.bound # ""
                    /\ ReachesBoundary(m, c.bound, l)
            r == IF done THEN RestorePost(m) ELSE m
            b == Recorded(c, m)
<1>1. l \in Nat
  BY ContentLengthType DEF Examinable
<1>2. Keeps(c.rqst, m) /\ m \in Seq(Token)
  BY MarkChunkKeeps, KeepsItself DEF Examinable, Starts, Keeps
<1>3. b \in Boundary
  BY DEF Examinable, Recorded, BoundaryRead, Boundary
<1>4. Keeps(m, RestorePost(m)) /\ ~Starts(RestorePost(m), "CHUNK")
  BY <1>2, RestorePostKeeps
<1>5. /\ is_post_rqst_fulfilled(c).client = Update(c, r, b, l)
      /\ is_post_rqst_fulfilled(c).fulfilled = done
  BY DEF is_post_rqst_fulfilled
<1>. HIDE DEF l, m, b, done
<1>6. Keeps(c.rqst, r) /\ r \in Seq(Token)
  BY <1>2, <1>4 DEF Keeps
<1>7. done => ~Starts(r, "CHUNK")
  BY <1>4
<1>. HIDE DEF r
<1>. QED  BY <1>1, <1>3, <1>5, <1>6, <1>7

\* The same of is_chunked_rqst_fulfilled.
LEMMA ChunkedExamination ==
  ASSUME NEW c, Examinable(c), Starts(c.rqst, "CHUNK")
  PROVE  LET res == is_chunked_rqst_fulfilled(c)
         IN \E r \in Seq(Token), b \in Boundary, l \in Nat :
              /\ Keeps(c.rqst, r)
              /\ res.client = Update(c, r, b, l)
              /\ res.fulfilled => ~Starts(r, "CHUNK")
<1>. DEFINE l == IF c.cLen = 0 /\ Has(c.rqst, {"CL"})
                 THEN ContentLength(c.rqst) ELSE c.cLen
            m == IF c.cLen = 0 /\ l > MAX_LEN
                 THEN MarkChunk(c.rqst) ELSE c.rqst
            done == /\ ~(c.bound = "" /\ BoundaryThrows(c.rqst))
                    /\ c.cLen \in 1..Len(m) \/ HasZeroChunk(m)
            r == IF done THEN RestorePost(m) ELSE m
            b == Recorded(c, m)
<1>1. l \in Nat
  BY ContentLengthType DEF Examinable
<1>2. Keeps(c.rqst, m) /\ m \in Seq(Token)
  BY MarkChunkKeeps, KeepsItself DEF Examinable, Starts, Keeps
<1>3. b \in Boundary
  BY DEF Examinable, Recorded, BoundaryRead, Boundary
<1>4. Keeps(m, RestorePost(m)) /\ ~Starts(RestorePost(m), "CHUNK")
  BY <1>2, RestorePostKeeps
<1>5. /\ is_chunked_rqst_fulfilled(c).client = Update(c, r, b, l)
      /\ is_chunked_rqst_fulfilled(c).fulfilled = done
  BY DEF is_chunked_rqst_fulfilled
<1>. HIDE DEF l, m, b, done
<1>6. Keeps(c.rqst, r) /\ r \in Seq(Token)
  BY <1>2, <1>4 DEF Keeps
<1>7. done => ~Starts(r, "CHUNK")
  BY <1>4
<1>. HIDE DEF r
<1>. QED  BY <1>1, <1>3, <1>5, <1>6, <1>7

\* Update writes three fields.
LEMMA UpdateFields ==
  ASSUME NEW c, Examinable(c)
  PROVE  \A r, b, l : /\ Update(c, r, b, l).rqst = r
                      /\ Update(c, r, b, l).bound = b
                      /\ Update(c, r, b, l).cLen = l
BY DEF Examinable, Update

\* An examination changes at most the request line, post_boundary and _cLen of
\* the client, and what it calls fulfilled does not start with CHUNK.
LEMMA Examination ==
  ASSUME NEW c, Examinable(c)
  PROVE  LET res == is_request_fulfilled(c)
         IN /\ \/ res.client = c
               \/ \E r \in Seq(Token), b \in Boundary, l \in Nat :
                    Keeps(c.rqst, r) /\ res.client = Update(c, r, b, l)
            /\ Examinable(res.client)
            /\ Keeps(c.rqst, res.client.rqst)
            /\ res.fulfilled \in BOOLEAN
            /\ res.thrown \in BOOLEAN
            /\ res.fulfilled => ~Starts(res.client.rqst, "CHUNK")
<1>. DEFINE res == is_request_fulfilled(c)
<1>1. CASE Starts(c.rqst, "POST")
  <2>1. res = is_post_rqst_fulfilled(c)
    BY <1>1 DEF is_request_fulfilled
  <2>2. PICK r \in Seq(Token), b \in Boundary, l \in Nat :
              /\ Keeps(c.rqst, r)
              /\ res.client = Update(c, r, b, l)
              /\ res.fulfilled => ~Starts(r, "CHUNK")
    BY <1>1, <2>1, PostExamination
  <2>3. res.fulfilled \in BOOLEAN /\ res.thrown \in BOOLEAN
    <3>. DEFINE TEs == Has(c.rqst, {"TE"})
                len == IF ~TEs /\ Has(c.rqst, {"CL"}) THEN ContentLength(c.rqst) ELSE 0
                m == IF TEs \/ len > MAX_LEN THEN MarkChunk(c.rqst) ELSE c.rqst
                done == c.bound # "" /\ ReachesBoundary(m, c.bound, len)
                threw == c.bound = "" /\ BoundaryThrows(m)
    <3>1. /\ is_post_rqst_fulfilled(c).fulfilled = done
          /\ is_post_rqst_fulfilled(c).thrown = threw
      BY DEF is_post_rqst_fulfilled
    <3>2. done \in BOOLEAN /\ threw \in BOOLEAN
      OBVIOUS
    <3>. HIDE DEF done, threw
    <3>. QED  BY <2>1, <3>1, <3>2
  <2>4. Examinable(Update(c, r, b, l))
    BY UpdateFields DEF Examinable, Update
  <2>. QED  BY <2>2, <2>3, <2>4, UpdateFields
<1>2. CASE Starts(c.rqst, "CHUNK")
  <2>1. res = is_chunked_rqst_fulfilled(c)
    BY <1>2 DEF is_request_fulfilled, Starts
  <2>2. PICK r \in Seq(Token), b \in Boundary, l \in Nat :
              /\ Keeps(c.rqst, r)
              /\ res.client = Update(c, r, b, l)
              /\ res.fulfilled => ~Starts(r, "CHUNK")
    BY <1>2, <2>1, ChunkedExamination
  <2>3. res.fulfilled \in BOOLEAN /\ res.thrown \in BOOLEAN
    <3>. DEFINE threw == c.bound = "" /\ BoundaryThrows(c.rqst)
                len == IF c.cLen = 0 /\ Has(c.rqst, {"CL"})
                       THEN ContentLength(c.rqst) ELSE c.cLen
                m == IF c.cLen = 0 /\ len > MAX_LEN THEN MarkChunk(c.rqst) ELSE c.rqst
                done == ~threw /\ (c.cLen \in 1..Len(m) \/ HasZeroChunk(m))
    <3>1. /\ is_chunked_rqst_fulfilled(c).fulfilled = done
          /\ is_chunked_rqst_fulfilled(c).thrown = threw
      BY DEF is_chunked_rqst_fulfilled
    <3>2. done \in BOOLEAN /\ threw \in BOOLEAN
      OBVIOUS
    <3>. HIDE DEF done, threw
    <3>. QED  BY <2>1, <3>1, <3>2
  <2>4. Examinable(Update(c, r, b, l))
    BY UpdateFields DEF Examinable, Update
  <2>. QED  BY <2>2, <2>3, <2>4, UpdateFields
<1>3. CASE ~Starts(c.rqst, "POST") /\ ~Starts(c.rqst, "CHUNK")
  <2>1. res = [client |-> c, fulfilled |-> EndsInEmptyLine(c.rqst), thrown |-> FALSE]
    BY <1>3 DEF is_request_fulfilled
  <2>2. EndsInEmptyLine(c.rqst) \in BOOLEAN
    BY DEF EndsInEmptyLine
  <2>. QED  BY <1>3, <2>1, <2>2, KeepsItself DEF Examinable
<1>. QED  BY <1>1, <1>2, <1>3

\* What is called fulfilled is not empty.
LEMMA FulfilledNonempty ==
  ASSUME NEW c, Examinable(c), is_request_fulfilled(c).fulfilled
  PROVE  is_request_fulfilled(c).client.rqst # <<>>
<1>1. CASE c.rqst = <<>>
  BY <1>1 DEF is_request_fulfilled, Starts, EndsInEmptyLine
<1>2. CASE c.rqst # <<>>
  BY <1>2, Examination, EmptySeq DEF Keeps, Examinable
<1>. QED  BY <1>1, <1>2
=============================================================================
