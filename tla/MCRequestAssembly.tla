-------------------------- MODULE MCRequestAssembly --------------------------
\* The requests the runs of RequestAssembly send.
EXTENDS RequestAssembly

Rep(t, n) == [i \in 1..n |-> t]

\* GET with one more header line.
Get == <<T("GET"), T("HDR"), TN("HEND", 0)>>

\* GET whose last header line ends in 0, such as Host: localhost:8080.
GetZero == <<T("GET"), TN("HEND", 1)>>

\* POST with a chunked body of two chunks.
PostChunked ==
  <<T("POST"), T("TE"), TN("HEND", 0), T("BODY"), T("BODY"), T("LAST")>>

\* The same with a boundary named in the header, after or before the
\* transfer coding.
PostChunkedBoundary ==
  <<T("POST"), T("TE"), TN("BKEY", 2), T("BND"), TN("HEND", 0),
    T("BODY"), T("BODY"), T("LAST")>>
PostBoundaryChunked ==
  <<T("POST"), TN("BKEY", 2), T("BND"), T("TE"), TN("HEND", 0), T("BODY"), T("LAST")>>

\* Chunked, the last header line ends in 0.
PostChunkedZero ==
  <<T("POST"), T("TE"), TN("HEND", 1), T("BODY"), T("LAST")>>

MCPlainMessages == {Get, GetZero, PostChunked, PostChunkedBoundary}

\* Multipart POST, its Content-Length in one segment; a single part.
Upload(len, pieces) ==
  <<T("POST"), TN("CL", len), TN("BKEY", 2), T("BND"), TN("HEND", 0), T("DELIM")>>
    \o Rep(T("BODY"), pieces) \o <<T("DELIM"), T("END")>>

\* A boundary line that may be cut right after "boundary=".
UploadCut ==
  <<T("POST"), TN("CL", 8), TN("BKEY", 1), T("BND"), TN("HEND", 0), T("DELIM")>>
    \o Rep(T("BODY"), 5) \o <<T("DELIM"), T("END")>>

\* A boundary line that may be cut behind its third character. What was received
\* of the boundary then occurs in the end of the body, a dash for instance, and,
\* when dashed, in the middle of the file.
UploadPart(dashed) ==
  <<T("POST"), TN("CL", 8), TN("BKEY", 3), T("BND"), TN("HEND", 0), T("DELIM"),
    T("BODY"), TN("BODY", IF dashed THEN 2 ELSE 0), T("BODY"), T("DELIM"), TN("END", 2)>>

\* Content-Length above MAX_LEN: the server reads it as CHUNK.
LongPost == <<T("POST"), TN("HDR", 0), TN("CL", 9), TN("HEND", 0)>> \o Rep(T("BODY"), 9)

\* Longer than MAX_LEN, and its value cut in two by the segments.
LongUploadSplit ==
  <<T("POST"), TN("CL", 1), TN("DIGITS", 12), TN("BKEY", 2), T("BND"),
    TN("HEND", 0), T("DELIM")>> \o Rep(T("BODY"), 9) \o <<T("DELIM"), T("END")>>

MCChunkedMessages == {PostChunkedZero, PostBoundaryChunked}

MCBoundedMessages ==
  {Get, GetZero, PostChunkedBoundary, PostBoundaryChunked,
   Upload(8, 5), Upload(3, 1), UploadCut, UploadPart(FALSE), UploadPart(TRUE),
   LongUploadSplit}

MCAllMessages ==
  MCPlainMessages \cup MCChunkedMessages \cup MCBoundedMessages \cup {LongPost}

MCLengthMessages == {Upload(4, 1), LongPost}

\* The theorems are about such messages, and UploadComplete about some of them.
ASSUME MessagesBuilt ==
  /\ \A m \in MCAllMessages \cup MCLengthMessages : Built(m)
  /\ \E m \in MCAllMessages : Measured(m)
=============================================================================
