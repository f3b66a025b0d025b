----------------------------- MODULE MCEventLoop -----------------------------
\* Small instances of EventLoop for TLC.
EXTENDS EventLoop

CONSTANTS a, b, d

\* A GET of two tokens; the mark tells the peers' bytes apart.
Get(mark) == <<TN("GET", mark), TN("HEND", 0)>>

\* d connects and says nothing.
MCScript == [c \in Conns |-> CASE c = a -> Get(1) [] c = b -> Get(2) [] OTHER -> <<>>]

\* a sends an empty line more than its request.
MCPipelined == [MCScript EXCEPT ![a] = Append(@, T("HEND"))]

\* The header of a GET, never finished.
MCPartial == [c \in Conns |-> <<T("GET")>>]

\* Every response is one send.
MCSmall == [c \in Conns |-> 0]

\* a's response is streamed, the others fit.
MCStream == [c \in Conns |-> IF c = a THEN 3 ELSE 0]
=============================================================================
