---------------------------- MODULE MiniServProofs ----------------------------
(***************************************************************************)
(* mini_serv, in both programs, for every number of peers and descriptors  *)
(* and whatever the peers send: the list of clients agrees with the        *)
(* descriptors, the chat implements ChatRoom and passes on the lines of    *)
(* its clients, whole until a recv ends within a line, and the echo gives  *)
(* back what it was sent, which it may add to.                             *)
(***************************************************************************)
EXTENDS MiniServ, FiniteSetTheorems, SequenceTheorems, WellFoundedInduction, TLAPS

-----------------------------------------------------------------------------
\* The invariant, in the parts the actions disturb.

\* Nobody is in the backlog but who has connected; what is on its way are letters.
NetInv ==
  /\ program \in Programs /\ script \in Scripts
  /\ peer \in [Conns -> [st : {"out", "up", "closed", "reset"}, sent : Nat]]
  /\ inbox \in [Conns -> Seq(Letters)]
  /\ unread \in [Conns -> 0..ROOM]
  /\ backlog \in Seq(Conns)

BufferInv ==
  /\ str \in Seq(Letters) /\ tmp \in Seq(Letters \ {"NL"})
  /\ stop \in {"none", "fatal", "SIGPIPE"}

\* The descriptors that the step under way does not close.
Kept == DOMAIN open \ rest.close

Places == 1..Len(g_clients)

TableInv ==
  /\ DOMAIN open \subseteq Fds /\ \A fd \in DOMAIN open : open[fd] \in Conns
  /\ joined \in Seq(Conns) /\ g_id = Len(joined)
  /\ curr_sock = {sock_fd} \cup DOMAIN open
  /\ g_clients \in Seq([fd : Fds, id : Nat])

\* The newest entry for a number is that of its client; those of the chat are all
\* in use, one for each number.
ListInv ==
  /\ \A i \in Places : g_clients[i].id < g_id
  /\ \A fd \in Kept : \E i \in Places :
       /\ g_clients[i].fd = fd /\ joined[g_clients[i].id + 1] = open[fd]
       /\ \A j \in Places : g_clients[j].fd = fd => j <= i
  /\ program = "chat" => /\ \A i \in Places : g_clients[i].fd \in Kept
                         /\ \A i, j \in Places : g_clients[i].fd = g_clients[j].fd => i = j

\* What the scan has still to look at was not closed since select.
ScanInv ==
  /\ pc \in {"select", "scan", "send"} /\ at \in 0 .. NFDS + 1
  /\ cpy_read \subseteq Fds \cup {sock_fd} /\ cpy_write \subseteq Fds \cup {sock_fd}
  /\ pc = "scan" \/ (pc = "send" /\ ~rest.break) =>
       \A fd \in cpy_read : fd >= at => fd \in DOMAIN open \cup {sock_fd}
  /\ pc = "scan" /\ at = sock_fd =>
       /\ sock_fd \in cpy_read => backlog # <<>>
       /\ cpy_write \subseteq DOMAIN open \cup {sock_fd}
  /\ pc = "send" => at # sock_fd

\* Nothing is sent to a number that is closed, or will be by the same step.
SendsInv ==
  /\ rest \in [close : SUBSET Fds, break : BOOLEAN]
  /\ rest.close # {} => pc = "send" /\ rest.break
  /\ sends \in Seq([to : Fds, msg : MessageType])
  /\ pc # "send" => sends = <<>>
  /\ \A i \in 1..Len(sends) : sends[i].to \in Kept

IInv == NetInv /\ BufferInv /\ TableInv /\ ListInv /\ ScanInv /\ SendsInv

-----------------------------------------------------------------------------
\* Numbers and recursive functions.

\* A nonempty set of naturals has a least element.
LEMMA LeastNatural ==
  ASSUME NEW S \in SUBSET Nat, S # {}
  PROVE  \E x \in S : \A y \in S : x <= y
<1> DEFINE R == OpToRel(<, Nat)
<1>1. PICK x \in S : \A y \in S : ~ (<<y, x>> \in R)
  BY NatLessThanWellFounded, WFMin
<1>2. \A y \in S : ~ (y < x)
  BY <1>1 DEF OpToRel
<1>. QED  BY <1>2

\* Min is one of them.
LEMMA MinIn ==
  ASSUME NEW S \in SUBSET Nat, S # {}
  PROVE  Min(S) \in S /\ \A y \in S : Min(S) <= y
<1>1. \E x \in S : \A y \in S : x <= y
  BY LeastNatural
<1>. QED  BY <1>1 DEF Min

\* What is above all others is Max.
LEMMA MaxIs ==
  ASSUME NEW S \in SUBSET Nat, NEW x \in S, \A y \in S : y <= x
  PROVE  Max(S) = x
<1>1. Max(S) \in S /\ \A y \in S : Max(S) >= y
  <2>1. \E z \in S : \A y \in S : z >= y
    OBVIOUS
  <2>. QED  BY <2>1 DEF Max
<1>2. Max(S) \in Nat /\ x \in Nat /\ Max(S) >= x /\ Max(S) <= x
  BY <1>1
<1>. QED  BY <1>2

\* A set that 0 is in, and with each number the next, has all up to n.
LEMMA UpTo ==
  ASSUME NEW n \in Nat, NEW P, 0 \in P, \A i \in 1..n : i - 1 \in P => i \in P
  PROVE  \A i \in 0..n : i \in P
<1>. DEFINE Bad == {i \in 0..n : i \notin P}
<1>1. SUFFICES ASSUME Bad # {} PROVE FALSE
  OBVIOUS
<1>2. Bad \in SUBSET Nat
  OBVIOUS
<1>. HIDE DEF Bad
<1>3. PICK i \in Bad : \A j \in Bad : i <= j
  BY <1>1, <1>2, LeastNatural
<1>4. i \in 1..n /\ i \notin P
  BY <1>3 DEF Bad
<1>5. i - 1 \in 0..n /\ i - 1 \notin Bad
  BY <1>2, <1>3, <1>4
<1>6. i - 1 \in P
  BY <1>5 DEF Bad
<1>. QED  BY <1>4, <1>6

\* n steps that stay in a set, and what they make of base.
Steps(n, T) == [1..n -> [T -> T]]
Follows(f, base, step, n) == f[0] = base /\ \A i \in 1..n : f[i] = step[i][f[i - 1]]

\* What is made step by step exists.
LEMMA StepByStep ==
  ASSUME NEW n \in Nat, NEW T, NEW base \in T, NEW step \in Steps(n, T)
  PROVE  \E f \in [0..n -> T] : Follows(f, base, step, n)
<1>. DEFINE Made(f, m) == f[0] = base /\ \A i \in 1..m : f[i] = step[i][f[i - 1]]
            P == {m \in 0..n : \E f \in [0..m -> T] : Made(f, m)}
<1>. USE DEF Steps
<1>1. 0 \in P
  <2>. DEFINE f == [i \in 0..0 |-> base]
  <2>1. f \in [0..0 -> T]
    OBVIOUS
  <2>2. Made(f, 0)
    OBVIOUS
  <2>3. 0 \in 0..n
    OBVIOUS
  <2>. HIDE DEF f, Made
  <2>. QED  BY <2>1, <2>2, <2>3
<1>2. ASSUME NEW m \in 1..n, m - 1 \in P
      PROVE  m \in P
  <2>1. PICK g \in [0..(m - 1) -> T] : Made(g, m - 1)
    BY <1>2
  <2>. DEFINE f == [i \in 0..m |-> IF i = m THEN step[m][g[m - 1]] ELSE g[i]]
  <2>2. m - 1 \in 0..(m - 1) /\ step[m] \in [T -> T]
    OBVIOUS
  <2>3. step[m][g[m - 1]] \in T
    BY <2>1, <2>2
  <2>4. \A i \in 0..m : i # m => i \in 0..(m - 1)
    OBVIOUS
  <2>5. f \in [0..m -> T]
    BY <2>1, <2>3, <2>4
  <2>6. f[0] = base
    BY <2>1
  <2>7. \A i \in 1..m : f[i] = step[i][f[i - 1]]
    <3>. TAKE i \in 1..m
    <3>1. i - 1 \in 0..(m - 1) /\ f[i - 1] = g[i - 1]
      OBVIOUS
    <3>2. CASE i = m
      BY <3>1, <3>2
    <3>3. CASE i # m
      <4>1. i \in 1..(m - 1) /\ f[i] = g[i]
        BY <3>3
      <4>2. g[i] = step[i][g[i - 1]]
        BY <2>1, <4>1
      <4>. QED  BY <3>1, <4>1, <4>2
    <3>. QED  BY <3>2, <3>3
  <2>. HIDE DEF f
  <2>8. Made(f, m)
    BY <2>6, <2>7
  <2>9. m \in 0..n
    OBVIOUS
  <2>. QED  BY <2>5, <2>8, <2>9
<1>3. n \in P
  <2>1. n \in 0..n
    OBVIOUS
  <2>. HIDE DEF P
  <2>. QED  BY <1>1, <1>2, <2>1, UpTo
<1>. QED  BY <1>3 DEF Follows

\* A part of a sequence.
LEMMA PartType ==
  ASSUME NEW T, NEW s \in Seq(T), NEW m \in Nat \ {0}, NEW n \in Int, n <= Len(s)
  PROVE  SubSeq(s, m, n) \in Seq(T)
<1>1. Len(s) \in Nat /\ \A i \in 1..Len(s) : s[i] \in T
  BY ElementOfSeq, LenProperties
<1>2. \A i \in m..n : s[i] \in T
  BY <1>1
<1>. QED  BY <1>2, SubSeqProperties

\* One sequence behind the other, step by step.
Joins(g, s) == g[0] = <<>> /\ \A i \in 1..Len(s) : g[i] = g[i - 1] \o s[i]

\* Whatever joins a sequence of sequences ends with FlattenSeq of it.
LEMMA FlattenIs ==
  ASSUME NEW T, NEW s \in Seq(Seq(T)), NEW g \in [0..Len(s) -> Seq(T)], Joins(g, s)
  PROVE  FlattenSeq(s) = g[Len(s)]
<1>. DEFINE n == Len(s)
            flatten == CHOOSE f : f = [i \in 1..n |-> IF i = 1 THEN s[i] ELSE f[i - 1] \o s[i]]
            f == [i \in 1..n |-> g[i]]
            P == {0} \cup {i \in 1..n : flatten[i] = g[i]}
<1>1. n \in Nat /\ \A i \in 1..n : s[i] \in Seq(T)
  BY ElementOfSeq, LenProperties
<1>. HIDE DEF n
<1>0. \A i \in 1..n : g[i] = g[i - 1] \o s[i]
  BY DEF Joins, n
<1>4. n # 0 => g[1] = s[1]
  <2>. SUFFICES ASSUME n # 0 PROVE g[1] = s[1]
    OBVIOUS
  <2>1. 1 \in 1..n /\ 1 - 1 = 0
    BY <1>1
  <2>2. g[1] = g[0] \o s[1]
    BY <1>0, <2>1
  <2>3. s[1] \in Seq(T)
    BY <1>1, <2>1
  <2>4. g[0] = <<>>
    BY DEF Joins
  <2>5. <<>> \o s[1] = s[1]
    BY <2>3, ConcatEmptySeq
  <2>. QED  BY <2>2, <2>4, <2>5
<1>2. CASE n = 0
  <2>1. s = <<>> /\ g[0] = <<>>
    BY <1>2, EmptySeq DEF Joins, n
  <2>. QED  BY <1>2, <2>1 DEF FlattenSeq, n
<1>3. CASE n # 0
  <2>1. \A i \in 1..n : f[i] = IF i = 1 THEN s[i] ELSE f[i - 1] \o s[i]
    <3>. TAKE i \in 1..n
    <3>1. CASE i = 1
      BY <1>3, <1>4, <3>1
    <3>2. CASE i # 1
      <4>1. i - 1 \in 1..n
        BY <1>1, <3>2
      <4>2. f[i] = g[i] /\ f[i - 1] = g[i - 1]
        BY <4>1
      <4>. QED  BY <1>0, <3>2, <4>2
    <3>. QED  BY <3>1, <3>2
  <2>2. f = [i \in 1..n |-> IF i = 1 THEN s[i] ELSE f[i - 1] \o s[i]]
    BY <2>1
  <2>3. flatten = [i \in 1..n |-> IF i = 1 THEN s[i] ELSE flatten[i - 1] \o s[i]]
    BY <2>2
  <2>4. FlattenSeq(s) = flatten[n]
    BY <1>3 DEF FlattenSeq, n
  <2>. HIDE DEF flatten, f
  <2>5. ASSUME NEW i \in 1..n, i - 1 \in P
        PROVE  i \in P
    <3>1. flatten[i] = (IF i = 1 THEN s[i] ELSE flatten[i - 1] \o s[i]) /\ g[i] = g[i - 1] \o s[i]
      BY <1>0, <2>3
    <3>2. CASE i = 1
      BY <1>3, <1>4, <3>1, <3>2
    <3>3. CASE i # 1
      <4>1. flatten[i - 1] = g[i - 1]
        BY <1>1, <2>5, <3>3
      <4>. QED  BY <3>1, <3>3, <4>1
    <3>. QED  BY <3>2, <3>3
  <2>6. n \in 0..n /\ 0 \in P
    BY <1>1
  <2>. HIDE DEF P
  <2>7. n \in P
    BY <1>1, <2>5, <2>6, UpTo
  <2>8. flatten[n] = g[n]
    BY <1>3, <2>7 DEF P
  <2>. QED  BY <2>4, <2>8 DEF n
<1>. QED  BY <1>2, <1>3

\* Every sequence of sequences can be joined.
LEMMA Joined ==
  ASSUME NEW T, NEW s \in Seq(Seq(T))
  PROVE  \E g \in [0..Len(s) -> Seq(T)] : Joins(g, s)
<1>. DEFINE n == Len(s)
            step == [i \in 1..n |-> [x \in Seq(T) |-> x \o s[i]]]
<1>1. n \in Nat /\ \A i \in 1..n : s[i] \in Seq(T)
  BY ElementOfSeq, LenProperties
<1>2. step \in Steps(n, Seq(T))
  BY <1>1, ConcatProperties DEF Steps
<1>3. <<>> \in Seq(T)
  OBVIOUS
<1>. HIDE DEF step, n
<1>4. PICK g \in [0..n -> Seq(T)] : Follows(g, <<>>, step, n)
  BY <1>1, <1>2, <1>3, StepByStep
<1>5. \A i \in 1..n : g[i] = g[i - 1] \o s[i]
  <2>. TAKE i \in 1..n
  <2>1. i - 1 \in 0..n
    BY <1>1
  <2>. QED  BY <1>4, <2>1 DEF step, Follows
<1>. QED  BY <1>4, <1>5 DEF Follows, Joins, n

\* The sequences of a sequence, one behind the other.
LEMMA FlattenType ==
  ASSUME NEW T, NEW s \in Seq(Seq(T))
  PROVE  FlattenSeq(s) \in Seq(T)
<1>1. PICK g \in [0..Len(s) -> Seq(T)] : Joins(g, s)
  BY Joined
<1>2. Len(s) \in 0..Len(s)
  BY LenProperties
<1>. QED  BY <1>1, <1>2, FlattenIs

\* Two such sequences, joined.
LEMMA FlattenConcat ==
  ASSUME NEW T, NEW s \in Seq(Seq(T)), NEW t \in Seq(Seq(T))
  PROVE  FlattenSeq(s \o t) = FlattenSeq(s) \o FlattenSeq(t)
<1>. DEFINE n == Len(s)
            m == Len(t)
            u == s \o t
<1>1. /\ n \in Nat /\ m \in Nat /\ u \in Seq(Seq(T)) /\ Len(u) = n + m
      /\ \A i \in 1..n + m : u[i] = IF i <= n THEN s[i] ELSE t[i - n]
      /\ \A i \in 1..n : s[i] \in Seq(T)
      /\ \A i \in 1..m : t[i] \in Seq(T)
  BY LenProperties, ElementOfSeq, ConcatProperties
<1>2. PICK g \in [0..n -> Seq(T)] : Joins(g, s)
  BY Joined
<1>3. PICK h \in [0..m -> Seq(T)] : Joins(h, t)
  BY Joined
<1>. DEFINE k == [i \in 0..n + m |-> IF i <= n THEN g[i] ELSE g[n] \o h[i - n]]
<1>. HIDE DEF u
<1>4. g[n] \in Seq(T)
  <2>1. n \in 0..n
    BY <1>1
  <2>. HIDE DEF n
  <2>. QED  BY <1>2, <2>1 DEF n
<1>5. k \in [0..n + m -> Seq(T)]
  <2>1. \A i \in 0..m : g[n] \o h[i] \in Seq(T)
    BY <1>3, <1>4, ConcatProperties
  <2>. HIDE DEF n, m
  <2>2. \A i \in 0..n + m : (i <= n => i \in 0..n) /\ (~(i <= n) => i - n \in 0..m)
    BY <1>1
  <2>. QED  BY <1>2, <2>1, <2>2
<1>6. \A i \in 1..n + m : k[i] = k[i - 1] \o u[i]
  <2>. TAKE i \in 1..n + m
  <2>. HIDE DEF n, m
  <2>1. CASE i <= n
    <3>1. i \in 1..n /\ i - 1 <= n /\ i - 1 \in 0..n + m /\ i \in 0..n + m
      BY <1>1, <2>1
    <3>2. g[i] = g[i - 1] \o s[i]
      BY <1>2, <3>1 DEF Joins, n
    <3>. QED  BY <1>1, <2>1, <3>1, <3>2
  <2>2. CASE ~(i <= n)
    <3>1. i - n \in 1..m /\ i \in 0..n + m /\ i - 1 \in 0..n + m /\ (i - n) - 1 \in 0..m
      BY <1>1, <2>2
    <3>2. h[i - n] = h[(i - n) - 1] \o t[i - n] /\ h[0] = <<>>
      BY <1>3, <3>1 DEF Joins, m
    <3>3. k[i] = g[n] \o h[i - n] /\ u[i] = t[i - n]
      BY <1>1, <2>2, <3>1
    <3>4. k[i - 1] = g[n] \o h[(i - n) - 1]
      <4>1. CASE i = n + 1
        <5>1. (i - n) - 1 = 0 /\ i - 1 = n
          BY <1>1, <4>1
        <5>2. g[n] \o <<>> = g[n]
          BY <1>4, ConcatEmptySeq
        <5>3. k[i - 1] = g[n]
          <6>1. n <= n
            BY <1>1
          <6>. QED  BY <3>1, <5>1, <6>1
        <5>4. h[(i - n) - 1] = <<>>
          BY <3>2, <5>1
        <5>. QED  BY <5>2, <5>3, <5>4
      <4>2. CASE i # n + 1
        <5>1. ~(i - 1 <= n) /\ (i - 1) - n = (i - n) - 1
          BY <1>1, <2>2, <4>2
        <5>. QED  BY <3>1, <5>1
      <4>. QED  BY <4>1, <4>2
    <3>5. h[(i - n) - 1] \in Seq(T) /\ t[i - n] \in Seq(T)
      BY <1>1, <1>3, <3>1 DEF m
    <3>. HIDE DEF k
    <3>6. g[n] \o (h[(i - n) - 1] \o t[i - n]) = (g[n] \o h[(i - n) - 1]) \o t[i - n]
      <4>. DEFINE x == g[n]
                  y == h[(i - n) - 1]
                  z == t[i - n]
      <4>1. x \in Seq(T) /\ y \in Seq(T) /\ z \in Seq(T)
        BY <1>4, <3>5
      <4>. HIDE DEF x, y, z
      <4>2. (x \o y) \o z = x \o (y \o z)
        BY <4>1, ConcatAssociative
      <4>. QED  BY <4>2 DEF x, y, z
    <3>. QED  BY <3>2, <3>3, <3>4, <3>6
  <2>. QED  BY <2>1, <2>2
<1>7. Joins(k, u)
  <2>1. k[0] = <<>>
    BY <1>1, <1>2 DEF Joins
  <2>. HIDE DEF k, n, m
  <2>. QED  BY <1>1, <1>6, <2>1 DEF Joins
<1>8. k[n + m] = g[n] \o h[m]
  <2>1. CASE m = 0
    <3>1. h[m] = <<>> /\ n + m = n
      BY <1>1, <1>3, <2>1 DEF Joins
    <3>2. g[n] \o <<>> = g[n]
      BY <1>4, ConcatEmptySeq
    <3>. HIDE DEF n, m
    <3>. QED  BY <1>1, <3>1, <3>2
  <2>2. CASE m # 0
    <3>. HIDE DEF n, m
    <3>1. ~(n + m <= n) /\ (n + m) - n = m /\ n + m \in 0..n + m
      BY <1>1, <2>2
    <3>. QED  BY <3>1
  <2>. QED  BY <2>1, <2>2
<1>9. FlattenSeq(u) = k[n + m]
  <2>. HIDE DEF k
  <2>. QED  BY <1>1, <1>5, <1>7, FlattenIs
<1>10. FlattenSeq(s) = g[n] /\ FlattenSeq(t) = h[m]
  BY <1>2, <1>3, FlattenIs
<1>. QED  BY <1>8, <1>9, <1>10 DEF u

\* One sequence alone.
LEMMA FlattenOne ==
  ASSUME NEW T, NEW x \in Seq(T)
  PROVE  FlattenSeq(<<x>>) = x
<1>. DEFINE s == <<x>>
            g == [i \in 0..1 |-> IF i = 0 THEN <<>> ELSE x]
<1>1. s \in Seq(Seq(T)) /\ Len(s) = 1 /\ s[1] = x
  OBVIOUS
<1>2. g \in [0..1 -> Seq(T)] /\ g[0] = <<>> /\ g[1] = x
  <2>1. <<>> \in Seq(T)
    OBVIOUS
  <2>. QED  BY <2>1
<1>3. <<>> \o x = x
  BY ConcatEmptySeq
<1>. HIDE DEF s, g
<1>4. Joins(g, s)
  <2>1. \A i \in 1..1 : i = 1 /\ i - 1 = 0
    OBVIOUS
  <2>. QED  BY <1>1, <1>2, <1>3, <2>1 DEF Joins
<1>5. FlattenSeq(s) = g[1]
  BY <1>1, <1>2, <1>4, FlattenIs
<1>. QED  BY <1>2, <1>5 DEF s

\* Empty ones, however many.
LEMMA FlattenEmpties ==
  ASSUME NEW T, NEW s \in Seq(Seq(T)), \A i \in 1..Len(s) : s[i] = <<>>
  PROVE  FlattenSeq(s) = <<>>
<1>. DEFINE g == [i \in 0..Len(s) |-> <<>>]
<1>1. Len(s) \in Nat /\ <<>> \in Seq(T)
  BY LenProperties
<1>2. g \in [0..Len(s) -> Seq(T)]
  BY <1>1
<1>3. <<>> \o <<>> = <<>>
  BY <1>1, ConcatEmptySeq
<1>4. Joins(g, s)
  BY <1>1, <1>3 DEF Joins
<1>. HIDE DEF g
<1>5. FlattenSeq(s) = g[Len(s)]
  BY <1>2, <1>4, FlattenIs
<1>. QED  BY <1>1, <1>5 DEF g

-----------------------------------------------------------------------------
\* Operators of the model.

\* Writing over the beginning of a buffer.
LEMMA OverType ==
  ASSUME NEW T, NEW text \in Seq(T), NEW buf \in Seq(T)
  PROVE  Over(text, buf) \in Seq(T)
<1>1. Len(text) + 1 \in Nat \ {0} /\ Len(buf) \in Nat
  BY LenProperties
<1>2. SubSeq(buf, Len(text) + 1, Len(buf)) \in Seq(T)
  BY <1>1, PartType
<1>. QED  BY <1>2, ConcatProperties DEF Over

\* What ex_msg has at hand: no line break is in tmp.
Ex == [line : Seq(Letters \ {"NL"}), old : Seq(Letters \ {"NL"}), sent : Seq(Seq(Letters))]

\* Sequences of fewer letters.
LEMMA Fewer ==
  ASSUME NEW s \in Seq(Letters \ {"NL"})
  PROVE  s \in Seq(Letters)
<1>1. Len(s) \in Nat /\ s \in [1..Len(s) -> Letters \ {"NL"}] /\ \A i \in 1..Len(s) : s[i] \in Letters
  BY ElementOfSeq, LenProperties
<1>. QED  BY <1>1

\* What ex_msg holds after a letter keeps its types.
LEMMA CopyLetterType ==
  ASSUME NEW ex \in Ex, NEW letter \in Letters
  PROVE  CopyLetter(ex, letter) \in Ex
<1>1. ex.line \in Seq(Letters \ {"NL"}) /\ ex.old \in Seq(Letters \ {"NL"}) /\ ex.sent \in Seq(Seq(Letters))
  BY DEF Ex
<1>2. CASE letter = "NL"
  <2>1. ex.line \in Seq(Letters) /\ ex.old \in Seq(Letters)
    BY <1>1, Fewer
  <2>2. Append(ex.line, letter) \in Seq(Letters)
    BY <2>1
  <2>3. Over(Append(ex.line, letter), ex.old) \in Seq(Letters)
    BY <2>1, <2>2, OverType
  <2>4. Append(ex.sent, Over(Append(ex.line, letter), ex.old)) \in Seq(Seq(Letters))
    BY <1>1, <2>3
  <2>5. <<>> \in Seq(Letters \ {"NL"})
    OBVIOUS
  <2>. QED  BY <1>2, <2>4, <2>5 DEF CopyLetter, Ex
<1>3. CASE letter # "NL"
  <2>1. Append(ex.line, letter) \in Seq(Letters \ {"NL"})
    BY <1>1, <1>3
  <2>. QED  BY <1>1, <1>3, <2>1 DEF CopyLetter, Ex
<1>. QED  BY <1>2, <1>3

\* ex_msg goes from letter to letter.
LEMMA CopiedSteps ==
  ASSUME NEW ex \in Ex, NEW text \in Seq(Letters)
  PROVE  \E g \in [0..Len(text) -> Ex] :
           /\ g[0] = ex /\ \A i \in 1..Len(text) : g[i] = CopyLetter(g[i - 1], text[i])
           /\ Copied(ex, text) = g[Len(text)]
<1>. DEFINE n    == Len(text)
            upTo == CHOOSE f : f = [i \in 0..n |-> IF i = 0 THEN ex ELSE CopyLetter(f[i - 1], text[i])]
            step == [i \in 1..n |-> [x \in Ex |-> CopyLetter(x, text[i])]]
<1>1. n \in Nat /\ \A i \in 1..n : text[i] \in Letters
  BY ElementOfSeq, LenProperties
<1>2. step \in Steps(n, Ex)
  BY <1>1, CopyLetterType DEF Steps
<1>3. Copied(ex, text) = upTo[n]
  BY DEF Copied
<1>. HIDE DEF step, n
<1>4. PICK g \in [0..n -> Ex] : Follows(g, ex, step, n)
  BY <1>1, <1>2, StepByStep
<1>5. g = [i \in 0..n |-> IF i = 0 THEN ex ELSE CopyLetter(g[i - 1], text[i])]
  <2>1. \A i \in 0..n : g[i] = IF i = 0 THEN ex ELSE CopyLetter(g[i - 1], text[i])
    <3>. TAKE i \in 0..n
    <3>1. CASE i = 0
      BY <1>4, <3>1 DEF Follows
    <3>2. CASE i # 0
      <4>1. i \in 1..n /\ i - 1 \in 0..n
        BY <1>1, <3>2
      <4>2. g[i - 1] \in Ex /\ g[i] = step[i][g[i - 1]]
        BY <1>4, <4>1 DEF Follows
      <4>. QED  BY <3>2, <4>1, <4>2 DEF step
    <3>. QED  BY <3>1, <3>2
  <2>. QED  BY <2>1
<1>6. upTo = [i \in 0..n |-> IF i = 0 THEN ex ELSE CopyLetter(upTo[i - 1], text[i])]
  BY <1>5
<1>. DEFINE P == {i \in 0..n : upTo[i] \in Ex}
<1>. HIDE DEF upTo
<1>7. 0 \in P
  BY <1>1, <1>6
<1>8. ASSUME NEW i \in 1..n, i - 1 \in P
      PROVE  i \in P
  <2>1. i \in 0..n /\ i # 0
    BY <1>1
  <2>2. upTo[i] = CopyLetter(upTo[i - 1], text[i])
    BY <1>6, <2>1
  <2>3. upTo[i] \in Ex
    BY <1>1, <1>8, <2>2, CopyLetterType
  <2>. QED  BY <2>1, <2>3
<1>9. n \in 0..n
  BY <1>1
<1>. HIDE DEF P
<1>10. \A i \in 0..n : i \in P
  BY <1>1, <1>7, <1>8, <1>9, UpTo
<1>11. upTo \in [0..n -> Ex]
  BY <1>6, <1>10 DEF P
<1>12. upTo[0] = ex /\ \A i \in 1..n : upTo[i] = CopyLetter(upTo[i - 1], text[i])
  BY <1>1, <1>6
<1>. QED  BY <1>3, <1>11, <1>12 DEF n

\* ex_msg finds lines of letters, and leaves no line break in tmp.
LEMMA CopiedType ==
  ASSUME NEW ex \in Ex, NEW text \in Seq(Letters)
  PROVE  Copied(ex, text) \in Ex
<1>1. Len(text) \in 0..Len(text)
  BY LenProperties
<1>. QED  BY <1>1, CopiedSteps

\* The receivers of send_all are in the list, and among these.
LEMMA ListedType ==
  ASSUME NEW list \in Seq([fd : Fds, id : Nat]), NEW these
  PROVE  Listed(list, these) \in Seq({list[i].fd : i \in 1..Len(list)} \cap these)
<1>. DEFINE n     == Len(list)
            T     == {list[i].fd : i \in 1..n} \cap these
            Next1(x, i) == IF list[i].fd \in these THEN Append(x, list[i].fd) ELSE x
            found == CHOOSE f : f = [i \in 0..n |->
                       CASE i = 0                          -> <<>>
                         [] i # 0 /\ list[i].fd \in these -> Append(f[i - 1], list[i].fd)
                         [] OTHER                          -> f[i - 1]]
            step  == [i \in 1..n |-> [x \in Seq(T) |-> Next1(x, i)]]
            P     == {i \in 0..n : found[i] \in Seq(T)}
<1>1. n \in Nat
  BY LenProperties
<1>2. \A x \in Seq(T), i \in 1..n : Next1(x, i) \in Seq(T)
  OBVIOUS
<1>3. Listed(list, these) = found[n]
  BY DEF Listed
<1>. HIDE DEF n, T, Next1
<1>4. step \in Steps(n, Seq(T)) /\ <<>> \in Seq(T)
  BY <1>2 DEF Steps
<1>. HIDE DEF step
<1>5. PICK g \in [0..n -> Seq(T)] : Follows(g, <<>>, step, n)
  BY <1>1, <1>4, StepByStep
<1>6. g = [i \in 0..n |->
             CASE i = 0                          -> <<>>
               [] i # 0 /\ list[i].fd \in these -> Append(g[i - 1], list[i].fd)
               [] OTHER                          -> g[i - 1]]
  <2>1. \A i \in 0..n : g[i] = CASE i = 0                          -> <<>>
                                 [] i # 0 /\ list[i].fd \in these -> Append(g[i - 1], list[i].fd)
                                 [] OTHER                          -> g[i - 1]
    <3>. TAKE i \in 0..n
    <3>1. CASE i = 0
      BY <1>5, <3>1 DEF Follows
    <3>2. CASE i # 0
      <4>1. i \in 1..n /\ i - 1 \in 0..n
        BY <1>1, <3>2
      <4>2. g[i - 1] \in Seq(T) /\ g[i] = step[i][g[i - 1]]
        BY <1>5, <4>1 DEF Follows
      <4>3. g[i] = Next1(g[i - 1], i)
        BY <4>1, <4>2 DEF step
      <4>. QED  BY <3>2, <4>3 DEF Next1
    <3>. QED  BY <3>1, <3>2
  <2>. QED  BY <2>1
<1>7. found = [i \in 0..n |->
             CASE i = 0                          -> <<>>
               [] i # 0 /\ list[i].fd \in these -> Append(found[i - 1], list[i].fd)
               [] OTHER                          -> found[i - 1]]
  BY <1>6
<1>. HIDE DEF found
<1>8. 0 \in P
  BY <1>1, <1>7
<1>9. ASSUME NEW i \in 1..n, i - 1 \in P
      PROVE  i \in P
  <2>1. i \in 0..n /\ i # 0
    BY <1>1
  <2>2. found[i] = Next1(found[i - 1], i)
    BY <1>7, <2>1 DEF Next1
  <2>3. found[i] \in Seq(T)
    BY <1>2, <1>9, <2>2
  <2>. QED  BY <2>1, <2>3
<1>10. n \in 0..n
  BY <1>1
<1>. HIDE DEF P
<1>11. n \in P
  BY <1>1, <1>8, <1>9, <1>10, UpTo
<1>. QED  BY <1>3, <1>11 DEF P, T, n

\* What send_all sends goes to others in the list that are in cpy_write.
LEMMA SendAllType ==
  ASSUME NEW list \in Seq([fd : Fds, id : Nat]), NEW fd, NEW M, NEW msgs \in Seq(M)
  PROVE  send_all(list, fd, msgs)
           \in Seq([to : {list[i].fd : i \in 1..Len(list)} \cap (cpy_write \ {fd}), msg : M])
<1>. DEFINE T      == {list[i].fd : i \in 1..Len(list)} \cap (cpy_write \ {fd})
            others == Listed(list, cpy_write \ {fd})
            To(msg) == [i \in DOMAIN others |-> [to |-> others[i], msg |-> msg]]
            all    == [k \in DOMAIN msgs |-> To(msgs[k])]
<1>1. others \in Seq(T)
  BY ListedType
<1>2. send_all(list, fd, msgs) = FlattenSeq(all)
  BY DEF send_all
<1>. HIDE DEF T, others
<1>3. DOMAIN others = 1..Len(others) /\ Len(others) \in Nat /\ \A i \in 1..Len(others) : others[i] \in T
  BY <1>1, LenProperties, ElementOfSeq
<1>4. \A msg \in M : To(msg) \in Seq([to : T, msg : M])
  BY <1>3
<1>5. DOMAIN msgs = 1..Len(msgs) /\ Len(msgs) \in Nat /\ \A k \in 1..Len(msgs) : msgs[k] \in M
  BY LenProperties, ElementOfSeq
<1>. HIDE DEF To
<1>6. all \in Seq(Seq([to : T, msg : M]))
  <2>. DEFINE S == Seq([to : T, msg : M])
  <2>1. \A k \in 1..Len(msgs) : To(msgs[k]) \in S
    BY <1>4, <1>5
  <2>. HIDE DEF S
  <2>2. all = [k \in 1..Len(msgs) |-> To(msgs[k])]
    BY <1>5
  <2>3. all \in Seq(S)
    BY <1>5, <2>1, <2>2
  <2>. QED  BY <2>3 DEF S
<1>. HIDE DEF all
<1>. QED  BY <1>2, <1>6, FlattenType DEF T

-----------------------------------------------------------------------------
\* What the parts of the invariant say together.

\* Descriptors are positive.
LEMMA Descriptors ==
  /\ sock_fd = 0 /\ Fds = 1..NFDS /\ NFDS \in Nat \ {0} /\ ROOM \in Nat \ {0}
  /\ Fds \in SUBSET Nat /\ sock_fd \notin Fds
BY MiniServAssumption DEF Fds, sock_fd

\* The descriptor the scan has come to.
LEMMA ScanAt ==
  ASSUME IInv, NEW fd, Scans(fd)
  PROVE  /\ pc = "scan" /\ stop = "none" /\ fd \in cpy_read /\ at <= fd /\ fd \in Nat
         /\ fd \in DOMAIN open \cup {sock_fd}
         /\ rest.close = {} /\ Kept = DOMAIN open /\ sends = <<>>
<1>1. pc = "scan" /\ stop = "none" /\ Ahead # {} /\ fd = Min(Ahead)
  BY DEF Scans, Running
<1>2. cpy_read \in SUBSET Nat
  BY Descriptors DEF IInv, ScanInv
<1>3. Ahead \in SUBSET Nat
  BY <1>2 DEF Ahead
<1>4. fd \in Ahead
  BY <1>1, <1>3, MinIn
<1>5. fd \in cpy_read /\ at <= fd
  BY <1>4 DEF Ahead
<1>6. fd \in DOMAIN open \cup {sock_fd}
  <2>1. fd \in Nat /\ at \in Nat
    BY <1>2, <1>5 DEF IInv, ScanInv
  <2>. QED  BY <1>1, <1>5, <2>1 DEF IInv, ScanInv
<1>7. rest.close = {} /\ sends = <<>>
  BY <1>1 DEF IInv, SendsInv
<1>. QED  BY <1>1, <1>2, <1>5, <1>6, <1>7 DEF Kept

\* The list is a sequence, and its entries have places in it.
LEMMA ListIs ==
  ASSUME IInv
  PROVE  /\ Len(g_clients) \in Nat /\ DOMAIN g_clients = Places /\ Places \in SUBSET Nat
         /\ \A i \in Places : /\ g_clients[i] \in [fd : Fds, id : Nat]
                              /\ g_clients[i].fd \in Fds /\ g_clients[i].id \in Nat
         /\ \A fd : Entries(fd) = {i \in Places : g_clients[i].fd = fd} /\ Entries(fd) \in SUBSET Nat
<1>1. g_clients \in Seq([fd : Fds, id : Nat])
  BY DEF IInv, TableInv
<1>2. Len(g_clients) \in Nat /\ DOMAIN g_clients = Places
  BY <1>1, LenProperties DEF Places
<1>3. \A i \in Places : g_clients[i] \in [fd : Fds, id : Nat]
  BY <1>1, ElementOfSeq DEF Places
<1>4. Places \in SUBSET Nat
  BY <1>2 DEF Places
<1>5. \A fd : Entries(fd) = {i \in Places : g_clients[i].fd = fd}
  BY <1>2 DEF Entries
<1>. QED  BY <1>2, <1>3, <1>4, <1>5

\* get_id answers a number of the list, or -1 when the descriptor is not listed.
LEMMA IdType ==
  ASSUME IInv, NEW fd
  PROVE  get_id(fd) \in Nat \cup {-1}
<1>1. CASE Entries(fd) = {}
  BY <1>1 DEF get_id
<1>2. CASE Entries(fd) # {}
  <2>1. Min(Entries(fd)) \in Entries(fd)
    BY <1>2, ListIs, MinIn
  <2>2. g_clients[Min(Entries(fd))].id \in Nat
    BY <2>1, ListIs
  <2>. QED  BY <1>2, <2>2 DEF get_id
<1>. QED  BY <1>1, <1>2

\* One message is a sequence of messages.
LEMMA OneMessage ==
  ASSUME NEW what \in {"arrived", "left", "said", "echo"}, NEW id \in Nat \cup {-1},
         NEW text \in Seq(Letters)
  PROVE  Message(what, id, text) \in MessageType /\ <<Message(what, id, text)>> \in Seq(MessageType)
BY DEF Message, MessageType

\* The empty text, as calloc leaves it, is a text of letters.
LEMMA NoText == <<>> \in Seq(Letters)
OBVIOUS

\* What send_all sends, when those in the list that it sends to are kept.
LEMMA SendsGood ==
  ASSUME NEW list \in Seq([fd : Fds, id : Nat]), NEW fd, NEW msgs \in Seq(MessageType), NEW K,
         \A i \in 1..Len(list) : list[i].fd \in cpy_write \ {fd} => list[i].fd \in K
  PROVE  /\ send_all(list, fd, msgs) \in Seq([to : Fds, msg : MessageType])
         /\ \A i \in 1..Len(send_all(list, fd, msgs)) : send_all(list, fd, msgs)[i].to \in K
<1>. DEFINE T == {list[i].fd : i \in 1..Len(list)} \cap (cpy_write \ {fd})
            s == send_all(list, fd, msgs)
<1>1. s \in Seq([to : T, msg : MessageType])
  BY SendAllType
<1>2. T \subseteq K \cap Fds
  <2>1. \A i \in 1..Len(list) : list[i] \in [fd : Fds, id : Nat]
    BY ElementOfSeq
  <2>. QED  BY <2>1
<1>. HIDE DEF T, s
<1>3. Len(s) \in Nat /\ s \in [1..Len(s) -> [to : T, msg : MessageType]]
  BY <1>1, LenProperties
<1>4. \A i \in 1..Len(s) : s[i] \in [to : Fds, msg : MessageType] /\ s[i].to \in K
  <2>1. \A i \in 1..Len(s) : s[i] \in [to : T, msg : MessageType]
    BY <1>3
  <2>. QED  BY <1>2, <2>1
<1>5. s \in Seq([to : Fds, msg : MessageType])
  <2>. DEFINE X == [to : Fds, msg : MessageType]
  <2>1. \A i \in 1..Len(s) : s[i] \in X
    BY <1>4
  <2>. HIDE DEF X
  <2>2. DOMAIN s = 1..Len(s) /\ s = [i \in 1..Len(s) |-> s[i]]
    BY <1>3
  <2>3. s \in Seq(X)
    BY <1>3, <2>1, <2>2
  <2>. QED  BY <2>3 DEF X
<1>. QED  BY <1>4, <1>5 DEF s

\* What the invariant says only of the list and the descriptors stays when they do.
LEMMA ListStays ==
  ASSUME ListInv, UNCHANGED <<program, g_clients, g_id, open, joined>>, rest'.close = rest.close
  PROVE  ListInv'
BY DEF ListInv, Kept, Places

-----------------------------------------------------------------------------
\* The steps.

\* Before any peer connects there is nothing to agree on but the listening socket.
LEMMA IInvInit == Init => IInv
<1>. SUFFICES ASSUME Init PROVE IInv
  OBVIOUS
<1>1. NetInv
  BY Descriptors, EmptySeq DEF Init, NetInv
<1>2. BufferInv
  BY EmptySeq DEF Init, BufferInv
<1>3. DOMAIN open = {} /\ g_clients = <<>> /\ joined = <<>> /\ g_id = 0 /\ curr_sock = {sock_fd}
  BY DEF Init
<1>4. TableInv
  BY <1>3, EmptySeq DEF TableInv
<1>5. ListInv
  BY <1>3, EmptySeq DEF ListInv, Kept, Places
<1>6. ScanInv
  BY Descriptors DEF Init, ScanInv
<1>7. SendsInv
  BY EmptySeq DEF Init, SendsInv
<1>. QED  BY <1>1, <1>2, <1>4, <1>5, <1>6, <1>7 DEF IInv

\* A segment of the script is letters.
LEMMA SegmentType ==
  ASSUME IInv, NEW c \in Conns, NEW k \in 1..Len(script[c])
  PROVE  script[c][k] \in Seq(Letters)
<1>1. script \in Scripts /\ script \in [Conns -> Seq(Seq(STRING) \ {<<>>})]
  BY MiniServAssumption DEF IInv, NetInv
<1>2. script[c] \in Seq(Seq(STRING) \ {<<>>})
  BY <1>1
<1>3. script[c][k] \in Seq(STRING) /\ script[c][k] \in Range(script[c])
  <2>1. script[c][k] \in Seq(STRING) \ {<<>>} /\ k \in DOMAIN script[c]
    BY <1>2, ElementOfSeq, LenProperties
  <2>. QED  BY <2>1 DEF Range
<1>4. script[c][k] \in Segments
  BY <1>1, <1>3 DEF Segments
<1>. DEFINE s == script[c][k]
<1>. HIDE DEF s
<1>5. s \in Seq(STRING) /\ s \in Segments
  BY <1>3, <1>4 DEF s
<1>6. Len(s) \in Nat /\ DOMAIN s = 1..Len(s) /\ s \in [1..Len(s) -> STRING]
  BY <1>5, LenProperties
<1>7. \A i \in 1..Len(s) : s[i] \in Letters
  <2>1. \A i \in 1..Len(s) : s[i] \in Range(s)
    BY <1>6 DEF Range
  <2>. QED  BY <1>5, <2>1 DEF Letters
<1>8. s \in Seq(Letters)
  BY <1>6, <1>7
<1>. QED  BY <1>8 DEF s

\* What the peers do on the network changes none of the tables.
LEMMA PeersInv ==
  ASSUME IInv, Peers
  PROVE  IInv'
<1>1. PICK c \in Conns : Connect(c) \/ PeerSends(c) \/ PeerReads(c) \/ PeerCloses(c) \/ PeerResets(c)
  BY DEF Peers
<1>2. UNCHANGED <<program, script, process, history>>
  BY <1>1 DEF Connect, PeerSends, PeerReads, PeerCloses, PeerResets
<1>3. UNCHANGED <<program, open, g_clients, g_id, curr_sock, cpy_read, cpy_write, str, tmp, pc, at, sends,
                  rest, stop, joined>>
  BY <1>2 DEF process, table, copies, buffers, history
<1>4. NetInv
  BY DEF IInv
<1>5. NetInv' /\ (backlog # <<>> => backlog' # <<>>)
  <2>1. CASE Connect(c)
    <3>1. backlog \in Seq(Conns) /\ backlog' = Append(backlog, c)
      BY <1>4, <2>1 DEF Connect, NetInv
    <3>2. backlog' \in Seq(Conns) /\ backlog' # <<>>
      BY <3>1, AppendProperties, EmptySeq
    <3>3. peer' \in [Conns -> [st : {"out", "up", "closed", "reset"}, sent : Nat]]
      BY <1>4, <2>1 DEF Connect, NetInv
    <3>. QED  BY <1>2, <1>4, <2>1, <3>2, <3>3 DEF Connect, NetInv
  <2>2. CASE PeerSends(c)
    <3>1. peer[c].sent + 1 \in 1..Len(script[c]) /\ script[c][peer[c].sent + 1] \in Seq(Letters)
      <4>1. peer[c].sent \in Nat /\ peer[c].sent < Len(script[c]) /\ Len(script[c]) \in Nat
        <5>1. script[c] \in Seq(Seq(STRING) \ {<<>>})
          BY <1>4, MiniServAssumption DEF NetInv
        <5>2. Len(script[c]) \in Nat
          BY <5>1, LenProperties
        <5>. QED  BY <1>4, <2>2, <5>2 DEF NetInv, PeerSends
      <4>2. peer[c].sent + 1 \in 1..Len(script[c])
        BY <4>1
      <4>. QED  BY <4>2, SegmentType
    <3>2. inbox[c] \o script[c][peer[c].sent + 1] \in Seq(Letters)
      BY <1>4, <3>1, ConcatProperties DEF NetInv
    <3>3. inbox' \in [Conns -> Seq(Letters)]
      BY <1>4, <2>2, <3>2 DEF PeerSends, NetInv
    <3>4. peer' \in [Conns -> [st : {"out", "up", "closed", "reset"}, sent : Nat]]
      BY <1>4, <2>2 DEF PeerSends, NetInv
    <3>. QED  BY <1>2, <1>4, <2>2, <3>3, <3>4 DEF PeerSends, NetInv
  <2>3. CASE PeerReads(c) \/ PeerCloses(c) \/ PeerResets(c)
    <3>1. 0 \in 0..ROOM /\ <<>> \in Seq(Letters)
      BY Descriptors
    <3>. QED  BY <1>2, <1>4, <2>3, <3>1 DEF PeerReads, PeerCloses, PeerResets, NetInv
  <2>. QED  BY <1>1, <2>1, <2>2, <2>3
<1>6. BufferInv' /\ TableInv' /\ SendsInv'
  BY <1>3 DEF IInv, BufferInv, TableInv, SendsInv, Kept
<1>7. ListInv'
  BY <1>3, ListStays DEF IInv
<1>8. ScanInv'
  BY <1>3, <1>5 DEF IInv, ScanInv
<1>. QED  BY <1>5, <1>6, <1>7, <1>8 DEF IInv

\* A round starts with copies of the set: what is readable was open when select returned.
LEMMA SelectInv ==
  ASSUME IInv, Select
  PROVE  IInv'
<1>1. /\ pc = "select" /\ stop = "none" /\ pc' = "scan" /\ at' = sock_fd
      /\ cpy_write' = curr_sock
      /\ cpy_read' \subseteq curr_sock /\ (sock_fd \in cpy_read' => backlog # <<>>)
      /\ UNCHANGED <<net, table, buffers, sends, rest, stop, history>>
  BY DEF Select, Running, Readable
<1>2. UNCHANGED <<program, script, peer, inbox, unread, backlog, open, g_clients, g_id, curr_sock,
                  str, tmp, sends, rest, stop, joined>>
  BY <1>1 DEF net, table, buffers, history
<1>3. NetInv' /\ BufferInv' /\ TableInv'
  BY <1>2 DEF IInv, NetInv, BufferInv, TableInv
<1>4. ListInv'
  BY <1>2, ListStays DEF IInv
<1>5. rest.close = {} /\ sends = <<>>
  BY <1>1 DEF IInv, SendsInv
<1>6. SendsInv'
  BY <1>1, <1>2, <1>5 DEF IInv, SendsInv, Kept
<1>7. curr_sock = {sock_fd} \cup DOMAIN open /\ DOMAIN open \subseteq Fds
  BY DEF IInv, TableInv
<1>8. sock_fd \in 0 .. NFDS + 1
  BY Descriptors
<1>9. ScanInv'
  BY <1>1, <1>2, <1>7, <1>8 DEF ScanInv
<1>. QED  BY <1>3, <1>4, <1>6, <1>9 DEF IInv

\* A round that has looked at every descriptor returns to select.
LEMMA ScanEndsInv ==
  ASSUME IInv, ScanEnds
  PROVE  IInv'
<1>1. /\ pc = "scan" /\ pc' = "select"
      /\ UNCHANGED <<program, script, peer, inbox, unread, backlog, open, g_clients, g_id, curr_sock,
                     cpy_read, cpy_write, str, tmp, at, sends, rest, stop, joined>>
  BY DEF ScanEnds, Running, net, table, copies, buffers, history
<1>2. NetInv' /\ BufferInv' /\ TableInv'
  BY <1>1 DEF IInv, NetInv, BufferInv, TableInv
<1>3. ListInv'
  BY <1>1, ListStays DEF IInv
<1>4. ScanInv'
  BY <1>1 DEF IInv, ScanInv
<1>5. SendsInv'
  BY <1>1 DEF IInv, SendsInv, Kept
<1>. QED  BY <1>2, <1>3, <1>4, <1>5 DEF IInv

\* The end of the process changes nothing else.
LEMMA EndInv ==
  ASSUME IInv, AcceptFails \/ SendFails
  PROVE  IInv'
<1>1. /\ stop' \in {"fatal", "SIGPIPE"}
      /\ UNCHANGED <<program, script, peer, inbox, unread, backlog, open, g_clients, g_id, curr_sock,
                     cpy_read, cpy_write, str, tmp, pc, at, sends, rest, joined>>
  BY DEF AcceptFails, SendFails, net, table, copies, buffers, history
<1>2. NetInv' /\ BufferInv' /\ TableInv'
  BY <1>1 DEF IInv, NetInv, BufferInv, TableInv
<1>3. ListInv'
  BY <1>1, ListStays DEF IInv
<1>4. ScanInv' /\ SendsInv'
  BY <1>1 DEF IInv, ScanInv, SendsInv, Kept
<1>. QED  BY <1>2, <1>3, <1>4 DEF IInv

\* accept takes a descriptor nobody has, and add_client_to_list gives it the newest entry.
LEMMA AcceptInv ==
  ASSUME IInv, Accept
  PROVE  IInv'
<1>. DEFINE fd   == Min(Free)
            c    == Head(backlog)
            n    == Len(g_clients)
            msgs == <<Message("arrived", g_id, <<>>)>>
<1>1. /\ Scans(sock_fd) /\ Free # {}
      /\ open' = With(open, fd, c)
      /\ g_clients' = Append(g_clients, [fd |-> fd, id |-> g_id])
      /\ sends' = send_all(g_clients', fd, msgs)
      /\ curr_sock' = curr_sock \cup {fd}
      /\ joined' = Append(joined, c)
      /\ g_id' = g_id + 1
      /\ backlog' = Tail(backlog)
      /\ pc' = "send" /\ at' = sock_fd + 1
      /\ rest' = [close |-> {}, break |-> program = "chat"]
      /\ UNCHANGED <<program, script, peer, inbox, unread, cpy_read, cpy_write, str, tmp, stop>>
  BY DEF Accept, add_client_to_list, copies, buffers
<1>2. /\ pc = "scan" /\ sock_fd \in cpy_read /\ at = sock_fd /\ rest.close = {} /\ Kept = DOMAIN open
  <2>1. at <= sock_fd /\ at \in 0 .. NFDS + 1
    BY <1>1, ScanAt DEF IInv, ScanInv
  <2>2. at = sock_fd
    BY <2>1, Descriptors
  <2>. QED  BY <1>1, <2>2, ScanAt
<1>3. fd \in Fds /\ fd \notin DOMAIN open
  <2>1. Free \in SUBSET Nat /\ Free \subseteq Fds
    BY Descriptors DEF Free
  <2>2. fd \in Free
    BY <1>1, <2>1, MinIn
  <2>. QED  BY <2>2 DEF Free
<1>4. c \in Conns /\ Tail(backlog) \in Seq(Conns)
  <2>1. backlog # <<>> /\ backlog \in Seq(Conns)
    BY <1>2 DEF IInv, ScanInv, NetInv
  <2>. QED  BY <2>1, HeadTailProperties
<1>. HIDE DEF fd, c, msgs
<1>5. /\ n \in Nat /\ g_clients' \in Seq([fd : Fds, id : Nat]) /\ Len(g_clients') = n + 1
      /\ \A i \in 1..n : g_clients'[i] = g_clients[i]
      /\ g_clients'[n + 1].fd = fd /\ g_clients'[n + 1].id = g_id
  <2>1. g_clients \in Seq([fd : Fds, id : Nat]) /\ g_id \in Nat
    BY LenProperties DEF IInv, TableInv
  <2>2. [fd |-> fd, id |-> g_id] \in [fd : Fds, id : Nat]
    BY <1>3, <2>1
  <2>3. /\ g_clients' \in Seq([fd : Fds, id : Nat]) /\ Len(g_clients') = n + 1
        /\ \A i \in 1..n : g_clients'[i] = g_clients[i]
        /\ g_clients'[n + 1] = [fd |-> fd, id |-> g_id]
    BY <1>1, <2>1, <2>2, AppendProperties
  <2>. QED  BY <2>1, <2>3, LenProperties
<1>6. /\ joined' \in Seq(Conns) /\ Len(joined') = g_id + 1 /\ g_id \in Nat
      /\ \A k \in 1..g_id : joined'[k] = joined[k]
      /\ joined'[g_id + 1] = c
  <2>1. joined \in Seq(Conns) /\ g_id = Len(joined)
    BY DEF IInv, TableInv
  <2>. QED  BY <1>1, <1>4, <2>1, AppendProperties, LenProperties
<1>7. /\ DOMAIN open' = DOMAIN open \cup {fd} /\ open'[fd] = c
      /\ \A x \in DOMAIN open : open'[x] = open[x]
  BY <1>1, <1>3 DEF With
<1>8. Kept' = Kept \cup {fd} /\ fd \notin Kept
  BY <1>1, <1>2, <1>3, <1>7 DEF Kept
<1>9. Places' = Places \cup {n + 1} /\ n + 1 \notin Places /\ Places = 1..n
  BY <1>5 DEF Places
<1>10. NetInv' /\ BufferInv'
  BY <1>1, <1>4 DEF IInv, NetInv, BufferInv
<1>11. TableInv'
  BY <1>1, <1>3, <1>4, <1>5, <1>6, <1>7 DEF IInv, TableInv
<1>12. ListInv'
  <2>1. ListInv
    BY DEF IInv
  <2>2. \A i \in Places : g_clients'[i] = g_clients[i] /\ g_clients[i].id \in Nat /\ i \in Nat
    BY <1>5, <1>9, ListIs
  <2>3. \A i \in Places' : g_clients'[i].id < g_id'
    <3>1. \A i \in Places : g_clients[i].id < g_id
      BY <2>1 DEF ListInv
    <3>2. g_id < g_id' /\ g_id' \in Nat
      BY <1>1, <1>6
    <3>3. \A i \in Places : g_clients'[i].id < g_id'
      BY <1>6, <2>2, <3>1, <3>2
    <3>. QED  BY <1>5, <1>9, <3>2, <3>3
  <2>4. ASSUME NEW x \in Kept'
        PROVE  \E i \in Places' :
                 /\ g_clients'[i].fd = x /\ joined'[g_clients'[i].id + 1] = open'[x]
                 /\ \A j \in Places' : g_clients'[j].fd = x => j <= i
    <3>1. CASE x = fd
      <4>1. \A j \in Places' : j <= n + 1
        BY <1>5, <1>9
      <4>. QED  BY <1>5, <1>6, <1>7, <1>9, <3>1, <4>1
    <3>2. CASE x # fd
      <4>1. x \in Kept /\ open'[x] = open[x]
        BY <1>2, <1>7, <1>8, <3>2
      <4>2. PICK i \in Places :
              /\ g_clients[i].fd = x /\ joined[g_clients[i].id + 1] = open[x]
              /\ \A j \in Places : g_clients[j].fd = x => j <= i
        BY <2>1, <4>1 DEF ListInv
      <4>3. joined'[g_clients[i].id + 1] = joined[g_clients[i].id + 1]
        <5>1. g_clients[i].id < g_id /\ g_clients[i].id \in Nat
          BY <2>1, <2>2 DEF ListInv
        <5>2. g_clients[i].id + 1 \in 1..g_id
          BY <1>6, <5>1
        <5>. QED  BY <1>6, <5>2
      <4>4. \A j \in Places' : g_clients'[j].fd = x => j \in Places
        BY <1>5, <1>9, <3>2
      <4>5. \A j \in Places' : g_clients'[j].fd = x => j <= i
        BY <2>2, <4>2, <4>4
      <4>6. i \in Places' /\ g_clients'[i].fd = x /\ joined'[g_clients'[i].id + 1] = open'[x]
        BY <1>9, <2>2, <4>1, <4>2, <4>3
      <4>. QED  BY <4>5, <4>6
    <3>. QED  BY <3>1, <3>2
  <2>5. program' = "chat" => /\ \A i \in Places' : g_clients'[i].fd \in Kept'
                             /\ \A i, j \in Places' : g_clients'[i].fd = g_clients'[j].fd => i = j
    <3>. SUFFICES ASSUME program' = "chat"
                  PROVE  /\ \A i \in Places' : g_clients'[i].fd \in Kept'
                         /\ \A i, j \in Places' : g_clients'[i].fd = g_clients'[j].fd => i = j
      OBVIOUS
    <3>1. /\ \A i \in Places : g_clients[i].fd \in Kept
          /\ \A i, j \in Places : g_clients[i].fd = g_clients[j].fd => i = j
      BY <1>1, <2>1 DEF ListInv
    <3>2. \A i \in Places : g_clients'[i].fd \in Kept /\ g_clients'[i].fd # fd
      BY <1>8, <2>2, <3>1
    <3>3. \A i \in Places' : g_clients'[i].fd \in Kept'
      BY <1>5, <1>8, <1>9, <3>2
    <3>4. \A i, j \in Places : g_clients'[i].fd = g_clients'[j].fd => i = j
      BY <2>2, <3>1
    <3>5. \A i \in Places : g_clients'[i].fd # g_clients'[n + 1].fd
      BY <1>5, <3>2
    <3>6. \A i, j \in Places' : g_clients'[i].fd = g_clients'[j].fd => i = j
      BY <1>9, <3>4, <3>5
    <3>. QED  BY <3>3, <3>6
  <2>. QED  BY <2>3, <2>4, <2>5 DEF ListInv
<1>13. ScanInv'
  <2>1. sock_fd + 1 \in 0 .. NFDS + 1 /\ sock_fd + 1 # sock_fd
    BY Descriptors
  <2>2. \A x \in cpy_read : x \in Nat /\ at <= x
    <3>1. \A x \in cpy_read : x \in Nat
      BY Descriptors DEF IInv, ScanInv
    <3>. QED  BY <1>2, <3>1, Descriptors
  <2>3. \A x \in cpy_read : x \in DOMAIN open \cup {sock_fd}
    BY <1>2, <2>2 DEF IInv, ScanInv
  <2>4. /\ pc' \in {"select", "scan", "send"} /\ at' \in 0 .. NFDS + 1
        /\ cpy_read' \subseteq Fds \cup {sock_fd} /\ cpy_write' \subseteq Fds \cup {sock_fd}
    BY <1>1, <2>1 DEF IInv, ScanInv
  <2>. QED  BY <1>1, <1>7, <2>1, <2>3, <2>4 DEF ScanInv
<1>14. SendsInv'
  <2>1. msgs \in Seq(MessageType)
    BY <1>6, NoText, OneMessage DEF msgs
  <2>2. cpy_write \subseteq DOMAIN open \cup {sock_fd}
    BY <1>2 DEF IInv, ScanInv
  <2>3. \A i \in 1..Len(g_clients') : g_clients'[i].fd \in cpy_write \ {fd} => g_clients'[i].fd \in Kept'
    <3>1. \A i \in 1..Len(g_clients') : g_clients'[i].fd \in Fds
      <4>1. \A i \in 1..Len(g_clients') : g_clients'[i] \in [fd : Fds, id : Nat]
        BY <1>5, ElementOfSeq
      <4>. QED  BY <4>1
    <3>. QED  BY <1>2, <1>8, <2>2, <3>1, Descriptors
  <2>. DEFINE s == send_all(g_clients', fd, msgs)
  <2>4. s \in Seq([to : Fds, msg : MessageType]) /\ \A i \in 1..Len(s) : s[i].to \in Kept'
    BY <1>5, <2>1, <2>3, SendsGood
  <2>. HIDE DEF s
  <2>5. sends' = s
    BY <1>1 DEF s
  <2>6. rest' \in [close : SUBSET Fds, break : BOOLEAN] /\ rest'.close = {}
    BY <1>1
  <2>. QED  BY <1>1, <2>4, <2>5, <2>6 DEF SendsInv
<1>. QED  BY <1>10, <1>11, <1>12, <1>13, <1>14 DEF IInv

\* A list without its m-th entry.
LEMMA Removed ==
  ASSUME NEW T, NEW s \in Seq(T), NEW m \in 1..Len(s)
  PROVE  /\ RemoveAt(s, m) \in Seq(T) /\ Len(RemoveAt(s, m)) = Len(s) - 1
         /\ \A i \in 1..Len(s) : i < m => RemoveAt(s, m)[i] = s[i]
         /\ \A i \in 1..Len(s) : i > m => RemoveAt(s, m)[i - 1] = s[i]
<1>. DEFINE n == Len(s)
            a == SubSeq(s, 1, m - 1)
            b == SubSeq(s, m + 1, n)
<1>1. n \in Nat /\ \A i \in 1..n : s[i] \in T
  BY LenProperties, ElementOfSeq
<1>2. m \in Nat /\ 1 <= m /\ m <= n
  BY <1>1
<1>3. RemoveAt(s, m) = a \o b
  BY DEF RemoveAt
<1>4. a \in Seq(T) /\ Len(a) = m - 1 /\ \A i \in 1..(m - 1) : a[i] = s[i]
  <2>1. 1 \in Int /\ m - 1 \in Int /\ \A i \in 1..(m - 1) : s[i] \in T
    BY <1>1, <1>2
  <2>2. \A i \in 1..(m - 1) - 1 + 1 : a[i] = s[1 + i - 1]
    BY <2>1, SubSeqProperties
  <2>3. a \in Seq(T) /\ Len(a) = IF 1 <= m - 1 THEN (m - 1) - 1 + 1 ELSE 0
    BY <2>1, SubSeqProperties
  <2>. HIDE DEF a, n
  <2>4. Len(a) = m - 1
    BY <1>2, <2>3
  <2>5. \A i \in 1..(m - 1) : a[i] = s[i]
    <3>. TAKE i \in 1..(m - 1)
    <3>1. i \in 1..(m - 1) - 1 + 1 /\ 1 + i - 1 = i
      BY <1>2
    <3>. QED  BY <2>2, <3>1
  <2>. QED  BY <2>3, <2>4, <2>5
<1>5. b \in Seq(T) /\ Len(b) = n - m /\ \A i \in 1..(n - m) : b[i] = s[m + i]
  <2>1. m + 1 \in Int /\ n \in Int /\ \A i \in (m + 1)..n : s[i] \in T
    BY <1>1, <1>2
  <2>2. \A i \in 1..n - (m + 1) + 1 : b[i] = s[(m + 1) + i - 1]
    BY <2>1, SubSeqProperties
  <2>3. b \in Seq(T) /\ Len(b) = IF m + 1 <= n THEN n - (m + 1) + 1 ELSE 0
    BY <2>1, SubSeqProperties
  <2>. HIDE DEF b, n
  <2>4. Len(b) = n - m
    BY <1>1, <1>2, <2>3
  <2>5. \A i \in 1..(n - m) : b[i] = s[m + i]
    <3>. TAKE i \in 1..(n - m)
    <3>1. i \in 1..n - (m + 1) + 1 /\ (m + 1) + i - 1 = m + i
      BY <1>1, <1>2
    <3>. QED  BY <2>2, <3>1
  <2>. QED  BY <2>3, <2>4, <2>5
<1>. HIDE DEF a, b, n
<1>6. /\ a \o b \in Seq(T) /\ Len(a \o b) = Len(a) + Len(b)
      /\ \A i \in 1..Len(a) + Len(b) : (a \o b)[i] = IF i <= Len(a) THEN a[i] ELSE b[i - Len(a)]
  BY <1>4, <1>5, ConcatProperties
<1>7. Len(a \o b) = n - 1 /\ Len(a) + Len(b) = n - 1
  BY <1>1, <1>2, <1>4, <1>5, <1>6
<1>8. ASSUME NEW i \in 1..n, i < m
      PROVE  (a \o b)[i] = s[i]
  <2>1. i \in 1..Len(a) + Len(b) /\ i <= Len(a) /\ i \in 1..(m - 1)
    BY <1>1, <1>2, <1>4, <1>7, <1>8
  <2>. QED  BY <1>4, <1>6, <2>1
<1>9. ASSUME NEW i \in 1..n, i > m
      PROVE  (a \o b)[i - 1] = s[i]
  <2>1. i - 1 \in 1..Len(a) + Len(b) /\ ~(i - 1 <= Len(a)) /\ (i - 1) - Len(a) = i - m
    BY <1>1, <1>2, <1>4, <1>7, <1>9
  <2>2. i - m \in 1..(n - m) /\ m + (i - m) = i
    BY <1>1, <1>2, <1>9
  <2>3. (a \o b)[i - 1] = b[i - m]
    BY <1>6, <2>1
  <2>4. b[i - m] = s[i]
    BY <1>5, <2>2
  <2>. QED  BY <2>3, <2>4
<1>. QED  BY <1>3, <1>6, <1>7, <1>8, <1>9 DEF n

\* A peer is gone from the chat: its entry leaves the list before its descriptor is closed.
LEMMA LeavesInv ==
  ASSUME IInv, NEW fd \in Fds, Leaves(fd)
  PROVE  IInv'
<1>. DEFINE n    == Len(g_clients)
            m    == Min(Entries(fd))
            msgs == <<Message("left", get_id(fd), <<>>)>>
            At(i) == IF i < m THEN i ELSE i + 1
<1>1. /\ Scans(fd) /\ fd # sock_fd /\ program = "chat"
      /\ g_clients' = RemoveAt(g_clients, m)
      /\ sends' = send_all(g_clients', fd, msgs)
      /\ rest' = [close |-> {fd}, break |-> TRUE]
      /\ pc' = "send" /\ at' = fd + 1
      /\ UNCHANGED <<program, script, peer, inbox, unread, backlog, open, g_id, curr_sock,
                     cpy_read, cpy_write, str, tmp, stop, joined>>
  BY DEF Leaves, rm_client, net, copies, buffers, history
<1>2. /\ pc = "scan" /\ rest.close = {} /\ Kept = DOMAIN open /\ fd \in Kept /\ fd \in Nat
  BY <1>1, ScanAt
<1>3. /\ Kept' = Kept \ {fd}
  BY <1>1, <1>2 DEF Kept
<1>4. ListInv
  BY DEF IInv
<1>5. /\ \A i \in Places : g_clients[i].fd \in Kept
      /\ \A i, j \in Places : g_clients[i].fd = g_clients[j].fd => i = j
  BY <1>1, <1>4 DEF ListInv
<1>6. m \in Places /\ g_clients[m].fd = fd
  <2>1. PICK i \in Places : g_clients[i].fd = fd
    BY <1>2, <1>4 DEF ListInv
  <2>2. Entries(fd) # {} /\ Entries(fd) \in SUBSET Nat
    BY <2>1, ListIs
  <2>3. m \in Entries(fd)
    BY <2>2, MinIn
  <2>. QED  BY <2>3, ListIs
<1>. HIDE DEF m, msgs
<1>7. g_clients \in Seq([fd : Fds, id : Nat]) /\ n \in Nat /\ m \in 1..n
  BY <1>6, ListIs DEF IInv, TableInv, Places
<1>8. /\ g_clients' \in Seq([fd : Fds, id : Nat]) /\ Len(g_clients') = n - 1
      /\ \A i \in 1..n : i < m => g_clients'[i] = g_clients[i]
      /\ \A i \in 1..n : i > m => g_clients'[i - 1] = g_clients[i]
  BY <1>1, <1>7, Removed
<1>9. Places = 1..n /\ Places' = 1..(n - 1)
  BY <1>8 DEF Places
<1>10. \A i \in Places' : At(i) \in Places /\ At(i) # m /\ g_clients'[i] = g_clients[At(i)] /\ i \in Nat
  <2>. TAKE i \in Places'
  <2>1. CASE i < m
    BY <1>7, <1>8, <1>9, <2>1
  <2>2. CASE ~(i < m)
    <3>1. i + 1 \in 1..n /\ i + 1 > m /\ (i + 1) - 1 = i
      BY <1>7, <1>9, <2>2
    <3>. QED  BY <1>8, <1>9, <2>2, <3>1
  <2>. QED  BY <2>1, <2>2
<1>11. \A i, j \in Places' : /\ At(i) = At(j) => i = j
                             /\ At(i) <= At(j) => i <= j
  BY <1>7, <1>9
<1>12. \A i \in Places : i # m => \E k \in Places' : At(k) = i
  <2>. TAKE i \in Places
  <2>1. CASE i < m
    BY <1>7, <1>9, <2>1
  <2>2. CASE i > m
    <3>1. i - 1 \in Places' /\ At(i - 1) = i
      BY <1>7, <1>9, <2>2
    <3>. QED  BY <3>1
  <2>. QED  BY <1>7, <1>9, <2>1, <2>2
<1>. HIDE DEF At
<1>13. NetInv' /\ BufferInv'
  BY <1>1 DEF IInv, NetInv, BufferInv
<1>14. TableInv'
  BY <1>1, <1>8 DEF IInv, TableInv
<1>15. ListInv'
  <2>1. \A i \in Places' : g_clients'[i].id < g_id'
    BY <1>1, <1>4, <1>10 DEF ListInv
  <2>2. ASSUME NEW x \in Kept'
        PROVE  \E i \in Places' :
                 /\ g_clients'[i].fd = x /\ joined'[g_clients'[i].id + 1] = open'[x]
                 /\ \A j \in Places' : g_clients'[j].fd = x => j <= i
    <3>1. PICK i \in Places :
            /\ g_clients[i].fd = x /\ joined[g_clients[i].id + 1] = open[x]
            /\ \A j \in Places : g_clients[j].fd = x => j <= i
      BY <1>3, <1>4 DEF ListInv
    <3>2. i # m
      BY <1>3, <1>6, <3>1
    <3>3. PICK k \in Places' : At(k) = i
      BY <1>12, <3>2
    <3>4. g_clients'[k] = g_clients[i]
      BY <1>10, <3>3
    <3>5. \A j \in Places' : g_clients'[j].fd = x => j <= k
      BY <1>10, <1>11, <3>1, <3>3
    <3>. QED  BY <1>1, <3>1, <3>4, <3>5
  <2>3. \A i \in Places' : g_clients'[i].fd \in Kept'
    BY <1>3, <1>5, <1>6, <1>10
  <2>4. \A i, j \in Places' : g_clients'[i].fd = g_clients'[j].fd => i = j
    BY <1>5, <1>10, <1>11
  <2>. QED  BY <2>1, <2>2, <2>3, <2>4 DEF ListInv
<1>16. ScanInv'
  <2>1. fd + 1 \in 0 .. NFDS + 1 /\ fd + 1 # sock_fd
    BY <1>2, Descriptors
  <2>. QED  BY <1>1, <2>1 DEF IInv, ScanInv
<1>17. SendsInv'
  <2>1. msgs \in Seq(MessageType)
    BY IdType, NoText, OneMessage DEF msgs
  <2>2. \A i \in 1..Len(g_clients') : g_clients'[i].fd \in cpy_write \ {fd} => g_clients'[i].fd \in Kept'
    BY <1>3, <1>5, <1>8, <1>9, <1>10
  <2>. DEFINE s == send_all(g_clients', fd, msgs)
  <2>3. s \in Seq([to : Fds, msg : MessageType]) /\ \A i \in 1..Len(s) : s[i].to \in Kept'
    BY <1>8, <2>1, <2>2, SendsGood
  <2>. HIDE DEF s
  <2>4. sends' = s
    BY <1>1 DEF s
  <2>5. rest' \in [close : SUBSET Fds, break : BOOLEAN] /\ rest'.break
    BY <1>1
  <2>. QED  BY <1>1, <2>3, <2>4, <2>5 DEF SendsInv
<1>. QED  BY <1>13, <1>14, <1>15, <1>16, <1>17 DEF IInv

\* A peer is gone from the echo: close and FD_CLR, the entry stays in the list.
LEMMA LeavesEchoInv ==
  ASSUME IInv, NEW fd \in Fds, LeavesEcho(fd)
  PROVE  IInv'
<1>1. /\ Scans(fd) /\ fd # sock_fd /\ program = "echo"
      /\ curr_sock' = curr_sock \ {fd}
      /\ open' = Without(open, {fd})
      /\ at' = fd + 1
      /\ UNCHANGED <<program, script, peer, inbox, unread, backlog, g_clients, g_id, cpy_read, cpy_write,
                     str, tmp, pc, sends, rest, stop, joined>>
  BY DEF LeavesEcho, net, copies, buffers, history
<1>2. /\ pc = "scan" /\ rest.close = {} /\ Kept = DOMAIN open /\ fd \in Nat /\ at <= fd /\ sends = <<>>
  BY <1>1, ScanAt
<1>3. DOMAIN open' = DOMAIN open \ {fd} /\ \A x \in DOMAIN open' : open'[x] = open[x]
  BY <1>1 DEF Without
<1>4. Kept' = Kept \ {fd}
  BY <1>1, <1>2, <1>3 DEF Kept
<1>5. NetInv' /\ BufferInv'
  BY <1>1 DEF IInv, NetInv, BufferInv
<1>6. TableInv'
  BY <1>1, <1>3, Descriptors DEF IInv, TableInv
<1>7. ListInv'
  <2>1. ListInv /\ Places' = Places /\ program' # "chat"
    BY <1>1 DEF IInv, Places
  <2>2. \A x \in Kept' : x \in Kept /\ open'[x] = open[x]
    BY <1>2, <1>3, <1>4
  <2>. QED  BY <1>1, <2>1, <2>2 DEF ListInv
<1>8. ScanInv'
  <2>1. fd + 1 \in 0 .. NFDS + 1 /\ fd + 1 # sock_fd
    BY <1>2, Descriptors
  <2>2. \A x \in cpy_read : x >= fd + 1 => x \in DOMAIN open' \cup {sock_fd}
    <3>. TAKE x \in cpy_read
    <3>. HAVE x >= fd + 1
    <3>1. x \in Nat /\ at \in Nat
      BY Descriptors DEF IInv, ScanInv
    <3>2. x >= at /\ x # fd
      BY <1>2, <3>1
    <3>3. x \in DOMAIN open \cup {sock_fd}
      BY <1>2, <3>2 DEF IInv, ScanInv
    <3>. QED  BY <1>3, <3>2, <3>3
  <2>. QED  BY <1>1, <1>2, <2>1, <2>2 DEF IInv, ScanInv
<1>9. SendsInv'
  BY <1>1, <1>2, EmptySeq DEF IInv, SendsInv
<1>. QED  BY <1>5, <1>6, <1>7, <1>8, <1>9 DEF IInv

\* The messages about some lines.
LEMMA SaidType ==
  ASSUME NEW lines \in Seq(Seq(Letters)), NEW id \in Nat \cup {-1}
  PROVE  [i \in DOMAIN lines |-> Message("said", id, lines[i])] \in Seq(MessageType)
<1>1. Len(lines) \in Nat /\ DOMAIN lines = 1..Len(lines) /\ \A i \in 1..Len(lines) : lines[i] \in Seq(Letters)
  BY LenProperties, ElementOfSeq
<1>2. \A i \in 1..Len(lines) : Message("said", id, lines[i]) \in MessageType
  BY <1>1, OneMessage
<1>. QED  BY <1>1, <1>2

\* A peer of the chat: what ex_msg sends goes to descriptors still listed.
LEMMA SaysInv ==
  ASSUME IInv, NEW fd \in Fds, Says(fd)
  PROVE  IInv'
<1>. DEFINE c    == open[fd]
            ex   == ex_msg(inbox[c])
            msgs == [i \in DOMAIN ex.sent |-> Message("said", get_id(fd), ex.sent[i])]
<1>1. /\ Scans(fd) /\ fd # sock_fd /\ program = "chat"
      /\ tmp' = Over(ex.line, ex.old)
      /\ sends' = send_all(g_clients, fd, msgs)
      /\ inbox' = [inbox EXCEPT ![c] = <<>>]
      /\ rest' = [close |-> {}, break |-> FALSE]
      /\ pc' = "send" /\ at' = fd + 1
      /\ UNCHANGED <<program, script, peer, unread, backlog, open, g_clients, g_id, curr_sock,
                     cpy_read, cpy_write, str, stop, joined>>
  BY DEF Says, table, copies
<1>2. /\ pc = "scan" /\ rest.close = {} /\ Kept = DOMAIN open /\ fd \in DOMAIN open /\ fd \in Nat /\ at <= fd
  BY <1>1, ScanAt
<1>3. c \in Conns /\ inbox[c] \in Seq(Letters)
  BY <1>2 DEF IInv, TableInv, NetInv
<1>4. ex \in Ex
  <2>1. [line |-> <<>>, old |-> tmp, sent |-> <<>>] \in Ex
    BY EmptySeq DEF IInv, BufferInv, Ex
  <2>. QED  BY <1>3, <2>1, CopiedType DEF ex_msg
<1>. HIDE DEF c, ex
<1>5. ex.line \in Seq(Letters \ {"NL"}) /\ ex.old \in Seq(Letters \ {"NL"}) /\ ex.sent \in Seq(Seq(Letters))
  BY <1>4 DEF Ex
<1>6. Over(ex.line, ex.old) \in Seq(Letters \ {"NL"})
  BY <1>5, OverType
<1>7. msgs \in Seq(MessageType)
  BY <1>5, IdType, SaidType
<1>. HIDE DEF msgs
<1>8. Kept' = Kept
  BY <1>1, <1>2 DEF Kept
<1>9. NetInv'
  <2>1. inbox' \in [Conns -> Seq(Letters)]
    BY <1>1, NoText DEF IInv, NetInv
  <2>. QED  BY <1>1, <2>1 DEF IInv, NetInv
<1>10. BufferInv'
  BY <1>1, <1>6 DEF IInv, BufferInv
<1>11. TableInv' /\ ListInv'
  BY <1>1, <1>2, ListStays DEF IInv, TableInv
<1>12. ScanInv'
  <2>1. fd + 1 \in 0 .. NFDS + 1 /\ fd + 1 # sock_fd
    BY <1>2, Descriptors
  <2>2. \A x \in cpy_read : x >= fd + 1 => x \in DOMAIN open \cup {sock_fd}
    <3>. TAKE x \in cpy_read
    <3>. HAVE x >= fd + 1
    <3>1. x \in Nat /\ at \in Nat
      BY Descriptors DEF IInv, ScanInv
    <3>2. x >= at
      BY <1>2, <3>1
    <3>. QED  BY <1>2, <3>2 DEF IInv, ScanInv
  <2>. QED  BY <1>1, <2>1, <2>2 DEF IInv, ScanInv
<1>13. SendsInv'
  <2>1. g_clients \in Seq([fd : Fds, id : Nat])
    BY DEF IInv, TableInv
  <2>2. \A i \in 1..Len(g_clients) : g_clients[i].fd \in Kept
    BY <1>1 DEF IInv, ListInv, Places
  <2>. DEFINE s == send_all(g_clients, fd, msgs)
  <2>3. s \in Seq([to : Fds, msg : MessageType]) /\ \A i \in 1..Len(s) : s[i].to \in Kept
    BY <1>7, <2>1, <2>2, SendsGood
  <2>. HIDE DEF s
  <2>4. sends' = s
    BY <1>1 DEF s
  <2>5. rest' \in [close : SUBSET Fds, break : BOOLEAN] /\ rest'.close = {}
    BY <1>1
  <2>. QED  BY <1>1, <1>8, <2>3, <2>4, <2>5 DEF SendsInv
<1>. QED  BY <1>9, <1>10, <1>11, <1>12, <1>13 DEF IInv

\* What a peer of the echo sent is sent back to descriptors that are open.
LEMMA SaysEchoInv ==
  ASSUME IInv, NEW fd \in Fds, SaysEcho(fd)
  PROVE  IInv'
<1>. DEFINE c == open[fd]
            s == [to |-> fd, msg |-> Message("echo", -1, str')]
<1>1. /\ Scans(fd) /\ fd # sock_fd
      /\ str' = Over(inbox[c], str)
      /\ sends' = <<s>>
      /\ inbox' = [inbox EXCEPT ![c] = <<>>]
      /\ rest' = [close |-> {}, break |-> FALSE]
      /\ pc' = "send" /\ at' = fd + 1
      /\ UNCHANGED <<program, script, peer, unread, backlog, open, g_clients, g_id, curr_sock,
                     cpy_read, cpy_write, tmp, stop, joined>>
  BY DEF SaysEcho, table, copies, history
<1>2. /\ pc = "scan" /\ rest.close = {} /\ Kept = DOMAIN open /\ fd \in DOMAIN open /\ fd \in Nat /\ at <= fd
  BY <1>1, ScanAt
<1>3. c \in Conns /\ inbox[c] \in Seq(Letters) /\ str \in Seq(Letters)
  BY <1>2 DEF IInv, TableInv, NetInv, BufferInv
<1>4. str' \in Seq(Letters)
  BY <1>1, <1>3, OverType
<1>5. s \in [to : Fds, msg : MessageType] /\ s.to = fd
  <2>1. Message("echo", -1, str') \in MessageType
    BY <1>4, OneMessage
  <2>. QED  BY <2>1
<1>. HIDE DEF c, s
<1>6. Kept' = Kept
  BY <1>1, <1>2 DEF Kept
<1>7. NetInv'
  <2>1. inbox' \in [Conns -> Seq(Letters)]
    BY <1>1, NoText DEF IInv, NetInv
  <2>. QED  BY <1>1, <2>1 DEF IInv, NetInv
<1>8. BufferInv'
  BY <1>1, <1>4 DEF IInv, BufferInv
<1>9. TableInv' /\ ListInv'
  BY <1>1, <1>2, ListStays DEF IInv, TableInv
<1>10. ScanInv'
  <2>1. fd + 1 \in 0 .. NFDS + 1 /\ fd + 1 # sock_fd
    BY <1>2, Descriptors
  <2>2. \A x \in cpy_read : x >= fd + 1 => x \in DOMAIN open \cup {sock_fd}
    <3>. TAKE x \in cpy_read
    <3>. HAVE x >= fd + 1
    <3>1. x \in Nat /\ at \in Nat
      BY Descriptors DEF IInv, ScanInv
    <3>2. x >= at
      BY <1>2, <3>1
    <3>. QED  BY <1>2, <3>2 DEF IInv, ScanInv
  <2>. QED  BY <1>1, <2>1, <2>2 DEF IInv, ScanInv
<1>11. SendsInv'
  <2>1. sends' \in Seq([to : Fds, msg : MessageType]) /\ Len(sends') = 1 /\ sends'[1] = s
    BY <1>1, <1>5
  <2>2. rest' \in [close : SUBSET Fds, break : BOOLEAN] /\ rest'.close = {}
    BY <1>1
  <2>3. \A i \in 1..Len(sends') : sends'[i].to \in Kept'
    BY <1>2, <1>5, <1>6, <2>1
  <2>. QED  BY <1>1, <2>1, <2>2, <2>3 DEF SendsInv
<1>. QED  BY <1>7, <1>8, <1>9, <1>10, <1>11 DEF IInv

\* One send of send_all takes the next of the descriptors.
LEMMA SendInv ==
  ASSUME IInv, Send
  PROVE  IInv'
<1>. DEFINE c == open[Head(sends).to]
<1>1. /\ pc = "send" /\ sends # <<>> /\ sends' = Tail(sends)
      /\ UNCHANGED unread \/ (unread[c] < ROOM /\ unread' = [unread EXCEPT ![c] = @ + 1])
      /\ UNCHANGED <<program, script, peer, inbox, backlog, open, g_clients, g_id, curr_sock,
                     cpy_read, cpy_write, str, tmp, pc, at, rest, stop, joined>>
  BY DEF Send, Running, table, copies, buffers
<1>2. sends \in Seq([to : Fds, msg : MessageType]) /\ Len(sends) \in Nat \ {0}
      /\ \A i \in 1..Len(sends) : sends[i].to \in Kept
  BY <1>1, EmptySeq DEF IInv, SendsInv
<1>3. sends' \in Seq([to : Fds, msg : MessageType]) /\ Len(sends') = Len(sends) - 1
      /\ \A i \in 1..Len(sends') : sends'[i] = sends[i + 1]
  BY <1>1, <1>2, HeadTailProperties
<1>4. \A i \in 1..Len(sends') : sends'[i].to \in Kept
  <2>. TAKE i \in 1..Len(sends')
  <2>1. i + 1 \in 1..Len(sends)
    BY <1>2, <1>3
  <2>. QED  BY <1>2, <1>3, <2>1
<1>5. c \in Conns
  <2>1. Head(sends) = sends[1] /\ 1 \in 1..Len(sends)
    BY <1>2, HeadTailProperties
  <2>. QED  BY <1>2, <2>1 DEF IInv, TableInv, Kept
<1>. HIDE DEF c
<1>6. unread' \in [Conns -> 0..ROOM]
  <2>1. unread \in [Conns -> 0..ROOM]
    BY DEF IInv, NetInv
  <2>2. unread[c] < ROOM => unread[c] + 1 \in 0..ROOM
    BY <1>5, <2>1, Descriptors
  <2>. QED  BY <1>1, <1>5, <2>1, <2>2
<1>7. NetInv'
  BY <1>1, <1>6 DEF IInv, NetInv
<1>8. BufferInv' /\ TableInv' /\ ListInv' /\ ScanInv'
  BY <1>1, ListStays DEF IInv, BufferInv, TableInv, ScanInv
<1>9. SendsInv'
  BY <1>1, <1>3, <1>4 DEF IInv, SendsInv, Kept
<1>. QED  BY <1>7, <1>8, <1>9 DEF IInv

\* When the sends are over the handler goes on to what it left for after them: the close.
LEMMA SendsEndInv ==
  ASSUME IInv, SendsEnd
  PROVE  IInv'
<1>1. /\ pc = "send" /\ sends = <<>>
      /\ open' = Without(open, rest.close)
      /\ curr_sock' = curr_sock \ rest.close
      /\ rest' = [rest EXCEPT !.close = {}]
      /\ pc' = (IF rest.break THEN "select" ELSE "scan")
      /\ UNCHANGED <<program, script, peer, inbox, unread, backlog, g_clients, g_id, cpy_read, cpy_write,
                     str, tmp, at, sends, stop, joined>>
  BY DEF SendsEnd, Running, net, copies, buffers, history
<1>2. DOMAIN open' = Kept /\ \A x \in Kept : open'[x] = open[x]
  BY <1>1 DEF Without, Kept
<1>3. /\ rest \in [close : SUBSET Fds, break : BOOLEAN]
      /\ rest' \in [close : SUBSET Fds, break : BOOLEAN] /\ rest'.close = {} /\ rest'.break = rest.break
      /\ rest.close # {} => rest.break
  BY <1>1 DEF IInv, SendsInv
<1>4. Kept' = Kept
  BY <1>2, <1>3 DEF Kept
<1>5. NetInv' /\ BufferInv'
  BY <1>1 DEF IInv, NetInv, BufferInv
<1>6. TableInv'
  <2>1. curr_sock' = {sock_fd} \cup DOMAIN open'
    BY <1>1, <1>2, <1>3, Descriptors DEF IInv, TableInv, Kept
  <2>. QED  BY <1>1, <1>2, <2>1 DEF IInv, TableInv, Kept
<1>7. ListInv'
  <2>1. ListInv /\ Places' = Places
    BY <1>1 DEF IInv, Places
  <2>. QED  BY <1>1, <1>2, <1>4, <2>1 DEF ListInv
<1>8. ScanInv'
  <2>1. ScanInv /\ at' # sock_fd
    BY <1>1 DEF IInv, ScanInv
  <2>2. CASE rest.break
    BY <1>1, <2>1, <2>2 DEF ScanInv
  <2>3. CASE ~rest.break
    <3>1. DOMAIN open' = DOMAIN open
      BY <1>2, <1>3, <2>3 DEF Kept
    <3>. QED  BY <1>1, <2>1, <2>3, <3>1 DEF ScanInv
  <2>. QED  BY <2>2, <2>3
<1>9. SendsInv'
  BY <1>1, <1>3, EmptySeq DEF IInv, SendsInv
<1>. QED  BY <1>5, <1>6, <1>7, <1>8, <1>9 DEF IInv

\* Every action keeps the invariant.
LEMMA IInvStep == IInv /\ [Next]_vars => IInv'
<1>. SUFFICES ASSUME IInv, [Next]_vars PROVE IInv'
  OBVIOUS
<1>1. CASE Peers
  BY <1>1, PeersInv
<1>2. CASE Select
  BY <1>2, SelectInv
<1>3. CASE ScanEnds
  BY <1>3, ScanEndsInv
<1>4. CASE Accept
  BY <1>4, AcceptInv
<1>5. CASE AcceptFails \/ SendFails
  BY <1>5, EndInv
<1>6. CASE \E fd \in Fds : Leaves(fd)
  BY <1>6, LeavesInv
<1>7. CASE \E fd \in Fds : LeavesEcho(fd)
  BY <1>7, LeavesEchoInv
<1>8. CASE \E fd \in Fds : Says(fd)
  BY <1>8, SaysInv
<1>9. CASE \E fd \in Fds : SaysEcho(fd)
  BY <1>9, SaysEchoInv
<1>10. CASE Send
  BY <1>10, SendInv
<1>11. CASE SendsEnd
  BY <1>11, SendsEndInv
<1>12. CASE UNCHANGED vars
  <2>1. UNCHANGED <<program, script, peer, inbox, unread, backlog, open, g_clients, g_id, curr_sock,
                    cpy_read, cpy_write, str, tmp, pc, at, sends, rest, stop, joined>>
    BY <1>12 DEF vars, net, process, table, copies, buffers, history
  <2>2. NetInv' /\ BufferInv' /\ TableInv' /\ ScanInv'
    BY <2>1 DEF IInv, NetInv, BufferInv, TableInv, ScanInv
  <2>3. ListInv'
    BY <2>1, ListStays DEF IInv
  <2>4. SendsInv'
    BY <2>1 DEF IInv, SendsInv, Kept
  <2>. QED  BY <2>2, <2>3, <2>4 DEF IInv
<1>. QED  BY <1>1, <1>2, <1>3, <1>4, <1>5, <1>6, <1>7, <1>8, <1>9, <1>10, <1>11, <1>12 DEF Next, Server

\* Under the invariant every variable has its type.
LEMMA IInvTypes == IInv => TypeOK
<1>. SUFFICES ASSUME IInv PROVE TypeOK
  OBVIOUS
<1>1. DOMAIN open \subseteq Fds /\ Range(open) \subseteq Conns
  BY DEF IInv, TableInv, Range
<1>2. g_clients \in Seq([fd : Fds, id : Nat]) /\ g_id \in Nat
  BY LenProperties DEF IInv, TableInv
<1>3. {curr_sock, cpy_read, cpy_write} \subseteq SUBSET (Fds \cup {sock_fd})
  BY <1>1 DEF IInv, TableInv, ScanInv
<1>. QED  BY <1>1, <1>2, <1>3 DEF IInv, NetInv, BufferInv, ScanInv, SendsInv, TypeOK

\* An entry for each number: as many entries as numbers.
LEMMA OneEntryEach ==
  ASSUME IInv, program = "chat"
  PROVE  Len(g_clients) = Cardinality({g_clients[i].fd : i \in Places})
<1>. DEFINE n == Len(g_clients)
            f == [i \in 1..n |-> g_clients[i].fd]
            S == {g_clients[i].fd : i \in 1..n}
<1>1. n \in Nat
  BY ListIs
<1>2. \A i, j \in 1..n : g_clients[i].fd = g_clients[j].fd => i = j
  BY DEF IInv, ListInv, Places
<1>3. f \in Bijection(1..n, S)
  BY <1>2 DEF Bijection, Injection, Surjection, IsInjective
<1>. HIDE DEF f, S, n
<1>4. ExistsBijection(1..n, S)
  BY <1>3 DEF ExistsBijection
<1>5. Cardinality(S) = n
  BY <1>1, <1>4, FS_CountingElements
<1>. QED  BY <1>5 DEF S, n, Places

\* Under the invariant the table agrees: the part of TableAgrees about the newest
\* entry is ListInv's, once Max is known to pick that entry.
LEMMA IInvTable == IInv => TableAgrees
<1>. SUFFICES ASSUME IInv PROVE TableAgrees
  OBVIOUS
<1>. DEFINE listed == {e.fd : e \in Range(g_clients)}
            newest(fd) == g_clients[Max(Entries(fd))]
<1>1. listed = {g_clients[i].fd : i \in Places}
  BY ListIs DEF Range
<1>2. ListInv
  BY DEF IInv
<1>3. curr_sock = {sock_fd} \cup DOMAIN open
  BY DEF IInv, TableInv
<1>4. DOMAIN open \subseteq listed \cup rest.close
  BY <1>1, <1>2 DEF ListInv, Kept
<1>5. ASSUME NEW fd \in Kept
      PROVE  joined[newest(fd).id + 1] = open[fd]
  <2>1. PICK i \in Places :
          /\ g_clients[i].fd = fd /\ joined[g_clients[i].id + 1] = open[fd]
          /\ \A j \in Places : g_clients[j].fd = fd => j <= i
    BY <1>2 DEF ListInv
  <2>2. /\ Entries(fd) \in SUBSET Nat /\ i \in Entries(fd)
        /\ \A j \in Entries(fd) : j <= i
    BY <2>1, ListIs
  <2>3. Max(Entries(fd)) = i
    BY <2>2, MaxIs
  <2>. QED  BY <2>1, <2>3
<1>6. program = "chat" => listed = Kept
  <2>. SUFFICES ASSUME program = "chat" PROVE listed = Kept
    OBVIOUS
  <2>1. listed \subseteq Kept
    BY <1>1, <1>2 DEF ListInv
  <2>2. Kept \subseteq listed
    BY <1>4 DEF Kept
  <2>. QED  BY <2>1, <2>2
<1>7. program = "chat" => Len(g_clients) = Cardinality(listed)
  BY <1>1, OneEntryEach
<1>8. TypeOK
  BY IInvTypes
<1>. QED  BY <1>3, <1>4, <1>5, <1>6, <1>7, <1>8 DEF TableAgrees, Kept

-----------------------------------------------------------------------------
\* The state keeps its types: no peer gets more than there is room for, tmp never
\* holds a line break between two calls of ex_msg, and whatever is sent goes to a
\* descriptor.
THEOREM TypeCorrect == Spec => []TypeOK
<1>. QED  BY IInvInit, IInvStep, IInvTypes, PTL DEF Spec

\* The list of clients, the open descriptors and the watched ones agree, with the
\* numbers of add_client_to_list, in both programs and though descriptors are used
\* again; in the chat no descriptor is listed twice.
THEOREM TableAlwaysAgrees == Spec => []TableAgrees
<1>. QED  BY IInvInit, IInvStep, IInvTable, PTL DEF Spec

-----------------------------------------------------------------------------
\* What is sent to whom.

AnySend == [to : Fds, msg : MessageType]

\* f has what goes to these descriptors of the first 0, 1, ... sends.
Picks(f, list, these) ==
  /\ f[0] = <<>>
  /\ \A i \in 1..Len(list) :
       f[i] = IF list[i].to \in these THEN Append(f[i - 1], list[i].msg) ELSE f[i - 1]

\* Whatever picks the messages send by send finds the ones Addressed does.
LEMMA AddressedIs ==
  ASSUME NEW list \in Seq(AnySend), NEW these, NEW f \in [0..Len(list) -> Seq(MessageType)],
         Picks(f, list, these)
  PROVE  Addressed(list, these) = f[Len(list)]
<1>. DEFINE n     == Len(list)
            found == CHOOSE g : g = [i \in 0..n |->
                       CASE i = 0                               -> <<>>
                         [] i # 0 /\ list[i].to \in these -> Append(g[i - 1], list[i].msg)
                         [] OTHER                               -> g[i - 1]]
            P     == {i \in 0..n : found[i] = f[i]}
<1>1. n \in Nat
  BY LenProperties
<1>2. Addressed(list, these) = found[n]
  BY DEF Addressed
<1>. HIDE DEF n
<1>3. f = [i \in 0..n |->
             CASE i = 0                               -> <<>>
               [] i # 0 /\ list[i].to \in these -> Append(f[i - 1], list[i].msg)
               [] OTHER                               -> f[i - 1]]
  <2>1. \A i \in 0..n : f[i] = CASE i = 0                               -> <<>>
                                 [] i # 0 /\ list[i].to \in these -> Append(f[i - 1], list[i].msg)
                                 [] OTHER                               -> f[i - 1]
    <3>. TAKE i \in 0..n
    <3>1. CASE i = 0
      BY <3>1 DEF Picks
    <3>2. CASE i # 0
      <4>1. i \in 1..n
        BY <1>1, <3>2
      <4>2. f[i] = IF list[i].to \in these THEN Append(f[i - 1], list[i].msg) ELSE f[i - 1]
        BY <4>1 DEF Picks, n
      <4>. QED  BY <3>2, <4>2
    <3>. QED  BY <3>1, <3>2
  <2>2. f \in [0..n -> Seq(MessageType)]
    BY DEF n
  <2>. QED  BY <2>1, <2>2
<1>4. found = [i \in 0..n |->
             CASE i = 0                               -> <<>>
               [] i # 0 /\ list[i].to \in these -> Append(found[i - 1], list[i].msg)
               [] OTHER                               -> found[i - 1]]
  BY <1>3
<1>. HIDE DEF found
<1>5. 0 \in P
  BY <1>1, <1>3, <1>4
<1>6. ASSUME NEW i \in 1..n, i - 1 \in P
      PROVE  i \in P
  <2>1. i \in 0..n /\ i # 0
    BY <1>1
  <2>2. found[i] = IF list[i].to \in these THEN Append(found[i - 1], list[i].msg) ELSE found[i - 1]
    BY <1>4, <2>1
  <2>3. f[i] = IF list[i].to \in these THEN Append(f[i - 1], list[i].msg) ELSE f[i - 1]
    BY DEF Picks, n
  <2>4. found[i - 1] = f[i - 1]
    BY <1>6
  <2>. QED  BY <2>1, <2>2, <2>3, <2>4
<1>7. n \in 0..n
  BY <1>1
<1>. HIDE DEF P
<1>8. n \in P
  BY <1>1, <1>5, <1>6, <1>7, UpTo
<1>. QED  BY <1>2, <1>8 DEF P, n

\* And there is always something that picks them.
LEMMA Picked ==
  ASSUME NEW list \in Seq(AnySend), NEW these
  PROVE  \E f \in [0..Len(list) -> Seq(MessageType)] : Picks(f, list, these)
<1>. DEFINE n    == Len(list)
            T    == Seq(MessageType)
            step == [i \in 1..n |-> [x \in T |-> IF list[i].to \in these THEN Append(x, list[i].msg) ELSE x]]
<1>1. n \in Nat /\ \A i \in 1..n : list[i] \in AnySend
  BY LenProperties, ElementOfSeq
<1>2. \A i \in 1..n : list[i].msg \in MessageType
  BY <1>1 DEF AnySend
<1>3. \A x \in T, i \in 1..n : (IF list[i].to \in these THEN Append(x, list[i].msg) ELSE x) \in T
  BY <1>2
<1>4. <<>> \in T
  OBVIOUS
<1>. HIDE DEF n, T
<1>5. step \in Steps(n, T)
  BY <1>3 DEF Steps
<1>. HIDE DEF step
<1>6. PICK f \in [0..n -> T] : Follows(f, <<>>, step, n)
  BY <1>1, <1>4, <1>5, StepByStep
<1>7. ASSUME NEW i \in 1..n
      PROVE  f[i] = IF list[i].to \in these THEN Append(f[i - 1], list[i].msg) ELSE f[i - 1]
  <2>1. i - 1 \in 0..n
    BY <1>1
  <2>2. f[i - 1] \in T /\ f[i] = step[i][f[i - 1]]
    BY <1>6, <2>1 DEF Follows
  <2>. QED  BY <2>2 DEF step
<1>8. Picks(f, list, these)
  BY <1>6, <1>7 DEF Picks, Follows, n
<1>. QED  BY <1>6, <1>8 DEF n, T

\* What goes to them is a sequence of messages.
LEMMA AddressedType ==
  ASSUME NEW list \in Seq(AnySend), NEW these
  PROVE  Addressed(list, these) \in Seq(MessageType)
<1>1. PICK f \in [0..Len(list) -> Seq(MessageType)] : Picks(f, list, these)
  BY Picked
<1>2. Addressed(list, these) = f[Len(list)]
  BY <1>1, AddressedIs
<1>3. Len(list) \in 0..Len(list)
  BY LenProperties
<1>. QED  BY <1>1, <1>2, <1>3

\* If none is for them, nothing goes to them.
LEMMA NoneAddressed ==
  ASSUME NEW list \in Seq(AnySend), NEW these, \A i \in 1..Len(list) : list[i].to \notin these
  PROVE  Addressed(list, these) = <<>>
<1>. DEFINE f == [i \in 0..Len(list) |-> <<>>]
<1>1. Len(list) \in Nat
  BY LenProperties
<1>2. f \in [0..Len(list) -> Seq(MessageType)]
  OBVIOUS
<1>3. Picks(f, list, these)
  BY <1>1 DEF Picks
<1>4. Addressed(list, these) = f[Len(list)]
  BY <1>2, <1>3, AddressedIs
<1>. QED  BY <1>1, <1>4

\* If one is, its message does.
LEMMA OneAddressed ==
  ASSUME NEW list \in Seq(AnySend), NEW these, NEW k \in 1..Len(list), list[k].to \in these,
         \A i \in 1..Len(list) : list[i].to \in these => i = k
  PROVE  Addressed(list, these) = <<list[k].msg>>
<1>. DEFINE n == Len(list)
            m == list[k].msg
            f == [i \in 0..n |-> IF i < k THEN <<>> ELSE <<m>>]
<1>1. n \in Nat /\ k \in 1..n
  BY LenProperties
<1>2. m \in MessageType
  <2>1. list[k] \in AnySend
    BY ElementOfSeq
  <2>. QED  BY <2>1 DEF AnySend
<1>. HIDE DEF m
<1>3. f \in [0..n -> Seq(MessageType)]
  BY <1>2
<1>4. ASSUME NEW i \in 1..n
      PROVE  f[i] = IF list[i].to \in these THEN Append(f[i - 1], list[i].msg) ELSE f[i - 1]
  <2>1. i \in 0..n /\ i - 1 \in 0..n
    BY <1>1
  <2>2. CASE i = k
    <3>1. f[i - 1] = <<>> /\ f[i] = <<m>>
      BY <1>1, <2>1, <2>2
    <3>2. Append(<<>>, m) = <<m>>
      OBVIOUS
    <3>. QED  BY <2>2, <3>1, <3>2 DEF m
  <2>3. CASE i # k
    <3>1. list[i].to \notin these
      BY <2>3
    <3>2. i < k <=> i - 1 < k
      BY <1>1, <2>3
    <3>3. f[i] = f[i - 1]
      BY <2>1, <3>2
    <3>. QED  BY <3>1, <3>3
  <2>. QED  BY <2>2, <2>3
<1>5. f[0] = <<>> /\ f[n] = <<m>>
  BY <1>1
<1>. HIDE DEF f
<1>6. Picks(f, list, these)
  BY <1>4, <1>5 DEF Picks
<1>7. Addressed(list, these) = f[n]
  BY <1>3, <1>6, AddressedIs
<1>. QED  BY <1>5, <1>7 DEF m

\* Appending to the second of two sequences.
LEMMA AppendBehind ==
  ASSUME NEW T, NEW s \in Seq(T), NEW t \in Seq(T), NEW x \in T
  PROVE  s \o Append(t, x) = Append(s \o t, x)
<1>1. Append(t, x) = t \o <<x>> /\ Append(s \o t, x) = (s \o t) \o <<x>>
  BY ConcatProperties, AppendIsConcat
<1>. QED  BY <1>1, ConcatAssociative

\* First comes what is for them in the first part.
LEMMA AddressedConcat ==
  ASSUME NEW a \in Seq(AnySend), NEW b \in Seq(AnySend), NEW these
  PROVE  Addressed(a \o b, these) = Addressed(a, these) \o Addressed(b, these)
<1>. DEFINE n == Len(a)
            m == Len(b)
<1>1. /\ n \in Nat /\ m \in Nat /\ a \o b \in Seq(AnySend) /\ Len(a \o b) = n + m
      /\ \A i \in 1..n + m : (a \o b)[i] = IF i <= n THEN a[i] ELSE b[i - n]
  BY LenProperties, ConcatProperties
<1>2. PICK f \in [0..n -> Seq(MessageType)] : Picks(f, a, these)
  BY Picked
<1>3. PICK g \in [0..m -> Seq(MessageType)] : Picks(g, b, these)
  BY Picked
<1>4. Addressed(a, these) = f[n] /\ Addressed(b, these) = g[m]
  BY <1>2, <1>3, AddressedIs
<1>5. /\ f[0] = <<>> /\ g[0] = <<>>
      /\ \A i \in 1..n : f[i] = IF a[i].to \in these THEN Append(f[i - 1], a[i].msg) ELSE f[i - 1]
      /\ \A i \in 1..m : g[i] = IF b[i].to \in these THEN Append(g[i - 1], b[i].msg) ELSE g[i - 1]
  BY <1>2, <1>3 DEF Picks
<1>6. /\ f[n] \in Seq(MessageType) /\ g[m] \in Seq(MessageType) /\ f[n] \o <<>> = f[n]
  <2>1. n \in 0..n /\ m \in 0..m
    BY <1>1
  <2>2. f[n] \in Seq(MessageType) /\ g[m] \in Seq(MessageType)
    BY <1>2, <1>3, <2>1
  <2>. QED  BY <2>2, ConcatEmptySeq
<1>7. \A i \in 1..m : b[i].msg \in MessageType
  <2>1. \A i \in 1..m : b[i] \in AnySend
    BY ElementOfSeq
  <2>. QED  BY <2>1 DEF AnySend
<1>. HIDE DEF n, m
<1>. DEFINE h == [i \in 0..n + m |-> IF i <= n THEN f[i] ELSE f[n] \o g[i - n]]
<1>8. h \in [0..n + m -> Seq(MessageType)]
  <2>1. ASSUME NEW i \in 0..n + m
        PROVE  (IF i <= n THEN f[i] ELSE f[n] \o g[i - n]) \in Seq(MessageType)
    <3>1. CASE i <= n
      BY <1>1, <1>2, <3>1
    <3>2. CASE ~(i <= n)
      <4>1. i - n \in 0..m
        BY <1>1, <3>2
      <4>2. g[i - n] \in Seq(MessageType)
        BY <1>3, <4>1
      <4>. QED  BY <1>6, <3>2, <4>2, ConcatProperties
    <3>. QED  BY <3>1, <3>2
  <2>. QED  BY <2>1
<1>9. \A i \in 0..m : h[n + i] = f[n] \o g[i]
  <2>. TAKE i \in 0..m
  <2>1. n + i \in 0..n + m /\ (n + i) - n = i
    BY <1>1
  <2>2. CASE i = 0
    BY <1>1, <1>5, <1>6, <2>1, <2>2
  <2>3. CASE i # 0
    <3>1. ~(n + i <= n)
      BY <1>1, <2>3
    <3>2. h[n + i] = f[n] \o g[(n + i) - n]
      BY <2>1, <3>1
    <3>. QED  BY <2>1, <3>2
  <2>. QED  BY <2>2, <2>3
<1>10. \A i \in 0..n : h[i] = f[i]
  BY <1>1
<1>. HIDE DEF h
<1>11. ASSUME NEW i \in 1..n + m
       PROVE  h[i] = IF (a \o b)[i].to \in these THEN Append(h[i - 1], (a \o b)[i].msg) ELSE h[i - 1]
  <2>1. CASE i <= n
    <3>1. i \in 1..n /\ i \in 0..n /\ i - 1 \in 0..n
      BY <1>1, <2>1
    <3>2. (a \o b)[i] = a[i]
      BY <1>1, <2>1
    <3>3. h[i] = f[i] /\ h[i - 1] = f[i - 1]
      BY <1>10, <3>1
    <3>4. f[i] = IF a[i].to \in these THEN Append(f[i - 1], a[i].msg) ELSE f[i - 1]
      BY <1>5, <3>1
    <3>. QED  BY <3>2, <3>3, <3>4
  <2>2. CASE ~(i <= n)
    <3>. DEFINE j == i - n
    <3>1. j \in 1..m /\ j \in 0..m /\ j - 1 \in 0..m /\ n + j = i /\ n + (j - 1) = i - 1
      BY <1>1, <2>2
    <3>2. (a \o b)[i] = b[j]
      BY <1>1, <2>2
    <3>. HIDE DEF j
    <3>3. h[i] = f[n] \o g[j] /\ h[i - 1] = f[n] \o g[j - 1]
      <4>1. h[n + j] = f[n] \o g[j] /\ h[n + (j - 1)] = f[n] \o g[j - 1]
        BY <1>9, <3>1
      <4>. QED  BY <3>1, <4>1
    <3>4. g[j] = IF b[j].to \in these THEN Append(g[j - 1], b[j].msg) ELSE g[j - 1]
      BY <1>5, <3>1
    <3>5. f[n] \o Append(g[j - 1], b[j].msg) = Append(f[n] \o g[j - 1], b[j].msg)
      <4>. DEFINE u == f[n]
                  v == g[j - 1]
                  w == b[j].msg
      <4>1. u \in Seq(MessageType) /\ v \in Seq(MessageType) /\ w \in MessageType
        BY <1>3, <1>6, <1>7, <3>1
      <4>. HIDE DEF u, v, w
      <4>2. u \o Append(v, w) = Append(u \o v, w)
        BY <4>1, AppendBehind
      <4>. QED  BY <4>2 DEF u, v, w
    <3>. QED  BY <3>2, <3>3, <3>4, <3>5
  <2>. QED  BY <2>1, <2>2
<1>12. h[0] = <<>>
  BY <1>1, <1>5, <1>10
<1>13. Picks(h, a \o b, these)
  BY <1>1, <1>11, <1>12 DEF Picks
<1>14. Addressed(a \o b, these) = h[n + m]
  BY <1>1, <1>8, <1>13, AddressedIs
<1>15. m \in 0..m
  BY <1>1
<1>. QED  BY <1>4, <1>9, <1>14, <1>15

\* What send_all has to send when all it lists are of one client each: each that it
\* sends to is listed once.
LEMMA ListedOnce ==
  ASSUME NEW list \in Seq([fd : Fds, id : Nat]), NEW these,
         \A i, j \in 1..Len(list) : list[i].fd = list[j].fd => i = j
  PROVE  /\ \A i, j \in 1..Len(Listed(list, these)) : Listed(list, these)[i] = Listed(list, these)[j] => i = j
         /\ \A i \in 1..Len(list) : list[i].fd \in these =>
              \E k \in 1..Len(Listed(list, these)) : Listed(list, these)[k] = list[i].fd
<1>. DEFINE n     == Len(list)
            Next1(x, i) == IF list[i].fd \in these THEN Append(x, list[i].fd) ELSE x
            found == CHOOSE f : f = [i \in 0..n |->
                       CASE i = 0                          -> <<>>
                         [] i # 0 /\ list[i].fd \in these -> Append(f[i - 1], list[i].fd)
                         [] OTHER                          -> f[i - 1]]
            step  == [i \in 1..n |-> [x \in Seq(Fds) |-> Next1(x, i)]]
            Once(x, i) == /\ \A j, k \in 1..Len(x) : x[j] = x[k] => j = k
                          /\ \A k \in 1..Len(x) : \E j \in 1..i : x[k] = list[j].fd
                          /\ \A j \in 1..i : list[j].fd \in these => \E k \in 1..Len(x) : x[k] = list[j].fd
            P     == {i \in 0..n : found[i] \in Seq(Fds) /\ Once(found[i], i)}
<1>1. n \in Nat /\ \A i \in 1..n : list[i].fd \in Fds
  <2>1. \A i \in 1..n : list[i] \in [fd : Fds, id : Nat]
    BY ElementOfSeq
  <2>. QED  BY <2>1, LenProperties
<1>2. \A x \in Seq(Fds), i \in 1..n : Next1(x, i) \in Seq(Fds)
  BY <1>1
<1>3. Listed(list, these) = found[n]
  BY DEF Listed
<1>4. \A i, j \in 1..n : list[i].fd = list[j].fd => i = j
  OBVIOUS
<1>. HIDE DEF n, Next1
<1>5. step \in Steps(n, Seq(Fds)) /\ <<>> \in Seq(Fds)
  BY <1>2 DEF Steps
<1>. HIDE DEF step
<1>6. PICK g \in [0..n -> Seq(Fds)] : Follows(g, <<>>, step, n)
  BY <1>1, <1>5, StepByStep
<1>7. g = [i \in 0..n |->
             CASE i = 0                          -> <<>>
               [] i # 0 /\ list[i].fd \in these -> Append(g[i - 1], list[i].fd)
               [] OTHER                          -> g[i - 1]]
  <2>1. \A i \in 0..n : g[i] = CASE i = 0                          -> <<>>
                                 [] i # 0 /\ list[i].fd \in these -> Append(g[i - 1], list[i].fd)
                                 [] OTHER                          -> g[i - 1]
    <3>. TAKE i \in 0..n
    <3>1. CASE i = 0
      BY <1>6, <3>1 DEF Follows
    <3>2. CASE i # 0
      <4>1. i \in 1..n /\ i - 1 \in 0..n
        BY <1>1, <3>2
      <4>2. g[i - 1] \in Seq(Fds) /\ g[i] = step[i][g[i - 1]]
        BY <1>6, <4>1 DEF Follows
      <4>3. g[i] = Next1(g[i - 1], i)
        BY <4>1, <4>2 DEF step
      <4>. QED  BY <3>2, <4>3 DEF Next1
    <3>. QED  BY <3>1, <3>2
  <2>. QED  BY <2>1
<1>8. found = [i \in 0..n |->
             CASE i = 0                          -> <<>>
               [] i # 0 /\ list[i].fd \in these -> Append(found[i - 1], list[i].fd)
               [] OTHER                          -> found[i - 1]]
  BY <1>7
<1>. HIDE DEF found
<1>9. 0 \in P
  <2>1. found[0] = <<>> /\ 0 \in 0..n
    BY <1>1, <1>8
  <2>2. Once(<<>>, 0)
    BY EmptySeq
  <2>. HIDE DEF Once
  <2>. QED  BY <1>5, <2>1, <2>2
<1>10. ASSUME NEW i \in 1..n, i - 1 \in P
       PROVE  i \in P
  <2>. DEFINE x == found[i - 1]
              fd == list[i].fd
  <2>1. i \in 0..n /\ i # 0
    BY <1>1
  <2>3. x \in Seq(Fds) /\ Once(x, i - 1) /\ fd \in Fds
    BY <1>1, <1>10
  <2>. HIDE DEF Once
  <2>2. found[i] = Next1(x, i) /\ found[i] \in Seq(Fds)
    <3>1. found[i] = Next1(x, i)
      BY <1>8, <2>1 DEF Next1
    <3>. HIDE DEF x
    <3>. QED  BY <1>2, <2>3, <3>1
  <2>. HIDE DEF x, fd
  <2>4. \A j \in 1..i : j \in 1..(i - 1) \/ j = i
    BY <1>1
  <2>5. \A j \in 1..(i - 1) : j \in 1..i /\ j # i /\ j \in 1..n
    BY <1>1
  <2>6. i \in 1..i
    BY <1>1
  <2>7. CASE fd \in these
    <3>1. found[i] = Append(x, fd)
      BY <2>2, <2>7 DEF Next1, fd
    <3>2. /\ Len(Append(x, fd)) = Len(x) + 1 /\ Len(x) \in Nat
          /\ \A k \in 1..Len(x) : Append(x, fd)[k] = x[k]
          /\ Append(x, fd)[Len(x) + 1] = fd
      BY <2>3, AppendProperties, LenProperties
    <3>. DEFINE y == Append(x, fd)
                m == Len(x)
    <3>. HIDE DEF y, m
    <3>3. Len(y) = m + 1 /\ m \in Nat /\ (\A k \in 1..m : y[k] = x[k]) /\ y[m + 1] = fd
      BY <3>2 DEF y, m
    <3>4. 1..(m + 1) = 1..m \cup {m + 1} /\ m + 1 \notin 1..m
      BY <3>3
    <3>5. \A k \in 1..m : x[k] # fd
      <4>. TAKE k \in 1..m
      <4>1. PICK j \in 1..(i - 1) : x[k] = list[j].fd
        BY <2>3 DEF Once, m
      <4>. QED  BY <1>4, <2>5, <4>1 DEF fd
    <3>6. \A j, k \in 1..Len(y) : y[j] = y[k] => j = k
      <4>1. \A j, k \in 1..m : x[j] = x[k] => j = k
        BY <2>3 DEF Once, m
      <4>2. \A j, k \in 1..m : y[j] = y[k] => j = k
        BY <3>3, <4>1
      <4>3. \A j \in 1..m : y[j] # y[m + 1]
        BY <3>3, <3>5
      <4>4. \A j \in 1..Len(y) : j \in 1..m \/ j = m + 1
        BY <3>3
      <4>. QED  BY <4>2, <4>3, <4>4
    <3>7. \A k \in 1..Len(y) : \E j \in 1..i : y[k] = list[j].fd
      <4>. TAKE k \in 1..Len(y)
      <4>1. CASE k \in 1..m
        <5>1. PICK j \in 1..(i - 1) : x[k] = list[j].fd
          BY <2>3, <4>1 DEF Once, m
        <5>. QED  BY <2>5, <3>3, <4>1, <5>1
      <4>2. CASE k = m + 1
        BY <2>6, <3>3, <4>2 DEF fd
      <4>. QED  BY <3>3, <4>1, <4>2
    <3>8. \A j \in 1..i : list[j].fd \in these => \E k \in 1..Len(y) : y[k] = list[j].fd
      BY <2>3, <2>4, <3>3, <3>4 DEF Once, m, fd
    <3>9. Once(y, i)
      BY <3>6, <3>7, <3>8 DEF Once
    <3>. QED  BY <2>1, <2>2, <3>1, <3>9 DEF y
  <2>8. CASE fd \notin these
    <3>1. found[i] = x
      BY <2>2, <2>8 DEF Next1, fd
    <3>2. Once(x, i)
      BY <2>3, <2>4, <2>5, <2>8 DEF Once, fd
    <3>. QED  BY <2>1, <2>2, <3>1, <3>2
  <2>. QED  BY <2>7, <2>8
<1>11. n \in 0..n
  BY <1>1
<1>. HIDE DEF P
<1>12. n \in P
  BY <1>1, <1>9, <1>10, <1>11, UpTo
<1>. QED  BY <1>3, <1>12 DEF P, n

\* Sequences of sends behind each other, of which each has one message for these
\* descriptors.
LEMMA AddressedFlat ==
  ASSUME NEW all \in Seq(Seq(AnySend)), NEW msgs \in Seq(MessageType), NEW these,
         Len(all) = Len(msgs),
         \A i \in 1..Len(all) : Addressed(all[i], these) = <<msgs[i]>>
  PROVE  Addressed(FlattenSeq(all), these) = msgs
<1>. DEFINE n == Len(all)
            flatten == CHOOSE f : f = [i \in 1..n |-> IF i = 1 THEN all[i] ELSE f[i - 1] \o all[i]]
            step == [i \in 1..n |-> [x \in Seq(AnySend) |-> x \o all[i]]]
<1>1. n \in Nat /\ (\A i \in 1..n : all[i] \in Seq(AnySend)) /\ \A i \in 1..n : msgs[i] \in MessageType
  BY ElementOfSeq, LenProperties
<1>2. CASE n = 0
  <2>1. FlattenSeq(all) = all /\ all = <<>> /\ msgs = <<>>
    BY <1>2, EmptySeq DEF FlattenSeq
  <2>2. all \in Seq(AnySend) /\ \A i \in 1..Len(all) : all[i].to \notin these
    BY <1>2, <2>1
  <2>. QED  BY <2>1, <2>2, NoneAddressed
<1>3. CASE n # 0
  <2>1. step \in Steps(n, Seq(AnySend))
    BY <1>1, ConcatProperties DEF Steps
  <2>2. <<>> \in Seq(AnySend)
    OBVIOUS
  <2>. HIDE DEF step, n
  <2>3. PICK g \in [0..n -> Seq(AnySend)] : Follows(g, <<>>, step, n)
    BY <1>1, <2>1, <2>2, StepByStep
  <2>4. \A i \in 1..n : g[i - 1] \in Seq(AnySend) /\ g[i] = g[i - 1] \o all[i]
    <3>. TAKE i \in 1..n
    <3>1. i - 1 \in 0..n
      BY <1>1
    <3>. QED  BY <2>3, <3>1 DEF step, Follows
  <2>. DEFINE f == [i \in 1..n |-> g[i]]
  <2>5. \A i \in 1..n : f[i] = IF i = 1 THEN all[i] ELSE f[i - 1] \o all[i]
    <3>. TAKE i \in 1..n
    <3>1. CASE i = 1
      <4>1. 1 - 1 = 0 /\ g[0] = <<>>
        BY <2>3 DEF Follows
      <4>2. g[1 - 1] \in Seq(AnySend) /\ g[1] = g[1 - 1] \o all[1] /\ all[1] \in Seq(AnySend)
        BY <1>1, <2>4, <3>1
      <4>3. <<>> \o all[1] = all[1]
        BY <4>2, ConcatEmptySeq
      <4>4. g[1] = all[1]
        BY <4>1, <4>2, <4>3
      <4>. QED  BY <3>1, <4>4
    <3>2. CASE i # 1
      <4>1. i - 1 \in 1..n
        BY <1>1, <3>2
      <4>. QED  BY <2>4, <3>2, <4>1
    <3>. QED  BY <3>1, <3>2
  <2>6. \E h : h = [i \in 1..n |-> IF i = 1 THEN all[i] ELSE h[i - 1] \o all[i]]
    <3>1. f = [i \in 1..n |-> IF i = 1 THEN all[i] ELSE f[i - 1] \o all[i]]
      BY <2>5
    <3>. QED  BY <3>1
  <2>7. flatten = [i \in 1..n |-> IF i = 1 THEN all[i] ELSE flatten[i - 1] \o all[i]]
    BY <2>6
  <2>8. FlattenSeq(all) = flatten[n]
    BY <1>3 DEF FlattenSeq, n
  <2>. HIDE DEF flatten, f
  <2>. DEFINE Good(i) == flatten[i] \in Seq(AnySend) /\ Addressed(flatten[i], these) = SubSeq(msgs, 1, i)
              P == {0} \cup {i \in 1..n : Good(i)}
  <2>9. \A i \in 1..n : Addressed(all[i], these) = <<msgs[i]>> /\ n = Len(msgs)
    BY DEF n
  <2>10. ASSUME NEW i \in 1..n, i - 1 \in P
         PROVE  i \in P
    <3>1. flatten[i] = IF i = 1 THEN all[i] ELSE flatten[i - 1] \o all[i]
      BY <2>7
    <3>2. CASE i = 1
      <4>1. SubSeq(msgs, 1, 1) = <<msgs[1]>>
        <5>1. 1 \in Int /\ \A k \in 1..1 : msgs[k] \in MessageType
          BY <1>1, <3>2
        <5>2. SubSeq(msgs, 1, 1) \in Seq(MessageType) /\ Len(SubSeq(msgs, 1, 1)) = 1
              /\ SubSeq(msgs, 1, 1)[1] = msgs[1]
          BY <5>1, SubSeqProperties
        <5>. DEFINE u == SubSeq(msgs, 1, 1)
        <5>. HIDE DEF u
        <5>3. u \in Seq(MessageType) /\ Len(u) = 1 /\ u[1] = msgs[1]
          BY <5>2 DEF u
        <5>4. u = <<msgs[1]>>
          BY <5>3
        <5>. QED  BY <5>4 DEF u
      <4>. QED  BY <1>1, <2>9, <3>1, <3>2, <4>1
    <3>3. CASE i # 1
      <4>1. i - 1 \in 1..n /\ i \in 1..Len(msgs) /\ 1 \in 1..Len(msgs) /\ i \in 1..i /\ i \in 1..Len(msgs)
        BY <1>1, <2>9, <3>3
      <4>2. Good(i - 1)
        BY <2>10, <3>3, <4>1
      <4>3. SubSeq(msgs, 1, i) = SubSeq(msgs, 1, i - 1) \o <<msgs[i]>>
        <5>1. i \in 1..Len(msgs) /\ i \in 1 .. Len(msgs)
          BY <4>1
        <5>. QED  BY <4>1, <5>1, SubSeqRecursiveSecond
      <4>4. Addressed(flatten[i - 1] \o all[i], these)
              = Addressed(flatten[i - 1], these) \o Addressed(all[i], these)
        BY <1>1, <4>2, AddressedConcat
      <4>5. flatten[i - 1] \o all[i] \in Seq(AnySend)
        BY <1>1, <4>2, ConcatProperties
      <4>. QED  BY <2>9, <3>1, <3>3, <4>2, <4>3, <4>4, <4>5
    <3>. QED  BY <3>2, <3>3
  <2>11. n \in P
    <3>1. n \in 0..n /\ 0 \in P
      BY <1>1
    <3>. HIDE DEF P
    <3>. QED  BY <1>1, <2>10, <3>1, UpTo
  <2>12. SubSeq(msgs, 1, n) = msgs
    BY SubSeqFull DEF n
  <2>. QED  BY <1>3, <2>8, <2>11, <2>12
<1>. QED  BY <1>2, <1>3

\* Entries of the list, the numbers it has, and that each is there once.
Entry          == [fd : Fds, id : Nat]
Named(list)    == {list[i].fd : i \in 1..Len(list)}
Distinct(list) == \A i, j \in 1..Len(list) : list[i].fd = list[j].fd => i = j

\* send_all sends each message once to each other client that is listed, and none to
\* who is not, or is the one it is about.
LEMMA SendAllAddresses ==
  ASSUME NEW list \in Seq(Entry), NEW fd, NEW msgs \in Seq(MessageType), NEW x, Distinct(list),
         NEW these, these = {x}
  PROVE  Addressed(send_all(list, fd, msgs), these) =
           IF x \in Named(list) \cap (cpy_write \ {fd}) THEN msgs ELSE <<>>
<1>. USE DEF Entry, Named, Distinct
<1>. DEFINE T       == {list[i].fd : i \in 1..Len(list)} \cap (cpy_write \ {fd})
            others  == Listed(list, cpy_write \ {fd})
            To(msg) == [i \in DOMAIN others |-> [to |-> others[i], msg |-> msg]]
            all     == [k \in DOMAIN msgs |-> To(msgs[k])]
<1>1. others \in Seq(T)
  BY ListedType
<1>2. send_all(list, fd, msgs) = FlattenSeq(all)
  BY DEF send_all
<1>3. \A i \in 1..Len(list) : list[i].fd \in Fds
  <2>1. \A i \in 1..Len(list) : list[i] \in [fd : Fds, id : Nat]
    BY ElementOfSeq
  <2>. QED  BY <2>1
<1>4. /\ \A i, j \in 1..Len(others) : others[i] = others[j] => i = j
      /\ \A i \in 1..Len(list) : list[i].fd \in cpy_write \ {fd} =>
           \E k \in 1..Len(others) : others[k] = list[i].fd
  BY ListedOnce
<1>5. T \subseteq Fds
  BY <1>3
<1>6. x \in T => \E k \in 1..Len(others) : others[k] = x
  <2>. SUFFICES ASSUME x \in T PROVE \E k \in 1..Len(others) : others[k] = x
    OBVIOUS
  <2>1. PICK i \in 1..Len(list) : list[i].fd = x
    OBVIOUS
  <2>2. list[i].fd \in cpy_write \ {fd}
    BY <2>1
  <2>. HIDE DEF others, T
  <2>. QED  BY <1>4, <2>1, <2>2
<1>. HIDE DEF T, others
<1>7. DOMAIN others = 1..Len(others) /\ Len(others) \in Nat /\ \A i \in 1..Len(others) : others[i] \in T
  BY <1>1, LenProperties, ElementOfSeq
<1>8. \A msg \in MessageType : /\ To(msg) \in Seq(AnySend) /\ Len(To(msg)) = Len(others)
                               /\ \A i \in 1..Len(others) : To(msg)[i].to = others[i] /\ To(msg)[i].msg = msg
  <2>. TAKE msg \in MessageType
  <2>1. \A i \in 1..Len(others) : [to |-> others[i], msg |-> msg] \in AnySend
    BY <1>5, <1>7 DEF AnySend
  <2>2. To(msg) = [i \in 1..Len(others) |-> [to |-> others[i], msg |-> msg]]
    BY <1>7
  <2>. QED  BY <1>7, <2>1, <2>2
<1>9. DOMAIN msgs = 1..Len(msgs) /\ Len(msgs) \in Nat /\ \A k \in 1..Len(msgs) : msgs[k] \in MessageType
  BY LenProperties, ElementOfSeq
<1>. HIDE DEF To
<1>10. /\ all \in Seq(Seq(AnySend)) /\ Len(all) = Len(msgs)
       /\ \A k \in 1..Len(msgs) : all[k] = To(msgs[k])
  <2>. DEFINE S == Seq(AnySend)
  <2>1. \A k \in 1..Len(msgs) : To(msgs[k]) \in S
    BY <1>8, <1>9
  <2>. HIDE DEF S
  <2>2. all = [k \in 1..Len(msgs) |-> To(msgs[k])]
    BY <1>9
  <2>3. all \in Seq(S) /\ Len(all) = Len(msgs)
    BY <1>9, <2>1, <2>2
  <2>. QED  BY <2>2, <2>3 DEF S
<1>11. CASE x \in T
  <2>1. PICK k \in 1..Len(others) : others[k] = x
    BY <1>6, <1>11
  <2>2. \A i \in 1..Len(all) : Addressed(all[i], {x}) = <<msgs[i]>>
    <3>. TAKE i \in 1..Len(all)
    <3>. DEFINE t == To(msgs[i])
    <3>1. /\ t \in Seq(AnySend) /\ Len(t) = Len(others) /\ all[i] = t
          /\ \A j \in 1..Len(t) : t[j].to = others[j] /\ t[j].msg = msgs[i]
      BY <1>8, <1>9, <1>10
    <3>. HIDE DEF t
    <3>2. k \in 1..Len(t) /\ t[k].to \in {x} /\ \A j \in 1..Len(t) : t[j].to \in {x} => j = k
      BY <1>4, <2>1, <3>1
    <3>3. Addressed(t, {x}) = <<t[k].msg>>
      <4>. DEFINE X == {x}
      <4>1. t[k].to \in X /\ \A j \in 1..Len(t) : t[j].to \in X => j = k
        BY <3>2
      <4>. HIDE DEF X
      <4>2. Addressed(t, X) = <<t[k].msg>>
        BY <3>1, <3>2, <4>1, OneAddressed
      <4>. QED  BY <4>2 DEF X
    <3>. QED  BY <3>1, <3>2, <3>3
  <2>. HIDE DEF all
  <2>3. Addressed(FlattenSeq(all), {x}) = msgs
    BY <1>10, <2>2, AddressedFlat
  <2>. QED  BY <1>2, <1>11, <2>3 DEF all, T
<1>12. CASE x \notin T
  <2>. DEFINE s == send_all(list, fd, msgs)
  <2>1. s \in Seq([to : T, msg : MessageType])
    BY SendAllType DEF T
  <2>. HIDE DEF s
  <2>2. Len(s) \in Nat /\ s \in [1..Len(s) -> [to : T, msg : MessageType]]
    BY <2>1, LenProperties
  <2>3. \A i \in 1..Len(s) : s[i] \in AnySend /\ s[i].to # x
    <3>1. \A i \in 1..Len(s) : s[i] \in [to : T, msg : MessageType]
      BY <2>2
    <3>. QED  BY <1>5, <1>12, <3>1 DEF AnySend
  <2>4. s \in Seq(AnySend)
    <3>1. s = [i \in 1..Len(s) |-> s[i]]
      BY <2>2
    <3>. QED  BY <2>2, <2>3, <3>1
  <2>5. Addressed(s, {x}) = <<>>
    BY <2>3, <2>4, NoneAddressed
  <2>. QED  BY <1>12, <2>5 DEF s, T
<1>. QED  BY <1>11, <1>12
-----------------------------------------------------------------------------
\* The chat as a ChatRoom.

\* Who was accepted had connected, once, and is not in the backlog any more.
JoinedInv ==
  /\ \A i, j \in 1..Len(joined) : joined[i] = joined[j] => i = j
  /\ \A i, j \in 1..Len(backlog) : backlog[i] = backlog[j] => i = j
  /\ \A i \in 1..Len(backlog), j \in 1..Len(joined) : backlog[i] # joined[j]
  /\ \A i \in 1..Len(joined) : peer[joined[i]].st # "out"
  /\ \A i \in 1..Len(backlog) : peer[backlog[i]].st # "out"

\* A connection has one descriptor.
OpenInv ==
  /\ \A f, g \in DOMAIN open : open[f] = open[g] => f = g
  /\ \A fd \in DOMAIN open : \E j \in 1..Len(joined) : joined[j] = open[fd]

\* In a scan of the chat all that is open is copied, and what is ready stays so.
ReadyInv ==
  program = "chat" /\ (pc = "scan" \/ (pc = "send" /\ ~rest.break)) =>
    /\ DOMAIN open \subseteq cpy_write
    /\ \A fd \in cpy_read \ {sock_fd} :
         fd >= at => inbox[open[fd]] # <<>> \/ peer[open[fd]].st \in {"closed", "reset"}

HeardInv ==
  /\ said \in [Conns -> Seq(Seq(Letters))]
  /\ told \in [Conns -> Seq(MessageType)]

RoomInv == IInv /\ JoinedInv /\ OpenInv /\ ReadyInv /\ HeardInv

\* A sequence that has one message for each of its fields.
LEMMA SaidIs ==
  ASSUME RoomInv, NEW c \in Conns
  PROVE  said[c] \in Seq(Seq(Letters)) /\ told[c] \in Seq(MessageType)
BY DEF RoomInv, HeardInv

\* joined and the backlog are sequences of connections.
LEMMA QueuesAre ==
  ASSUME RoomInv
  PROVE  /\ joined \in Seq(Conns) /\ Len(joined) \in Nat /\ DOMAIN joined = 1..Len(joined)
         /\ \A i \in 1..Len(joined) : joined[i] \in Conns
         /\ backlog \in Seq(Conns) /\ Len(backlog) \in Nat
         /\ \A i \in 1..Len(backlog) : backlog[i] \in Conns
         /\ peer \in [Conns -> [st : {"out", "up", "closed", "reset"}, sent : Nat]]
<1>1. joined \in Seq(Conns) /\ backlog \in Seq(Conns)
  BY DEF RoomInv, IInv, TableInv, NetInv
<1>. QED  BY <1>1, ElementOfSeq, LenProperties DEF RoomInv, IInv, NetInv

\* Before anybody connects.
LEMMA RoomInvInit == Init => RoomInv
<1>. SUFFICES ASSUME Init PROVE RoomInv
  OBVIOUS
<1>1. Len(joined) = 0 /\ Len(backlog) = 0 /\ DOMAIN open = {} /\ pc = "select"
  BY EmptySeq DEF Init
<1>2. JoinedInv /\ OpenInv /\ ReadyInv
  BY <1>1 DEF JoinedInv, OpenInv, ReadyInv
<1>3. HeardInv
  <2>1. <<>> \in Seq(Seq(Letters)) /\ <<>> \in Seq(MessageType)
    OBVIOUS
  <2>. QED  BY <2>1 DEF Init, HeardInv
<1>. QED  BY <1>2, <1>3, IInvInit DEF RoomInv

\* What the parts say of joined, backlog and open stays when these do, and nobody
\* gets back to where it was before it connected.
LEMMA QueuesStay ==
  ASSUME RoomInv, UNCHANGED <<joined, backlog, open>>,
         \A c \in Conns : peer[c].st # "out" => peer'[c].st # "out"
  PROVE  JoinedInv' /\ OpenInv'
<1>1. OpenInv'
  BY DEF RoomInv, OpenInv
<1>2. \A i \in 1..Len(joined) : peer'[joined[i]].st # "out"
  BY QueuesAre DEF RoomInv, JoinedInv
<1>3. \A i \in 1..Len(backlog) : peer'[backlog[i]].st # "out"
  BY QueuesAre DEF RoomInv, JoinedInv
<1>4. JoinedInv'
  BY <1>2, <1>3 DEF RoomInv, JoinedInv
<1>. QED  BY <1>1, <1>4

\* What the peers do: who is ready stays ready, or is reset.
LEMMA PeersRoom ==
  ASSUME RoomInv, Peers
  PROVE  RoomInv'
<1>. PICK c \in Conns : Connect(c) \/ PeerSends(c) \/ PeerReads(c) \/ PeerCloses(c) \/ PeerResets(c)
  BY DEF Peers
<1>1. UNCHANGED <<program, open, g_clients, cpy_read, cpy_write, pc, at, sends, rest, joined, said, told>>
  BY DEF Connect, PeerSends, PeerReads, PeerCloses, PeerResets, process, table, copies, history
<1>2. IInv'
  BY PeersInv DEF RoomInv
<1>3. HeardInv'
  BY <1>1 DEF RoomInv, HeardInv
<1>4. peer \in [Conns -> [st : {"out", "up", "closed", "reset"}, sent : Nat]] /\ inbox \in [Conns -> Seq(Letters)]
  BY DEF RoomInv, IInv, NetInv
<1>5. \A fd \in DOMAIN open : open[fd] \in Conns
  BY DEF RoomInv, IInv, TableInv
<1>6. ASSUME \A d \in Conns : inbox[d] # <<>> \/ peer[d].st \in {"closed", "reset"} =>
                inbox'[d] # <<>> \/ peer'[d].st \in {"closed", "reset"}
      PROVE  ReadyInv'
  <2>. SUFFICES ASSUME program = "chat", pc = "scan" \/ (pc = "send" /\ ~rest.break)
                PROVE  /\ DOMAIN open \subseteq cpy_write
                       /\ \A fd \in cpy_read \ {sock_fd} :
                            fd >= at => inbox'[open[fd]] # <<>> \/ peer'[open[fd]].st \in {"closed", "reset"}
    BY <1>1 DEF ReadyInv
  <2>1. DOMAIN open \subseteq cpy_write
    BY DEF RoomInv, ReadyInv
  <2>2. ASSUME NEW fd \in cpy_read \ {sock_fd}, fd >= at
        PROVE  inbox'[open[fd]] # <<>> \/ peer'[open[fd]].st \in {"closed", "reset"}
    <3>1. fd \in DOMAIN open
      BY <2>2 DEF RoomInv, IInv, ScanInv
    <3>2. inbox[open[fd]] # <<>> \/ peer[open[fd]].st \in {"closed", "reset"}
      BY <2>2 DEF RoomInv, ReadyInv
    <3>. QED  BY <1>5, <1>6, <3>1, <3>2
  <2>. QED  BY <2>1, <2>2
<1>7. CASE Connect(c)
  <2>1. /\ peer[c].st = "out" /\ peer' = [peer EXCEPT ![c].st = "up"]
        /\ backlog' = Append(backlog, c) /\ UNCHANGED inbox
    BY <1>7 DEF Connect
  <2>2. ReadyInv'
    BY <1>4, <1>6, <2>1
  <2>3. OpenInv'
    BY <1>1 DEF RoomInv, OpenInv
  <2>4. /\ Len(backlog') = Len(backlog) + 1 /\ Len(backlog) \in Nat /\ backlog'[Len(backlog) + 1] = c
        /\ \A i \in 1..Len(backlog) : backlog'[i] = backlog[i]
    BY <2>1, QueuesAre, AppendProperties
  <2>5. /\ \A i \in 1..Len(backlog) : backlog[i] # c
        /\ \A i \in 1..Len(joined) : joined[i] # c
    BY <2>1 DEF RoomInv, JoinedInv
  <2>6. \A i \in 1..Len(backlog') : i \in 1..Len(backlog) \/ i = Len(backlog) + 1
    BY <2>4
  <2>7. \A i, j \in 1..Len(backlog') : backlog'[i] = backlog'[j] => i = j
    BY <2>4, <2>5, <2>6 DEF RoomInv, JoinedInv
  <2>8. \A i \in 1..Len(backlog'), j \in 1..Len(joined) : backlog'[i] # joined[j]
    BY <2>4, <2>5, <2>6 DEF RoomInv, JoinedInv
  <2>9. \A d \in Conns : peer[d].st # "out" => peer'[d].st # "out"
    BY <1>4, <2>1
  <2>10. \A i \in 1..Len(joined) : peer'[joined[i]].st # "out"
    BY <2>9, QueuesAre DEF RoomInv, JoinedInv
  <2>11. \A i \in 1..Len(backlog) : peer'[backlog[i]].st # "out"
    BY <2>9, QueuesAre DEF RoomInv, JoinedInv
  <2>12. peer'[c].st = "up"
    BY <1>4, <2>1
  <2>13. \A i \in 1..Len(backlog') : peer'[backlog'[i]].st # "out"
    BY <2>4, <2>6, <2>11, <2>12
  <2>14. JoinedInv'
    BY <1>1, <2>7, <2>8, <2>10, <2>13 DEF RoomInv, JoinedInv
  <2>. QED  BY <1>2, <1>3, <2>2, <2>3, <2>14 DEF RoomInv
<1>8. CASE PeerSends(c)
  <2>1. /\ peer' = [peer EXCEPT ![c].sent = @ + 1] /\ UNCHANGED backlog
        /\ inbox' = [inbox EXCEPT ![c] = @ \o script[c][peer[c].sent + 1]]
        /\ peer[c].sent < Len(script[c])
    BY <1>8 DEF PeerSends
  <2>2. \A d \in Conns : peer'[d].st = peer[d].st
    BY <1>4, <2>1
  <2>3. \A d \in Conns : inbox[d] # <<>> => inbox'[d] # <<>>
    <3>1. inbox[c] # <<>> => inbox[c] \o script[c][peer[c].sent + 1] # <<>>
      <4>. DEFINE k == peer[c].sent + 1
      <4>1. script \in Scripts /\ script[c] \in Seq(Seq(STRING) \ {<<>>}) /\ peer[c].sent \in Nat
        BY <1>4, MiniServAssumption DEF RoomInv, IInv, NetInv
      <4>2. k \in 1..Len(script[c])
        BY <2>1, <4>1, LenProperties
      <4>. HIDE DEF k
      <4>3. script[c][k] \in Seq(Letters)
        <5>1. IInv
          BY DEF RoomInv
        <5>. QED  BY <4>2, <5>1, SegmentType
      <4>4. inbox[c] \in Seq(Letters)
        BY <1>4
      <4>5. inbox[c] \o script[c][k] = <<>> => inbox[c] = <<>>
        BY <4>3, <4>4, ConcatSimplifications
      <4>. QED  BY <4>5 DEF k
    <3>. QED  BY <1>4, <2>1, <3>1
  <2>4. ReadyInv'
    BY <1>6, <2>2, <2>3
  <2>5. JoinedInv' /\ OpenInv'
    BY <1>1, <2>1, <2>2, QueuesStay
  <2>. QED  BY <1>2, <1>3, <2>4, <2>5 DEF RoomInv
<1>9. CASE PeerReads(c)
  <2>1. UNCHANGED <<peer, inbox, backlog>>
    BY <1>9 DEF PeerReads
  <2>2. ReadyInv'
    BY <1>6, <2>1
  <2>3. JoinedInv' /\ OpenInv'
    BY <1>1, <2>1, QueuesStay
  <2>. QED  BY <1>2, <1>3, <2>2, <2>3 DEF RoomInv
<1>10. CASE PeerCloses(c) \/ PeerResets(c)
  <2>1. /\ peer' = [peer EXCEPT ![c].st = "closed"] \/ peer' = [peer EXCEPT ![c].st = "reset"]
        /\ UNCHANGED backlog /\ \A d \in Conns : d # c => inbox'[d] = inbox[d]
    BY <1>4, <1>10 DEF PeerCloses, PeerResets
  <2>2. peer'[c].st \in {"closed", "reset"} /\ \A d \in Conns : d # c => peer'[d] = peer[d]
    BY <1>4, <2>1
  <2>3. ReadyInv'
    BY <1>6, <2>1, <2>2
  <2>4. JoinedInv' /\ OpenInv'
    BY <1>1, <2>1, <2>2, QueuesStay
  <2>. QED  BY <1>2, <1>3, <2>3, <2>4 DEF RoomInv
<1>. QED  BY <1>7, <1>8, <1>9, <1>10

\* The steps of the server that leave the queues and what was said and told.
LEMMA HistoryStays ==
  ASSUME RoomInv, UNCHANGED <<joined, backlog, open, peer, said, told>>
  PROVE  JoinedInv' /\ OpenInv' /\ HeardInv'
<1>1. JoinedInv' /\ OpenInv'
  BY QueuesStay
<1>2. HeardInv'
  BY DEF RoomInv, HeardInv
<1>. QED  BY <1>1, <1>2

\* What select finds ready is.
LEMMA SelectRoom ==
  ASSUME RoomInv, Select
  PROVE  RoomInv'
<1>1. /\ UNCHANGED <<program, peer, inbox, backlog, open, joined, said, told>>
      /\ cpy_write' = curr_sock /\ pc' = "scan"
      /\ \A fd \in cpy_read' : Readable(fd)
  BY DEF Select, net, table, history
<1>2. IInv'
  BY SelectInv DEF RoomInv
<1>3. DOMAIN open \subseteq curr_sock
  BY DEF RoomInv, IInv, TableInv
<1>4. \A fd \in cpy_read' \ {sock_fd} : inbox[open[fd]] # <<>> \/ peer[open[fd]].st \in {"closed", "reset"}
  BY <1>1 DEF Readable
<1>5. ReadyInv'
  BY <1>1, <1>3, <1>4 DEF ReadyInv
<1>. QED  BY <1>1, <1>2, <1>5, HistoryStays DEF RoomInv

\* The end of a scan, and of the process.
LEMMA EndRoom ==
  ASSUME RoomInv, ScanEnds \/ AcceptFails \/ SendFails
  PROVE  RoomInv'
<1>1. /\ UNCHANGED <<program, peer, inbox, backlog, open, joined, said, told, cpy_read, cpy_write, at, rest>>
      /\ pc' = "select" \/ UNCHANGED pc
  BY DEF ScanEnds, AcceptFails, SendFails, net, table, copies, history
<1>2. IInv'
  BY ScanEndsInv, EndInv DEF RoomInv
<1>3. ReadyInv'
  BY <1>1 DEF RoomInv, ReadyInv
<1>. QED  BY <1>1, <1>2, <1>3, HistoryStays DEF RoomInv

\* What Accept does to the queues.
LEMMA AcceptTakes ==
  ASSUME RoomInv, Accept
  PROVE  LET c == Head(backlog) fd == Min(Free)
         IN /\ c = backlog[1] /\ c \in Conns /\ 1 \in 1..Len(backlog)
            /\ fd \in Fds /\ fd \notin DOMAIN open
            /\ Len(backlog') = Len(backlog) - 1
            /\ \A i \in 1..Len(backlog') : backlog'[i] = backlog[i + 1]
            /\ Len(joined') = Len(joined) + 1 /\ joined'[Len(joined) + 1] = c
            /\ \A i \in 1..Len(joined) : joined'[i] = joined[i]
            /\ DOMAIN open' = DOMAIN open \cup {fd} /\ open'[fd] = c
            /\ \A x \in DOMAIN open : open'[x] = open[x]
            /\ g_clients' = Append(g_clients, [fd |-> fd, id |-> g_id])
            /\ rest.close = {} /\ sends = <<>> /\ pc = "scan" /\ rest'.close = {}
            /\ sends' = send_all(g_clients', fd, <<Message("arrived", g_id, <<>>)>>)
            /\ joined' = Append(joined, c)
<1>. DEFINE c == Head(backlog)
            fd == Min(Free)
<1>1. /\ Scans(sock_fd) /\ Free # {}
      /\ open' = With(open, fd, c)
      /\ g_clients' = Append(g_clients, [fd |-> fd, id |-> g_id])
      /\ sends' = send_all(g_clients', fd, <<Message("arrived", g_id, <<>>)>>)
      /\ joined' = Append(joined, c)
      /\ backlog' = Tail(backlog)
      /\ rest'.close = {}
  BY DEF Accept, add_client_to_list
<1>2. IInv
  BY DEF RoomInv
<1>3. /\ pc = "scan" /\ sock_fd \in cpy_read /\ at = sock_fd /\ rest.close = {} /\ sends = <<>>
  <2>1. at <= sock_fd /\ at \in 0 .. NFDS + 1
    BY <1>1, <1>2, ScanAt DEF IInv, ScanInv
  <2>2. at = sock_fd
    BY <2>1, Descriptors
  <2>. QED  BY <1>1, <1>2, <2>2, ScanAt
<1>4. fd \in Fds /\ fd \notin DOMAIN open
  <2>1. Free \in SUBSET Nat /\ Free \subseteq Fds
    BY Descriptors DEF Free
  <2>2. fd \in Free
    BY <1>1, <2>1, MinIn
  <2>. QED  BY <2>2 DEF Free
<1>5. backlog # <<>> /\ backlog \in Seq(Conns)
  BY <1>2, <1>3 DEF IInv, ScanInv, NetInv
<1>6. c = backlog[1] /\ c \in Conns /\ 1 \in 1..Len(backlog)
  <2>1. Len(backlog) \in Nat \ {0} /\ Head(backlog) = backlog[1]
    BY <1>5, EmptySeq
  <2>. QED  BY <1>5, <2>1, HeadTailProperties
<1>7. Len(backlog') = Len(backlog) - 1 /\ \A i \in 1..Len(backlog') : backlog'[i] = backlog[i + 1]
  BY <1>1, <1>5, HeadTailProperties
<1>8. joined \in Seq(Conns)
  BY <1>2 DEF IInv, TableInv
<1>. HIDE DEF fd, c
<1>9. /\ Len(joined') = Len(joined) + 1 /\ joined'[Len(joined) + 1] = c
      /\ \A i \in 1..Len(joined) : joined'[i] = joined[i]
  BY <1>1, <1>6, <1>8, AppendProperties
<1>10. /\ DOMAIN open' = DOMAIN open \cup {fd} /\ open'[fd] = c
       /\ \A x \in DOMAIN open : open'[x] = open[x]
  BY <1>1, <1>4 DEF With
<1>. QED  BY <1>1, <1>3, <1>4, <1>6, <1>7, <1>9, <1>10 DEF fd, c

\* Who is accepted has joined and left the backlog.
LEMMA AcceptRoom ==
  ASSUME RoomInv, Accept
  PROVE  RoomInv'
<1>. PICK c, fd :
       /\ c = backlog[1] /\ c \in Conns /\ 1 \in 1..Len(backlog)
       /\ fd \in Fds /\ fd \notin DOMAIN open
       /\ Len(backlog') = Len(backlog) - 1
       /\ \A i \in 1..Len(backlog') : backlog'[i] = backlog[i + 1]
       /\ Len(joined') = Len(joined) + 1 /\ joined'[Len(joined) + 1] = c
       /\ \A i \in 1..Len(joined) : joined'[i] = joined[i]
       /\ DOMAIN open' = DOMAIN open \cup {fd} /\ open'[fd] = c
       /\ \A x \in DOMAIN open : open'[x] = open[x]
  BY AcceptTakes
<1>1. UNCHANGED <<program, peer, said, told>> /\ rest'.break = (program = "chat") /\ pc' = "send"
  BY DEF Accept
<1>2. IInv'
  BY AcceptInv DEF RoomInv
<1>3. ReadyInv'
  BY <1>1 DEF ReadyInv
<1>4. HeardInv'
  BY <1>1 DEF RoomInv, HeardInv
<1>5. Len(joined) \in Nat /\ Len(backlog) \in Nat
  BY QueuesAre
<1>6. \A i \in 1..Len(joined') : i \in 1..Len(joined) \/ i = Len(joined) + 1
  BY <1>5
<1>7. \A i \in 1..Len(backlog') : i + 1 \in 1..Len(backlog) /\ i + 1 # 1
  BY <1>5
<1>8. OpenInv'
  <2>1. \A x \in DOMAIN open : open[x] # c
    <3>1. \A j \in 1..Len(joined) : joined[j] # c
      BY DEF RoomInv, JoinedInv
    <3>. QED  BY <3>1 DEF RoomInv, OpenInv
  <2>2. \A f, g \in DOMAIN open' : open'[f] = open'[g] => f = g
    BY <2>1 DEF RoomInv, OpenInv
  <2>3. ASSUME NEW x \in DOMAIN open'
        PROVE  \E j \in 1..Len(joined') : joined'[j] = open'[x]
    <3>1. CASE x = fd
      <4>1. Len(joined) + 1 \in 1..Len(joined')
        BY <1>5
      <4>. QED  BY <3>1, <4>1
    <3>2. CASE x # fd
      <4>1. PICK j \in 1..Len(joined) : joined[j] = open[x]
        BY <3>2 DEF RoomInv, OpenInv
      <4>2. j \in 1..Len(joined')
        BY <1>5
      <4>. QED  BY <3>2, <4>1, <4>2
    <3>. QED  BY <3>1, <3>2
  <2>. QED  BY <2>2, <2>3 DEF OpenInv
<1>9. JoinedInv'
  <2>1. JoinedInv
    BY DEF RoomInv
  <2>2. \A j \in 1..Len(joined) : joined[j] # c
    BY <2>1 DEF JoinedInv
  <2>3. \A i \in 1..Len(backlog') : backlog'[i] # c
    BY <1>7, <2>1 DEF JoinedInv
  <2>4. \A i, j \in 1..Len(joined') : joined'[i] = joined'[j] => i = j
    BY <1>6, <2>1, <2>2 DEF JoinedInv
  <2>5. \A i, j \in 1..Len(backlog') : backlog'[i] = backlog'[j] => i = j
    <3>. TAKE i, j \in 1..Len(backlog')
    <3>. HAVE backlog'[i] = backlog'[j]
    <3>1. i + 1 = j + 1
      BY <1>7, <2>1 DEF JoinedInv
    <3>. QED  BY <1>5, <3>1
  <2>6. \A i \in 1..Len(backlog'), j \in 1..Len(joined') : backlog'[i] # joined'[j]
    BY <1>6, <1>7, <2>1, <2>3 DEF JoinedInv
  <2>7. \A i \in 1..Len(joined') : peer'[joined'[i]].st # "out"
    BY <1>1, <1>6, <2>1 DEF JoinedInv
  <2>8. \A i \in 1..Len(backlog') : peer'[backlog'[i]].st # "out"
    BY <1>1, <1>7, <2>1 DEF JoinedInv
  <2>. QED  BY <2>4, <2>5, <2>6, <2>7, <2>8 DEF JoinedInv
<1>. QED  BY <1>2, <1>3, <1>4, <1>8, <1>9 DEF RoomInv

\* Who leaves has been heard to the end.
LEMMA LeavesRoom ==
  ASSUME RoomInv, NEW fd \in Fds, Leaves(fd)
  PROVE  RoomInv'
<1>1. UNCHANGED <<program, peer, backlog, open, joined, said, told>> /\ rest'.break /\ pc' = "send"
  BY DEF Leaves, net, history
<1>2. IInv'
  BY LeavesInv DEF RoomInv
<1>3. ReadyInv'
  BY <1>1 DEF ReadyInv
<1>. QED  BY <1>1, <1>2, <1>3, HistoryStays DEF RoomInv

\* The echo is no chat.
LEMMA EchoRoom ==
  ASSUME RoomInv, NEW fd \in Fds, LeavesEcho(fd) \/ SaysEcho(fd)
  PROVE  RoomInv'
<1>1. /\ program = "echo" /\ UNCHANGED <<program, peer, backlog, joined, said, told>>
      /\ open' = open \/ open' = Without(open, {fd})
  BY DEF LeavesEcho, SaysEcho, net, table, history
<1>2. IInv'
  BY LeavesEchoInv, SaysEchoInv DEF RoomInv
<1>3. ReadyInv'
  BY <1>1 DEF ReadyInv
<1>4. HeardInv' /\ JoinedInv'
  BY <1>1 DEF RoomInv, HeardInv, JoinedInv
<1>5. DOMAIN open' \subseteq DOMAIN open /\ \A x \in DOMAIN open' : open'[x] = open[x]
  BY <1>1 DEF Without
<1>6. OpenInv'
  BY <1>1, <1>5 DEF RoomInv, OpenInv
<1>. QED  BY <1>2, <1>3, <1>4, <1>6 DEF RoomInv

\* What ex_msg makes of what recv took.
LEMMA ExType ==
  ASSUME IInv, NEW text \in Seq(Letters)
  PROVE  /\ ex_msg(text) \in Ex /\ ex_msg(text).sent \in Seq(Seq(Letters))
<1>1. [line |-> <<>>, old |-> tmp, sent |-> <<>>] \in Ex
  BY EmptySeq DEF IInv, BufferInv, Ex
<1>2. ex_msg(text) \in Ex
  BY <1>1, CopiedType DEF ex_msg
<1>. QED  BY <1>2 DEF Ex

\* What a client said becomes lines; the others that are ready are still.
LEMMA SaysRoom ==
  ASSUME RoomInv, NEW fd \in Fds, Says(fd)
  PROVE  RoomInv'
<1>. DEFINE c  == open[fd]
            ex == ex_msg(inbox[c])
<1>1. /\ Scans(fd) /\ fd # sock_fd /\ program = "chat"
      /\ said' = [said EXCEPT ![c] = @ \o ex.sent]
      /\ inbox' = [inbox EXCEPT ![c] = <<>>]
      /\ at' = fd + 1
      /\ UNCHANGED <<program, peer, backlog, open, cpy_read, cpy_write, joined, told>>
  BY DEF Says, table, copies
<1>2. IInv /\ IInv'
  BY SaysInv DEF RoomInv
<1>3. /\ pc = "scan" /\ fd \in DOMAIN open /\ fd \in Nat /\ at <= fd
  BY <1>1, <1>2, ScanAt
<1>4. c \in Conns /\ inbox[c] \in Seq(Letters) /\ inbox \in [Conns -> Seq(Letters)]
  BY <1>2, <1>3 DEF IInv, TableInv, NetInv
<1>5. ex.sent \in Seq(Seq(Letters))
  BY <1>2, <1>4, ExType
<1>. HIDE DEF c, ex
<1>6. HeardInv'
  <2>1. said[c] \o ex.sent \in Seq(Seq(Letters))
    BY <1>4, <1>5, SaidIs, ConcatProperties
  <2>. QED  BY <1>1, <1>4, <2>1 DEF RoomInv, HeardInv
<1>7. ReadyInv'
  <2>1. DOMAIN open' \subseteq cpy_write'
    BY <1>1, <1>3 DEF RoomInv, ReadyInv
  <2>2. ASSUME NEW x \in cpy_read \ {sock_fd}, x >= fd + 1
        PROVE  inbox'[open[x]] # <<>> \/ peer[open[x]].st \in {"closed", "reset"}
    <3>1. x \in Nat /\ at \in Nat
      BY <1>2, Descriptors DEF IInv, ScanInv
    <3>2. x >= at /\ x # fd
      BY <1>3, <2>2, <3>1
    <3>3. x \in DOMAIN open
      BY <1>2, <1>3, <3>2 DEF IInv, ScanInv
    <3>4. open[x] # c /\ open[x] \in Conns
      BY <1>2, <1>3, <3>2, <3>3 DEF RoomInv, OpenInv, IInv, TableInv, c
    <3>5. inbox[open[x]] # <<>> \/ peer[open[x]].st \in {"closed", "reset"}
      BY <1>1, <1>3, <3>2 DEF RoomInv, ReadyInv
    <3>. QED  BY <1>1, <1>4, <3>4, <3>5
  <2>. QED  BY <1>1, <2>1, <2>2 DEF ReadyInv
<1>. QED  BY <1>1, <1>2, <1>6, <1>7, QueuesStay DEF RoomInv

\* A message is told.
LEMMA SendRoom ==
  ASSUME RoomInv, Send
  PROVE  RoomInv'
<1>1. /\ told' = [told EXCEPT ![open[Head(sends).to]] = Append(@, Head(sends).msg)]
      /\ UNCHANGED <<program, peer, inbox, backlog, open, cpy_read, cpy_write, pc, at, rest, joined, said>>
      /\ sends # <<>>
  BY DEF Send, table, copies
<1>2. IInv /\ IInv'
  BY SendInv DEF RoomInv
<1>3. Head(sends).msg \in MessageType
  <2>. DEFINE S == [to : Fds, msg : MessageType]
  <2>1. sends \in Seq(S)
    BY <1>2 DEF IInv, SendsInv
  <2>. HIDE DEF S
  <2>2. Head(sends) \in S
    BY <1>1, <2>1, HeadTailProperties
  <2>. QED  BY <2>2 DEF S
<1>4. HeardInv'
  <2>1. \A c \in Conns : Append(told[c], Head(sends).msg) \in Seq(MessageType)
    BY <1>3, SaidIs, AppendProperties
  <2>. QED  BY <1>1, <2>1 DEF RoomInv, HeardInv
<1>5. ReadyInv'
  BY <1>1 DEF RoomInv, ReadyInv
<1>. QED  BY <1>1, <1>2, <1>4, <1>5, QueuesStay DEF RoomInv

\* Who has left is closed; a scan that goes on has nobody to close.
LEMMA SendsEndRoom ==
  ASSUME RoomInv, SendsEnd
  PROVE  RoomInv'
<1>1. /\ pc = "send" /\ open' = Without(open, rest.close)
      /\ pc' = (IF rest.break THEN "select" ELSE "scan")
      /\ UNCHANGED <<program, peer, inbox, backlog, cpy_read, cpy_write, at, joined, said, told>>
  BY DEF SendsEnd, Running, net, copies, history
<1>2. IInv /\ IInv'
  BY SendsEndInv DEF RoomInv
<1>3. DOMAIN open' = DOMAIN open \ rest.close /\ \A x \in DOMAIN open' : open'[x] = open[x]
  BY <1>1 DEF Without
<1>4. OpenInv'
  BY <1>1, <1>3 DEF RoomInv, OpenInv
<1>5. HeardInv' /\ JoinedInv'
  BY <1>1 DEF RoomInv, HeardInv, JoinedInv
<1>6. ReadyInv'
  <2>1. CASE rest.break
    BY <1>1, <2>1 DEF ReadyInv
  <2>2. CASE ~rest.break
    <3>1. rest.close = {}
      BY <1>2, <2>2 DEF IInv, SendsInv
    <3>2. \A x \in cpy_read \ {sock_fd} : x >= at => x \in DOMAIN open
      BY <1>1, <1>2, <2>2 DEF IInv, ScanInv
    <3>3. \A x \in cpy_read \ {sock_fd} : x >= at => open'[x] = open[x]
      BY <1>3, <3>1, <3>2
    <3>. QED  BY <1>1, <1>3, <2>2, <3>3 DEF RoomInv, ReadyInv
  <2>. QED  BY <2>1, <2>2
<1>. QED  BY <1>2, <1>4, <1>5, <1>6 DEF RoomInv

\* Every action keeps the invariant.
LEMMA RoomInvStep == RoomInv /\ [Next]_vars => RoomInv'
<1>. SUFFICES ASSUME RoomInv, [Next]_vars PROVE RoomInv'
  OBVIOUS
<1>1. CASE UNCHANGED vars
  <2>1. IInv'
    BY <1>1, IInvStep DEF RoomInv
  <2>2. UNCHANGED <<program, peer, inbox, backlog, open, cpy_read, cpy_write, pc, at, rest, joined, said, told>>
    BY <1>1 DEF vars, net, process, table, copies, history
  <2>3. ReadyInv'
    BY <2>2 DEF RoomInv, ReadyInv
  <2>. QED  BY <2>1, <2>2, <2>3, HistoryStays DEF RoomInv
<1>2. CASE Select \/ ScanEnds \/ Accept \/ AcceptFails
  BY <1>2, SelectRoom, EndRoom, AcceptRoom
<1>3. CASE \E fd \in Fds : Leaves(fd) \/ LeavesEcho(fd) \/ Says(fd) \/ SaysEcho(fd)
  BY <1>3, LeavesRoom, EchoRoom, SaysRoom
<1>4. CASE Send \/ SendFails \/ SendsEnd
  BY <1>4, SendRoom, EndRoom, SendsEndRoom
<1>5. CASE Peers
  BY <1>5, PeersRoom
<1>. QED  BY <1>1, <1>2, <1>3, <1>4, <1>5 DEF Next, Server

-----------------------------------------------------------------------------
\* The room as the chat shows it.

Members == {open[fd] : fd \in Kept}

\* Who is listed in the chat is there.
ListedInv == program = "chat" => {open[e.fd] : e \in Range(g_clients)} = Members

\* As all entries of the chat are of open descriptors.
LEMMA MembersAre == RoomInv => ListedInv
<1>. SUFFICES ASSUME RoomInv, program = "chat"
              PROVE  {open[e.fd] : e \in Range(g_clients)} = Members
  BY DEF ListedInv
<1>1. IInv
  BY DEF RoomInv
<1>2. Range(g_clients) = {g_clients[i] : i \in Places}
  BY <1>1, ListIs DEF Range
<1>3. \A i \in Places : g_clients[i].fd \in Kept
  BY <1>1 DEF IInv, ListInv
<1>4. \A fd \in Kept : \E i \in Places : g_clients[i].fd = fd
  BY <1>1 DEF IInv, ListInv
<1>. QED  BY <1>2, <1>3, <1>4 DEF Members

\* The number of a member is the one get_id finds.
LEMMA NumberIs == RoomInv /\ program = "chat" => \A fd \in Kept : Room!Number(open[fd]) = get_id(fd)
<1>. SUFFICES ASSUME RoomInv, program = "chat", NEW fd \in Kept
              PROVE  Room!Number(open[fd]) = get_id(fd)
  OBVIOUS
<1>1. IInv
  BY DEF RoomInv
<1>2. PICK i \in Places : g_clients[i].fd = fd /\ joined[g_clients[i].id + 1] = open[fd]
  BY <1>1 DEF IInv, ListInv
<1>3. /\ g_clients[i].id \in Nat /\ g_clients[i].id < Len(joined)
      /\ \A j \in Places : g_clients[j].fd = fd => j = i
  BY <1>1, <1>2, ListIs DEF IInv, ListInv, TableInv
<1>4. i \in Entries(fd) /\ Entries(fd) \in SUBSET Nat /\ \A j \in Entries(fd) : j = i
  BY <1>1, <1>2, <1>3, ListIs
<1>5. Min(Entries(fd)) = i
  BY <1>4, MinIn
<1>6. get_id(fd) = g_clients[i].id
  BY <1>4, <1>5 DEF get_id
<1>. DEFINE k == g_clients[i].id + 1
<1>7. k \in 1..Len(joined) /\ joined[k] = open[fd] /\ k - 1 = g_clients[i].id
  BY <1>2, <1>3, QueuesAre
<1>. HIDE DEF k
<1>8. \A j \in 1..Len(joined) : joined[j] = open[fd] => j = k
  BY <1>7 DEF RoomInv, JoinedInv
<1>9. (CHOOSE j \in DOMAIN joined : joined[j] = open[fd]) = k
  BY <1>7, <1>8, QueuesAre
<1>10. Room!Number(open[fd]) = k - 1
  BY <1>9 DEF Room!Number, Shown
<1>. QED  BY <1>6, <1>7, <1>10

\* The sends are sends.
LEMMA SendsAre ==
  ASSUME RoomInv
  PROVE  sends \in Seq(AnySend) /\ \A i \in 1..Len(sends) : sends[i].to \in Kept
BY DEF RoomInv, IInv, SendsInv, AnySend

\* Who is there is owed what is addressed to its descriptor, who is not is owed nothing.
OwedInv ==
  /\ \A fd \in Kept : Owed(open[fd]) = Addressed(sends, {fd})
  /\ \A c : c \notin Members => Owed(c) = <<>>
  /\ sends = <<>> => \A c : Owed(c) = <<>>

\* As each has one descriptor.
LEMMA OwedIs == RoomInv => OwedInv
<1>. SUFFICES ASSUME RoomInv PROVE OwedInv
  OBVIOUS
<1>1. \A fd \in Kept : Owed(open[fd]) = Addressed(sends, {fd})
  <2>. TAKE fd \in Kept
  <2>1. {f \in DOMAIN open : open[f] = open[fd]} = {fd}
    BY DEF RoomInv, OpenInv, Kept
  <2>. QED  BY <2>1 DEF Owed
<1>2. ASSUME NEW c, c \notin Members
      PROVE  Owed(c) = <<>>
  <2>. DEFINE S == {f \in DOMAIN open : open[f] = c}
  <2>1. \A i \in 1..Len(sends) : sends[i].to \notin S
    BY <1>2, SendsAre DEF Members
  <2>. HIDE DEF S
  <2>2. Addressed(sends, S) = <<>>
    BY <2>1, SendsAre, NoneAddressed
  <2>. QED  BY <2>2 DEF S, Owed
<1>3. ASSUME sends = <<>>, NEW c
      PROVE  Owed(c) = <<>>
  <2>. DEFINE S == {f \in DOMAIN open : open[f] = c}
  <2>1. \A i \in 1..Len(sends) : sends[i].to \notin S
    BY <1>3, EmptySeq
  <2>. HIDE DEF S
  <2>2. Addressed(sends, S) = <<>>
    BY <2>1, SendsAre, NoneAddressed
  <2>. QED  BY <2>2 DEF S, Owed
<1>. QED  BY <1>1, <1>2, <1>3 DEF OwedInv

\* What send_all has to send is owed to all members but the one it is about.
LEMMA Announces ==
  ASSUME RoomInv, RoomInv', sends = <<>>, program' = "chat",
         NEW fd \in Fds, NEW msgs \in Seq(MessageType),
         sends' = send_all(g_clients', fd, msgs), \A x \in Kept' \ {fd} : x \in cpy_write,
         NEW q
  PROVE  /\ Owed(q) = <<>>
         /\ Owed(q)' = IF q \in {open'[x] : x \in Kept' \ {fd}} THEN msgs ELSE <<>>
<1>1. OwedInv /\ (RoomInv' => OwedInv')
  BY OwedIs, PTL
<1>2. Owed(q) = <<>>
  BY <1>1 DEF OwedInv
<1>3. /\ \A x \in Kept' : Addressed(sends', {f \in DOMAIN open' : open'[f] = open'[x]}) = Addressed(sends', {x})
      /\ q \notin Members' => Owed(q)' = <<>>
  BY <1>1 DEF OwedInv, Owed
<1>4. \A x \in Kept' : q = open'[x] => Owed(q)' = Addressed(sends', {x})
  BY <1>3 DEF Owed
<1>5. /\ g_clients' \in Seq([fd : Fds, id : Nat])
      /\ \A i, j \in 1..Len(g_clients') : g_clients'[i].fd = g_clients'[j].fd => i = j
      /\ {g_clients'[i].fd : i \in 1..Len(g_clients')} = Kept'
  BY DEF RoomInv, IInv, TableInv, ListInv, Places
<1>6. ASSUME NEW x \in Kept'
      PROVE  Addressed(sends', {x}) = IF x # fd THEN msgs ELSE <<>>
  <2>1. g_clients' \in Seq(Entry) /\ Distinct(g_clients')
    BY <1>5 DEF Entry, Distinct
  <2>2. x \in Named(g_clients') \cap (cpy_write \ {fd}) <=> x # fd
    BY <1>5 DEF Named
  <2>. DEFINE X == {x}
  <2>3. X = {x}
    OBVIOUS
  <2>. HIDE DEF X
  <2>4. Addressed(send_all(g_clients', fd, msgs), X)
          = IF x \in Named(g_clients') \cap (cpy_write \ {fd}) THEN msgs ELSE <<>>
    BY <2>1, <2>3, SendAllAddresses
  <2>. QED  BY <2>2, <2>4 DEF X
<1>7. CASE q \in {open'[x] : x \in Kept' \ {fd}}
  <2>1. PICK x \in Kept' \ {fd} : q = open'[x]
    BY <1>7
  <2>. QED  BY <1>2, <1>4, <1>6, <1>7, <2>1
<1>8. CASE q \notin {open'[x] : x \in Kept' \ {fd}}
  <2>1. CASE fd \in Kept' /\ q = open'[fd]
    BY <1>2, <1>4, <1>6, <1>8, <2>1
  <2>2. CASE ~(fd \in Kept' /\ q = open'[fd])
    <3>1. q \notin Members'
      BY <1>8, <2>2 DEF Members
    <3>. QED  BY <1>2, <1>3, <1>8, <3>1
  <2>. QED  BY <2>1, <2>2
<1>. QED  BY <1>7, <1>8

-----------------------------------------------------------------------------
\* Each step is one of the room, or none.

\* Whoever is accepted joins.
LEMMA AcceptJoins ==
  ASSUME RoomInv, RoomInv', Accept, program = "chat"
  PROVE  \E p \in Conns : Room!Join(p)
<1>. PICK c, fd :
       /\ c = Head(backlog) /\ fd = Min(Free)
       /\ c = backlog[1] /\ c \in Conns /\ 1 \in 1..Len(backlog)
       /\ fd \in Fds /\ fd \notin DOMAIN open
       /\ joined' = Append(joined, c)
       /\ DOMAIN open' = DOMAIN open \cup {fd} /\ open'[fd] = c
       /\ \A x \in DOMAIN open : open'[x] = open[x]
       /\ rest.close = {} /\ sends = <<>> /\ pc = "scan" /\ rest'.close = {}
       /\ sends' = send_all(g_clients', fd, <<Message("arrived", g_id, <<>>)>>)
  BY AcceptTakes
<1>. DEFINE msgs == <<Message("arrived", g_id, <<>>)>>
<1>1. UNCHANGED <<program, peer, said, told>>
  BY DEF Accept
<1>2. Kept = DOMAIN open /\ Kept' = Kept \cup {fd} /\ Kept' \ {fd} = Kept
  BY DEF Kept
<1>3. /\ {open[e.fd] : e \in Range(g_clients)} = Members
      /\ {open'[e.fd] : e \in Range(g_clients')} = Members'
  <2>1. ListedInv /\ ListedInv'
    BY MembersAre, PTL
  <2>. QED  BY <1>1, <2>1 DEF ListedInv
<1>4. Members' = Members \cup {c} /\ Members = {open'[x] : x \in Kept' \ {fd}}
  BY <1>2 DEF Members
<1>5. c \notin Members /\ c \notin Range(joined)
  <2>1. \A j \in 1..Len(joined) : joined[j] # c
    BY DEF RoomInv, JoinedInv
  <2>2. c \notin Range(joined)
    BY <2>1, QueuesAre DEF Range
  <2>. QED  BY <1>2, <2>1, <2>2 DEF RoomInv, OpenInv, Members
<1>6. g_id = Len(joined) /\ g_id \in Nat
  BY QueuesAre DEF RoomInv, IInv, TableInv
<1>7. msgs \in Seq(MessageType)
  BY <1>6, NoText, OneMessage
<1>8. \A q : /\ Owed(q) = <<>>
             /\ Owed(q)' = IF q \in Members THEN msgs ELSE <<>>
  <2>1. \A x \in Kept' \ {fd} : x \in cpy_write
    BY <1>2 DEF RoomInv, ReadyInv
  <2>. HIDE DEF msgs
  <2>2. sends' = send_all(g_clients', fd, msgs)
    BY DEF msgs
  <2>. QED  BY <1>1, <1>4, <1>7, <2>1, <2>2, Announces
<1>9. msgs = <<Room!Event("arrived", Len(joined), <<>>)>>
  BY <1>6 DEF Message, Room!Event
<1>. HIDE DEF msgs
<1>10. <<>> \o msgs = msgs
  BY <1>7, ConcatEmptySeq
<1>11. Room!Join(c)
  <2>1. UNCHANGED {d \in Conns : peer[d].st \in {"closed", "reset"}}
    BY <1>1
  <2>2. [d \in Conns |-> Shown(Owed(d), <<>>)]' =
          [d \in Conns |-> IF d \in Members THEN msgs ELSE <<>>]
    BY <1>1, <1>8 DEF Shown
  <2>3. Room!Announced(c, msgs) = [d \in Conns |-> IF d \in Members THEN msgs ELSE <<>>]
    BY <1>3, <1>5, <1>8, <1>10 DEF Room!Announced, Shown
  <2>. HIDE DEF Members
  <2>4. c \notin Room!Range(Shown(joined, <<>>))
    BY <1>5 DEF Room!Range, Range, Shown
  <2>5. Shown(joined, <<>>)' = Append(Shown(joined, <<>>), c)
    BY <1>1 DEF Shown
  <2>6. Shown({open[e.fd] : e \in Range(g_clients)}, {})'
          = Shown({open[e.fd] : e \in Range(g_clients)}, {}) \cup {c}
    BY <1>1, <1>3, <1>4 DEF Shown
  <2>7. [d \in Conns |-> Shown(Owed(d), <<>>)]' = Room!Announced(c, msgs)
    BY <2>2, <2>3
  <2>8. <<Room!Event("arrived", Len(Shown(joined, <<>>)), <<>>)>> = msgs
    BY <1>9 DEF Shown
  <2>9. UNCHANGED <<Shown({d \in Conns : peer[d].st \in {"closed", "reset"}}, {}),
                    said, [d \in Conns |-> Shown(told[d], <<>>)]>>
    BY <1>1, <2>1 DEF Shown
  <2>. QED
    BY <2>4, <2>5, <2>6, <2>7, <2>8, <2>9 DEF Room!Join
<1>. QED  BY <1>11

\* Who leaves has hung up, and the others are owed it with its number.
LEMMA LeavesLeaves ==
  ASSUME RoomInv, RoomInv', NEW fd \in Fds, Leaves(fd)
  PROVE  \E p \in Conns : Room!Leave(p)
<1>. DEFINE c    == open[fd]
            msgs == <<Message("left", get_id(fd), <<>>)>>
<1>1. /\ Scans(fd) /\ fd # sock_fd /\ program = "chat" /\ inbox[c] = <<>>
      /\ sends' = send_all(g_clients', fd, msgs)
      /\ rest'.close = {fd}
      /\ UNCHANGED <<program, peer, open, joined, said, told>>
  BY DEF Leaves, Gone, net, history
<1>2. /\ pc = "scan" /\ Kept = DOMAIN open /\ fd \in Kept /\ fd \in cpy_read /\ at <= fd /\ sends = <<>>
      /\ fd \in Nat
  <2>1. IInv
    BY DEF RoomInv
  <2>. QED  BY <1>1, <2>1, ScanAt
<1>3. Kept' = Kept \ {fd}
  BY <1>1, <1>2 DEF Kept
<1>4. /\ {open[e.fd] : e \in Range(g_clients)} = Members
      /\ {open[e.fd] : e \in Range(g_clients)}' = Members'
  <2>1. ListedInv /\ ListedInv'
    BY MembersAre, PTL
  <2>. QED  BY <1>1, <2>1 DEF ListedInv
<1>5. /\ c \in Members /\ Members' = Members \ {c}
      /\ Members \ {c} = {open'[x] : x \in Kept' \ {fd}}
  BY <1>1, <1>2, <1>3 DEF RoomInv, OpenInv, Members
<1>6. c \in Conns /\ peer[c].st \in {"closed", "reset"}
  <2>1. c \in Conns
    BY <1>2 DEF RoomInv, IInv, TableInv
  <2>2. at \in Int
    BY DEF RoomInv, IInv, ScanInv
  <2>. QED  BY <1>1, <1>2, <2>1, <2>2 DEF RoomInv, ReadyInv
<1>7. msgs \in Seq(MessageType)
  <2>1. IInv
    BY DEF RoomInv
  <2>. QED  BY <2>1, IdType, NoText, OneMessage
<1>8. msgs = <<Room!Event("left", Room!Number(c), <<>>)>>
  <2>1. Room!Number(c) = get_id(fd)
    BY <1>1, <1>2, NumberIs
  <2>. QED  BY <2>1 DEF Message, Room!Event
<1>. HIDE DEF msgs, c
<1>9. \A q : /\ Owed(q) = <<>>
             /\ Owed(q)' = IF q \in Members \ {c} THEN msgs ELSE <<>>
  <2>1. \A x \in Kept' \ {fd} : x \in cpy_write
    BY <1>1, <1>2, <1>3 DEF RoomInv, ReadyInv
  <2>. QED  BY <1>1, <1>2, <1>5, <1>7, <2>1, Announces
<1>10. <<>> \o msgs = msgs
  BY <1>7, ConcatEmptySeq
<1>11. Room!Leave(c)
  <2>1. c \in Shown({open[e.fd] : e \in Range(g_clients)}, {})
              \cap Shown({d \in Conns : peer[d].st \in {"closed", "reset"}}, {})
    BY <1>1, <1>4, <1>5, <1>6 DEF Shown
  <2>2. Shown({open[e.fd] : e \in Range(g_clients)}, {})'
          = Shown({open[e.fd] : e \in Range(g_clients)}, {}) \ {c}
    BY <1>1, <1>4, <1>5 DEF Shown
  <2>3. Room!Announced(c, msgs) = [d \in Conns |-> IF d \in Members \ {c} THEN msgs ELSE <<>>]
    BY <1>1, <1>4, <1>9, <1>10 DEF Room!Announced, Shown
  <2>4. [Room!Announced(c, msgs) EXCEPT ![c] = <<>>] = Room!Announced(c, msgs)
    BY <1>6, <2>3
  <2>5. [d \in Conns |-> Shown(Owed(d), <<>>)]' = [d \in Conns |-> IF d \in Members \ {c} THEN msgs ELSE <<>>]
    BY <1>1, <1>9 DEF Shown
  <2>6. [d \in Conns |-> Shown(Owed(d), <<>>)]' = [Room!Announced(c, msgs) EXCEPT ![c] = <<>>]
    BY <2>3, <2>4, <2>5
  <2>7. UNCHANGED <<Shown(joined, <<>>), Shown({d \in Conns : peer[d].st \in {"closed", "reset"}}, {}),
                    said, [d \in Conns |-> Shown(told[d], <<>>)]>>
    BY <1>1 DEF Shown
  <2>. QED  BY <1>8, <2>1, <2>2, <2>6, <2>7 DEF Room!Leave
<1>. QED  BY <1>6, <1>11

\* What was put behind a sequence is what is behind it.
LEMMA Behind ==
  ASSUME NEW T, NEW s \in Seq(T), NEW t \in Seq(T), t # <<>>
  PROVE  /\ Room!IsStrictPrefix(s, s \o t)
         /\ SubSeq(s \o t, Len(s) + 1, Len(s \o t)) = t
<1>. DEFINE n == Len(s)
            m == Len(t)
            u == s \o t
<1>1. n \in Nat /\ m \in Nat \ {0}
  BY LenProperties, EmptySeq
<1>2. /\ u \in Seq(T) /\ Len(u) = n + m
      /\ \A i \in 1..n + m : u[i] = IF i <= n THEN s[i] ELSE t[i - n]
  BY ConcatProperties
<1>3. SubSeq(u, n + 1, Len(u)) = t
  <2>1. n + 1 \in n + 1..n + m /\ n + m \in n + 1..n + m
    BY <1>1
  <2>2. SubSeq(u, n + 1, n + m) = SubSeq(t, (n + 1) - n, (n + m) - n)
    BY <2>1, SubSeqOfConcat2
  <2>3. (n + 1) - n = 1 /\ (n + m) - n = m
    BY <1>1
  <2>. QED  BY <1>2, <2>2, <2>3, SubSeqFull
<1>4. SubSeq(u, 1, n) = SubSeq(s, 1, n)
  <2>1. CASE n = 0
    BY <2>1, SubSeqEmpty
  <2>2. CASE n # 0
    <3>1. 1 \in 1..n /\ n \in 1..n
      BY <1>1, <2>2
    <3>. QED  BY <3>1, SubSeqOfConcat1
  <2>. QED  BY <2>1, <2>2
<1>5. s # u
  BY <1>1, <1>2
<1>. HIDE DEF u
<1>6. Room!IsStrictPrefix(s, u)
  BY <1>1, <1>2, <1>4, <1>5 DEF Room!IsStrictPrefix, Room!IsPrefix
<1>. QED  BY <1>3, <1>6 DEF u

\* A client says the lines that ex_msg made, or has not come to the end of one.
LEMMA SaysSays ==
  ASSUME RoomInv, RoomInv', NEW fd \in Fds, Says(fd)
  PROVE  (\E p \in Conns : Room!Say(p)) \/ UNCHANGED Room!room
<1>. DEFINE c     == open[fd]
            lines == ex_msg(inbox[c]).sent
            msgs  == [i \in DOMAIN lines |-> Message("said", get_id(fd), lines[i])]
<1>1. /\ Scans(fd) /\ fd # sock_fd /\ program = "chat"
      /\ sends' = send_all(g_clients, fd, msgs)
      /\ said' = [said EXCEPT ![c] = @ \o lines]
      /\ rest'.close = {}
      /\ UNCHANGED <<program, peer, open, g_clients, joined, told>>
  BY DEF Says, table
<1>2. /\ pc = "scan" /\ Kept = DOMAIN open /\ fd \in Kept /\ sends = <<>> /\ IInv
  <2>1. IInv
    BY DEF RoomInv
  <2>. QED  BY <1>1, <2>1, ScanAt
<1>3. Kept' = Kept
  BY <1>1, <1>2 DEF Kept
<1>4. /\ {open[e.fd] : e \in Range(g_clients)} = Members
      /\ UNCHANGED {open[e.fd] : e \in Range(g_clients)}
  BY <1>1, MembersAre DEF ListedInv
<1>5. c \in Members /\ Members \ {c} = {open'[x] : x \in Kept' \ {fd}}
  BY <1>1, <1>2, <1>3 DEF RoomInv, OpenInv, Members
<1>6. c \in Conns /\ inbox[c] \in Seq(Letters)
  BY <1>2 DEF IInv, TableInv, NetInv
<1>7. lines \in Seq(Seq(Letters)) /\ said[c] \in Seq(Seq(Letters)) /\ said \in [Conns -> Seq(Seq(Letters))]
  BY <1>2, <1>6, ExType DEF RoomInv, HeardInv
<1>8. Room!Number(c) = get_id(fd)
  BY <1>1, <1>2, NumberIs
<1>. HIDE DEF c, lines
<1>9. msgs \in Seq(MessageType)
  BY <1>2, <1>7, IdType, SaidType
<1>10. msgs = [i \in DOMAIN lines |-> Room!Event("said", Room!Number(c), lines[i])]
  BY <1>8 DEF Message, Room!Event
<1>11. lines = <<>> => msgs = <<>>
  <2>. SUFFICES ASSUME lines = <<>> PROVE msgs = <<>>
    OBVIOUS
  <2>. QED  BY <1>9, EmptySeq
<1>. HIDE DEF msgs
<1>12. \A q : /\ Owed(q) = <<>>
              /\ Owed(q)' = IF q \in Members \ {c} THEN msgs ELSE <<>>
  <2>1. \A x \in Kept' \ {fd} : x \in cpy_write
    BY <1>1, <1>2, <1>3 DEF RoomInv, ReadyInv
  <2>2. sends' = send_all(g_clients', fd, msgs)
    BY <1>1
  <2>. QED  BY <1>1, <1>2, <1>5, <1>9, <2>1, <2>2, Announces
<1>13. <<>> \o msgs = msgs
  BY <1>9, ConcatEmptySeq
<1>14. [d \in Conns |-> Shown(Owed(d), <<>>)]' = [d \in Conns |-> IF d \in Members \ {c} THEN msgs ELSE <<>>]
  BY <1>1, <1>12 DEF Shown
<1>15. UNCHANGED <<Shown(joined, <<>>), Shown({open[e.fd] : e \in Range(g_clients)}, {}),
                   Shown({d \in Conns : peer[d].st \in {"closed", "reset"}}, {}),
                   [d \in Conns |-> Shown(told[d], <<>>)]>>
  BY <1>1, <1>4 DEF Shown
<1>16. CASE lines = <<>>
  <2>1. said' = said
    <3>1. said[c] \o <<>> = said[c]
      BY <1>7, ConcatEmptySeq
    <3>. QED  BY <1>1, <1>6, <1>7, <1>16, <3>1
  <2>2. UNCHANGED [d \in Conns |-> Shown(Owed(d), <<>>)]
    BY <1>1, <1>11, <1>12, <1>16 DEF Shown
  <2>. QED  BY <1>15, <2>1, <2>2 DEF Room!room
<1>17. CASE lines # <<>>
  <2>1. said'[c] = said[c] \o lines
    BY <1>1, <1>6, <1>7
  <2>2. /\ Room!IsStrictPrefix(said[c], said'[c])
        /\ SubSeq(said'[c], Len(said[c]) + 1, Len(said'[c])) = lines
    <3>. DEFINE T == Seq(Letters)
                s == said[c]
    <3>1. s \in Seq(T) /\ lines \in Seq(T)
      BY <1>7
    <3>. HIDE DEF T, s
    <3>2. Room!IsStrictPrefix(s, s \o lines) /\ SubSeq(s \o lines, Len(s) + 1, Len(s \o lines)) = lines
      BY <1>17, <3>1, Behind
    <3>. QED  BY <2>1, <3>2 DEF s
  <2>5. said' = [said EXCEPT ![c] = said'[c]]
    BY <1>1, <1>6, <1>7
  <2>6. Room!Announced(c, msgs) = [d \in Conns |-> IF d \in Members \ {c} THEN msgs ELSE <<>>]
    BY <1>1, <1>4, <1>12, <1>13 DEF Room!Announced, Shown
  <2>7. c \in Shown({open[e.fd] : e \in Range(g_clients)}, {})
    BY <1>1, <1>4, <1>5 DEF Shown
  <2>8. [d \in Conns |-> Shown(Owed(d), <<>>)]' = Room!Announced(c, msgs)
    BY <1>14, <2>6
  <2>9. msgs = LET new == SubSeq(said'[c], Len(said[c]) + 1, Len(said'[c]))
               IN [i \in DOMAIN new |-> Room!Event("said", Room!Number(c), new[i])]
    BY <1>10, <2>2
  <2>10. Room!Say(c)
    BY <1>15, <2>2, <2>5, <2>7, <2>8, <2>9 DEF Room!Say
  <2>. QED  BY <1>6, <2>10
<1>. QED  BY <1>16, <1>17

\* What goes first is the first that they hear.
LEMMA HeadAddressed ==
  ASSUME NEW list \in Seq(AnySend), list # <<>>, NEW these
  PROVE  Addressed(list, these) = IF Head(list).to \in these
                                  THEN <<Head(list).msg>> \o Addressed(Tail(list), these)
                                  ELSE Addressed(Tail(list), these)
<1>. DEFINE h == Head(list)
            t == Tail(list)
            f == <<h>>
<1>1. h \in AnySend /\ t \in Seq(AnySend) /\ list = f \o t
  <2>1. h \in AnySend /\ t \in Seq(AnySend)
    BY HeadTailProperties
  <2>2. Len(list) \in Nat \ {0} /\ h = list[1]
    BY EmptySeq, LenProperties
  <2>3. SubSeq(list, 1, Len(list)) = <<list[1]>> \o SubSeq(list, 2, Len(list))
    <3>1. 1 \in 1..Len(list) /\ Len(list) \in 1..Len(list) /\ 1 + 1 = 2
      BY <2>2
    <3>. QED  BY <3>1, SubSeqRecursiveFirst
  <2>. QED  BY <2>1, <2>2, <2>3, SubSeqFull, TailIsSubSeq
<1>. HIDE DEF h, t
<1>2. f \in Seq(AnySend) /\ Len(f) = 1 /\ f[1] = h
  BY <1>1
<1>3. Addressed(list, these) = Addressed(f, these) \o Addressed(t, these)
  <2>. HIDE DEF f
  <2>. QED  BY <1>1, <1>2, AddressedConcat
<1>4. Addressed(t, these) \in Seq(MessageType)
  BY <1>1, AddressedType
<1>5. CASE h.to \in these
  <2>. HIDE DEF f
  <2>1. 1 \in 1..Len(f) /\ f[1].to \in these /\ \A i \in 1..Len(f) : f[i].to \in these => i = 1
    BY <1>2, <1>5
  <2>2. Addressed(f, these) = <<f[1].msg>>
    BY <1>2, <2>1, OneAddressed
  <2>. QED  BY <1>2, <1>3, <1>5, <2>2 DEF h, t
<1>6. CASE h.to \notin these
  <2>. HIDE DEF f
  <2>1. Addressed(f, these) = <<>>
    BY <1>2, <1>6, NoneAddressed
  <2>2. <<>> \o Addressed(t, these) = Addressed(t, these)
    BY <1>4, ConcatEmptySeq
  <2>. QED  BY <1>3, <1>6, <2>1, <2>2 DEF h, t
<1>. QED  BY <1>5, <1>6

\* One thing put before a sequence.
LEMMA Before ==
  ASSUME NEW T, NEW x \in T, NEW u \in Seq(T)
  PROVE  <<x>> \o u # <<>> /\ Head(<<x>> \o u) = x /\ Tail(<<x>> \o u) = u
<1>. DEFINE f == <<x>>
            s == f \o u
            t == Tail(s)
<1>1. f \in Seq(T) /\ Len(f) = 1 /\ f[1] = x
  OBVIOUS
<1>. HIDE DEF f
<1>2. Len(u) \in Nat /\ u = [i \in 1..Len(u) |-> u[i]]
  BY LenProperties
<1>3. s \in Seq(T) /\ Len(s) = 1 + Len(u) /\ \A i \in 1..1 + Len(u) : s[i] = IF i <= 1 THEN f[i] ELSE u[i - 1]
  <2>1. /\ s \in Seq(T) /\ Len(s) = Len(f) + Len(u)
        /\ \A i \in 1..Len(f) + Len(u) : s[i] = IF i <= Len(f) THEN f[i] ELSE u[i - Len(f)]
    BY <1>1, ConcatProperties
  <2>. HIDE DEF s
  <2>. QED  BY <1>1, <2>1
<1>. HIDE DEF s
<1>4. s # <<>>
  BY <1>2, <1>3, EmptySeq
<1>5. Head(s) = x
  <2>1. Head(s) = s[1] /\ 1 \in 1..1 + Len(u)
    BY <1>2, <1>3, <1>4, HeadTailProperties
  <2>. QED  BY <1>1, <1>3, <2>1
<1>6. t = u
  <2>1. t \in Seq(T) /\ Len(t) = Len(s) - 1 /\ \A i \in 1..Len(t) : t[i] = s[i + 1]
    BY <1>3, <1>4, HeadTailProperties
  <2>. HIDE DEF t
  <2>2. Len(t) = Len(u)
    BY <1>2, <1>3, <2>1
  <2>3. \A i \in 1..Len(u) : t[i] = u[i]
    <3>. TAKE i \in 1..Len(u)
    <3>1. i + 1 \in 1..1 + Len(u) /\ ~(i + 1 <= 1) /\ (i + 1) - 1 = i
      BY <1>2
    <3>. QED  BY <1>3, <2>1, <2>2, <3>1
  <2>4. t = [i \in 1..Len(t) |-> t[i]]
    BY <2>1, LenProperties
  <2>. QED  BY <1>2, <2>2, <2>3, <2>4
<1>. QED  BY <1>4, <1>5, <1>6 DEF s, f

\* What is sent is heard by the one it is owed to.
LEMMA SendHears ==
  ASSUME RoomInv, RoomInv', Send, program = "chat"
  PROVE  \E p \in Conns : Room!Hear(p)
<1>. PICK fd, m, c : fd = Head(sends).to /\ m = Head(sends).msg /\ c = open[fd]
  OBVIOUS
<1>1. /\ sends # <<>> /\ sends' = Tail(sends)
      /\ told' = [told EXCEPT ![c] = Append(@, m)]
      /\ UNCHANGED <<program, peer, open, g_clients, rest, joined, said>>
  BY DEF Send, table
<1>2. sends \in Seq(AnySend) /\ fd \in Kept /\ m \in MessageType
  <2>1. sends \in Seq(AnySend) /\ \A i \in 1..Len(sends) : sends[i].to \in Kept
    BY SendsAre
  <2>2. Head(sends) \in AnySend /\ Head(sends) = sends[1] /\ 1 \in 1..Len(sends)
    BY <1>1, <2>1, HeadTailProperties, LenProperties, EmptySeq
  <2>. QED  BY <2>1, <2>2 DEF AnySend
<1>3. c \in Conns /\ c \in Members /\ fd \in DOMAIN open
  BY <1>2 DEF RoomInv, IInv, TableInv, Kept, Members
<1>4. {open[e.fd] : e \in Range(g_clients)} = Members
  BY MembersAre DEF ListedInv
<1>5. \A q : Owed(q) = IF q = c THEN <<m>> \o Owed(q)' ELSE Owed(q)'
  <2>. TAKE q
  <2>. DEFINE S == {f \in DOMAIN open : open[f] = q}
  <2>1. fd \in S <=> q = c
    BY <1>3
  <2>2. Owed(q) = Addressed(sends, S) /\ Owed(q)' = Addressed(sends', S)
    BY <1>1 DEF Owed
  <2>. HIDE DEF S
  <2>3. Addressed(sends, S) = IF fd \in S THEN <<m>> \o Addressed(Tail(sends), S) ELSE Addressed(Tail(sends), S)
    BY <1>1, <1>2, HeadAddressed
  <2>. QED  BY <1>1, <2>1, <2>2, <2>3
<1>6. Owed(c)' \in Seq(MessageType)
  <2>. DEFINE S == {f \in DOMAIN open : open[f] = c}
  <2>1. Owed(c)' = Addressed(sends', S)
    BY <1>1 DEF Owed
  <2>2. sends' \in Seq(AnySend)
    BY <1>1, <1>2, HeadTailProperties
  <2>. HIDE DEF S
  <2>. QED  BY <2>1, <2>2, AddressedType
<1>7. PICK u : u = [q \in Conns |-> Owed(q)'][c]
  OBVIOUS
<1>8. Owed(c) = <<m>> \o u /\ u \in Seq(MessageType)
  BY <1>3, <1>5, <1>6, <1>7
<1>9. Owed(c) # <<>> /\ Head(Owed(c)) = m /\ Tail(Owed(c)) = u
  BY <1>2, <1>8, Before
<1>10. Room!Hear(c)
  <2>1. c \in Shown({open[e.fd] : e \in Range(g_clients)}, {})
    BY <1>3, <1>4 DEF Shown
  <2>. DEFINE owes == [d \in Conns |-> Shown(Owed(d), <<>>)]
              hears == [d \in Conns |-> Shown(told[d], <<>>)]
  <2>2. owes[c] = Owed(c) /\ \A d \in Conns : owes[d] = Owed(d)
    BY <1>3 DEF Shown
  <2>3. hears' = [hears EXCEPT ![c] = Append(@, Head(owes[c]))]
    <3>1. told \in [Conns -> Seq(MessageType)]
      BY DEF RoomInv, HeardInv
    <3>2. hears = told /\ hears' = told'
      BY <1>1, <3>1 DEF Shown
    <3>. QED  BY <1>1, <1>9, <2>2, <3>2
  <2>4. owes' = [owes EXCEPT ![c] = Tail(@)]
    <3>1. owes' = [d \in Conns |-> Owed(d)']
      BY <1>1 DEF Shown
    <3>2. \A d \in Conns : owes'[d] = IF d = c THEN Tail(owes[c]) ELSE owes[d]
      BY <1>5, <1>7, <1>9, <2>2, <3>1
    <3>. QED  BY <3>1, <3>2
  <2>5. UNCHANGED <<Shown(joined, <<>>), Shown({open[e.fd] : e \in Range(g_clients)}, {}),
                    Shown({d \in Conns : peer[d].st \in {"closed", "reset"}}, {}), said>>
    BY <1>1 DEF Shown
  <2>6. owes[c] # <<>>
    BY <1>9, <2>2
  <2>. QED  BY <2>1, <2>3, <2>4, <2>5, <2>6 DEF Room!Hear
<1>. QED  BY <1>3, <1>10

\* Who closes or is reset has hung up.
LEMMA PeersHangUp ==
  ASSUME RoomInv, RoomInv', Peers
  PROVE  (\E p \in Conns : Room!HangUp(p)) \/ UNCHANGED Room!room
<1>. PICK c \in Conns : Connect(c) \/ PeerSends(c) \/ PeerReads(c) \/ PeerCloses(c) \/ PeerResets(c)
  BY DEF Peers
<1>1. UNCHANGED <<program, open, g_clients, sends, joined, said, told>>
  BY DEF Connect, PeerSends, PeerReads, PeerCloses, PeerResets, process, table, history
<1>2. UNCHANGED <<Shown(joined, <<>>), Shown({open[e.fd] : e \in Range(g_clients)}, {}),
                  said, [d \in Conns |-> Shown(Owed(d), <<>>)], [d \in Conns |-> Shown(told[d], <<>>)]>>
  BY <1>1 DEF Shown, Owed
<1>. DEFINE gone == {d \in Conns : peer[d].st \in {"closed", "reset"}}
<1>3. peer \in [Conns -> [st : {"out", "up", "closed", "reset"}, sent : Nat]]
  BY DEF RoomInv, IInv, NetInv
<1>4. gone' = gone \/ (c \notin gone /\ gone' = gone \cup {c})
  <2>1. CASE Connect(c) \/ PeerSends(c) \/ PeerReads(c)
    <3>1. \A d \in Conns : peer'[d].st \in {"closed", "reset"} <=> peer[d].st \in {"closed", "reset"}
      BY <1>3, <2>1 DEF Connect, PeerSends, PeerReads
    <3>. QED  BY <3>1
  <2>2. CASE PeerCloses(c) \/ PeerResets(c)
    <3>1. peer' = [peer EXCEPT ![c].st = "closed"] \/ peer' = [peer EXCEPT ![c].st = "reset"]
      BY <2>2 DEF PeerCloses, PeerResets
    <3>2. peer'[c].st \in {"closed", "reset"} /\ \A d \in Conns : d # c => peer'[d] = peer[d]
      BY <1>3, <3>1
    <3>3. gone' = gone \cup {c}
      BY <3>2
    <3>. QED  BY <3>3
  <2>. QED  BY <2>1, <2>2
<1>5. Shown(gone, {})' = Shown(gone, {})
        \/ (c \notin Shown(gone, {}) /\ Shown(gone, {})' = Shown(gone, {}) \cup {c})
  BY <1>1, <1>4 DEF Shown
<1>. HIDE DEF gone
<1>6. CASE Shown(gone, {})' = Shown(gone, {})
  BY <1>2, <1>6 DEF Room!room, gone
<1>7. CASE c \notin Shown(gone, {}) /\ Shown(gone, {})' = Shown(gone, {}) \cup {c}
  <2>1. Room!HangUp(c)
    BY <1>2, <1>7 DEF Room!HangUp, gone
  <2>. QED  BY <2>1
<1>. QED  BY <1>5, <1>6, <1>7

\* What the room does not see: the loop of the chat between two handlers, and the end
\* of a handler, when who has left is closed.
LEMMA LoopIsHidden ==
  ASSUME RoomInv, RoomInv', Select \/ ScanEnds \/ AcceptFails \/ SendFails \/ SendsEnd
  PROVE  UNCHANGED Room!room
<1>1. UNCHANGED <<program, peer, g_clients, sends, joined, said, told>>
  BY DEF Select, ScanEnds, AcceptFails, SendFails, SendsEnd, net, table, history
<1>2. UNCHANGED open \/ (sends = <<>> /\ open' = Without(open, rest.close) /\ rest'.close = {})
  <2>1. rest \in [close : SUBSET Fds, break : BOOLEAN]
    BY DEF RoomInv, IInv, SendsInv
  <2>. QED  BY <2>1 DEF Select, ScanEnds, AcceptFails, SendFails, SendsEnd, table
<1>3. UNCHANGED [d \in Conns |-> Shown(Owed(d), <<>>)]
  <2>1. CASE UNCHANGED open
    BY <1>1, <2>1 DEF Shown, Owed
  <2>2. CASE sends = <<>>
    <3>1. OwedInv /\ OwedInv'
      BY OwedIs, PTL
    <3>2. \A d \in Conns : Owed(d) = <<>> /\ Owed(d)' = <<>>
      BY <1>1, <2>2, <3>1 DEF OwedInv
    <3>. QED  BY <1>1, <3>2 DEF Shown
  <2>. QED  BY <1>2, <2>1, <2>2
<1>4. UNCHANGED Shown({open[e.fd] : e \in Range(g_clients)}, {})
  <2>1. CASE UNCHANGED open
    BY <1>1, <2>1 DEF Shown
  <2>2. CASE program = "chat" /\ open' = Without(open, rest.close) /\ rest'.close = {}
    <3>1. /\ {open[e.fd] : e \in Range(g_clients)} = Members
          /\ {open[e.fd] : e \in Range(g_clients)}' = Members'
      <4>1. ListedInv /\ ListedInv'
        BY MembersAre, PTL
      <4>. QED  BY <1>1, <2>2, <4>1 DEF ListedInv
    <3>2. DOMAIN open' = Kept /\ \A x \in Kept : open'[x] = open[x]
      BY <2>2 DEF Without, Kept
    <3>3. Kept' = Kept
      BY <2>2, <3>2 DEF Kept
    <3>4. Members' = Members
      BY <3>2, <3>3 DEF Members
    <3>. QED  BY <1>1, <3>1, <3>4 DEF Shown
  <2>3. CASE program # "chat"
    BY <1>1, <2>3 DEF Shown
  <2>. QED  BY <1>2, <2>1, <2>2, <2>3
<1>5. UNCHANGED <<Shown(joined, <<>>), Shown({d \in Conns : peer[d].st \in {"closed", "reset"}}, {}),
                  said, [d \in Conns |-> Shown(told[d], <<>>)]>>
  BY <1>1 DEF Shown
<1>. QED  BY <1>3, <1>4, <1>5 DEF Room!room

\* The echo shows nothing.
LEMMA EchoIsHidden ==
  ASSUME program # "chat", program' = program, said' = said
  PROVE  UNCHANGED Room!room
BY DEF Room!room, Shown

\* At first nobody is in the room.
LEMMA RoomStarts == Init => Room!RoomInit
<1>. SUFFICES ASSUME Init PROVE Room!RoomInit
  OBVIOUS
<1>1. /\ joined = <<>> /\ g_clients = <<>> /\ said = [c \in Conns |-> <<>>] /\ told = [c \in Conns |-> <<>>]
      /\ peer = [c \in Conns |-> [st |-> "out", sent |-> 0]] /\ sends = <<>>
  BY DEF Init
<1>2. Range(g_clients) = {}
  BY <1>1, EmptySeq DEF Range
<1>3. {open[e.fd] : e \in Range(g_clients)} = {} /\ {c \in Conns : peer[c].st \in {"closed", "reset"}} = {}
  BY <1>1, <1>2
<1>4. \A c : Owed(c) = <<>>
  BY <1>1, RoomInvInit, OwedIs DEF OwedInv
<1>5. /\ Shown(joined, <<>>) = <<>>
      /\ Shown({open[e.fd] : e \in Range(g_clients)}, {}) = {}
      /\ Shown({c \in Conns : peer[c].st \in {"closed", "reset"}}, {}) = {}
      /\ [c \in Conns |-> Shown(Owed(c), <<>>)] = [c \in Conns |-> <<>>]
      /\ [c \in Conns |-> Shown(told[c], <<>>)] = [c \in Conns |-> <<>>]
  BY <1>1, <1>3, <1>4 DEF Shown
<1>. QED  BY <1>1, <1>5 DEF Room!RoomInit

\* Every action is a step of the room or none.
LEMMA StepIsRooms == RoomInv /\ RoomInv' /\ [Next]_vars => [Room!RoomNext]_Room!room
<1>. SUFFICES ASSUME RoomInv, RoomInv', [Next]_vars
              PROVE  Room!RoomNext \/ UNCHANGED Room!room
  OBVIOUS
<1>1. CASE Select \/ ScanEnds \/ AcceptFails \/ SendFails \/ SendsEnd
  BY <1>1, LoopIsHidden
<1>2. CASE Accept
  <2>1. CASE program = "chat"
    BY <1>2, <2>1, AcceptJoins DEF Room!RoomNext
  <2>2. CASE program # "chat"
    BY <1>2, <2>2, EchoIsHidden DEF Accept
  <2>. QED  BY <2>1, <2>2
<1>3. CASE \E fd \in Fds : Leaves(fd)
  BY <1>3, LeavesLeaves DEF Room!RoomNext
<1>4. CASE \E fd \in Fds : Says(fd)
  BY <1>4, SaysSays DEF Room!RoomNext
<1>5. CASE \E fd \in Fds : LeavesEcho(fd) \/ SaysEcho(fd)
  BY <1>5, EchoIsHidden DEF LeavesEcho, SaysEcho, net, history
<1>6. CASE Send
  <2>1. CASE program = "chat"
    BY <1>6, <2>1, SendHears DEF Room!RoomNext
  <2>2. CASE program # "chat"
    BY <1>6, <2>2, EchoIsHidden DEF Send
  <2>. QED  BY <2>1, <2>2
<1>7. CASE Peers
  BY <1>7, PeersHangUp DEF Room!RoomNext
<1>8. CASE UNCHANGED vars
  <2>1. UNCHANGED <<program, peer, open, g_clients, sends, joined, said, told>>
    BY <1>8 DEF vars, net, process, table, history
  <2>. QED  BY <2>1 DEF Room!room, Shown, Owed
<1>. QED  BY <1>1, <1>2, <1>3, <1>4, <1>5, <1>6, <1>7, <1>8 DEF Next, Server

-----------------------------------------------------------------------------
\* The chat is a chat room, for any number of clients and descriptors and whatever
\* they send: who is there is told of every arrival, departure and line of the others,
\* once each, with the number of its client and in the order in which they happened,
\* though send_all goes to a list that changes, descriptors are used again and peers
\* do not read; and nobody leaves who has not hung up.
THEOREM ChatIsRoom == Spec => ServesRoom
<1>. QED
  BY RoomInvInit, RoomInvStep, RoomStarts, StepIsRooms, PTL DEF Spec, ServesRoom, Room!RoomSpec

-----------------------------------------------------------------------------
\* The lines of the chat and what the echo gives back.

\* The second text is a piece of the first.
Piece(whole, part) == \E x, y \in Seq(Letters) : whole = (x \o part) \o y

\* A line with this one end.
Ends(line, end) ==
  line[end] = "NL" /\ \A i \in 1..Len(line) : line[i] = "NL" => i = end

\* Lines that as far as their end are a piece of this text.
LinesFrom(text) ==
  {line \in Seq(Letters) : \E end \in 1..Len(line) :
     Ends(line, end) /\ Piece(text, SubSeq(line, 1, end))}

\* What ex_msg has when this text was copied.
ExOf(text) ==
  {ex \in Ex : /\ \E x \in Seq(Letters) : text = x \o ex.line
               /\ ex.sent \in Seq(LinesFrom(text))}

\* Nobody has sent more segments than there are.
SentInv == \A c \in Conns : peer[c].sent <= Len(script[c])

\* What was not received is the end of what was sent.
OwnInv == \A c \in Conns :
  /\ \E x \in Seq(Letters) : Sent(c) = x \o inbox[c]
  /\ said[c] \in Seq(LinesFrom(Sent(c)))

\* Until a recv ends within a line, nothing is left in tmp.
WholeInv ==
  program = "chat" /\ ~torn =>
    /\ tmp = <<>>
    /\ \A c \in Conns :
         /\ \A i \in 1..Len(said[c]) : Last(said[c][i]) = "NL"
         /\ peer[c].st # "reset" => FlattenSeq(said[c]) \o inbox[c] = Sent(c)

\* What was sent to a connection and what is still to be.
Heard(c) == told[c] \o Owed(c)

\* The beginnings of these messages are what was received.
Given(c, p) ==
  /\ p \in Seq(Seq(Letters)) /\ Len(p) = Len(Heard(c))
  /\ \A k \in 1..Len(p) : \E n \in 0..Len(Sent(c)) :
       n <= Len(Heard(c)[k].text) /\ p[k] = SubSeq(Heard(c)[k].text, 1, n)
  /\ FlattenSeq(p) \o inbox[c] = Sent(c)

EchoInv == program = "echo" => \A c \in Conns : peer[c].st # "reset" => \E p : Given(c, p)

KeptInv == RoomInv /\ SentInv /\ OwnInv /\ WholeInv /\ EchoInv

\* A line break over an old text makes one line.
LEMMA LineMade ==
  ASSUME "NL" \in Letters, NEW line \in Seq(Letters \ {"NL"}), NEW old \in Seq(Letters \ {"NL"}),
         NEW u, u = Over(Append(line, "NL"), old), NEW n, n = Len(line) + 1
  PROVE  /\ u \in Seq(Letters) /\ n \in 1..Len(u) /\ Ends(u, n)
         /\ SubSeq(u, 1, n) = Append(line, "NL")
         /\ old = <<>> => u = Append(line, "NL")
<1>. DEFINE a == Append(line, "NL")
            b == SubSeq(old, Len(a) + 1, Len(old))
            m == Len(b)
<1>1. Len(line) \in Nat /\ \A i \in 1..Len(line) : line[i] \in Letters \ {"NL"}
  BY LenProperties, ElementOfSeq
<1>2. line \in Seq(Letters)
  BY Fewer
<1>3. a \in Seq(Letters) /\ n = Len(a) /\ a[n] = "NL" /\ \A i \in 1..Len(line) : a[i] = line[i]
  BY <1>2, AppendProperties
<1>4. Len(old) \in Nat
  BY LenProperties
<1>. HIDE DEF a
<1>5. b \in Seq(Letters \ {"NL"})
  <2>1. Len(a) + 1 \in Nat \ {0} /\ Len(old) \in Int /\ Len(old) <= Len(old)
    BY <1>1, <1>3, <1>4
  <2>. QED  BY <2>1, PartType
<1>. HIDE DEF b
<1>6. m \in Nat /\ \A i \in 1..m : b[i] \in Letters \ {"NL"}
  BY <1>5, LenProperties, ElementOfSeq
<1>7. a \in Seq(Letters) /\ b \in Seq(Letters)
  BY <1>3, <1>5, Fewer
<1>8. u = a \o b
  BY DEF Over, a, b
<1>9. /\ u \in Seq(Letters) /\ Len(u) = n + m
      /\ \A i \in 1..n + m : u[i] = IF i <= n THEN a[i] ELSE b[i - n]
  <2>1. /\ a \o b \in Seq(Letters) /\ Len(a \o b) = Len(a) + Len(b)
        /\ \A i \in 1..Len(a) + Len(b) : (a \o b)[i] = IF i <= Len(a) THEN a[i] ELSE b[i - Len(a)]
    BY <1>7, ConcatProperties
  <2>. QED  BY <1>3, <1>8, <2>1
<1>. HIDE DEF m
<1>10. n \in 1..Len(u) /\ u[n] = "NL"
  BY <1>1, <1>3, <1>6, <1>9
<1>11. ASSUME NEW i \in 1..Len(u), u[i] = "NL" PROVE i = n
  <2>1. CASE i <= Len(line)
    <3>1. i \in 1..Len(line) /\ i <= n /\ i \in 1..n + m
      BY <1>1, <1>6, <2>1
    <3>2. u[i] = a[i] /\ a[i] = line[i]
      BY <1>3, <1>9, <3>1
    <3>. QED  BY <1>1, <1>11, <3>1, <3>2
  <2>2. CASE i > n
    <3>1. i - n \in 1..m /\ i \in 1..n + m /\ ~(i <= n)
      BY <1>1, <1>6, <1>9, <2>2
    <3>2. u[i] = b[i - n]
      BY <1>9, <3>1
    <3>. QED  BY <1>6, <1>11, <3>1, <3>2
  <2>. QED  BY <1>1, <1>6, <1>9, <2>1, <2>2
<1>12. SubSeq(u, 1, n) = a
  <2>1. 1 \in 1..Len(a) /\ Len(a) \in 1..Len(a)
    BY <1>1, <1>3
  <2>2. SubSeq(a \o b, 1, Len(a)) = SubSeq(a, 1, Len(a))
    BY <1>7, <2>1, SubSeqOfConcat1
  <2>. QED  BY <1>3, <1>8, <2>2, SubSeqFull
<1>13. old = <<>> => u = a
  <2>. SUFFICES ASSUME old = <<>> PROVE u = a
    OBVIOUS
  <2>1. Len(old) = 0
    BY EmptySeq
  <2>2. b = <<>>
    BY <1>1, <1>3, <2>1, SubSeqEmpty DEF b
  <2>. QED  BY <1>7, <1>8, <2>2, ConcatEmptySeq
<1>. QED  BY <1>9, <1>10, <1>11, <1>12, <1>13 DEF a, Ends

\* Three texts, one behind the other.
LEMMA Regrouped == \A a, b, c \in Seq(Letters) : (a \o b) \o c = a \o (b \o c)
BY ConcatAssociative

\* What is within the middle of a text is within the text.
LEMMA PieceWithin ==
  ASSUME NEW x \in Seq(Letters), NEW v \in Seq(Letters), NEW part \in Seq(Letters),
         NEW w \in Seq(Letters), NEW y \in Seq(Letters)
  PROVE  Piece((x \o ((v \o part) \o w)) \o y, part)
<1>1. \A q \in Seq(Letters) : x \o (q \o w) = (x \o q) \o w
  BY Regrouped
<1>2. \A q \in Seq(Letters) : (q \o w) \o y = q \o (w \o y)
  BY Regrouped
<1>3. x \o (v \o part) = (x \o v) \o part
  BY Regrouped
<1>. DEFINE vp == v \o part
            xv == x \o v
            wy == w \o y
            xvp == xv \o part
            whole == (x \o (vp \o w)) \o y
<1>4. vp \in Seq(Letters) /\ xv \in Seq(Letters) /\ wy \in Seq(Letters)
  BY ConcatProperties
<1>. HIDE DEF xv
<1>5. xvp \in Seq(Letters)
  BY <1>4, ConcatProperties
<1>6. x \o vp = xvp
  BY <1>3 DEF xv
<1>. HIDE DEF vp, xvp
<1>7. x \o (vp \o w) = xvp \o w
  BY <1>1, <1>4, <1>6
<1>8. (xvp \o w) \o y = xvp \o wy
  BY <1>2, <1>5
<1>. HIDE DEF wy
<1>9. whole = (xv \o part) \o wy
  BY <1>7, <1>8 DEF xvp
<1>. HIDE DEF whole
<1>10. Piece(whole, part)
  BY <1>4, <1>9 DEF Piece
<1>. QED  BY <1>10 DEF whole, vp

\* A piece of a text is one of every text that this is a piece of.
LEMMA PieceOfPiece ==
  ASSUME NEW whole, NEW text \in Seq(Letters), NEW part \in Seq(Letters),
         Piece(whole, text), Piece(text, part)
  PROVE  Piece(whole, part)
<1>1. PICK x \in Seq(Letters), y \in Seq(Letters) : whole = (x \o text) \o y
  BY DEF Piece
<1>2. PICK v \in Seq(Letters), w \in Seq(Letters) : text = (v \o part) \o w
  BY DEF Piece
<1>3. Piece((x \o ((v \o part) \o w)) \o y, part)
  BY PieceWithin
<1>4. whole = (x \o ((v \o part) \o w)) \o y
  BY <1>1, <1>2
<1>. QED  BY <1>3, <1>4
\* So are lines.
LEMMA LinesOfPiece ==
  ASSUME NEW whole, NEW text \in Seq(Letters), Piece(whole, text)
  PROVE  LinesFrom(text) \subseteq LinesFrom(whole)
<1>. SUFFICES ASSUME NEW line \in LinesFrom(text) PROVE line \in LinesFrom(whole)
  OBVIOUS
<1>1. line \in Seq(Letters)
  BY DEF LinesFrom
<1>2. PICK end \in 1..Len(line) : Ends(line, end) /\ Piece(text, SubSeq(line, 1, end))
  BY DEF LinesFrom
<1>3. end \in Int /\ end <= Len(line) /\ 1 \in Nat \ {0}
  BY <1>1, LenProperties
<1>4. SubSeq(line, 1, end) \in Seq(Letters)
  BY <1>1, <1>3, PartType
<1>5. Piece(whole, SubSeq(line, 1, end))
  BY <1>2, <1>4, PieceOfPiece
<1>. QED  BY <1>1, <1>2, <1>5 DEF LinesFrom

\* The beginning and the end of a text are pieces of it.
LEMMA EndsArePieces ==
  ASSUME NEW x \in Seq(Letters), NEW y \in Seq(Letters)
  PROVE  Piece(x \o y, x) /\ Piece(x \o y, y)
<1>1. <<>> \o x = x /\ (x \o y) \o <<>> = x \o y /\ <<>> \in Seq(Letters)
  <2>1. x \o y \in Seq(Letters)
    BY ConcatProperties
  <2>. QED  BY <2>1, ConcatEmptySeq
<1>. QED  BY <1>1 DEF Piece

\* ex_msg makes lines of what it is given, whatever is in tmp.
LEMMA CopyOwn ==
  ASSUME NEW text \in Seq(Letters), NEW ex \in ExOf(text), NEW letter \in Letters
  PROVE  CopyLetter(ex, letter) \in ExOf(text \o <<letter>>)
<1>. DEFINE more == text \o <<letter>>
            line == ex.line
            one  == Append(line, letter)
<1>1. /\ ex \in Ex /\ line \in Seq(Letters \ {"NL"}) /\ ex.old \in Seq(Letters \ {"NL"})
      /\ line \in Seq(Letters) /\ ex.sent \in Seq(LinesFrom(text))
  BY Fewer DEF ExOf, Ex
<1>2. CopyLetter(ex, letter) \in Ex
  BY <1>1, CopyLetterType
<1>3. <<letter>> \in Seq(Letters) /\ <<>> \in Seq(Letters)
  OBVIOUS
<1>4. more \in Seq(Letters)
  BY <1>3, ConcatProperties
<1>5. ex.sent \in Seq(LinesFrom(more))
  <2>1. LinesFrom(text) \subseteq LinesFrom(more)
    BY <1>3, <1>4, EndsArePieces, LinesOfPiece
  <2>. HIDE DEF more
  <2>. QED  BY <1>1, <2>1, SeqMonotonic
<1>. PICK x \in Seq(Letters) : text = x \o line
  BY DEF ExOf
<1>6. one = line \o <<letter>> /\ one \in Seq(Letters)
  BY <1>1, AppendIsConcat, AppendProperties
<1>7. more = x \o one
  <2>1. (x \o line) \o <<letter>> = x \o (line \o <<letter>>)
    BY <1>1, <1>3, Regrouped
  <2>. QED  BY <1>6, <2>1
<1>. HIDE DEF more, one
<1>8. CASE letter = "NL"
  <2>. PICK u : u = Over(one, ex.old)
    OBVIOUS
  <2>. PICK n : n = Len(line) + 1
    OBVIOUS
  <2>1. u \in Seq(Letters) /\ n \in 1..Len(u) /\ Ends(u, n) /\ SubSeq(u, 1, n) = one
    <3>. PICK l, o : l = line /\ o = ex.old
      OBVIOUS
    <3>1. l \in Seq(Letters \ {"NL"}) /\ o \in Seq(Letters \ {"NL"}) /\ "NL" \in Letters
      BY <1>1, <1>8
    <3>2. u = Over(Append(l, "NL"), o) /\ n = Len(l) + 1 /\ one = Append(l, "NL")
      BY <1>8 DEF one
    <3>. HIDE DEF line
    <3>. QED  BY <3>1, <3>2, LineMade
  <2>2. Piece(more, one)
    BY <1>6, <1>7, EndsArePieces
  <2>3. u \in LinesFrom(more)
    BY <2>1, <2>2 DEF LinesFrom
  <2>4. Append(ex.sent, u) \in Seq(LinesFrom(more))
    BY <1>5, <2>3, AppendProperties
  <2>5. more = more \o <<>>
    BY <1>4, ConcatEmptySeq
  <2>6. CopyLetter(ex, letter).line = <<>> /\ CopyLetter(ex, letter).sent = Append(ex.sent, u)
    BY <1>8 DEF CopyLetter, one
  <2>. QED  BY <1>2, <1>4, <2>4, <2>5, <2>6 DEF ExOf, more
<1>9. CASE letter # "NL"
  <2>1. CopyLetter(ex, letter) = [ex EXCEPT !.line = one]
    BY <1>9 DEF CopyLetter, one
  <2>2. CopyLetter(ex, letter).line = one /\ CopyLetter(ex, letter).sent = ex.sent
    BY <1>1, <2>1 DEF Ex
  <2>. QED  BY <1>2, <1>5, <1>7, <2>2 DEF ExOf, more
<1>. QED  BY <1>8, <1>9

\* So does the whole of it.
LEMMA CopiedOwn ==
  ASSUME NEW ex \in Ex, ex.line = <<>>, ex.sent = <<>>, NEW text \in Seq(Letters)
  PROVE  Copied(ex, text).sent \in Seq(LinesFrom(text))
<1>. DEFINE n == Len(text)
            Upto(i) == SubSeq(text, 1, i)
<1>1. n \in Nat /\ \A i \in 1..n : text[i] \in Letters
  BY LenProperties, ElementOfSeq
<1>2. PICK g \in [0..n -> Ex] :
        /\ g[0] = ex /\ \A i \in 1..n : g[i] = CopyLetter(g[i - 1], text[i])
        /\ Copied(ex, text) = g[n]
  BY CopiedSteps
<1>. DEFINE P == {i \in 0..n : g[i] \in ExOf(Upto(i))}
<1>3. 0 \in P
  <2>1. Upto(0) = <<>>
    BY SubSeqEmpty
  <2>2. <<>> \in Seq(Letters) /\ <<>> \in Seq(LinesFrom(<<>>))
    OBVIOUS
  <2>3. <<>> \o <<>> = <<>>
    BY <2>2, ConcatEmptySeq
  <2>4. ex \in ExOf(<<>>)
    <3>1. \E x \in Seq(Letters) : <<>> = x \o ex.line
      BY <2>2, <2>3
    <3>2. ex.sent \in Seq(LinesFrom(<<>>))
      BY <2>2
    <3>. QED  BY <3>1, <3>2 DEF ExOf
  <2>5. g[0] \in ExOf(Upto(0)) /\ 0 \in 0..n
    <3>1. g[0] = ex
      BY <1>2
    <3>2. 0 \in 0..n
      BY <1>1
    <3>. HIDE DEF Upto, n
    <3>. QED  BY <2>1, <2>4, <3>1, <3>2
  <2>. HIDE DEF Upto, n
  <2>. QED  BY <2>5
<1>4. ASSUME NEW i \in 1..n, i - 1 \in P
      PROVE  i \in P
  <2>1. i - 1 \in 0..n /\ i \in 0..n /\ g[i - 1] \in ExOf(Upto(i - 1))
    BY <1>1, <1>4
  <2>2. Upto(i) = Upto(i - 1) \o <<text[i]>>
    <3>1. 1 \in 1..n /\ i \in 1..n
      BY <1>1
    <3>. QED  BY <3>1, SubSeqRecursiveSecond
  <2>3. Upto(i - 1) \in Seq(Letters)
    <3>1. 1 \in Nat \ {0} /\ i - 1 \in Int /\ i - 1 <= Len(text)
      BY <1>1
    <3>. QED  BY <3>1, PartType
  <2>. HIDE DEF Upto, n
  <2>4. CopyLetter(g[i - 1], text[i]) \in ExOf(Upto(i - 1) \o <<text[i]>>)
    BY <1>1, <2>1, <2>3, CopyOwn
  <2>. QED  BY <1>2, <2>1, <2>2, <2>4
<1>5. n \in 0..n
  BY <1>1
<1>. HIDE DEF P
<1>6. n \in P
  BY <1>1, <1>3, <1>4, <1>5, UpTo
<1>7. Upto(n) = text
  BY SubSeqFull
<1>. HIDE DEF Upto, n
<1>8. g[n] \in ExOf(text)
  BY <1>6, <1>7 DEF P
<1>. QED  BY <1>2, <1>8 DEF ExOf

\* A copy over an empty tmp loses nothing.
LEMMA CopiedWhole ==
  ASSUME NEW ex \in Ex, ex.line = <<>>, ex.old = <<>>, ex.sent = <<>>, NEW text \in Seq(Letters)
  PROVE  LET made == Copied(ex, text)
         IN /\ made.old = <<>> /\ \A k \in 1..Len(made.sent) : Last(made.sent[k]) = "NL"
            /\ FlattenSeq(made.sent) \o made.line = text
            /\ text # <<>> /\ Last(text) = "NL" => made.line = <<>>
<1>. DEFINE n == Len(text)
            Good(x, i) == /\ x.old = <<>> /\ \A k \in 1..Len(x.sent) : Last(x.sent[k]) = "NL"
                          /\ FlattenSeq(x.sent) \o x.line = SubSeq(text, 1, i)
                          /\ i # 0 /\ text[i] = "NL" => x.line = <<>>
<1>1. n \in Nat /\ \A i \in 1..n : text[i] \in Letters
  BY LenProperties, ElementOfSeq
<1>2. PICK g \in [0..n -> Ex] :
        /\ g[0] = ex /\ \A i \in 1..n : g[i] = CopyLetter(g[i - 1], text[i])
        /\ Copied(ex, text) = g[n]
  BY CopiedSteps
<1>3. Good(ex, 0)
  <2>1. SubSeq(text, 1, 0) = <<>>
    BY SubSeqEmpty
  <2>2. Len(ex.sent) = 0 /\ FlattenSeq(<<>>) = <<>>
    BY EmptySeq DEF FlattenSeq
  <2>3. <<>> \in Seq(Letters)
    OBVIOUS
  <2>4. <<>> \o <<>> = <<>>
    BY <2>3, ConcatEmptySeq
  <2>. QED  BY <2>1, <2>2, <2>4
<1>4. ASSUME NEW x \in Ex, NEW i \in 1..n, Good(x, i - 1)
      PROVE  Good(CopyLetter(x, text[i]), i)
  <2>. DEFINE letter == text[i]
              before == SubSeq(text, 1, i - 1)
              lines  == FlattenSeq(x.sent)
              one    == Append(x.line, letter)
  <2>1. /\ x.line \in Seq(Letters) /\ x.line \in Seq(Letters \ {"NL"}) /\ x.sent \in Seq(Seq(Letters))
        /\ letter \in Letters
    BY <1>1, Fewer DEF Ex
  <2>2. lines \in Seq(Letters)
    BY <2>1, FlattenType
  <2>. HIDE DEF letter, lines
  <2>3. one \in Seq(Letters)
    BY <2>1, AppendProperties
  <2>7. one = x.line \o <<letter>>
    BY <2>1, AppendIsConcat
  <2>8. <<letter>> \in Seq(Letters)
    BY <2>1
  <2>. USE DEF letter, lines
  <2>4. lines \o one = SubSeq(text, 1, i)
    <3>1. SubSeq(text, 1, i) = before \o <<letter>>
      <4>1. 1 \in 1..n /\ i \in 1..n
        BY <1>1
      <4>. QED  BY <4>1, SubSeqRecursiveSecond
    <3>2. lines \o x.line = before
      BY <1>4
    <3>. HIDE DEF lines, one, before, letter
    <3>. DEFINE w == lines
                y == x.line
                z == <<letter>>
    <3>3. w \in Seq(Letters) /\ y \in Seq(Letters) /\ z \in Seq(Letters)
      BY <2>1, <2>2, <2>8
    <3>. HIDE DEF w, y, z
    <3>4. (w \o y) \o z = w \o (y \o z)
      BY <3>3, Regrouped
    <3>. QED  BY <2>7, <3>1, <3>2, <3>4 DEF w, y, z
  <2>5. CASE letter = "NL"
    <3>1. /\ CopyLetter(x, letter).line = <<>> /\ CopyLetter(x, letter).old = <<>>
          /\ CopyLetter(x, letter).sent = Append(x.sent, Over(one, <<>>))
      BY <1>4, <2>5 DEF CopyLetter
    <3>2. Over(one, <<>>) = one
      <4>1. "NL" \in Letters /\ <<>> \in Seq(Letters \ {"NL"})
        BY <2>1, <2>5
      <4>2. Over(Append(x.line, "NL"), <<>>) = Append(x.line, "NL")
        BY <2>1, <4>1, LineMade
      <4>. QED  BY <2>5, <4>2
    <3>. DEFINE sent == Append(x.sent, one)
    <3>. HIDE DEF one, letter
    <3>3. /\ sent \in Seq(Seq(Letters)) /\ Len(sent) = Len(x.sent) + 1 /\ sent[Len(x.sent) + 1] = one
          /\ \A k \in 1..Len(x.sent) : sent[k] = x.sent[k]
      BY <2>1, <2>3, AppendProperties
    <3>4. FlattenSeq(sent) = lines \o one
      <4>. DEFINE old == x.sent
                  last == <<one>>
      <4>1. sent = old \o last
        BY <2>1, <2>3, AppendIsConcat
      <4>2. FlattenSeq(last) = one
        BY <2>3, FlattenOne
      <4>3. old \in Seq(Seq(Letters))
        BY <2>1
      <4>4. last \in Seq(Seq(Letters))
        BY <2>3
      <4>. HIDE DEF sent, old, last
      <4>5. FlattenSeq(sent) = FlattenSeq(old) \o FlattenSeq(last)
        BY <4>1, <4>3, <4>4, FlattenConcat
      <4>. QED  BY <4>2, <4>5 DEF old
    <3>5. Last(one) = "NL"
      <4>1. Len(one) = Len(x.line) + 1 /\ one[Len(x.line) + 1] = letter
        BY <2>1, AppendProperties DEF one
      <4>. QED  BY <2>5, <4>1 DEF Last
    <3>6. \A k \in 1..Len(sent) : Last(sent[k]) = "NL"
      <4>1. Len(x.sent) \in Nat
        BY <2>1, LenProperties
      <4>. HIDE DEF sent
      <4>2. \A k \in 1..Len(sent) : k \in 1..Len(x.sent) \/ k = Len(x.sent) + 1
        BY <3>3, <4>1
      <4>. QED  BY <1>4, <3>3, <3>5, <4>2
    <3>7. (lines \o one) \o <<>> = lines \o one
      <4>1. lines \o one \in Seq(Letters)
        BY <2>2, <2>3, ConcatProperties
      <4>. QED  BY <4>1, ConcatEmptySeq
    <3>. HIDE DEF sent
    <3>8. CopyLetter(x, letter).sent = sent
      BY <3>1, <3>2 DEF sent
    <3>. QED  BY <2>4, <3>1, <3>4, <3>6, <3>7, <3>8 DEF letter
  <2>6. CASE letter # "NL"
    <3>1. CopyLetter(x, letter) = [x EXCEPT !.line = one]
      BY <2>6 DEF CopyLetter
    <3>2. x \in [line : Seq(Letters \ {"NL"}), old : Seq(Letters \ {"NL"}), sent : Seq(Seq(Letters))]
      BY DEF Ex
    <3>. HIDE DEF one, letter
    <3>3. /\ CopyLetter(x, letter).line = one /\ CopyLetter(x, letter).old = x.old
          /\ CopyLetter(x, letter).sent = x.sent
      BY <3>1, <3>2
    <3>. QED  BY <1>4, <2>4, <2>6, <3>3 DEF letter
  <2>. QED  BY <2>5, <2>6
<1>. DEFINE P == {i \in 0..n : Good(g[i], i)}
<1>. HIDE DEF Good, n
<1>5. 0 \in P
  BY <1>1, <1>2, <1>3
<1>6. ASSUME NEW i \in 1..n, i - 1 \in P
      PROVE  i \in P
  <2>1. i - 1 \in 0..n /\ i \in 0..n
    BY <1>1
  <2>2. g[i - 1] \in Ex /\ Good(g[i - 1], i - 1) /\ g[i] = CopyLetter(g[i - 1], text[i])
    BY <1>2, <1>6, <2>1
  <2>3. Good(CopyLetter(g[i - 1], text[i]), i)
    BY <1>4, <2>2
  <2>. QED  BY <2>1, <2>2, <2>3
<1>7. n \in 0..n
  BY <1>1
<1>. HIDE DEF P
<1>8. n \in P
  BY <1>1, <1>5, <1>6, <1>7, UpTo
<1>9. Good(Copied(ex, text), n)
  BY <1>2, <1>8 DEF P
<1>10. SubSeq(text, 1, n) = text
  BY SubSeqFull DEF n
<1>11. text # <<>> => n # 0
  BY EmptySeq DEF n
<1>. QED  BY <1>9, <1>10, <1>11 DEF Good, Last, n

\* The segments of a script are letters of its connection.
LEMMA ScriptType ==
  ASSUME IInv, NEW c \in Conns
  PROVE  /\ script[c] \in Seq(Seq(Letters)) /\ Len(script[c]) \in Nat
         /\ DOMAIN script[c] = 1..Len(script[c])
         /\ \A k \in 1..Len(script[c]) : script[c][k] \in Seq(Letters)
<1>. DEFINE s == script[c]
<1>1. s \in Seq(Seq(STRING) \ {<<>>})
  BY MiniServAssumption DEF IInv, NetInv
<1>2. \A k \in 1..Len(s) : s[k] \in Seq(Letters)
  BY SegmentType
<1>. HIDE DEF s
<1>3. Len(s) \in Nat /\ DOMAIN s = 1..Len(s) /\ s = [k \in 1..Len(s) |-> s[k]]
  BY <1>1, LenProperties
<1>4. s \in Seq(Seq(Letters))
  <2>. DEFINE S == Seq(Letters)
  <2>. HIDE DEF S
  <2>1. \A k \in 1..Len(s) : s[k] \in S
    BY <1>2 DEF S
  <2>2. s \in Seq(S)
    BY <1>3, <2>1
  <2>. QED  BY <2>2 DEF S
<1>. QED  BY <1>2, <1>3, <1>4 DEF s

\* The first segments, joined, are letters.
LEMMA SentType ==
  ASSUME KeptInv, NEW c \in Conns
  PROVE  /\ SubSeq(script[c], 1, peer[c].sent) \in Seq(Seq(Letters)) /\ Sent(c) \in Seq(Letters)
         /\ peer[c].sent \in Nat /\ Len(Sent(c)) \in Nat
         /\ inbox[c] \in Seq(Letters)
<1>1. IInv /\ SentInv
  BY DEF KeptInv, RoomInv
<1>2. script[c] \in Seq(Seq(Letters)) /\ Len(script[c]) \in Nat
  BY <1>1, ScriptType
<1>3. peer[c].sent \in Nat /\ peer[c].sent <= Len(script[c])
  BY <1>1 DEF IInv, NetInv, SentInv
<1>. DEFINE s == script[c]
            n == peer[c].sent
            S == Seq(Letters)
<1>. HIDE DEF s, n, S
<1>4. SubSeq(s, 1, n) \in Seq(S)
  <2>1. s \in Seq(S) /\ n \in Int /\ n <= Len(s) /\ 1 \in Nat \ {0}
    BY <1>2, <1>3 DEF s, n, S
  <2>. QED  BY <2>1, PartType
<1>5. Sent(c) \in Seq(Letters)
  BY <1>4, FlattenType DEF Sent, s, n, S
<1>6. Len(Sent(c)) \in Nat
  BY <1>5, LenProperties
<1>. QED  BY <1>1, <1>3, <1>4, <1>5, <1>6 DEF IInv, NetInv, s, n, S

\* What was told and what is owed are messages.
LEMMA HeardType ==
  ASSUME RoomInv, NEW c \in Conns
  PROVE  Heard(c) \in Seq(MessageType) /\ told[c] \in Seq(MessageType) /\ Owed(c) \in Seq(MessageType)
<1>1. told[c] \in Seq(MessageType)
  BY SaidIs
<1>2. Owed(c) \in Seq(MessageType)
  <2>. DEFINE S == {fd \in DOMAIN open : open[fd] = c}
  <2>. HIDE DEF S
  <2>1. Addressed(sends, S) \in Seq(MessageType)
    BY SendsAre, AddressedType
  <2>. QED  BY <2>1 DEF S, Owed
<1>. QED  BY <1>1, <1>2, ConcatProperties DEF Heard

\* Where nobody says anything the lines are as before.
LEMMA LinesStay ==
  ASSUME KeptInv, UNCHANGED <<program, script, said, tmp, torn>>,
         \A c \in Conns : /\ peer'[c].sent = peer[c].sent /\ inbox'[c] \in {inbox[c], <<>>}
                          /\ peer'[c].st # "reset" => peer[c].st # "reset" /\ inbox'[c] = inbox[c]
  PROVE  SentInv' /\ OwnInv' /\ WholeInv'
<1>1. SentInv'
  BY DEF KeptInv, SentInv
<1>2. OwnInv'
  <2>1. \A c \in Conns : Sent(c)' = Sent(c)
    BY DEF Sent
  <2>2. ASSUME NEW c \in Conns PROVE \E x \in Seq(Letters) : Sent(c) = x \o inbox'[c]
    <3>1. CASE inbox'[c] = inbox[c]
      BY <3>1 DEF KeptInv, OwnInv
    <3>2. CASE inbox'[c] = <<>>
      <4>1. Sent(c) \in Seq(Letters)
        BY SentType
      <4>2. Sent(c) = Sent(c) \o <<>>
        BY <4>1, ConcatEmptySeq
      <4>. QED  BY <3>2, <4>1, <4>2
    <3>. QED  BY <3>1, <3>2
  <2>3. \A c \in Conns : LinesFrom(Sent(c))' = LinesFrom(Sent(c))
    BY <2>1 DEF LinesFrom, Piece, Letters, Segments
  <2>. QED  BY <2>1, <2>2, <2>3 DEF KeptInv, OwnInv, Letters, Segments
<1>3. WholeInv'
  <2>1. \A c \in Conns : Sent(c)' = Sent(c)
    BY DEF Sent
  <2>. QED  BY <2>1 DEF KeptInv, WholeInv
<1>. QED  BY <1>1, <1>2, <1>3

\* Where nobody is told anything new, nothing new was given.
LEMMA EchoStays ==
  ASSUME KeptInv, UNCHANGED <<program, script>>,
         \A c \in Conns : /\ peer'[c].sent = peer[c].sent
                          /\ peer'[c].st # "reset" => peer[c].st # "reset" /\ inbox'[c] = inbox[c]
                          /\ Heard(c)' = Heard(c)
  PROVE  EchoInv'
<1>. SUFFICES ASSUME program = "echo", NEW c \in Conns, peer'[c].st # "reset"
              PROVE  \E p : Given(c, p)'
  BY DEF EchoInv
<1>1. PICK p : Given(c, p)
  BY DEF KeptInv, EchoInv
<1>2. Sent(c)' = Sent(c)
  BY DEF Sent
<1>3. Heard(c)' = Heard(c) /\ inbox'[c] = inbox[c]
  OBVIOUS
<1>4. Given(c, p)'
  BY <1>1, <1>2, <1>3 DEF Given
<1>. QED  BY <1>4

\* The steps of the loop owe nobody anything new.
LEMMA OwedStays ==
  ASSUME RoomInv, RoomInv', Select \/ ScanEnds \/ AcceptFails \/ SendFails \/ SendsEnd
  PROVE  \A c : Owed(c)' = Owed(c)
<1>1. UNCHANGED sends /\ (UNCHANGED open \/ sends = <<>>)
  BY DEF Select, ScanEnds, AcceptFails, SendFails, SendsEnd, table
<1>2. CASE UNCHANGED open
  BY <1>1, <1>2 DEF Owed
<1>3. CASE sends = <<>>
  <2>1. OwedInv /\ OwedInv'
    BY OwedIs, PTL
  <2>. QED  BY <1>1, <1>3, <2>1 DEF OwedInv
<1>. QED  BY <1>1, <1>2, <1>3

\* Nor do they say or hear anything.
LEMMA LoopKept ==
  ASSUME KeptInv, RoomInv', Select \/ ScanEnds \/ AcceptFails \/ SendFails \/ SendsEnd
  PROVE  KeptInv'
<1>1. UNCHANGED <<program, script, peer, inbox, said, told, tmp, torn>>
  BY DEF Select, ScanEnds, AcceptFails, SendFails, SendsEnd, net, buffers, history
<1>2. \A c : Owed(c)' = Owed(c)
  BY OwedStays DEF KeptInv
<1>3. \A c \in Conns : Heard(c)' = Heard(c)
  BY <1>1, <1>2 DEF Heard
<1>4. SentInv' /\ OwnInv' /\ WholeInv'
  BY <1>1, LinesStay
<1>5. EchoInv'
  BY <1>1, <1>3, EchoStays
<1>. QED  BY <1>4, <1>5 DEF KeptInv

\* What a send tells was owed before.
LEMMA SendTakes ==
  ASSUME RoomInv, RoomInv', Send
  PROVE  \A c \in Conns : Heard(c)' = Heard(c)
<1>. PICK fd, m, c : fd = Head(sends).to /\ m = Head(sends).msg /\ c = open[fd]
  OBVIOUS
<1>1. /\ sends # <<>> /\ sends' = Tail(sends)
      /\ told' = [told EXCEPT ![c] = Append(@, m)]
      /\ UNCHANGED open
  BY DEF Send, table
<1>2. sends \in Seq(AnySend) /\ fd \in Kept /\ m \in MessageType
  <2>1. sends \in Seq(AnySend) /\ \A i \in 1..Len(sends) : sends[i].to \in Kept
    BY SendsAre
  <2>2. Head(sends) \in AnySend /\ Head(sends) = sends[1] /\ 1 \in 1..Len(sends)
    BY <1>1, <2>1, HeadTailProperties, LenProperties, EmptySeq
  <2>. QED  BY <2>1, <2>2 DEF AnySend
<1>3. fd \in DOMAIN open
  BY <1>2 DEF Kept
<1>4. told \in [Conns -> Seq(MessageType)]
  BY DEF RoomInv, HeardInv
<1>5. ASSUME NEW q \in Conns
      PROVE  Heard(q)' = Heard(q)
  <2>. DEFINE S == {f \in DOMAIN open : open[f] = q}
              old == told[q]
              u == Addressed(Tail(sends), S)
  <2>1. fd \in S <=> q = c
    BY <1>3
  <2>2. Owed(q) = Addressed(sends, S) /\ Owed(q)' = u
    BY <1>1 DEF Owed
  <2>. HIDE DEF S
  <2>3. Addressed(sends, S) = IF fd \in S THEN <<m>> \o u ELSE u
    BY <1>1, <1>2, HeadAddressed
  <2>4. u \in Seq(MessageType)
    <3>1. Tail(sends) \in Seq(AnySend)
      BY <1>1, <1>2, HeadTailProperties
    <3>. QED  BY <3>1, AddressedType
  <2>5. CASE q = c
    <3>1. told'[q] = Append(old, m) /\ old \in Seq(MessageType)
      BY <1>1, <1>4, <2>5
    <3>2. Heard(q)' = Append(old, m) \o u
      BY <2>2, <3>1 DEF Heard
    <3>3. Heard(q) = old \o (<<m>> \o u)
      BY <2>1, <2>2, <2>3, <2>5 DEF Heard
    <3>. DEFINE one == <<m>>
    <3>4. one \in Seq(MessageType)
      BY <1>2
    <3>5. Append(old, m) = old \o one
      BY <1>2, <3>1, AppendIsConcat
    <3>. HIDE DEF one, old, u
    <3>6. (old \o one) \o u = old \o (one \o u)
      BY <2>4, <3>1, <3>4, ConcatAssociative
    <3>. QED  BY <3>2, <3>3, <3>5, <3>6 DEF one
  <2>6. CASE q # c
    <3>1. told'[q] = told[q]
      BY <1>1, <1>4, <2>6
    <3>. QED  BY <2>1, <2>2, <2>3, <2>6, <3>1 DEF Heard
  <2>. QED  BY <2>5, <2>6
<1>. QED  BY <1>5

\* And a send says nothing.
LEMMA SendKept ==
  ASSUME KeptInv, RoomInv', Send
  PROVE  KeptInv'
<1>1. UNCHANGED <<program, script, peer, inbox, said, tmp, torn>>
  BY DEF Send, buffers
<1>2. \A c \in Conns : Heard(c)' = Heard(c)
  BY SendTakes DEF KeptInv
<1>3. SentInv' /\ OwnInv' /\ WholeInv'
  BY <1>1, LinesStay
<1>4. EchoInv'
  BY <1>1, <1>2, EchoStays
<1>. QED  BY <1>3, <1>4 DEF KeptInv

\* Who leaves has said what it had to say.
LEMMA LeavesKept ==
  ASSUME KeptInv, RoomInv', NEW fd \in Fds, Leaves(fd) \/ LeavesEcho(fd)
  PROVE  KeptInv'
<1>1. UNCHANGED <<program, script, peer, inbox, said, told, tmp, torn>>
  BY DEF Leaves, LeavesEcho, net, buffers, history
<1>2. SentInv' /\ OwnInv' /\ WholeInv'
  BY <1>1, LinesStay
<1>3. CASE Leaves(fd)
  <2>1. EchoInv'
    BY <1>1, <1>3 DEF Leaves, EchoInv
  <2>. QED  BY <1>2, <2>1 DEF KeptInv
<1>4. CASE LeavesEcho(fd)
  <2>1. Scans(fd) /\ UNCHANGED sends
    BY <1>4 DEF LeavesEcho
  <2>2. IInv
    BY DEF KeptInv, RoomInv
  <2>3. sends = <<>> /\ sends' = <<>>
    BY <2>1, <2>2, ScanAt
  <2>4. OwedInv /\ OwedInv'
    <3>1. RoomInv
      BY DEF KeptInv
    <3>. QED  BY <3>1, OwedIs, PTL
  <2>5. \A c \in Conns : Heard(c)' = Heard(c)
    BY <1>1, <2>3, <2>4 DEF OwedInv, Heard
  <2>6. EchoInv'
    BY <1>1, <2>5, EchoStays
  <2>. QED  BY <1>2, <2>6 DEF KeptInv
<1>. QED  BY <1>3, <1>4

\* A segment more is sent.
LEMMA SentGrows ==
  ASSUME KeptInv, NEW c \in Conns, peer[c].sent < Len(script[c]), UNCHANGED script,
         peer' = [peer EXCEPT ![c].sent = @ + 1]
  PROVE  /\ peer[c].sent + 1 \in 1..Len(script[c]) /\ peer'[c].sent = peer[c].sent + 1
         /\ Sent(c)' = Sent(c) \o script[c][peer[c].sent + 1]
<1>. DEFINE s == script[c]
            n == peer[c].sent
            before == SubSeq(s, 1, n)
            new == s[n + 1]
            one == <<new>>
<1>1. IInv
  BY DEF KeptInv, RoomInv
<1>2. s \in Seq(Seq(Letters)) /\ Len(s) \in Nat /\ n \in Nat /\ before \in Seq(Seq(Letters))
  BY <1>1, ScriptType, SentType
<1>3. peer'[c].sent = n + 1
  BY <1>1 DEF IInv, NetInv
<1>. HIDE DEF s, n
<1>4. n + 1 \in 1..Len(s)
  BY <1>2 DEF s, n
<1>5. new \in Seq(Letters)
  BY <1>2, <1>4, ElementOfSeq
<1>. HIDE DEF before, new
<1>6. one \in Seq(Seq(Letters))
  BY <1>5
<1>7. SubSeq(s, 1, n + 1) = before \o one
  <2>0. n \in Nat /\ Len(s) \in Nat
    BY <1>2
  <2>1. 1 \in 1..Len(s) /\ n + 1 \in 1..Len(s) /\ (n + 1) - 1 = n
    BY <1>4, <2>0
  <2>2. SubSeq(s, 1, n + 1) = SubSeq(s, 1, (n + 1) - 1) \o <<s[n + 1]>>
    BY <1>2, <2>1, SubSeqRecursiveSecond
  <2>. QED  BY <2>1, <2>2 DEF before, new
<1>. HIDE DEF one
<1>8. FlattenSeq(SubSeq(s, 1, n + 1)) = FlattenSeq(before) \o FlattenSeq(one)
  BY <1>2, <1>6, <1>7, FlattenConcat
<1>9. FlattenSeq(one) = new
  BY <1>5, FlattenOne DEF one
<1>10. Sent(c) = FlattenSeq(before) /\ Sent(c)' = FlattenSeq(SubSeq(s, 1, n + 1))
  BY <1>3 DEF Sent, before, s, n
<1>. QED  BY <1>3, <1>4, <1>8, <1>9, <1>10 DEF s, n, new

\* What a peer sends is its own and is received later.
LEMMA PeerSendsKept ==
  ASSUME KeptInv, RoomInv', NEW c \in Conns, PeerSends(c)
  PROVE  KeptInv'
<1>. DEFINE seg == script[c][peer[c].sent + 1]
<1>1. /\ peer[c].st = "up" /\ peer[c].sent < Len(script[c])
      /\ peer' = [peer EXCEPT ![c].sent = @ + 1]
      /\ inbox' = [inbox EXCEPT ![c] = @ \o seg]
      /\ UNCHANGED <<program, script, open, sends, said, told, tmp, torn>>
  BY DEF PeerSends, process, table, buffers, history
<1>2. IInv /\ SentInv /\ OwnInv /\ WholeInv /\ EchoInv
  BY DEF KeptInv, RoomInv
<1>3. peer \in [Conns -> [st : {"out", "up", "closed", "reset"}, sent : Nat]] /\ inbox \in [Conns -> Seq(Letters)]
  BY <1>2 DEF IInv, NetInv
<1>4. /\ peer[c].sent + 1 \in 1..Len(script[c]) /\ peer'[c].sent = peer[c].sent + 1
      /\ Sent(c)' = Sent(c) \o seg
  BY <1>1, SentGrows
<1>5. /\ \A d \in Conns : d # c => peer'[d] = peer[d] /\ inbox'[d] = inbox[d]
      /\ peer'[c].st = "up" /\ inbox'[c] = inbox[c] \o seg
  BY <1>1, <1>3
<1>7. \A d \in Conns : d # c => Sent(d)' = Sent(d)
  BY <1>1, <1>5 DEF Sent
<1>8. seg \in Seq(Letters)
  BY <1>2, <1>4, ScriptType
<1>. HIDE DEF seg
<1>9. SentInv'
  <2>1. \A d \in Conns : peer'[d].sent <= Len(script[d])
    <3>. TAKE d \in Conns
    <3>1. CASE d = c
      BY <1>4, <3>1
    <3>2. CASE d # c
      BY <1>2, <1>5, <3>2 DEF SentInv
    <3>. QED  BY <3>1, <3>2
  <2>. QED  BY <1>1, <2>1 DEF SentInv
<1>10. OwnInv'
  <2>. DEFINE a == inbox[c]
  <2>1. a \in Seq(Letters) /\ Sent(c) \in Seq(Letters)
    BY SentType
  <2>. PICK x \in Seq(Letters) : Sent(c) = x \o a
    BY <1>2 DEF OwnInv
  <2>. HIDE DEF a
  <2>2. Sent(c)' = x \o (a \o seg)
    BY <1>4, <1>8, <2>1, Regrouped
  <2>3. LinesFrom(Sent(c)) \subseteq LinesFrom(Sent(c) \o seg)
    <3>1. Piece(Sent(c) \o seg, Sent(c))
      BY <1>8, <2>1, EndsArePieces
    <3>. QED  BY <2>1, <3>1, LinesOfPiece
  <2>4. \A d \in Conns : /\ \E v \in Seq(Letters) : Sent(d)' = v \o inbox'[d]
                         /\ said[d] \in Seq(LinesFrom(Sent(d)'))
    <3>. TAKE d \in Conns
    <3>1. CASE d = c
      <4>1. said[c] \in Seq(LinesFrom(Sent(c) \o seg))
        <5>1. said[c] \in Seq(LinesFrom(Sent(c)))
          BY <1>2 DEF OwnInv
        <5>. QED  BY <2>3, <5>1, SeqMonotonic
      <4>2. inbox'[c] = a \o seg
        BY <1>5 DEF a
      <4>. QED  BY <1>4, <2>2, <3>1, <4>1, <4>2
    <3>2. CASE d # c
      BY <1>2, <1>5, <1>7, <3>2 DEF OwnInv
    <3>. QED  BY <3>1, <3>2
  <2>. QED  BY <1>1, <2>4 DEF OwnInv, LinesFrom, Piece, Letters, Segments
<1>11. WholeInv'
  <2>. SUFFICES ASSUME program = "chat", ~torn, NEW d \in Conns, peer'[d].st # "reset"
                PROVE  FlattenSeq(said[d]) \o inbox'[d] = Sent(d)'
    BY <1>1, <1>2 DEF WholeInv
  <2>1. CASE d = c
    <3>. DEFINE a == FlattenSeq(said[c])
                b == inbox[c]
    <3>1. a \o b = Sent(c)
      BY <1>1, <1>2 DEF WholeInv
    <3>2. b \in Seq(Letters)
      BY <1>3
    <3>3. a \in Seq(Letters)
      <4>1. said[c] \in Seq(Seq(Letters))
        BY SaidIs DEF KeptInv
      <4>. QED  BY <4>1, FlattenType
    <3>. HIDE DEF a, b
    <3>4. (a \o b) \o seg = a \o (b \o seg)
      BY <1>8, <3>2, <3>3, Regrouped
    <3>. QED  BY <1>4, <1>5, <2>1, <3>1, <3>4 DEF a, b
  <2>2. CASE d # c
    BY <1>2, <1>5, <1>7, <2>2 DEF WholeInv
  <2>. QED  BY <2>1, <2>2
<1>12. EchoInv'
  <2>. SUFFICES ASSUME program = "echo", NEW d \in Conns, peer'[d].st # "reset"
                PROVE  \E p : Given(d, p)'
    BY <1>1 DEF EchoInv
  <2>1. Heard(d)' = Heard(d)
    BY <1>1 DEF Heard, Owed
  <2>2. peer[d].st # "reset"
    BY <1>1, <1>5
  <2>3. PICK p : Given(d, p)
    BY <1>2, <2>2 DEF EchoInv
  <2>4. CASE d = c
    <3>. DEFINE a == FlattenSeq(p)
                b == inbox[c]
    <3>1. /\ p \in Seq(Seq(Letters)) /\ Len(p) = Len(Heard(c)) /\ a \o b = Sent(c)
          /\ \A k \in 1..Len(p) : \E n \in 0..Len(Sent(c)) :
               n <= Len(Heard(c)[k].text) /\ p[k] = SubSeq(Heard(c)[k].text, 1, n)
      BY <2>3, <2>4 DEF Given
    <3>2. b \in Seq(Letters)
      BY <1>3
    <3>3. a \in Seq(Letters)
      BY <3>1, FlattenType
    <3>. HIDE DEF a, b
    <3>4. (a \o b) \o seg = a \o (b \o seg)
      BY <1>8, <3>2, <3>3, Regrouped
    <3>5. a \o inbox'[c] = Sent(c)'
      BY <1>4, <1>5, <3>1, <3>4 DEF b
    <3>6. Len(Sent(c)) \in Nat /\ Len(Sent(c)') \in Nat /\ Len(Sent(c)) <= Len(Sent(c)')
      <4>1. Sent(c) \in Seq(Letters)
        BY SentType
      <4>2. Len(seg) \in Nat /\ Len(Sent(c)) \in Nat
        BY <1>8, <4>1, LenProperties
      <4>3. Len(Sent(c)') = Len(Sent(c)) + Len(seg)
        BY <1>4, <1>8, <4>1, ConcatProperties
      <4>. QED  BY <4>2, <4>3
    <3>7. \A n \in 0..Len(Sent(c)) : n \in 0..Len(Sent(c)')
      BY <3>6
    <3>8. Given(c, p)'
      BY <2>1, <2>4, <3>1, <3>5, <3>7 DEF Given, a
    <3>. QED  BY <2>4, <3>8
  <2>5. CASE d # c
    <3>1. Given(d, p)'
      BY <1>5, <1>7, <2>1, <2>3, <2>5 DEF Given
    <3>. QED  BY <3>1
  <2>. QED  BY <2>4, <2>5
<1>. QED  BY <1>9, <1>10, <1>11, <1>12 DEF KeptInv

\* What else the peers do.
LEMMA PeersKept ==
  ASSUME KeptInv, RoomInv', Peers
  PROVE  KeptInv'
<1>. PICK c \in Conns : Connect(c) \/ PeerSends(c) \/ PeerReads(c) \/ PeerCloses(c) \/ PeerResets(c)
  BY DEF Peers
<1>1. CASE PeerSends(c)
  BY <1>1, PeerSendsKept
<1>2. CASE Connect(c) \/ PeerReads(c) \/ PeerCloses(c) \/ PeerResets(c)
  <2>1. UNCHANGED <<program, script, open, sends, said, told, tmp, torn>>
    BY <1>2 DEF Connect, PeerReads, PeerCloses, PeerResets, process, table, buffers, history
  <2>2. peer \in [Conns -> [st : {"out", "up", "closed", "reset"}, sent : Nat]] /\ inbox \in [Conns -> Seq(Letters)]
    BY DEF KeptInv, RoomInv, IInv, NetInv
  <2>3. \A d \in Conns : /\ peer'[d].sent = peer[d].sent /\ inbox'[d] \in {inbox[d], <<>>}
                         /\ peer'[d].st # "reset" => peer[d].st # "reset" /\ inbox'[d] = inbox[d]
    <3>. TAKE d \in Conns
    <3>1. CASE Connect(c)
      BY <2>2, <3>1 DEF Connect
    <3>2. CASE PeerReads(c)
      BY <2>2, <3>2 DEF PeerReads
    <3>3. CASE PeerCloses(c)
      BY <2>2, <3>3 DEF PeerCloses
    <3>4. CASE PeerResets(c)
      BY <2>2, <3>4 DEF PeerResets
    <3>. QED  BY <1>2, <3>1, <3>2, <3>3, <3>4
  <2>4. \A d \in Conns : Heard(d)' = Heard(d)
    BY <2>1 DEF Heard, Owed
  <2>5. SentInv' /\ OwnInv' /\ WholeInv'
    BY <2>1, <2>3, LinesStay
  <2>6. EchoInv'
    BY <2>1, <2>3, <2>4, EchoStays
  <2>. QED  BY <2>5, <2>6 DEF KeptInv
<1>. QED  BY <1>1, <1>2

\* What a client says is made of its own letters, and is all it sent unless tmp comes
\* into it.
LEMMA SaysKept ==
  ASSUME KeptInv, RoomInv', NEW fd \in Fds, Says(fd)
  PROVE  KeptInv'
<1>. DEFINE c   == open[fd]
            ex0 == [line |-> <<>>, old |-> tmp, sent |-> <<>>]
            ex  == ex_msg(inbox[c])
<1>1. /\ Scans(fd) /\ fd # sock_fd /\ ~Gone(fd) /\ program = "chat"
      /\ tmp' = Over(ex.line, ex.old)
      /\ said' = [said EXCEPT ![c] = @ \o ex.sent]
      /\ torn' = (torn \/ Last(inbox[c]) # "NL")
      /\ inbox' = [inbox EXCEPT ![c] = <<>>]
      /\ UNCHANGED <<program, script, peer>>
  BY DEF Says
<1>2. IInv /\ SentInv /\ OwnInv /\ WholeInv
  BY DEF KeptInv, RoomInv
<1>3. fd \in DOMAIN open
  BY <1>1, <1>2, ScanAt
<1>4. c \in Conns /\ inbox \in [Conns -> Seq(Letters)] /\ said \in [Conns -> Seq(Seq(Letters))]
  BY <1>2, <1>3 DEF IInv, TableInv, NetInv, KeptInv, RoomInv, HeardInv
<1>5. inbox[c] # <<>> /\ inbox[c] \in Seq(Letters)
  BY <1>1, <1>4 DEF Gone
<1>6. ex = Copied(ex0, inbox[c])
  BY DEF ex_msg
<1>. HIDE DEF c, ex
<1>7. SentInv' /\ \A d \in Conns : Sent(d)' = Sent(d)
  BY <1>1, <1>2 DEF SentInv, Sent
<1>8. ex.sent \in Seq(LinesFrom(Sent(c))) /\ ex.sent \in Seq(Seq(Letters))
  <2>. DEFINE text == inbox[c]
  <2>1. ex0 \in Ex /\ ex0.line = <<>> /\ ex0.sent = <<>>
    <3>1. tmp \in Seq(Letters \ {"NL"})
      BY <1>2 DEF IInv, BufferInv
    <3>2. <<>> \in Seq(Letters \ {"NL"}) /\ <<>> \in Seq(Seq(Letters))
      OBVIOUS
    <3>. QED  BY <3>1, <3>2 DEF Ex
  <2>. PICK x \in Seq(Letters) : Sent(c) = x \o text
    BY <1>2, <1>4 DEF OwnInv
  <2>2. text \in Seq(Letters)
    BY <1>5
  <2>. HIDE DEF ex0, text
  <2>3. ex = Copied(ex0, text)
    BY <1>6 DEF text
  <2>4. ex.sent \in Seq(LinesFrom(text))
    BY <2>1, <2>2, <2>3, CopiedOwn
  <2>5. LinesFrom(text) \subseteq LinesFrom(Sent(c))
    BY <2>2, EndsArePieces, LinesOfPiece
  <2>6. ex.sent \in Seq(LinesFrom(Sent(c)))
    BY <2>4, <2>5, SeqMonotonic
  <2>7. LinesFrom(Sent(c)) \subseteq Seq(Letters)
    BY DEF LinesFrom
  <2>. QED  BY <2>6, <2>7, SeqMonotonic
<1>9. OwnInv'
  <2>. DEFINE S == LinesFrom(Sent(c))
              lines == said[c]
              new == ex.sent
  <2>1. lines \in Seq(S) /\ new \in Seq(S)
    BY <1>2, <1>4, <1>8 DEF OwnInv
  <2>. HIDE DEF S, lines, new
  <2>2. lines \o new \in Seq(S)
    BY <2>1, ConcatProperties
  <2>3. \A d \in Conns : /\ \E x \in Seq(Letters) : Sent(d) = x \o inbox'[d]
                         /\ said'[d] \in Seq(LinesFrom(Sent(d)))
    <3>. TAKE d \in Conns
    <3>1. CASE d = c
      <4>1. inbox'[d] = <<>> /\ said'[d] = lines \o new
        BY <1>1, <1>4, <3>1 DEF lines, new
      <4>2. Sent(d) \in Seq(Letters)
        BY SentType
      <4>3. Sent(d) = Sent(d) \o <<>>
        BY <4>2, ConcatEmptySeq
      <4>. QED  BY <2>2, <3>1, <4>1, <4>2, <4>3 DEF S
    <3>2. CASE d # c
      BY <1>1, <1>2, <1>4, <3>2 DEF OwnInv
    <3>. QED  BY <3>1, <3>2
  <2>4. \A d \in Conns : LinesFrom(Sent(d))' = LinesFrom(Sent(d))
    BY <1>7 DEF LinesFrom, Piece, Letters, Segments
  <2>. QED  BY <1>7, <2>3, <2>4 DEF OwnInv, Letters, Segments
<1>10. WholeInv'
  <2>. SUFFICES ASSUME ~torn, Last(inbox[c]) = "NL"
                PROVE  /\ tmp' = <<>>
                       /\ \A d \in Conns :
                            /\ \A i \in 1..Len(said'[d]) : Last(said'[d][i]) = "NL"
                            /\ peer[d].st # "reset" => FlattenSeq(said'[d]) \o inbox'[d] = Sent(d)'
    BY <1>1 DEF WholeInv
  <2>1. tmp = <<>>
    BY <1>1, <1>2 DEF WholeInv
  <2>2. ex0 \in Ex /\ ex0.line = <<>> /\ ex0.old = <<>> /\ ex0.sent = <<>>
    BY <2>1, EmptySeq DEF Ex
  <2>. HIDE DEF ex0
  <2>3. /\ ex.old = <<>> /\ \A k \in 1..Len(ex.sent) : Last(ex.sent[k]) = "NL"
        /\ FlattenSeq(ex.sent) \o ex.line = inbox[c] /\ ex.line = <<>>
    BY <1>5, <1>6, <2>2, CopiedWhole
  <2>4. tmp' = <<>>
    <3>1. SubSeq(<<>>, Len(<<>>) + 1, Len(<<>>)) = <<>> /\ <<>> \in Seq(Letters)
      BY SubSeqEmpty, EmptySeq
    <3>2. Over(<<>>, <<>>) = <<>>
      BY <3>1, ConcatEmptySeq DEF Over
    <3>. QED  BY <1>1, <2>3, <3>2
  <2>5. \A d \in Conns : Sent(d)' = Sent(d)
    BY <1>1 DEF Sent
  <2>6. ASSUME NEW d \in Conns
        PROVE  /\ \A i \in 1..Len(said'[d]) : Last(said'[d][i]) = "NL"
               /\ peer[d].st # "reset" => FlattenSeq(said'[d]) \o inbox'[d] = Sent(d)'
    <3>1. CASE d = c
      <4>. DEFINE a == said[c]
                  b == ex.sent
                  x == FlattenSeq(a)
                  y == FlattenSeq(b)
      <4>1. a \in Seq(Seq(Letters)) /\ b \in Seq(Seq(Letters))
        BY <1>4, <1>8
      <4>2. said'[d] = a \o b /\ inbox'[d] = <<>>
        BY <1>1, <1>4, <3>1
      <4>3. \A k \in 1..Len(a) : Last(a[k]) = "NL"
        BY <1>1, <1>2, <1>4 DEF WholeInv
      <4>4. \A k \in 1..Len(b) : Last(b[k]) = "NL"
        BY <2>3
      <4>5. y \o <<>> = inbox[c]
        BY <2>3
      <4>6. peer[d].st # "reset" => x \o inbox[c] = Sent(c)
        BY <1>1, <1>2, <1>4, <3>1 DEF WholeInv
      <4>. HIDE DEF a, b
      <4>7. /\ Len(a) \in Nat /\ Len(b) \in Nat /\ Len(a \o b) = Len(a) + Len(b)
            /\ \A i \in 1..Len(a) + Len(b) : (a \o b)[i] = IF i <= Len(a) THEN a[i] ELSE b[i - Len(a)]
        BY <4>1, LenProperties, ConcatProperties
      <4>8. \A i \in 1..Len(said'[d]) : Last(said'[d][i]) = "NL"
        <5>. SUFFICES ASSUME NEW i \in 1..Len(a) + Len(b) PROVE Last((a \o b)[i]) = "NL"
          BY <4>2, <4>7
        <5>1. CASE i <= Len(a)
          <6>1. i \in 1..Len(a)
            BY <4>7, <5>1
          <6>. QED  BY <4>3, <4>7, <5>1, <6>1
        <5>2. CASE ~(i <= Len(a))
          <6>1. i - Len(a) \in 1..Len(b)
            BY <4>7, <5>2
          <6>. QED  BY <4>4, <4>7, <5>2, <6>1
        <5>. QED  BY <5>1, <5>2
      <4>9. x \in Seq(Letters) /\ y \in Seq(Letters) /\ FlattenSeq(a \o b) = x \o y
        BY <4>1, FlattenType, FlattenConcat
      <4>. HIDE DEF x, y
      <4>10. y \o <<>> = y /\ (x \o y) \o <<>> = x \o y
        BY <4>9, ConcatProperties, ConcatEmptySeq
      <4>11. peer[d].st # "reset" => FlattenSeq(said'[d]) \o inbox'[d] = Sent(d)'
        BY <2>5, <3>1, <4>2, <4>5, <4>6, <4>9, <4>10
      <4>. QED  BY <4>8, <4>11
    <3>2. CASE d # c
      <4>1. said'[d] = said[d] /\ inbox'[d] = inbox[d]
        BY <1>1, <1>4, <3>2
      <4>. QED  BY <1>1, <1>2, <2>5, <4>1 DEF WholeInv
    <3>. QED  BY <3>1, <3>2
  <2>. QED  BY <2>4, <2>6
<1>11. EchoInv'
  BY <1>1 DEF EchoInv
<1>. QED  BY <1>7, <1>9, <1>10, <1>11 DEF KeptInv

\* The echo's answer begins with what was received, whatever str held.
LEMMA SaysEchoKept ==
  ASSUME KeptInv, RoomInv', NEW fd \in Fds, SaysEcho(fd)
  PROVE  KeptInv'
<1>. PICK c : c = open[fd]
  OBVIOUS
<1>. DEFINE m == Message("echo", -1, str')
            s == [to |-> fd, msg |-> m]
<1>1. /\ Scans(fd) /\ fd # sock_fd /\ ~Gone(fd) /\ program = "echo"
      /\ str' = Over(inbox[c], str)
      /\ sends' = <<s>>
      /\ inbox' = [inbox EXCEPT ![c] = <<>>]
      /\ UNCHANGED <<program, script, peer, open, said, told, tmp, torn>>
  BY DEF SaysEcho, table, history
<1>2. IInv /\ SentInv /\ OwnInv /\ EchoInv /\ RoomInv
  BY DEF KeptInv, RoomInv
<1>3. fd \in DOMAIN open /\ sends = <<>>
  BY <1>1, <1>2, ScanAt
<1>4. c \in Conns /\ inbox \in [Conns -> Seq(Letters)] /\ str \in Seq(Letters)
  BY <1>2, <1>3 DEF IInv, TableInv, NetInv, BufferInv
<1>5. inbox[c] # <<>> /\ inbox[c] \in Seq(Letters)
  BY <1>1, <1>4 DEF Gone
<1>6. m \in MessageType
  <2>1. str' \in Seq(Letters)
    BY <1>1, <1>4, <1>5, OverType
  <2>. QED  BY <2>1, OneMessage
<1>7. m.text = str'
  BY DEF Message
<1>8. \A d : Owed(d) = <<>>
  BY <1>2, <1>3, OwedIs DEF OwedInv
<1>9. Owed(c)' = <<m>> /\ \A d \in Conns : d # c => Owed(d)' = <<>>
  <2>. HIDE DEF m
  <2>1. sends' \in Seq(AnySend) /\ Len(sends') = 1 /\ sends'[1] = s
    BY <1>1, <1>6 DEF AnySend
  <2>2. s.to = fd /\ s.msg = m
    OBVIOUS
  <2>3. Owed(c)' = <<m>>
    <3>. DEFINE S == {f \in DOMAIN open : open[f] = c}
    <3>1. Owed(c)' = Addressed(sends', S)
      BY <1>1 DEF Owed
    <3>2. fd \in S
      BY <1>3
    <3>. HIDE DEF S, s
    <3>3. 1 \in 1..Len(sends') /\ sends'[1].to \in S /\ \A i \in 1..Len(sends') : sends'[i].to \in S => i = 1
      BY <2>1, <2>2, <3>2
    <3>4. Addressed(sends', S) = <<sends'[1].msg>>
      BY <2>1, <3>3, OneAddressed
    <3>. QED  BY <2>1, <2>2, <3>1, <3>4
  <2>4. ASSUME NEW d \in Conns, d # c PROVE Owed(d)' = <<>>
    <3>. DEFINE S == {f \in DOMAIN open : open[f] = d}
    <3>1. Owed(d)' = Addressed(sends', S)
      BY <1>1 DEF Owed
    <3>2. fd \notin S
      BY <2>4
    <3>. HIDE DEF S, s
    <3>3. \A i \in 1..Len(sends') : sends'[i].to \notin S
      BY <2>1, <2>2, <3>2
    <3>4. Addressed(sends', S) = <<>>
      BY <2>1, <3>3, NoneAddressed
    <3>. QED  BY <3>1, <3>4
  <2>. QED  BY <2>3, <2>4
<1>. HIDE DEF m
<1>10. \A d \in Conns : Sent(d)' = Sent(d)
  BY <1>1 DEF Sent
<1>11. SentInv' /\ WholeInv'
  BY <1>1, <1>2 DEF SentInv, WholeInv
<1>12. OwnInv'
  <2>. HIDE DEF s
  <2>1. \A d \in Conns : /\ \E x \in Seq(Letters) : Sent(d) = x \o inbox'[d]
                         /\ said[d] \in Seq(LinesFrom(Sent(d)))
    <3>. TAKE d \in Conns
    <3>1. CASE d = c
      <4>1. Sent(d) \in Seq(Letters)
        BY SentType
      <4>2. Sent(d) = Sent(d) \o <<>>
        BY <4>1, ConcatEmptySeq
      <4>. QED  BY <1>1, <1>2, <1>4, <3>1, <4>1, <4>2 DEF OwnInv
    <3>2. CASE d # c
      BY <1>1, <1>2, <1>4, <3>2 DEF OwnInv
    <3>. QED  BY <3>1, <3>2
  <2>2. \A d \in Conns : LinesFrom(Sent(d))' = LinesFrom(Sent(d))
    BY <1>10 DEF LinesFrom, Piece, Letters, Segments
  <2>. QED  BY <1>1, <1>10, <2>1, <2>2 DEF OwnInv, Letters, Segments
<1>13. EchoInv'
  <2>. SUFFICES ASSUME NEW d \in Conns, peer[d].st # "reset"
                PROVE  \E p : Given(d, p)'
    BY <1>1 DEF EchoInv
  <2>1. PICK p : Given(d, p)
    BY <1>1, <1>2 DEF EchoInv
  <2>2. told[d] \in Seq(MessageType) /\ Heard(d) = told[d]
    <3>1. told[d] \in Seq(MessageType)
      BY <1>2, SaidIs
    <3>. QED  BY <1>8, <3>1, ConcatEmptySeq DEF Heard
  <2>3. CASE d # c
    <3>1. Heard(d)' = Heard(d)
      BY <1>1, <1>8, <1>9, <2>3 DEF Heard
    <3>2. inbox'[d] = inbox[d]
      BY <1>1, <1>4, <2>3
    <3>3. Given(d, p)'
      BY <1>10, <2>1, <3>1, <3>2 DEF Given
    <3>. QED  BY <3>3
  <2>4. CASE d = c
    <3>. DEFINE h == Heard(c)
                t == inbox[c]
                a == FlattenSeq(p)
                q == Append(p, t)
                N == Len(Sent(c))
    <3>1. /\ p \in Seq(Seq(Letters)) /\ Len(p) = Len(h) /\ a \o t = Sent(c)
          /\ \A k \in 1..Len(p) : \E n \in 0..N : n <= Len(h[k].text) /\ p[k] = SubSeq(h[k].text, 1, n)
      BY <2>1, <2>4 DEF Given
    <3>2. h \in Seq(MessageType) /\ Len(h) \in Nat
      BY <2>2, <2>4, LenProperties
    <3>3. Heard(c)' = h \o <<m>>
      BY <1>1, <1>9, <2>2, <2>4 DEF Heard
    <3>4. h \o <<m>> = Append(h, m)
      BY <1>6, <3>2, AppendIsConcat
    <3>. DEFINE g == Append(h, m)
    <3>. HIDE DEF h, t, a
    <3>5. Len(g) = Len(h) + 1 /\ g[Len(h) + 1] = m /\ \A k \in 1..Len(h) : g[k] = h[k]
      BY <1>6, <3>2, AppendProperties
    <3>6. t \in Seq(Letters) /\ t # <<>>
      BY <1>5 DEF t
    <3>7. /\ q \in Seq(Seq(Letters)) /\ Len(q) = Len(p) + 1 /\ q[Len(p) + 1] = t
          /\ \A k \in 1..Len(p) : q[k] = p[k]
      BY <3>1, <3>6, AppendProperties
    <3>8. a \in Seq(Letters)
      BY <3>1, FlattenType DEF a
    <3>9. FlattenSeq(q) = a \o t
      <4>. DEFINE one == <<t>>
      <4>1. one \in Seq(Seq(Letters)) /\ FlattenSeq(one) = t
        BY <3>6, FlattenOne
      <4>2. q = p \o one
        BY <3>1, <3>6, AppendIsConcat
      <4>. HIDE DEF one, q
      <4>. QED  BY <3>1, <4>1, <4>2, FlattenConcat DEF a
    <3>. HIDE DEF g, q
    <3>10. FlattenSeq(q) \o inbox'[c] = Sent(c)
      <4>1. inbox'[c] = <<>> /\ a \o t \in Seq(Letters)
        BY <1>1, <1>4, <3>6, <3>8, ConcatProperties
      <4>2. (a \o t) \o <<>> = a \o t
        BY <4>1, ConcatEmptySeq
      <4>. QED  BY <3>1, <3>9, <4>1, <4>2
    <3>11. Len(t) \in 0..N /\ Len(t) <= Len(m.text) /\ t = SubSeq(m.text, 1, Len(t))
      <4>1. Len(t) \in Nat \ {0} /\ Len(a) \in Nat
        BY <3>6, <3>8, LenProperties, EmptySeq
      <4>2. N = Len(a) + Len(t)
        BY <3>1, <3>6, <3>8, ConcatProperties
      <4>. DEFINE b == SubSeq(str, Len(t) + 1, Len(str))
      <4>3. b \in Seq(Letters) /\ Len(b) \in Nat
        <5>1. Len(t) + 1 \in Nat \ {0} /\ Len(str) \in Int /\ Len(str) <= Len(str)
          BY <1>4, <4>1, LenProperties
        <5>2. b \in Seq(Letters)
          BY <1>4, <5>1, PartType
        <5>. HIDE DEF b
        <5>. QED  BY <5>2, LenProperties
      <4>4. m.text = t \o b
        BY <1>1, <1>7 DEF Over, t
      <4>. HIDE DEF b, N
      <4>5. Len(t \o b) = Len(t) + Len(b)
        BY <3>6, <4>3, ConcatProperties
      <4>6. SubSeq(t \o b, 1, Len(t)) = t
        <5>1. 1 \in 1..Len(t) /\ Len(t) \in 1..Len(t)
          BY <4>1
        <5>2. SubSeq(t \o b, 1, Len(t)) = SubSeq(t, 1, Len(t))
          BY <3>6, <4>3, <5>1, SubSeqOfConcat1
        <5>. QED  BY <3>6, <5>2, SubSeqFull
      <4>7. Len(t) \in 0..N
        BY <4>1, <4>2
      <4>8. Len(t) <= Len(t) + Len(b)
        BY <4>1, <4>3
      <4>. QED  BY <4>4, <4>5, <4>6, <4>7, <4>8
    <3>12. \A k \in 1..Len(q) : \E n \in 0..N : n <= Len(g[k].text) /\ q[k] = SubSeq(g[k].text, 1, n)
      <4>. TAKE k \in 1..Len(q)
      <4>1. CASE k = Len(h) + 1
        BY <3>1, <3>5, <3>7, <3>11, <4>1
      <4>2. CASE k # Len(h) + 1
        <5>1. k \in 1..Len(h)
          BY <3>1, <3>2, <3>7, <4>2
        <5>. QED  BY <3>1, <3>5, <3>7, <5>1
      <4>. QED  BY <4>1, <4>2
    <3>13. Len(q) = Len(g)
      BY <3>1, <3>5, <3>7
    <3>14. PICK r : r = q
      OBVIOUS
    <3>15. Heard(c)' = g /\ Sent(c)' = Sent(c) /\ N = Len(Sent(c))
      BY <1>10, <2>4, <3>3, <3>4 DEF g
    <3>. HIDE DEF N
    <3>16. Given(c, r)'
      BY <3>7, <3>10, <3>12, <3>13, <3>14, <3>15 DEF Given
    <3>. QED  BY <2>4, <3>16
  <2>. QED  BY <2>3, <2>4
<1>. QED  BY <1>11, <1>12, <1>13 DEF KeptInv

\* What goes to somebody are messages that are sent.
LEMMA AddressedAmong ==
  ASSUME NEW list \in Seq(AnySend), NEW these, NEW M \in SUBSET MessageType,
         \A i \in 1..Len(list) : list[i].msg \in M
  PROVE  Addressed(list, these) \in Seq(M)
<1>. DEFINE n == Len(list)
<1>1. n \in Nat
  BY LenProperties
<1>2. PICK f \in [0..n -> Seq(MessageType)] : Picks(f, list, these)
  BY Picked
<1>3. Addressed(list, these) = f[n]
  BY <1>2, AddressedIs
<1>4. f[0] = <<>> /\ \A i \in 1..n : f[i] = IF list[i].to \in these THEN Append(f[i - 1], list[i].msg) ELSE f[i - 1]
  BY <1>2 DEF Picks
<1>. DEFINE P == {i \in 0..n : f[i] \in Seq(M)}
<1>. HIDE DEF n
<1>5. 0 \in P
  BY <1>1, <1>4
<1>6. ASSUME NEW i \in 1..n, i - 1 \in P
      PROVE  i \in P
  <2>1. f[i - 1] \in Seq(M) /\ list[i].msg \in M
    BY <1>6 DEF n
  <2>2. Append(f[i - 1], list[i].msg) \in Seq(M)
    BY <2>1
  <2>3. f[i] \in Seq(M)
    BY <1>4, <2>1, <2>2
  <2>. QED  BY <1>1, <2>3
<1>7. n \in 0..n
  BY <1>1
<1>. HIDE DEF P
<1>8. n \in P
  BY <1>1, <1>5, <1>6, <1>7, UpTo
<1>. QED  BY <1>3, <1>8 DEF P

\* Messages without text.
Silent == {m \in MessageType : m.text = <<>>}

\* Who arrives is announced without a text, and has not said anything yet.
LEMMA AcceptKept ==
  ASSUME KeptInv, RoomInv', Accept
  PROVE  KeptInv'
<1>1. UNCHANGED <<program, script, peer, inbox, said, told, tmp, torn>>
  BY DEF Accept, buffers
<1>2. SentInv' /\ OwnInv' /\ WholeInv'
  BY <1>1, LinesStay
<1>3. RoomInv /\ EchoInv
  BY DEF KeptInv
<1>. PICK fd, msgs :
       /\ msgs = <<Message("arrived", g_id, <<>>)>>
       /\ sends = <<>> /\ sends' = send_all(g_clients', fd, msgs)
  BY <1>3, AcceptTakes
<1>4. msgs \in Seq(Silent)
  <2>. DEFINE m == Message("arrived", g_id, <<>>)
  <2>1. g_id \in Nat
    BY <1>3, LenProperties DEF RoomInv, IInv, TableInv
  <2>2. m \in MessageType /\ m.text = <<>>
    <3>1. m \in MessageType
      BY <2>1, OneMessage, NoText
    <3>. QED  BY <3>1 DEF Message
  <2>. HIDE DEF m
  <2>3. m \in Silent
    BY <2>2 DEF Silent
  <2>4. <<m>> \in Seq(Silent)
    BY <2>3
  <2>. QED  BY <2>4 DEF m
<1>5. sends' \in Seq(AnySend) /\ \A i \in 1..Len(sends') : sends'[i].msg \in Silent
  <2>1. sends' \in Seq(AnySend)
    BY DEF RoomInv, IInv, SendsInv, AnySend
  <2>2. PICK T : sends' \in Seq([to : T, msg : Silent])
    <3>1. g_clients' \in Seq([fd : Fds, id : Nat])
      BY DEF RoomInv, IInv, TableInv
    <3>. QED  BY <1>4, <3>1, SendAllType
  <2>3. \A i \in 1..Len(sends') : sends'[i] \in [to : T, msg : Silent]
    BY <2>2, ElementOfSeq
  <2>. QED  BY <2>1, <2>3
<1>6. EchoInv'
  <2>. SUFFICES ASSUME program = "echo", NEW c \in Conns, peer[c].st # "reset"
                PROVE  \E p : Given(c, p)'
    BY <1>1 DEF EchoInv
  <2>1. PICK p : Given(c, p)
    BY <1>3 DEF EchoInv
  <2>2. PICK e : e = Owed(c)'
    OBVIOUS
  <2>3. e \in Seq(Silent)
    <3>. DEFINE S == {f \in DOMAIN open' : open'[f] = c}
    <3>1. Owed(c)' = Addressed(sends', S)
      BY DEF Owed
    <3>. HIDE DEF S
    <3>2. Silent \in SUBSET MessageType
      BY DEF Silent
    <3>3. Addressed(sends', S) \in Seq(Silent)
      BY <1>5, <3>2, AddressedAmong
    <3>. QED  BY <2>2, <3>1, <3>3
  <2>4. PICK h : h = Heard(c)
    OBVIOUS
  <2>5. h = told[c] /\ h \in Seq(MessageType)
    <3>1. told[c] \in Seq(MessageType) /\ Owed(c) = <<>>
      BY <1>3, SaidIs, OwedIs DEF OwedInv
    <3>. QED  BY <2>4, <3>1, ConcatEmptySeq DEF Heard
  <2>6. PICK g : g = h \o e
    OBVIOUS
  <2>7. Heard(c)' = g
    BY <1>1, <2>2, <2>5, <2>6 DEF Heard
  <2>8. e \in Seq(MessageType)
    <3>1. Silent \subseteq MessageType
      BY DEF Silent
    <3>. QED  BY <2>3, <3>1, SeqMonotonic
  <2>9. /\ Len(h) \in Nat /\ Len(e) \in Nat /\ Len(g) = Len(h) + Len(e)
        /\ \A k \in 1..Len(h) + Len(e) : g[k] = IF k <= Len(h) THEN h[k] ELSE e[k - Len(h)]
    BY <2>5, <2>6, <2>8, LenProperties, ConcatProperties
  <2>10. \A k \in 1..Len(e) : e[k].text = <<>>
    BY <2>3, ElementOfSeq DEF Silent
  <2>11. PICK N : N = Len(Sent(c))
    OBVIOUS
  <2>12. N \in Nat
    BY <2>11, SentType
  <2>13. /\ p \in Seq(Seq(Letters)) /\ Len(p) = Len(h)
         /\ FlattenSeq(p) \o inbox[c] = Sent(c)
         /\ \A k \in 1..Len(p) : \E n \in 0..N : n <= Len(h[k].text) /\ p[k] = SubSeq(h[k].text, 1, n)
    BY <2>1, <2>4, <2>11 DEF Given
  <2>14. PICK none : none = [k \in 1..Len(e) |-> <<>>]
    OBVIOUS
  <2>15. none \in Seq(Seq(Letters)) /\ Len(none) = Len(e) /\ \A k \in 1..Len(e) : none[k] = <<>>
    <3>. DEFINE S == Seq(Letters)
    <3>1. <<>> \in S
      OBVIOUS
    <3>. HIDE DEF S
    <3>2. none \in Seq(S) /\ Len(none) = Len(e)
      BY <2>9, <2>14, <3>1
    <3>. QED  BY <2>14, <3>2 DEF S
  <2>16. PICK q : q = p \o none
    OBVIOUS
  <2>17. /\ q \in Seq(Seq(Letters)) /\ Len(q) = Len(h) + Len(e)
         /\ \A k \in 1..Len(h) + Len(e) : q[k] = IF k <= Len(h) THEN p[k] ELSE none[k - Len(h)]
    <3>. DEFINE S == Seq(Letters)
    <3>1. p \in Seq(S) /\ none \in Seq(S)
      BY <2>13, <2>15
    <3>. HIDE DEF S
    <3>2. /\ q \in Seq(S) /\ Len(q) = Len(p) + Len(none)
          /\ \A k \in 1..Len(p) + Len(none) : q[k] = IF k <= Len(p) THEN p[k] ELSE none[k - Len(p)]
      BY <2>16, <3>1, ConcatProperties
    <3>. QED  BY <2>13, <2>15, <3>2 DEF S
  <2>18. FlattenSeq(q) = FlattenSeq(p)
    <3>1. FlattenSeq(q) = FlattenSeq(p) \o FlattenSeq(none)
      BY <2>13, <2>15, <2>16, FlattenConcat
    <3>2. FlattenSeq(none) = <<>>
      BY <2>15, FlattenEmpties
    <3>3. FlattenSeq(p) \in Seq(Letters)
      BY <2>13, FlattenType
    <3>. QED  BY <3>1, <3>2, <3>3, ConcatEmptySeq
  <2>19. \A k \in 1..Len(q) : \E n \in 0..N : n <= Len(g[k].text) /\ q[k] = SubSeq(g[k].text, 1, n)
    <3>. TAKE k \in 1..Len(q)
    <3>1. CASE k <= Len(h)
      <4>1. k \in 1..Len(p)
        BY <2>9, <2>13, <2>17, <3>1
      <4>. QED  BY <2>9, <2>13, <2>17, <3>1, <4>1
    <3>2. CASE ~(k <= Len(h))
      <4>1. k - Len(h) \in 1..Len(e)
        BY <2>9, <2>17, <3>2
      <4>2. g[k].text = <<>> /\ q[k] = <<>>
        BY <2>9, <2>10, <2>15, <2>17, <3>2, <4>1
      <4>3. Len(<<>>) = 0 /\ SubSeq(<<>>, 1, 0) = <<>>
        BY SubSeqEmpty, EmptySeq
      <4>4. 0 \in 0..N /\ 0 <= Len(g[k].text) /\ q[k] = SubSeq(g[k].text, 1, 0)
        BY <2>12, <4>2, <4>3
      <4>. QED  BY <4>4
    <3>. QED  BY <3>1, <3>2
  <2>20. Sent(c)' = Sent(c) /\ inbox'[c] = inbox[c]
    BY <1>1 DEF Sent
  <2>21. Len(q) = Len(g)
    BY <2>9, <2>17
  <2>22. Given(c, q)'
    BY <2>7, <2>11, <2>13, <2>17, <2>18, <2>19, <2>20, <2>21 DEF Given
  <2>. QED  BY <2>22
<1>. QED  BY <1>2, <1>6 DEF KeptInv

\* At first nothing was sent.
LEMMA KeptInvInit == Init => KeptInv
<1>. SUFFICES ASSUME Init PROVE KeptInv
  OBVIOUS
<1>1. RoomInv
  BY RoomInvInit
<1>2. IInv
  BY <1>1 DEF RoomInv
<1>3. \A c \in Conns : peer[c].sent = 0 /\ inbox[c] = <<>> /\ said[c] = <<>> /\ told[c] = <<>>
  BY DEF Init
<1>4. SentInv
  <2>1. \A c \in Conns : Len(script[c]) \in Nat
    BY <1>2, ScriptType
  <2>. QED  BY <1>3, <2>1 DEF SentInv
<1>6. \A c \in Conns : Sent(c) = <<>>
  <2>. TAKE c \in Conns
  <2>1. SubSeq(script[c], 1, 0) = <<>>
    BY SubSeqEmpty
  <2>. QED  BY <1>3, <2>1, EmptySeq DEF Sent, FlattenSeq
<1>7. FlattenSeq(<<>>) = <<>> /\ <<>> \o <<>> = <<>> /\ Len(<<>>) = 0
  BY NoText, ConcatEmptySeq, EmptySeq DEF FlattenSeq
<1>5. OwnInv
  <2>1. \A c \in Conns : <<>> \in Seq(LinesFrom(Sent(c)))
    BY EmptySeq
  <2>. QED  BY <1>3, <1>6, <1>7, <2>1, NoText DEF OwnInv
<1>8. WholeInv
  BY <1>3, <1>6, <1>7 DEF WholeInv, Init
<1>9. EchoInv
  <2>. SUFFICES ASSUME NEW c \in Conns PROVE Given(c, <<>>)
    BY DEF EchoInv
  <2>1. sends = <<>>
    BY DEF Init
  <2>2. Owed(c) = <<>>
    BY <1>1, <2>1, OwedIs DEF OwedInv
  <2>3. Heard(c) = <<>>
    BY <1>3, <1>7, <2>2 DEF Heard
  <2>4. <<>> \in Seq(Seq(Letters))
    OBVIOUS
  <2>. PICK p : p = <<>>
    OBVIOUS
  <2>5. p \in Seq(Seq(Letters)) /\ Len(p) = 0 /\ Len(Heard(c)) = 0
    BY <1>7, <2>3, <2>4
  <2>6. FlattenSeq(p) \o inbox[c] = Sent(c)
    BY <1>3, <1>6, <1>7
  <2>7. Given(c, p)
    BY <2>5, <2>6 DEF Given
  <2>. QED  BY <2>7
<1>. QED  BY <1>1, <1>4, <1>5, <1>8, <1>9 DEF KeptInv

\* Every action keeps it.
LEMMA KeptInvStep == KeptInv /\ [Next]_vars => KeptInv'
<1>. SUFFICES ASSUME KeptInv, [Next]_vars PROVE KeptInv'
  OBVIOUS
<1>1. RoomInv'
  BY RoomInvStep DEF KeptInv
<1>2. CASE UNCHANGED vars
  <2>1. UNCHANGED <<program, script, peer, inbox, open, sends, said, told, tmp, torn>>
    BY <1>2 DEF vars, net, process, table, buffers, history
  <2>2. \A c \in Conns : Heard(c)' = Heard(c)
    BY <2>1 DEF Heard, Owed
  <2>3. SentInv' /\ OwnInv' /\ WholeInv'
    BY <2>1, LinesStay
  <2>4. EchoInv'
    BY <2>1, <2>2, EchoStays
  <2>. QED  BY <1>1, <2>3, <2>4 DEF KeptInv
<1>3. CASE Select \/ ScanEnds \/ AcceptFails \/ SendFails \/ SendsEnd
  BY <1>1, <1>3, LoopKept
<1>4. CASE Accept
  BY <1>1, <1>4, AcceptKept
<1>5. CASE \E fd \in Fds : Leaves(fd) \/ LeavesEcho(fd) \/ Says(fd) \/ SaysEcho(fd)
  BY <1>1, <1>5, LeavesKept, SaysKept, SaysEchoKept
<1>6. CASE Send
  BY <1>1, <1>6, SendKept
<1>7. CASE Peers
  BY <1>1, <1>7, PeersKept
<1>. QED  BY <1>2, <1>3, <1>4, <1>5, <1>6, <1>7 DEF Next, Server

\* A part of a text.
LEMMA PartIs ==
  ASSUME NEW s \in Seq(Letters), NEW m \in 1..Len(s), NEW n \in m..Len(s)
  PROVE  /\ SubSeq(s, m, n) \in Seq(Letters) /\ Len(SubSeq(s, m, n)) = n - m + 1
         /\ \A k \in 1..n - m + 1 : SubSeq(s, m, n)[k] = s[m + k - 1]
<1>1. Len(s) \in Nat
  BY LenProperties
<1>2. m \in Int /\ n \in Int /\ m <= n /\ \A k \in m..n : s[k] \in Letters
  BY <1>1, ElementOfSeq
<1>. QED  BY <1>2, SubSeqProperties

\* What is said are lines of its client, and all of them.
LEMMA KeptLines == KeptInv => LinesKept
<1>. SUFFICES ASSUME KeptInv PROVE LinesKept
  OBVIOUS
<1>1. \A c \in Conns : said[c] \in Seq(LinesFrom(Sent(c))) /\ said[c] \in Seq(Seq(Letters))
  BY SaidIs DEF KeptInv, OwnInv
<1>2. \A c \in Conns : DOMAIN said[c] = 1..Len(said[c])
  BY <1>1, LenProperties
<1>3. OwnLines
  <2>. SUFFICES ASSUME NEW c \in Conns, NEW i \in 1..Len(said[c]) PROVE LineOf(c, said[c][i])
    BY <1>2 DEF OwnLines
  <2>. PICK line : line = said[c][i]
    OBVIOUS
  <2>. PICK sent : sent = Sent(c)
    OBVIOUS
  <2>. DEFINE S == LinesFrom(sent)
  <2>. HIDE DEF S
  <2>1. line \in S
    BY <1>1, ElementOfSeq DEF S
  <2>2. line \in Seq(Letters)
    BY <2>1 DEF S, LinesFrom
  <2>3. DOMAIN line = 1..Len(line) /\ Len(line) \in Nat
    BY <2>2, LenProperties
  <2>. PICK end \in 1..Len(line) : Ends(line, end) /\ Piece(sent, SubSeq(line, 1, end))
    BY <2>1 DEF S, LinesFrom
  <2>. PICK part : part = SubSeq(line, 1, end)
    OBVIOUS
  <2>4. part \in Seq(Letters) /\ Len(part) = end
    <3>1. end \in Int /\ end <= Len(line) /\ 1 \in Nat \ {0}
      BY <2>3
    <3>2. \A k \in 1..end : line[k] \in Letters
      BY <2>2, <2>3, ElementOfSeq
    <3>. QED  BY <2>3, <3>1, <3>2, SubSeqProperties
  <2>. PICK x \in Seq(Letters), y \in Seq(Letters) : sent = (x \o part) \o y
    BY DEF Piece
  <2>. DEFINE from == Len(x) + 1
  <2>5. Len(x) \in Nat /\ Len(y) \in Nat /\ end \in Nat \ {0}
    BY <2>3, LenProperties
  <2>6. x \o part \in Seq(Letters) /\ Len(x \o part) = Len(x) + end
    BY <2>4, ConcatProperties
  <2>7. sent \in Seq(Letters) /\ Len(sent) = (Len(x) + end) + Len(y)
    BY <2>6, ConcatProperties
  <2>8. from \in 1..Len(sent) - end + 1
    BY <2>5, <2>7
  <2>9. SubSeq(sent, from, from + end - 1) = part
    <3>. DEFINE piece == SubSeq(sent, from, from + end - 1)
    <3>1. \A k \in 1..end : sent[Len(x) + k] = part[k]
      <4>. TAKE k \in 1..end
      <4>. PICK at_k : at_k = Len(x) + k
        OBVIOUS
      <4>. PICK xp : xp = x \o part
        OBVIOUS
      <4>0. Len(xp) = Len(x) + end
        BY <2>6
      <4>1. at_k \in 1..Len(x) + end /\ at_k \in 1..Len(xp) + Len(y) /\ at_k <= Len(xp) /\ ~(at_k <= Len(x)) /\ at_k - Len(x) = k
        BY <2>5, <4>0
      <4>2. sent[at_k] = xp[at_k]
        BY <2>6, <4>1, ConcatProperties
      <4>3. xp[at_k] = part[k]
        BY <2>4, <4>1, ConcatProperties
      <4>. QED  BY <4>2, <4>3
    <3>2. piece \in Seq(Letters) /\ Len(piece) = end /\ \A k \in 1..end : piece[k] = sent[Len(x) + k]
      <4>1. from + end - 1 = Len(x) + end /\ from \in Nat \ {0} /\ from + end - 1 \in Int /\ from + end - 1 <= Len(sent)
        BY <2>5, <2>7
      <4>2. \A k \in from .. from + end - 1 : sent[k] \in Letters
        BY <2>5, <2>7, <4>1, ElementOfSeq
      <4>3. /\ piece \in Seq(Letters) /\ Len(piece) = (from + end - 1) - from + 1
            /\ \A k \in 1..(from + end - 1) - from + 1 : piece[k] = sent[from + k - 1]
        <5>1. from \in Int /\ from + end - 1 \in Int /\ from <= from + end - 1
          BY <2>5
        <5>. PICK to : to = from + end - 1
          OBVIOUS
        <5>2. from \in 1..Len(sent) /\ to \in from..Len(sent)
          <6>. PICK lx, ly, ls : lx = Len(x) /\ ly = Len(y) /\ ls = Len(sent)
            OBVIOUS
          <6>1. lx \in Nat /\ ly \in Nat /\ ls = (lx + end) + ly /\ end \in Nat \ {0}
            BY <2>5, <2>7
          <6>2. from = lx + 1 /\ to = lx + end
            BY <4>1
          <6>. HIDE DEF from, piece
          <6>3. from \in 1..ls /\ to \in from..ls
            BY <6>1, <6>2
          <6>. QED  BY <6>3
        <5>3. piece = SubSeq(sent, from, to)
          OBVIOUS
        <5>. HIDE DEF from, piece
        <5>4. /\ SubSeq(sent, from, to) \in Seq(Letters) /\ Len(SubSeq(sent, from, to)) = to - from + 1
              /\ \A k \in 1..to - from + 1 : SubSeq(sent, from, to)[k] = sent[from + k - 1]
          BY <2>7, <5>2, PartIs
        <5>. QED  BY <5>3, <5>4
      <4>. HIDE DEF piece
      <4>4. \A k \in 1..end : from + k - 1 = Len(x) + k
        BY <2>5
      <4>5. (from + end - 1) - from + 1 = end
        BY <2>5
      <4>. QED  BY <4>3, <4>4, <4>5
    <3>. HIDE DEF piece, from
    <3>3. \A k \in 1..end : piece[k] = part[k]
      BY <3>1, <3>2
    <3>4. piece = part
      BY <2>4, <3>2, <3>3, SeqEqual
    <3>. QED  BY <3>4 DEF piece
  <2>. HIDE DEF from
  <2>. QED  BY <2>3, <2>8, <2>9 DEF LineOf, Ends
<1>4. LinesWhole
  BY <1>2 DEF LinesWhole, KeptInv, WholeInv
<1>. QED  BY <1>3, <1>4 DEF LinesKept

\* The beginnings that were given are those EchoesBack asks for.
LEMMA KeptEchoes == KeptInv => EchoesBack
<1>. SUFFICES ASSUME KeptInv, program = "echo", NEW c \in Conns, peer[c].st # "reset",
                     NEW msgs, msgs = told[c] \o Owed(c)
              PROVE  \E n \in [DOMAIN msgs -> 0 .. Len(Sent(c))] :
                       /\ \A k \in DOMAIN msgs : n[k] <= Len(msgs[k].text)
                       /\ FlattenSeq([k \in DOMAIN msgs |-> SubSeq(msgs[k].text, 1, n[k])]) \o inbox[c]
                            = Sent(c)
  BY DEF EchoesBack
<1>1. PICK p : Given(c, p)
  BY DEF KeptInv, EchoInv
<1>2. msgs = Heard(c) /\ DOMAIN msgs = 1..Len(msgs) /\ Len(msgs) = Len(p) /\ Len(p) \in Nat
  <2>1. msgs \in Seq(MessageType) /\ msgs = Heard(c)
    BY HeardType DEF Heard, KeptInv
  <2>2. Len(msgs) \in Nat /\ DOMAIN msgs = 1..Len(msgs)
    BY <2>1, LenProperties
  <2>. QED  BY <1>1, <2>1, <2>2 DEF Given
<1>. PICK N : N = 0 .. Len(Sent(c))
  OBVIOUS
<1>3. \A k \in DOMAIN msgs : \E n \in N : n <= Len(msgs[k].text) /\ p[k] = SubSeq(msgs[k].text, 1, n)
  BY <1>1, <1>2 DEF Given
<1>. DEFINE n == [k \in DOMAIN msgs |-> CHOOSE i \in N : i <= Len(msgs[k].text) /\ p[k] = SubSeq(msgs[k].text, 1, i)]
<1>4. \A k \in DOMAIN msgs : n[k] \in N /\ n[k] <= Len(msgs[k].text) /\ p[k] = SubSeq(msgs[k].text, 1, n[k])
  BY <1>3
<1>5. n \in [DOMAIN msgs -> N]
  BY <1>4
<1>. HIDE DEF n
<1>6. [k \in DOMAIN msgs |-> SubSeq(msgs[k].text, 1, n[k])] = p
  <2>1. p \in Seq(Seq(Letters))
    BY <1>1 DEF Given
  <2>2. p = [k \in 1..Len(p) |-> p[k]]
    BY <2>1, LenProperties
  <2>3. [k \in DOMAIN msgs |-> SubSeq(msgs[k].text, 1, n[k])] = [k \in DOMAIN msgs |-> p[k]]
    BY <1>4
  <2>. QED  BY <1>2, <2>2, <2>3
<1>. QED  BY <1>1, <1>4, <1>5, <1>6 DEF Given

-----------------------------------------------------------------------------
\* Until a recv ends within a line, the chat passes on under the number of a client
\* the lines of this client, whole and all of them, though all clients share one tmp;
\* and from then on lines that as far as their end are a piece of what it sent (ex_msg).
THEOREM LinesAreKept == Spec => []LinesKept
<1>. QED  BY KeptInvInit, KeptInvStep, KeptLines, PTL DEF Spec

\* What a client of the echo is told begins, message by message, with what it sent,
\* nothing left out and nothing twice.  The never cleared str may add the end of a
\* longer message, anybody's, behind each.
THEOREM EchoGivesBack == Spec => []EchoesBack
<1>. QED  BY KeptInvInit, KeptInvStep, KeptEchoes, PTL DEF Spec
===============================================================================
