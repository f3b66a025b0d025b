------------------------- MODULE RequestBufferProofs -------------------------
(***************************************************************************)
(* What the functions of webserv that read a request and look for its file *)
(* return, for every request, every list of location blocks and every file *)
(* tree: the facts the invariant of SelectLoop rests on.                   *)
(***************************************************************************)
EXTENDS RequestBuffer, SequenceTheorems, WellFoundedInduction, TLAPS

\* A nonempty set of naturals has a least element.
LEMMA LeastNatural ==
  ASSUME NEW S \in SUBSET Nat, S # {}
  PROVE  \E x \in S : \A y \in S : x <= y
<1> DEFINE R == OpToRel(<, Nat)
<1>1. PICK x \in S : \A y \in S : ~ (<<y, x>> \in R)
  BY NatLessThanWellFounded, WFMin
<1>2. \A y \in S : ~ (y < x)
  BY <1>1 DEF OpToRel
<1>. QED  BY <1>2

\* The elements of a range are the values.
LEMMA InRange ==
  ASSUME NEW f, NEW x \in DOMAIN f
  PROVE  f[x] \in Range(f)
BY DEF Range

\* A sequence of one.
LEMMA OneType ==
  ASSUME NEW T, NEW x \in T
  PROVE  <<x>> \in Seq(T) /\ <<x>> # <<>> /\ Head(<<x>>) = x
OBVIOUS

\* A part of a sequence.
LEMMA PartType ==
  ASSUME NEW T, NEW s \in Seq(T), NEW m \in Nat \ {0}, NEW n \in Int, n <= Len(s)
  PROVE  SubSeq(s, m, n) \in Seq(T)
<1>1. Len(s) \in Nat /\ \A i \in 1..Len(s) : s[i] \in T
  BY ElementOfSeq, LenProperties
<1>2. \A i \in m..n : s[i] \in T
  BY <1>1
<1>. QED  BY <1>2, SubSeqProperties

-----------------------------------------------------------------------------
\* request_buf: what it collects.

\* The place where the header ends.
LEMMA HeaderEndType ==
  ASSUME NEW s \in Seq(Token)
  PROVE  HeaderEnd(s) \in 0..Len(s)
<1>. DEFINE ends == {i \in 1..Len(s) : s[i] = "END" \/ (i > 1 /\ s[i] = "NL" /\ s[i - 1] = "NL")}
<1>1. Len(s) \in Nat
  BY LenProperties
<1>2. ends \in SUBSET Nat /\ ends \subseteq 1..Len(s)
  BY <1>1
<1>3. HeaderEnd(s) = IF ends = {} THEN 0 ELSE CHOOSE i \in ends : \A j \in ends : i <= j
  BY DEF HeaderEnd
<1>. HIDE DEF ends
<1>4. CASE ends # {}
  <2>1. \E i \in ends : \A j \in ends : i <= j
    BY <1>2, <1>4, LeastNatural
  <2>2. HeaderEnd(s) \in ends
    BY <1>3, <1>4, <2>1
  <2>3. HeaderEnd(s) \in 1..Len(s)
    BY <1>2, <2>2
  <2>. HIDE DEF HeaderEnd
  <2>. QED  BY <1>1, <2>3
<1>5. CASE ends = {}
  BY <1>1, <1>3, <1>5
<1>. QED  BY <1>4, <1>5

\* update_request_buffer keeps tokens.
LEMMA CollectedType ==
  ASSUME NEW r \in RequestBuf, NEW data \in Seq(Token)
  PROVE  Collected(r, data) \in RequestBuf
<1>. DEFINE all == r.headers \o data
            i   == HeaderEnd(all)
<1>1. r.headers \in Seq(Token) /\ r.body \in Seq(Token)
  BY DEF RequestBuf
<1>2. all \in Seq(Token)
  BY <1>1, ConcatProperties
<1>3. i \in 0..Len(all) /\ Len(all) \in Nat
  BY <1>2, HeaderEndType, LenProperties
<1>. HIDE DEF all, i
<1>4. i # 0 => SubSeq(all, 1, i) \in Seq(Token) /\ SubSeq(all, i + 1, Len(all)) \in Seq(Token)
  BY <1>2, <1>3, PartType
<1>5. i # 0 => r.body \o SubSeq(all, i + 1, Len(all)) \in Seq(Token)
  BY <1>1, <1>4, ConcatProperties
<1>6. r.body \o data \in Seq(Token)
  BY <1>1, ConcatProperties
<1>7. add_body_data(r, data) \in RequestBuf
  BY <1>1, <1>6 DEF add_body_data, RequestBuf
<1>8. add_header_data(r, data) \in RequestBuf
  <2>1. CASE i = 0
    BY <1>1, <1>2, <2>1 DEF add_header_data, RequestBuf, i, all
  <2>2. CASE i # 0
    <3>1. add_header_data(r, data) = [headers |-> SubSeq(all, 1, i),
                                      body |-> r.body \o SubSeq(all, i + 1, Len(all))]
      BY <2>2 DEF add_header_data, i, all
    <3>. QED  BY <1>4, <1>5, <2>2, <3>1 DEF RequestBuf
  <2>. QED  BY <2>1, <2>2
<1>. QED  BY <1>7, <1>8 DEF Collected

\* One round looks only behind its place.
LEMMA RoundDepends ==
  ASSUME NEW s \in Seq(Token), NEW f, NEW g, NEW pos \in 0..Len(s),
         \A q \in (pos + 1)..Len(s) : f[q] = g[q]
  PROVE  Round(s, f, pos) = Round(s, g, pos)
<1>. DEFINE hex  == Line(SubSeq(s, pos + 1, Len(s)))
            size == Number[hex[1]]
            next == pos + size + 3
<1>1. Len(s) \in Nat
  BY LenProperties
<1>2. \A t \in {"1", "2"} : Number[t] \in 1..2
  BY DEF Number, Length, Digit
<1>. HIDE DEF hex
<1>3. hex[1] \in {"1", "2"} /\ next <= Len(s) => f[next] = g[next]
  BY <1>1, <1>2
<1>. HIDE DEF size
<1>4. CASE hex[1] \in {"1", "2"} /\ next <= Len(s)
  BY <1>3, <1>4 DEF Round, hex, size, next
<1>5. CASE ~(hex[1] \in {"1", "2"} /\ next <= Len(s))
  BY <1>5 DEF Round, hex, size, next
<1>. QED  BY <1>4, <1>5

\* The rounds from the last n places on.
Rounds(s, f, n) == f = [pos \in (Len(s) - n)..Len(s) |-> Round(s, f, pos)]

\* There is a function of the loop's rounds: each looks behind its place only.
LEMMA RoundsExist ==
  ASSUME NEW s \in Seq(Token)
  PROVE  \E f : Rounds(s, f, Len(s))
<1>. DEFINE N   == Len(s)
            Bad == {n \in 0..N : ~ \E f : Rounds(s, f, n)}
<1>1. N \in Nat
  BY LenProperties
<1>2. Bad \in SUBSET Nat
  BY <1>1
<1>3. SUFFICES Bad = {}
  BY <1>1
<1>4. SUFFICES ASSUME Bad # {} PROVE FALSE
  OBVIOUS
<1>. HIDE DEF Bad
<1>5. PICK n \in Bad : \A m \in Bad : n <= m
  BY <1>2, <1>4, LeastNatural
<1>6. n \in 0..N /\ ~ \E f : Rounds(s, f, n)
  BY <1>5 DEF Bad
<1>7. CASE n = 0
  <2>. DEFINE f == [pos \in (N - 0)..N |-> Round(s, <<>>, pos)]
  <2>1. \A pos \in (N - 0)..N : Round(s, f, pos) = Round(s, <<>>, pos)
    <3>. TAKE pos \in (N - 0)..N
    <3>1. pos \in 0..N /\ \A q \in (pos + 1)..N : FALSE
      BY <1>1
    <3>. HIDE DEF f
    <3>. QED  BY <3>1, RoundDepends
  <2>2. Rounds(s, f, 0)
    BY <2>1 DEF Rounds
  <2>. QED  BY <1>6, <1>7, <2>2
<1>8. CASE n # 0
  <2>1. n - 1 \in 0..N /\ n - 1 \notin Bad
    BY <1>1, <1>5, <1>6, <1>8
  <2>2. PICK g : Rounds(s, g, n - 1)
    BY <2>1 DEF Bad
  <2>. DEFINE f == [pos \in (N - n)..N |-> Round(s, g, pos)]
  <2>3. DOMAIN g = (N - (n - 1))..N /\ \A pos \in (N - (n - 1))..N : g[pos] = Round(s, g, pos)
    BY <2>2 DEF Rounds
  <2>4. \A pos \in (N - (n - 1))..N : pos \in (N - n)..N /\ f[pos] = g[pos]
    BY <1>1, <1>6, <2>3
  <2>5. \A pos \in (N - n)..N : Round(s, f, pos) = Round(s, g, pos)
    <3>. TAKE pos \in (N - n)..N
    <3>1. pos \in 0..N /\ \A q \in (pos + 1)..N : q \in (N - (n - 1))..N
      BY <1>1, <1>6
    <3>2. \A q \in (pos + 1)..N : f[q] = g[q]
      BY <2>4, <3>1
    <3>. HIDE DEF f
    <3>. QED  BY <3>1, <3>2, RoundDepends
  <2>6. Rounds(s, f, n)
    BY <2>5 DEF Rounds
  <2>. QED  BY <1>6, <2>6
<1>. QED  BY <1>7, <1>8

\* What the loop of parse_body collects is a sequence of tokens.
LEMMA ChunksType ==
  ASSUME NEW s \in Seq(Token)
  PROVE  Chunks(s).data \in Seq(Token)
<1>. DEFINE N    == Len(s)
            from == CHOOSE f : f = [pos \in 0..N |-> Round(s, f, pos)]
            Bad  == {n \in 0..N : from[N - n].data \notin Seq(Token)}
<1>1. N \in Nat /\ N - N = 0
  BY LenProperties
<1>2. \E f : f = [pos \in 0..N |-> Round(s, f, pos)]
  BY <1>1, RoundsExist DEF Rounds
<1>3. from = [pos \in 0..N |-> Round(s, from, pos)]
  BY <1>2
<1>4. Chunks(s) = from[0]
  BY DEF Chunks
<1>. HIDE DEF from
<1>5. \A pos \in 0..N : from[pos] = Round(s, from, pos)
  BY <1>3
<1>6. SUFFICES Bad = {}
  BY <1>1, <1>4
<1>7. SUFFICES ASSUME Bad # {} PROVE FALSE
  OBVIOUS
<1>8. Bad \in SUBSET Nat
  BY <1>1
<1>. HIDE DEF Bad
<1>9. PICK n \in Bad : \A m \in Bad : n <= m
  BY <1>7, <1>8, LeastNatural
<1>. DEFINE pos == N - n
<1>10. n \in 0..N /\ pos \in 0..N /\ from[pos].data \notin Seq(Token)
  BY <1>1, <1>9 DEF Bad
<1>11. \A q \in (pos + 1)..N : from[q].data \in Seq(Token)
  <2>. TAKE q \in (pos + 1)..N
  <2>1. N - q \in 0..N /\ N - q < n /\ N - (N - q) = q
    BY <1>1, <1>10
  <2>2. N - q \notin Bad
    BY <1>8, <1>9, <2>1
  <2>. QED  BY <2>1, <2>2 DEF Bad
<1>. HIDE DEF pos
<1>12. Round(s, from, pos).data \in Seq(Token)
  <2>. DEFINE hex  == Line(SubSeq(s, pos + 1, N))
              size == Number[hex[1]]
              next == pos + size + 3
  <2>1. \A t \in {"1", "2"} : Number[t] \in 1..2
    BY DEF Number, Length, Digit
  <2>2. <<>> \in Seq(Token)
    BY EmptySeq
  <2>. DEFINE ends == hex \in {<<>>, <<"0">>}
              goes == Len(hex) = 1 /\ hex[1] \in {"1", "2"} /\ next <= N
  <2>3. ends => ~goes
    OBVIOUS
  <2>4. Round(s, from, pos) =
          CASE ends -> [thrown |-> FALSE, data |-> <<>>]
            [] goes -> [thrown |-> from[next].thrown, data |-> SubSeq(s, 3, size + 2) \o from[next].data]
            [] OTHER -> [thrown |-> TRUE, data |-> <<>>]
    BY DEF Round
  <2>5. CASE goes
    <3>1. size \in 1..2
      BY <2>1, <2>5
    <3>2. next \in (pos + 1)..N /\ size + 2 <= N /\ size + 2 \in Int
      BY <1>1, <1>10, <2>5, <3>1
    <3>3. SubSeq(s, 3, size + 2) \in Seq(Token)
      BY <3>2, PartType
    <3>4. SubSeq(s, 3, size + 2) \o from[next].data \in Seq(Token)
      BY <1>11, <3>2, <3>3, ConcatProperties
    <3>. HIDE DEF goes, ends
    <3>5. ~ends
      BY <2>3, <2>5
    <3>6. Round(s, from, pos) =
            [thrown |-> from[next].thrown, data |-> SubSeq(s, 3, size + 2) \o from[next].data]
      BY <2>4, <2>5, <3>5
    <3>. DEFINE piece == SubSeq(s, 3, size + 2) \o from[next].data
    <3>7. Round(s, from, pos) = [thrown |-> from[next].thrown, data |-> piece]
      BY <3>6
    <3>8. piece \in Seq(Token)
      BY <3>4
    <3>. HIDE DEF piece, next, size
    <3>. QED  BY <3>7, <3>8
  <2>6. CASE ~goes
    <3>. HIDE DEF goes, ends
    <3>1. Round(s, from, pos).data = <<>>
      BY <2>4, <2>6
    <3>. QED  BY <2>2, <3>1
  <2>. QED  BY <2>5, <2>6
<1>. QED  BY <1>5, <1>10, <1>12

\* What the handler makes of a line that is no request line.
LEMMA NoRequestType == NoRequest \in Asked /\ NoRequest.uri # <<>>
<1>. DEFINE word == <<"?">>
<1>1. "" \in STRING /\ "?" \in STRING
  BY LiteralsAssumption
<1>2. word \in Seq(STRING) /\ word # <<>>
  BY <1>1, OneType
<1>3. <<>> \in Seq(STRING)
  BY EmptySeq
<1>. HIDE DEF word
<1>4. NoRequest = [method |-> "", uri |-> word, referer |-> <<>>, credentials |-> "none"]
  BY DEF NoRequest, word
<1>. QED  BY <1>1, <1>2, <1>3, <1>4 DEF Asked, Credentials

\* parse_body and parse_first_line give what the handler keeps.
LEMMA ParsedType ==
  ASSUME NEW r \in RequestBuf
  PROVE  /\ parse_body(r).data \in Seq(Token)
         /\ parse_first_line(r) \in Asked /\ parse_first_line(r).uri # <<>>
<1>1. r.headers \in Seq(Token) /\ r.body \in Seq(Token)
  BY DEF RequestBuf
<1>2. parse_body(r).data = r.body \/ parse_body(r).data = Chunks(r.body).data
  BY DEF parse_body
<1>3. NoRequest \in Asked /\ NoRequest.uri # <<>>
  BY NoRequestType
<1>4. \A l \in DOMAIN Asks : Asks[l] \in Asked /\ Asks[l].uri # <<>>
  BY AsksAssumption, InRange
<1>. QED  BY <1>1, <1>2, <1>3, <1>4, ChunksType DEF parse_first_line

-----------------------------------------------------------------------------
\* header_handler: paths.

\* What is kept of the first i names, from what is kept of fewer.
KeptAt(path, kept, i) ==
  CASE i = 0                 -> <<>>
    [] i # 0 /\ path[i] = "" -> kept[i - 1]
    [] OTHER                 -> Append(kept[i - 1], path[i])

KeptTo(path, kept, n) == kept = [i \in 0..n |-> KeptAt(path, kept, i)]

\* There is such a function: each place looks at the one before it only.
LEMMA KeptExists ==
  ASSUME NEW path \in Seq(STRING)
  PROVE  \E kept : KeptTo(path, kept, Len(path))
<1>. DEFINE N   == Len(path)
            Bad == {n \in 0..N : ~ \E kept : KeptTo(path, kept, n)}
<1>1. N \in Nat
  BY LenProperties
<1>2. SUFFICES ASSUME Bad # {} PROVE FALSE
  BY <1>1
<1>3. Bad \in SUBSET Nat
  BY <1>1
<1>. HIDE DEF Bad
<1>4. PICK n \in Bad : \A m \in Bad : n <= m
  BY <1>2, <1>3, LeastNatural
<1>5. n \in 0..N /\ n \in Nat /\ ~ \E kept : KeptTo(path, kept, n)
  BY <1>1, <1>4 DEF Bad
<1>6. n # 0
  <2>. DEFINE kept == [i \in 0..0 |-> <<>>]
  <2>1. \A i \in 0..0 : KeptAt(path, kept, i) = <<>>
    BY DEF KeptAt
  <2>2. KeptTo(path, kept, 0)
    BY <2>1 DEF KeptTo
  <2>. QED  BY <1>5, <2>2
<1>7. n - 1 \in 0..N /\ n - 1 \notin Bad
  BY <1>1, <1>3, <1>4, <1>5, <1>6
<1>8. PICK prior : KeptTo(path, prior, n - 1)
  BY <1>7 DEF Bad
<1>. DEFINE kept == [i \in 0..n |-> KeptAt(path, prior, i)]
<1>9. \A i \in 0..(n - 1) : prior[i] = KeptAt(path, prior, i)
  BY <1>8 DEF KeptTo
<1>10. \A i \in 0..(n - 1) : kept[i] = prior[i]
  BY <1>9, <1>5
<1>. HIDE DEF kept
<1>11. \A i \in 0..n : KeptAt(path, kept, i) = KeptAt(path, prior, i)
  <2>. TAKE i \in 0..n
  <2>1. CASE i = 0
    BY <2>1 DEF KeptAt
  <2>2. CASE i # 0
    <3>1. i - 1 \in 0..(n - 1)
      BY <1>5, <2>2
    <3>2. kept[i - 1] = prior[i - 1]
      BY <1>10, <3>1
    <3>. QED  BY <3>2 DEF KeptAt
  <2>. QED  BY <2>1, <2>2
<1>12. KeptTo(path, kept, n)
  BY <1>11 DEF KeptTo, kept
<1>. QED  BY <1>5, <1>12

\* The names of a path that are not empty are a path.
LEMMA NamedType ==
  ASSUME NEW path \in Seq(STRING)
  PROVE  Named(path) \in Seq(STRING)
<1>. DEFINE N    == Len(path)
            kept == CHOOSE f : f = [i \in 0..N |-> KeptAt(path, f, i)]
            Bad  == {n \in 0..N : kept[n] \notin Seq(STRING)}
<1>1. N \in Nat /\ \A i \in 1..N : path[i] \in STRING
  BY ElementOfSeq, LenProperties
<1>2. kept = [i \in 0..N |-> KeptAt(path, kept, i)]
  BY KeptExists DEF KeptTo
<1>3. Named(path) = kept[N]
  BY DEF Named, KeptAt
<1>. HIDE DEF kept
<1>4. \A i \in 0..N : kept[i] = KeptAt(path, kept, i)
  BY <1>2
<1>5. SUFFICES ASSUME Bad # {} PROVE FALSE
  BY <1>1, <1>3
<1>6. Bad \in SUBSET Nat
  BY <1>1
<1>. HIDE DEF Bad
<1>7. PICK n \in Bad : \A m \in Bad : n <= m
  BY <1>5, <1>6, LeastNatural
<1>8. n \in 0..N /\ KeptAt(path, kept, n) \notin Seq(STRING)
  BY <1>4, <1>7 DEF Bad
<1>9. n # 0
  BY <1>8, EmptySeq DEF KeptAt
<1>10. n - 1 \in 0..N /\ n - 1 < n /\ n \in 1..N
  BY <1>1, <1>8, <1>9
<1>11. kept[n - 1] \in Seq(STRING)
  BY <1>6, <1>7, <1>10 DEF Bad
<1>12. Append(kept[n - 1], path[n]) \in Seq(STRING)
  BY <1>1, <1>10, <1>11, AppendProperties
<1>. QED  BY <1>8, <1>9, <1>11, <1>12 DEF KeptAt

\* remove_duplicate_forward_slashes leaves a path, and one that has a name one.
LEMMA DuplicatesType ==
  ASSUME NEW path \in Seq(STRING)
  PROVE  /\ remove_duplicate_forward_slashes(path) \in Seq(STRING)
         /\ path # <<>> => remove_duplicate_forward_slashes(path) # <<>>
<1>1. CASE path = <<>>
  BY <1>1 DEF remove_duplicate_forward_slashes
<1>2. CASE path # <<>>
  <2>1. Len(path) \in Nat \ {0} /\ Last(path) \in STRING
    BY <1>2, EmptySeq, ElementOfSeq DEF Last
  <2>2. Front(path) \in Seq(STRING)
    BY <2>1, PartType DEF Front
  <2>. DEFINE names == Named(Front(path))
              last  == <<Last(path)>>
  <2>3. names \in Seq(STRING) /\ last \in Seq(STRING) /\ last # <<>>
    BY <2>1, <2>2, NamedType, OneType
  <2>. HIDE DEF names, last
  <2>4. names \o last \in Seq(STRING) /\ names \o last # <<>>
    BY <2>3, ConcatProperties, ConcatEqualIffEmpty
  <2>. QED  BY <1>2, <2>4 DEF remove_duplicate_forward_slashes, names, last
<1>. QED  BY <1>1, <1>2

\* What a search for a file finds: nothing, or one path.
Findings == {NotFound} \cup {<<path>> : path \in Seq(STRING)}

\* A location block that is one of the server's.
BlockType(b) ==
  /\ b.root \in Seq(STRING) /\ b.index \in Seq(STRING) /\ b.allowed \subseteq Methods
  /\ b.max \in Nat /\ b.retour.code \in {0} \cup 300..310 /\ b.retour.to \in Seq(STRING)

\* The blocks have their types.
LEMMA BlocksType ==
  ASSUME NEW i \in DOMAIN Blocks
  PROVE  BlockType(Blocks[i])
<1>1. Blocks[i] \in Range(Blocks)
  BY InRange
<1>. QED  BY <1>1, LocationsAssumption DEF BlockType

\* get_file finds a file or a page that lists the directory, or nothing.
LEMMA FileFound ==
  ASSUME NEW b, BlockType(b), NEW path \in Seq(STRING), NEW fs
  PROVE  get_file(b, path, fs) \in Findings
<1>. DEFINE p == remove_duplicate_forward_slashes(path)
            list == <<"index.php">>
<1>1. p \in Seq(STRING)
  BY DuplicatesType
<1>2. list \in Seq(STRING)
  BY LiteralsAssumption, OneType
<1>. HIDE DEF p, list
<1>3. p \o b.index \in Seq(STRING) /\ p \o list \in Seq(STRING)
  BY <1>1, <1>2, ConcatProperties DEF BlockType
<1>4. get_file(b, path, fs) \in {<<p>>, <<p \o b.index>>, <<p \o list>>, NotFound}
  BY DEF get_file, p, list
<1>. QED  BY <1>1, <1>3, <1>4 DEF Findings

\* location_of_uploaded_file finds the root, a path below it, or nothing.
LEMMA UploadFound ==
  ASSUME NEW b, NEW root \in Seq(STRING), NEW rq, NEW uri \in Seq(STRING), NEW fs, NEW stale
  PROVE  location_of_uploaded_file(b, root, rq, uri, fs, stale) \in Findings
<1>1. root \o uri \in Seq(STRING)
  BY ConcatProperties
<1>2. location_of_uploaded_file(b, root, rq, uri, fs, stale) \in {NotFound, <<root>>, <<root \o uri>>}
  BY DEF location_of_uploaded_file
<1>. QED  BY <1>1, <1>2 DEF Findings

\* The root with the referer's path is a path.
LEMMA RefererType ==
  ASSUME NEW root \in Seq(STRING), NEW rq \in Asked, NEW fs
  PROVE  WithReferer(root, rq, fs) \in Seq(STRING)
<1>. DEFINE path == root \o remove_duplicate_forward_slashes(rq.referer)
<1>1. path \in Seq(STRING)
  BY DuplicatesType, ConcatProperties DEF Asked
<1>. HIDE DEF path
<1>2. Front(path) \in Seq(STRING)
  BY <1>1, LenProperties, PartType DEF Front
<1>3. WithReferer(root, rq, fs) \in {path, Front(path)}
  BY DEF WithReferer, path
<1>. QED  BY <1>1, <1>2, <1>3

\* What the loop of match_location_block finds in a block.
LEMMA FoundInBlock ==
  ASSUME NEW b, BlockType(b), NEW rq \in Asked, rq.uri # <<>>, NEW fs, NEW stale
  PROVE  FileIn(b, rq, fs, stale) \in Findings
<1>. DEFINE uri  == remove_duplicate_forward_slashes(rq.uri)
            root == WithReferer(b.root, rq, fs)
            path == IF b.alias /\ b.location = get_first_directory(uri)
                    THEN root \o skip_first_directory(uri)
                    ELSE IF Uploads(rq) THEN root ELSE root \o uri
<1>1. uri \in Seq(STRING) /\ uri # <<>>
  BY DuplicatesType DEF Asked
<1>2. root \in Seq(STRING)
  BY RefererType DEF BlockType
<1>. HIDE DEF uri, root
<1>3. Tail(uri) \in Seq(STRING)
  BY <1>1, HeadTailProperties
<1>4. root \o Tail(uri) \in Seq(STRING) /\ root \o uri \in Seq(STRING)
  BY <1>1, <1>2, <1>3, ConcatProperties
<1>5. path \in Seq(STRING)
  BY <1>2, <1>4 DEF skip_first_directory
<1>. HIDE DEF path
<1>6. /\ get_file(b, path, fs) \in Findings
      /\ location_of_uploaded_file(b, path, rq, uri, fs, stale) \in Findings
  BY <1>1, <1>5, FileFound, UploadFound
<1>7. FileIn(b, rq, fs, stale) \in
        {get_file(b, path, fs), location_of_uploaded_file(b, path, rq, uri, fs, stale)}
  BY DEF FileIn, path, root, uri
<1>. QED  BY <1>6, <1>7

\* match_location_block and verify_file_location leave the handler with a block,
\* or none, and a path.
LEMMA MatchType ==
  ASSUME NEW rq \in Asked, rq.uri # <<>>, NEW fs, NEW stale
  PROVE  verify_file_location(match_location_block(FilesIn(rq, fs, stale), rq), rq) \in Turn
<1>. DEFINE file == FilesIn(rq, fs, stale)
            t    == match_location_block(file, rq)
            hits == {i \in DOMAIN Blocks : Redirects(Blocks[i], rq) \/ file[i] # NotFound}
            i    == Min(hits)
            led  == hits # {} /\ Redirects(Blocks[i], rq)
            j    == CASE hits = {} -> 0 [] led -> i - 1 [] OTHER -> i
<1>1. Len(Blocks) \in Nat /\ DOMAIN Blocks = 1..Len(Blocks)
  BY LocationsAssumption, LenProperties
<1>2. \A k \in DOMAIN Blocks : BlockType(Blocks[k]) /\ file[k] \in Findings
  BY BlocksType, FoundInBlock DEF FilesIn
<1>. HIDE DEF file
<1>3. hits # {} => i \in hits
  <2>1. hits \in SUBSET Nat
    BY <1>1
  <2>. HIDE DEF hits
  <2>. QED  BY <2>1, LeastNatural DEF Min
<1>4. hits # {} => /\ i \in DOMAIN Blocks /\ i \in Nat \ {0} /\ BlockType(Blocks[i])
                   /\ file[i] \in Findings /\ (~led => file[i] # NotFound)
                   /\ (led => Blocks[i].retour.code \in 300..310)
  <2>. SUFFICES ASSUME hits # {}
                PROVE  /\ i \in DOMAIN Blocks /\ i \in Nat \ {0} /\ BlockType(Blocks[i])
                       /\ file[i] \in Findings /\ (~led => file[i] # NotFound)
                       /\ (led => Blocks[i].retour.code \in 300..310)
    OBVIOUS
  <2>. HIDE DEF i
  <2>1. i \in DOMAIN Blocks /\ (Redirects(Blocks[i], rq) \/ file[i] # NotFound)
    BY <1>3
  <2>2. i \in Nat \ {0} /\ BlockType(Blocks[i]) /\ file[i] \in Findings
    BY <1>1, <1>2, <2>1
  <2>. HIDE DEF hits
  <2>3. led => Blocks[i].retour.code \in 300..310
    BY <2>2 DEF Redirects, BlockType
  <2>. QED  BY <2>1, <2>2, <2>3
<1>. HIDE DEF hits, i
<1>5. j \in Nat /\ (j # 0 => BlockType(Blocks[j]))
  <2>1. led /\ i - 1 # 0 => i - 1 \in DOMAIN Blocks
    BY <1>1, <1>4
  <2>. QED  BY <1>2, <1>4, <2>1
<1>. DEFINE status == IF led THEN Blocks[i].retour.code ELSE 200
            paths  == CASE hits = {} -> NotFound [] led -> <<Blocks[i].retour.to>> [] OTHER -> file[i]
            allow  == CASE hits = {} -> {"GET"} \cup ({"DELETE"} \cap {rq.method})
                        [] hits # {} /\ j = 0 -> {}
                        [] OTHER -> Blocks[j].allowed
            max    == CASE j # 0 -> Blocks[j].max
                        [] j = 0 /\ hits = {} /\ Blocks # <<>> -> Last(Blocks).max
                        [] OTHER -> 0
<1>6. t = [index |-> j, status |-> status, file |-> paths, allow |-> allow, max |-> max]
  BY DEF match_location_block, hits, i, led
<1>7. status \in 200..417
  BY <1>4 DEF led
<1>8. paths \in Findings
  <2>1. led => <<Blocks[i].retour.to>> \in Findings
    BY <1>4 DEF led, BlockType, Findings
  <2>2. NotFound \in Findings
    BY DEF Findings
  <2>3. hits = {} => ~led
    BY DEF led
  <2>. QED  BY <1>4, <2>1, <2>2, <2>3
<1>9. allow \in SUBSET Methods
  <2>1. {"GET"} \cup ({"DELETE"} \cap {rq.method}) \in SUBSET Methods
    BY DEF Methods
  <2>2. j # 0 => Blocks[j].allowed \in SUBSET Methods
    BY <1>5 DEF BlockType
  <2>. HIDE DEF j
  <2>3. CASE hits = {}
    BY <2>1, <2>3
  <2>4. CASE hits # {} /\ j = 0
    BY <2>4
  <2>5. CASE hits # {} /\ j # 0
    BY <2>2, <2>5
  <2>. QED  BY <2>3, <2>4, <2>5
<1>10. max \in Nat
  <2>1. Blocks # <<>> => Last(Blocks).max \in Nat
    <3>1. Blocks # <<>> => Len(Blocks) \in DOMAIN Blocks
      BY <1>1, LocationsAssumption, EmptySeq
    <3>. QED  BY <1>2, <3>1 DEF Last, BlockType
  <2>2. j # 0 => Blocks[j].max \in Nat
    BY <1>5 DEF BlockType
  <2>. HIDE DEF j
  <2>3. CASE j # 0
    BY <2>2, <2>3
  <2>4. CASE j = 0 /\ hits = {} /\ Blocks # <<>>
    BY <2>1, <2>4
  <2>5. CASE j = 0 /\ ~(hits = {} /\ Blocks # <<>>)
    BY <2>5
  <2>. QED  BY <2>3, <2>4, <2>5
<1>. HIDE DEF j, status, paths, allow, max, led, t
<1>. DEFINE missing == ErrorFolder \o <<Last(rq.uri)>>
            found   == IF paths = NotFound THEN missing
                       ELSE IF status # 200 THEN Head(paths)
                       ELSE remove_duplicate_forward_slashes(Head(paths))
<1>11. missing \in Seq(STRING)
  <2>1. rq.uri \in Seq(STRING) /\ Last(rq.uri) \in STRING
    BY EmptySeq, ElementOfSeq DEF Asked, Last
  <2>2. ErrorFolder \in Seq(STRING)
    BY LocationsAssumption
  <2>. QED  BY <2>1, <2>2, OneType, ConcatProperties
<1>12. paths # NotFound => Head(paths) \in Seq(STRING)
  BY <1>8 DEF Findings
<1>13. found \in Seq(STRING)
  BY <1>11, <1>12, DuplicatesType
<1>. HIDE DEF missing
<1>14. verify_file_location(t, rq) = [t EXCEPT !.file = found]
  BY <1>6 DEF verify_file_location, missing
<1>. HIDE DEF found
<1>15. verify_file_location(t, rq) =
         [index |-> j, status |-> status, file |-> found, allow |-> allow, max |-> max]
  BY <1>6, <1>14
<1>. QED  BY <1>5, <1>7, <1>9, <1>10, <1>13, <1>15 DEF Turn, t, file

\* What the location, and the pages of errors, allow.
Allows(turn, asked, m) ==
  IF turn.index # 0 THEN m \in Blocks[turn.index].allowed
  ELSE m \in {"GET", "DELETE"} /\ turn.file = ErrorFolder \o <<Last(asked.uri)>>

\* What match_location_block notes as allowed is what the block allows that it has
\* noted, and without one what is let pass for a page of errors.
LEMMA MatchAllows ==
  ASSUME NEW rq \in Asked, rq.uri # <<>>, NEW fs, NEW stale, NEW turn,
         turn = verify_file_location(match_location_block(FilesIn(rq, fs, stale), rq), rq),
         NEW m \in turn.allow
  PROVE  Allows(turn, rq, m)
<1>. DEFINE file == FilesIn(rq, fs, stale)
            t    == match_location_block(file, rq)
            hits == {i \in DOMAIN Blocks : Redirects(Blocks[i], rq) \/ file[i] # NotFound}
            i    == Min(hits)
            led  == hits # {} /\ Redirects(Blocks[i], rq)
            j    == CASE hits = {} -> 0 [] led -> i - 1 [] OTHER -> i
            status == IF led THEN Blocks[i].retour.code ELSE 200
            paths  == CASE hits = {} -> NotFound [] led -> <<Blocks[i].retour.to>> [] OTHER -> file[i]
            allow  == CASE hits = {} -> {"GET"} \cup ({"DELETE"} \cap {rq.method})
                        [] hits # {} /\ j = 0 -> {}
                        [] OTHER -> Blocks[j].allowed
            max    == CASE j # 0 -> Blocks[j].max
                        [] j = 0 /\ hits = {} /\ Blocks # <<>> -> Last(Blocks).max
                        [] OTHER -> 0
            missing == ErrorFolder \o <<Last(rq.uri)>>
            found   == IF paths = NotFound THEN missing
                       ELSE IF status # 200 THEN Head(paths)
                       ELSE remove_duplicate_forward_slashes(Head(paths))
<1>1. t = [index |-> j, status |-> status, file |-> paths, allow |-> allow, max |-> max]
  BY DEF match_location_block
<1>2. hits = {} => j = 0 /\ paths = NotFound
  OBVIOUS
<1>3. hits = {} => allow \subseteq {"GET", "DELETE"}
  BY <1>2
<1>4. hits # {} /\ j = 0 => allow = {}
  OBVIOUS
<1>5. j # 0 => allow = Blocks[j].allowed
  <2>1. j # 0 => hits # {}
    BY <1>2
  <2>. HIDE DEF j, hits
  <2>. QED  BY <2>1
<1>. HIDE DEF j, hits, led, i, status, paths, allow, max, t, missing
<1>6. verify_file_location(t, rq) = [t EXCEPT !.file = found]
  BY <1>1 DEF verify_file_location, missing
<1>7. paths = NotFound => found = missing
  OBVIOUS
<1>. HIDE DEF found
<1>8. turn.index = j /\ turn.allow = allow /\ turn.file = found
  <2>1. turn = [t EXCEPT !.file = found]
    BY <1>6 DEF t, file
  <2>2. turn = [index |-> j, status |-> status, file |-> found, allow |-> allow, max |-> max]
    BY <1>1, <2>1
  <2>. QED  BY <2>2
<1>. QED  BY <1>2, <1>3, <1>4, <1>5, <1>7, <1>8 DEF Allows, missing

\* A status can be set.
LEMMA StatusSet ==
  ASSUME NEW t \in Turn, NEW status \in 200..417
  PROVE  [t EXCEPT !.status = status] \in Turn
BY DEF Turn

\* verify_method and verify_authorization change the status only.
LEMMA VerifiedType ==
  ASSUME NEW t \in Turn, NEW rq, NEW auth \in BOOLEAN
  PROVE  /\ verify_method(t, rq) \in Turn
         /\ verify_authorization(t, rq, auth).turn \in Turn
         /\ verify_authorization(t, rq, auth).auth \in BOOLEAN
<1>. DEFINE With(status) == [t EXCEPT !.status = status]
            v == verify_authorization(t, rq, auth)
<1>1. \A status \in 200..417 : With(status) \in Turn
  BY StatusSet
<1>2. \/ v = [turn |-> t, auth |-> auth] \/ v = [turn |-> With(401), auth |-> auth]
      \/ v = [turn |-> With(200), auth |-> TRUE] \/ v = [turn |-> With(403), auth |-> FALSE]
  BY DEF verify_authorization
<1>3. verify_method(t, rq) \in {t, With(405)}
  BY DEF verify_method
<1>. HIDE DEF With, v
<1>4. With(200) \in Turn /\ With(401) \in Turn /\ With(403) \in Turn /\ With(405) \in Turn
  BY <1>1
<1>5. v \in [turn : Turn, auth : BOOLEAN]
  <2>1. CASE v = [turn |-> t, auth |-> auth]
    BY <2>1
  <2>2. CASE v = [turn |-> With(401), auth |-> auth]
    BY <1>4, <2>2
  <2>3. CASE v = [turn |-> With(200), auth |-> TRUE]
    BY <1>4, <2>3
  <2>4. CASE v = [turn |-> With(403), auth |-> FALSE]
    BY <1>4, <2>4
  <2>. QED  BY <1>2, <2>1, <2>2, <2>3, <2>4
<1>6. v.turn \in Turn /\ v.auth \in BOOLEAN
  BY <1>5
<1>. QED  BY <1>3, <1>4, <1>6 DEF v

\* What handle_request leads run to do is one of the kinds.
LEMMA OutcomeKind ==
  ASSUME NEW t \in Turn, NEW rq, NEW fs, NEW length
  PROVE  Outcome(Carry(t, rq, fs, length), t, rq).kind \in Kind
<1>. DEFINE done == Carry(t, rq, fs, length)
<1>1. /\ done.status \in Int
      /\ done.status < 400 => done.kind \in Kind
  <2>1. t.status \in Int
    <3>1. t.status \in 200..417
      BY DEF Turn
    <3>. QED  BY <3>1
  <2>2. put_request(t, fs).status \in {201, 204} /\ put_request(t, fs).kind \in Kind
    BY DEF put_request, Done, Kind
  <2>3. /\ post_request(t, fs, length).status \in {200, 413}
        /\ post_request(t, fs, length).status = 200 => post_request(t, fs, length).kind \in Kind
    BY DEF post_request, Done, Kind
  <2>4. /\ remove_file(t, fs).status \in {t.status, 404}
        /\ remove_file(t, fs).status # 404 => remove_file(t, fs).kind \in Kind
    BY DEF remove_file, Done, Kind
  <2>5. /\ OpenedToRead(t, fs).status \in {t.status, 404}
        /\ OpenedToRead(t, fs).status # 404 => OpenedToRead(t, fs).kind \in Kind
    BY DEF OpenedToRead, Done, Kind
  <2>6. /\ Done(fs, t.status, "gone").status = t.status /\ Done(fs, t.status, "gone").kind \in Kind
        /\ Done(fs, t.status, "script").status = t.status /\ Done(fs, t.status, "script").kind \in Kind
    BY DEF Done, Kind
  <2>7. done \in {Done(fs, t.status, "gone"), put_request(t, fs), post_request(t, fs, length),
                  remove_file(t, fs), Done(fs, t.status, "script"), OpenedToRead(t, fs)}
    BY <2>1 DEF Carry
  <2>. HIDE DEF done
  <2>. QED  BY <2>1, <2>2, <2>3, <2>4, <2>5, <2>6, <2>7
<1>. HIDE DEF done
<1>2. Outcome(done, t, rq).kind \in {done.kind} \cup {"nowhere", "unopened", "refused", "page"}
  BY <1>1 DEF Outcome
<1>. QED  BY <1>1, <1>2 DEF Outcome, Kind, done

-----------------------------------------------------------------------------
\* Definition and induction by steps.

\* A set that 0 is in, and with each number the next, has all up to n.
LEMMA UpTo ==
  ASSUME NEW n \in Nat, NEW P, 0 \in P, \A i \in 1..n : i - 1 \in P => i \in P
  PROVE  \A i \in 0..n : i \in P
<1>. DEFINE Bad == {i \in 0..n : i \notin P}
<1>1. SUFFICES ASSUME Bad # {} PROVE FALSE
  OBVIOUS
<1>2. Bad \in SUBSET Nat
  OBVIOUS
<1>. HIDE DEF Bad
<1>3. PICK i \in Bad : \A j \in Bad : i <= j
  BY <1>1, <1>2, LeastNatural
<1>4. i \in 1..n /\ i \notin P
  BY <1>3 DEF Bad
<1>5. i - 1 \in 0..n /\ i - 1 \notin Bad
  BY <1>2, <1>3, <1>4
<1>6. i - 1 \in P
  BY <1>5 DEF Bad
<1>. QED  BY <1>4, <1>6

\* n steps that stay in a set, and what they make of base.
Steps(n, T) == [1..n -> [T -> T]]
Follows(f, base, step, n) == f[0] = base /\ \A i \in 1..n : f[i] = step[i][f[i - 1]]

\* What is made step by step exists.
LEMMA StepByStep ==
  ASSUME NEW n \in Nat, NEW T, NEW base \in T, NEW step \in Steps(n, T)
  PROVE  \E f \in [0..n -> T] : Follows(f, base, step, n)
<1>. DEFINE Made(f, m) == f[0] = base /\ \A i \in 1..m : f[i] = step[i][f[i - 1]]
            P == {m \in 0..n : \E f \in [0..m -> T] : Made(f, m)}
<1>. USE DEF Steps
<1>1. 0 \in P
  <2>. DEFINE f == [i \in 0..0 |-> base]
  <2>1. f \in [0..0 -> T]
    OBVIOUS
  <2>2. Made(f, 0)
    OBVIOUS
  <2>3. 0 \in 0..n
    OBVIOUS
  <2>. HIDE DEF f, Made
  <2>. QED  BY <2>1, <2>2, <2>3
<1>2. ASSUME NEW m \in 1..n, m - 1 \in P
      PROVE  m \in P
  <2>1. PICK g \in [0..(m - 1) -> T] : Made(g, m - 1)
    BY <1>2
  <2>. DEFINE f == [i \in 0..m |-> IF i = m THEN step[m][g[m - 1]] ELSE g[i]]
  <2>2. m - 1 \in 0..(m - 1) /\ step[m] \in [T -> T]
    OBVIOUS
  <2>3. step[m][g[m - 1]] \in T
    BY <2>1, <2>2
  <2>4. \A i \in 0..m : i # m => i \in 0..(m - 1)
    OBVIOUS
  <2>5. f \in [0..m -> T]
    BY <2>1, <2>3, <2>4
  <2>6. f[0] = base
    BY <2>1
  <2>7. \A i \in 1..m : f[i] = step[i][f[i - 1]]
    <3>. TAKE i \in 1..m
    <3>1. i - 1 \in 0..(m - 1) /\ f[i - 1] = g[i - 1]
      OBVIOUS
    <3>2. CASE i = m
      BY <3>1, <3>2
    <3>3. CASE i # m
      <4>1. i \in 1..(m - 1) /\ f[i] = g[i]
        BY <3>3
      <4>2. g[i] = step[i][g[i - 1]]
        BY <2>1, <4>1
      <4>. QED  BY <3>1, <4>1, <4>2
    <3>. QED  BY <3>2, <3>3
  <2>. HIDE DEF f
  <2>8. Made(f, m)
    BY <2>6, <2>7
  <2>9. m \in 0..n
    OBVIOUS
  <2>. QED  BY <2>5, <2>8, <2>9
<1>3. n \in P
  <2>1. n \in 0..n
    OBVIOUS
  <2>. HIDE DEF P
  <2>. QED  BY <1>1, <1>2, <2>1, UpTo
<1>. QED  BY <1>3 DEF Follows

-----------------------------------------------------------------------------
\* What is collected depends on the bytes, not on how they were cut.

\* A header ends at i.
EndsAt(s, i) == s[i] = "END" \/ (i > 1 /\ s[i] = "NL" /\ s[i - 1] = "NL")

\* The place where it ends is the first such.
LEMMA HeaderEndIs ==
  ASSUME NEW s \in Seq(Token)
  PROVE  /\ HeaderEnd(s) # 0 =>
              /\ HeaderEnd(s) \in 1..Len(s) /\ EndsAt(s, HeaderEnd(s))
              /\ \A j \in 1..(HeaderEnd(s) - 1) : ~EndsAt(s, j)
         /\ \A n \in 1..Len(s) : EndsAt(s, n) /\ (\A j \in 1..(n - 1) : ~EndsAt(s, j)) => HeaderEnd(s) = n
<1>. DEFINE ends == {i \in 1..Len(s) : EndsAt(s, i)}
<1>1. Len(s) \in Nat
  BY LenProperties
<1>2. ends \in SUBSET Nat /\ ends \subseteq 1..Len(s)
  BY <1>1
<1>3. HeaderEnd(s) = IF ends = {} THEN 0 ELSE CHOOSE i \in ends : \A j \in ends : i <= j
  BY DEF HeaderEnd, EndsAt
<1>4. ASSUME HeaderEnd(s) # 0
      PROVE  /\ HeaderEnd(s) \in 1..Len(s) /\ EndsAt(s, HeaderEnd(s))
             /\ \A j \in 1..(HeaderEnd(s) - 1) : ~EndsAt(s, j)
  <2>. HIDE DEF ends
  <2>1. \E i \in ends : \A j \in ends : i <= j
    BY <1>2, <1>3, <1>4, LeastNatural
  <2>2. HeaderEnd(s) \in ends /\ \A j \in ends : HeaderEnd(s) <= j
    BY <1>3, <1>4, <2>1
  <2>. PICK h : h = HeaderEnd(s)
    OBVIOUS
  <2>3. h \in 1..Len(s) /\ EndsAt(s, h) /\ \A j \in 1..Len(s) : EndsAt(s, j) => h <= j
    BY <2>2 DEF ends
  <2>4. \A j \in 1..(h - 1) : j \in 1..Len(s) /\ ~(h <= j)
    BY <1>1, <2>3
  <2>. QED  BY <2>3, <2>4
<1>5. ASSUME NEW n \in 1..Len(s), EndsAt(s, n), \A j \in 1..(n - 1) : ~EndsAt(s, j)
      PROVE  HeaderEnd(s) = n
  <2>1. n \in ends
    BY <1>5
  <2>2. \A j \in ends : n <= j
    BY <1>1, <1>5
  <2>3. \A i \in ends : i \in Nat
    BY <1>2
  <2>. HIDE DEF ends
  <2>4. \A i \in ends : (\A j \in ends : i <= j) => i = n
    <3>. TAKE i \in ends
    <3>. HAVE \A j \in ends : i <= j
    <3>1. i <= n /\ n <= i /\ i \in Nat /\ n \in Nat
      BY <2>1, <2>2, <2>3
    <3>. QED  BY <3>1
  <2>. QED  BY <1>3, <2>1, <2>2, <2>4
<1>. QED  BY <1>4, <1>5

\* It is the same in whatever begins in the same way.
LEMMA HeaderEndsAlike ==
  ASSUME NEW s \in Seq(Token), NEW t \in Seq(Token), HeaderEnd(s) # 0, HeaderEnd(s) <= Len(t),
         \A j \in 1..HeaderEnd(s) : t[j] = s[j]
  PROVE  HeaderEnd(t) = HeaderEnd(s)
<1>. PICK n : n = HeaderEnd(s)
  OBVIOUS
<1>1. n \in 1..Len(s) /\ EndsAt(s, n) /\ (\A j \in 1..(n - 1) : ~EndsAt(s, j))
  BY HeaderEndIs
<1>2. Len(s) \in Nat /\ Len(t) \in Nat
  BY LenProperties
<1>3. n \in 1..Len(t)
  BY <1>1, <1>2
<1>4. \A j \in 1..n : EndsAt(t, j) <=> EndsAt(s, j)
  <2>. TAKE j \in 1..n
  <2>1. t[j] = s[j] /\ (j > 1 => t[j - 1] = s[j - 1])
    BY <1>1
  <2>. QED  BY <2>1 DEF EndsAt
<1>5. EndsAt(t, n) /\ \A j \in 1..(n - 1) : ~EndsAt(t, j)
  BY <1>1, <1>4
<1>. QED  BY <1>3, <1>5, HeaderEndIs

\* A text and what is behind it.
LEMMA Behind ==
  ASSUME NEW T, NEW a \in Seq(T), NEW y \in Seq(T)
  PROVE  /\ a \o y \in Seq(T) /\ Len(a \o y) = Len(a) + Len(y) /\ Len(a) \in Nat /\ Len(y) \in Nat
         /\ \A j \in 1..Len(a) : (a \o y)[j] = a[j]
OBVIOUS

\* A cut in the first of two texts.
LEMMA CutBehind ==
  ASSUME NEW T, NEW a \in Seq(T), NEW y \in Seq(T), NEW i \in 0..Len(a)
  PROVE  /\ SubSeq(a, 1, i) \in Seq(T) /\ SubSeq(a, i + 1, Len(a)) \in Seq(T)
         /\ Len(SubSeq(a, 1, i)) = i /\ \A j \in 1..i : SubSeq(a, 1, i)[j] = a[j]
         /\ SubSeq(a \o y, 1, i) = SubSeq(a, 1, i)
         /\ SubSeq(a \o y, i + 1, Len(a \o y)) = SubSeq(a, i + 1, Len(a)) \o y
<1>1. SubSeq(a, 1, i) \in Seq(T) /\ SubSeq(a, i + 1, Len(a)) \in Seq(T)
  OBVIOUS
<1>2. Len(SubSeq(a, 1, i)) = i /\ \A j \in 1..i : SubSeq(a, 1, i)[j] = a[j]
  OBVIOUS
<1>3. SubSeq(a \o y, 1, i) = SubSeq(a, 1, i)
  OBVIOUS
<1>4. SubSeq(a \o y, i + 1, Len(a \o y)) = SubSeq(a, i + 1, Len(a)) \o y
  <2>. DEFINE u == SubSeq(a \o y, i + 1, Len(a \o y))
              v == SubSeq(a, i + 1, Len(a)) \o y
  <2>1. u \in Seq(T) /\ Len(u) = Len(a) + Len(y) - i
    OBVIOUS
  <2>2. v \in Seq(T) /\ Len(v) = Len(a) + Len(y) - i
    OBVIOUS
  <2>3. \A j \in 1..(Len(a) + Len(y) - i) : u[j] = v[j]
    OBVIOUS
  <2>. HIDE DEF u, v
  <2>4. u = v
    BY <2>1, <2>2, <2>3, SeqEqual
  <2>. QED  BY <2>4 DEF u, v
<1>. QED  BY <1>1, <1>2, <1>3, <1>4

\* Two parts of a text make the same as both at once.
LEMMA CollectedTogether ==
  ASSUME NEW r \in RequestBuf, NEW x \in Seq(Token), NEW y \in Seq(Token)
  PROVE  Collected(Collected(r, x), y) = Collected(r, x \o y)
<1>. DEFINE a == r.headers \o x
            b == r.headers \o (x \o y)
            i == HeaderEnd(a)
            m == Len(a)
<1>1. /\ r.headers \in Seq(Token) /\ r.body \in Seq(Token)
      /\ r = [headers |-> r.headers, body |-> r.body]
  BY DEF RequestBuf
<1>2. a \in Seq(Token) /\ b \in Seq(Token) /\ x \o y \in Seq(Token) /\ b = a \o y
  BY <1>1, ConcatProperties, ConcatAssociative
<1>3. i \in 0..m /\ m \in Nat /\ i <= Len(b) /\ \A j \in 1..i : b[j] = a[j]
  <2>. HIDE DEF a, b
  <2>1. i \in 0..m
    BY <1>2, HeaderEndType
  <2>2. Len(b) = m + Len(y) /\ m \in Nat /\ Len(y) \in Nat /\ \A j \in 1..m : b[j] = a[j]
    BY <1>2, Behind
  <2>. HIDE DEF i, m
  <2>. QED  BY <2>1, <2>2
<1>4. CASE headers_received(r)
  <2>1. Collected(r, x) = [r EXCEPT !.body = r.body \o x] /\ Collected(r, x \o y) = [r EXCEPT !.body = r.body \o (x \o y)]
    BY <1>4 DEF Collected, add_body_data
  <2>2. headers_received(Collected(r, x)) /\ Collected(r, x).body = r.body \o x
    BY <1>1, <1>4, <2>1 DEF headers_received
  <2>3. Collected(Collected(r, x), y) = [Collected(r, x) EXCEPT !.body = (r.body \o x) \o y]
    BY <2>2 DEF Collected, add_body_data
  <2>4. (r.body \o x) \o y = r.body \o (x \o y)
    BY <1>1, ConcatAssociative
  <2>. QED  BY <1>1, <2>1, <2>3, <2>4
<1>5. CASE ~headers_received(r) /\ i = 0
  <2>1. Collected(r, x) = [r EXCEPT !.headers = a]
    BY <1>5 DEF Collected, add_header_data
  <2>2. ~headers_received(Collected(r, x)) /\ Collected(r, x).headers = a /\ Collected(r, x).body = r.body
    BY <1>1, <1>5, <2>1 DEF headers_received
  <2>. HIDE DEF a, i, m
  <2>3. Collected(Collected(r, x), y) = add_header_data(Collected(r, x), y)
        /\ Collected(r, x \o y) = add_header_data(r, x \o y)
    BY <1>5, <2>2 DEF Collected
  <2>4. [Collected(r, x) EXCEPT !.headers = b] = [r EXCEPT !.headers = b]
    BY <1>1, <2>1
  <2>5. add_header_data(Collected(r, x), y) =
          IF HeaderEnd(b) = 0 THEN [Collected(r, x) EXCEPT !.headers = b]
          ELSE [headers |-> SubSeq(b, 1, HeaderEnd(b)),
                body    |-> r.body \o SubSeq(b, HeaderEnd(b) + 1, Len(b))]
    <3>. HIDE DEF b
    <3>. QED  BY <1>2, <2>2 DEF add_header_data
  <2>6. add_header_data(r, x \o y) =
          IF HeaderEnd(b) = 0 THEN [r EXCEPT !.headers = b]
          ELSE [headers |-> SubSeq(b, 1, HeaderEnd(b)),
                body    |-> r.body \o SubSeq(b, HeaderEnd(b) + 1, Len(b))]
    BY DEF add_header_data
  <2>. QED  BY <2>3, <2>4, <2>5, <2>6
<1>6. CASE ~headers_received(r) /\ i # 0
  <2>. DEFINE front == SubSeq(a, 1, i)
              rest  == SubSeq(a, i + 1, m)
  <2>1. /\ front \in Seq(Token) /\ Len(front) = i /\ \A j \in 1..i : front[j] = a[j]
        /\ rest \in Seq(Token)
        /\ SubSeq(b, 1, i) = front
        /\ SubSeq(b, i + 1, Len(b)) = rest \o y
    <3>. HIDE DEF a, b, i
    <3>1. /\ Len(front) = i /\ \A j \in 1..i : front[j] = a[j]
      BY <1>2, <1>3, CutBehind
    <3>2. front \in Seq(Token) /\ rest \in Seq(Token)
      BY <1>2, <1>3, CutBehind
    <3>3. SubSeq(a \o y, 1, i) = front
      BY <1>2, <1>3, CutBehind
    <3>4. a \in Seq(Token) /\ i \in 0..Len(a)
      BY <1>2, <1>3
    <3>5. SubSeq(a \o y, i + 1, Len(a \o y)) = SubSeq(a, i + 1, Len(a)) \o y
      BY <3>4, CutBehind
    <3>. QED  BY <1>2, <3>1, <3>2, <3>3, <3>5
  <2>3. Collected(r, x) = [headers |-> front, body |-> r.body \o rest]
    BY <1>6 DEF Collected, add_header_data
  <2>. HIDE DEF front, rest
  <2>4. HeaderEnd(front) = i
    <3>1. HeaderEnd(a) # 0 /\ HeaderEnd(a) <= Len(front) /\ \A j \in 1..HeaderEnd(a) : front[j] = a[j]
      BY <1>3, <1>6, <2>1
    <3>. HIDE DEF a
    <3>. QED  BY <1>2, <2>1, <3>1, HeaderEndsAlike
  <2>5. HeaderEnd(b) = i
    <3>1. HeaderEnd(a) # 0 /\ HeaderEnd(a) <= Len(b) /\ \A j \in 1..HeaderEnd(a) : b[j] = a[j]
      BY <1>3, <1>6
    <3>. HIDE DEF a, b
    <3>. QED  BY <1>2, <3>1, HeaderEndsAlike
  <2>6. Collected(Collected(r, x), y) = [headers |-> front, body |-> (r.body \o rest) \o y]
    <3>. PICK c : c = Collected(r, x)
      OBVIOUS
    <3>1. c.headers = front /\ c.body = r.body \o rest
      BY <2>3
    <3>2. headers_received(c)
      BY <1>6, <2>4, <3>1 DEF headers_received
    <3>3. Collected(c, y) = [c EXCEPT !.body = c.body \o y]
      BY <3>2 DEF Collected, add_body_data
    <3>4. c = [headers |-> front, body |-> r.body \o rest]
      BY <2>3
    <3>5. [c EXCEPT !.body = (r.body \o rest) \o y] = [headers |-> front, body |-> (r.body \o rest) \o y]
      <4>1. \A p, q : [[headers |-> front, body |-> p] EXCEPT !.body = q] = [headers |-> front, body |-> q]
        OBVIOUS
      <4>. QED  BY <3>4, <4>1, Zenon
    <3>. QED  BY <3>1, <3>3, <3>5
  <2>7. Collected(r, x \o y) = [headers |-> SubSeq(b, 1, i), body |-> r.body \o SubSeq(b, i + 1, Len(b))]
    BY <1>6, <2>5 DEF Collected, add_header_data
  <2>. HIDE DEF a, b, i, m
  <2>8. (r.body \o rest) \o y = r.body \o (rest \o y)
    <3>1. rest \in Seq(Token) /\ r.body \in Seq(Token)
      BY <1>1, <2>1
    <3>2. \A s, t, u \in Seq(Token) : (s \o t) \o u = s \o (t \o u)
      BY ConcatAssociative
    <3>. QED  BY <3>1, <3>2, Zenon
  <2>. QED  BY <2>1, <2>6, <2>7, <2>8
<1>. QED  BY <1>4, <1>5, <1>6

\* Nothing, or a line break, is no request.
LEMMA NothingComplete ==
  ASSUME NEW x \in {<<>>, <<"NL">>}
  PROVE  ~Complete(Collected(NewBuffer, x))
<1>1. "NL" \in Token
  BY DEF Token
<1>2. NewBuffer.headers = <<>> /\ x \in Seq(Token) /\ <<>> \o x = x
  <2>1. <<"NL">> \in Seq(Token) /\ <<>> \in Seq(Token)
    BY <1>1, OneType, EmptySeq
  <2>2. x \in Seq(Token)
    BY <2>1
  <2>. QED  BY <2>2, ConcatEmptySeq DEF NewBuffer
<1>3. HeaderEnd(<<>>) = 0
  <2>1. <<>> \in Seq(Token) /\ Len(<<>>) = 0
    OBVIOUS
  <2>2. HeaderEnd(<<>>) \in 0..Len(<<>>)
    BY <2>1, HeaderEndType
  <2>. QED  BY <2>1, <2>2
<1>4. HeaderEnd(x) = 0
  <2>1. CASE x = <<>>
    BY <1>3, <2>1
  <2>2. CASE x = <<"NL">>
    <3>1. Len(x) = 1 /\ x[1] = "NL"
      BY <2>2
    <3>2. ~EndsAt(x, 1)
      BY <3>1 DEF EndsAt
    <3>3. HeaderEnd(x) # 0 => HeaderEnd(x) \in 1..Len(x) /\ EndsAt(x, HeaderEnd(x))
      BY <1>2, HeaderEndIs
    <3>. QED  BY <3>1, <3>2, <3>3
  <2>. QED  BY <2>1, <2>2
<1>5. Collected(NewBuffer, x) = [NewBuffer EXCEPT !.headers = x]
  BY <1>2, <1>3, <1>4 DEF Collected, headers_received, add_header_data
<1>6. Collected(NewBuffer, x).headers = x
  BY <1>5 DEF NewBuffer
<1>. QED  BY <1>4, <1>6 DEF Complete, headers_received
=============================================================================
