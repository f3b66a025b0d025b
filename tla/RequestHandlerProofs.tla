------------------------- MODULE RequestHandlerProofs -------------------------
(***************************************************************************)
(* The one request_handler of ATwebserv, for any servers, requests and     *)
(* files: what it keeps of one request does not reach the next but in the  *)
(* ways that OnItsOwn names; a file appears or disappears only by a method *)
(* that the location allows; and the right page of errors, whole, is sent. *)
(***************************************************************************)
EXTENDS RequestHandler, SequenceTheorems, WellFoundedInduction, TLAPS

-----------------------------------------------------------------------------
\* Types.

Path  == Seq(STRING)
Files == UNION {[D -> FileType] : D \in SUBSET Path}
Body  == {Nothing} \cup FileType
Statuses == {200, 404, 405, 413} \cup Codes
Response == [status : Statuses \cup {0}, length : Int, body : Body]

\* The turn that reader and writer pass on.
Turn == [sid : 0..Len(Servers), lid : Nat, path : Path, body : Body, rq : Requests,
         url : Path, status : Statuses \cup {0}, files : Files, response : Response,
         out : {"ok", "undefined", "exception"}]

\* From 300 on the page of errors shows the status.
Shown(t) ==
  t.status >= 300 /\ ErrorPage \in DOMAIN t.files => t.files[ErrorPage].shows = t.status

\* A turn that has a status line.
Lined == {t \in Turn : t.status \in Statuses /\ Shown(t)}

\* Only the page of errors is one.
OneErrorPage(fs) == \A p \in DOMAIN fs : fs[p].id = "error_4xx" => p = ErrorPage

\* The same files, but for what the page of errors shows.
SameFiles(fs, gs) ==
  DOMAIN gs = DOMAIN fs /\ \A p \in DOMAIN fs : gs[p].id = fs[p].id /\ gs[p].size = fs[p].size

\* The same turn, but for the status and the page of errors.
Line(t, u) ==
  /\ u \in Lined /\ u.sid = t.sid /\ u.lid = t.lid /\ u.path = t.path /\ u.body = t.body
  /\ u.rq = t.rq /\ u.url = t.url /\ u.response = t.response /\ u.out = t.out
  /\ SameFiles(t.files, u.files)

-----------------------------------------------------------------------------
\* Recursive functions.

\* A nonempty set of naturals has a least element.
LEMMA LeastNatural ==
  ASSUME NEW S \in SUBSET Nat, S # {}
  PROVE  \E x \in S : \A y \in S : x <= y
<1> DEFINE R == OpToRel(<, Nat)
<1>1. PICK x \in S : \A y \in S : ~ (<<y, x>> \in R)
  BY NatLessThanWellFounded, WFMin
<1>2. \A y \in S : ~ (y < x)
  BY <1>1 DEF OpToRel
<1>. QED  BY <1>2

\* A set that 0 is in, and with each number the next, has all up to n.
LEMMA UpTo ==
  ASSUME NEW n \in Nat, NEW P, 0 \in P, \A i \in 1..n : i - 1 \in P => i \in P
  PROVE  \A i \in 0..n : i \in P
<1>. DEFINE Bad == {i \in 0..n : i \notin P}
<1>1. SUFFICES ASSUME Bad # {} PROVE FALSE
  OBVIOUS
<1>2. Bad \in SUBSET Nat
  OBVIOUS
<1>. HIDE DEF Bad
<1>3. PICK i \in Bad : \A j \in Bad : i <= j
  BY <1>1, <1>2, LeastNatural
<1>4. i \in 1..n /\ i \notin P
  BY <1>3 DEF Bad
<1>5. i - 1 \in 0..n /\ i - 1 \notin Bad
  BY <1>2, <1>3, <1>4
<1>6. i - 1 \in P
  BY <1>5 DEF Bad
<1>. QED  BY <1>4, <1>6

\* n steps that stay in a set, and what they make of base.
Steps(n, T) == [1..n -> [T -> T]]
Follows(f, base, step, n) == f[0] = base /\ \A i \in 1..n : f[i] = step[i][f[i - 1]]

\* What is made step by step exists.
LEMMA StepByStep ==
  ASSUME NEW n \in Nat, NEW T, NEW base \in T, NEW step \in Steps(n, T)
  PROVE  \E f \in [0..n -> T] : Follows(f, base, step, n)
<1>. DEFINE Made(f, m) == f[0] = base /\ \A i \in 1..m : f[i] = step[i][f[i - 1]]
            P == {m \in 0..n : \E f \in [0..m -> T] : Made(f, m)}
<1>. USE DEF Steps
<1>1. 0 \in P
  <2>. DEFINE f == [i \in 0..0 |-> base]
  <2>1. f \in [0..0 -> T]
    OBVIOUS
  <2>2. Made(f, 0)
    OBVIOUS
  <2>3. 0 \in 0..n
    OBVIOUS
  <2>. HIDE DEF f, Made
  <2>. QED  BY <2>1, <2>2, <2>3
<1>2. ASSUME NEW m \in 1..n, m - 1 \in P
      PROVE  m \in P
  <2>1. PICK g \in [0..(m - 1) -> T] : Made(g, m - 1)
    BY <1>2
  <2>. DEFINE f == [i \in 0..m |-> IF i = m THEN step[m][g[m - 1]] ELSE g[i]]
  <2>2. m - 1 \in 0..(m - 1) /\ step[m] \in [T -> T]
    OBVIOUS
  <2>3. step[m][g[m - 1]] \in T
    BY <2>1, <2>2
  <2>4. \A i \in 0..m : i # m => i \in 0..(m - 1)
    OBVIOUS
  <2>5. f \in [0..m -> T]
    BY <2>1, <2>3, <2>4
  <2>6. f[0] = base
    BY <2>1
  <2>7. \A i \in 1..m : f[i] = step[i][f[i - 1]]
    <3>. TAKE i \in 1..m
    <3>1. i - 1 \in 0..(m - 1) /\ f[i - 1] = g[i - 1]
      OBVIOUS
    <3>2. CASE i = m
      BY <3>1, <3>2
    <3>3. CASE i # m
      <4>1. i \in 1..(m - 1) /\ f[i] = g[i]
        BY <3>3
      <4>2. g[i] = step[i][g[i - 1]]
        BY <2>1, <4>1
      <4>. QED  BY <3>1, <4>1, <4>2
    <3>. QED  BY <3>2, <3>3
  <2>. HIDE DEF f
  <2>8. Made(f, m)
    BY <2>6, <2>7
  <2>9. m \in 0..n
    OBVIOUS
  <2>. QED  BY <2>5, <2>8, <2>9
<1>3. n \in P
  <2>1. n \in 0..n
    OBVIOUS
  <2>. HIDE DEF P
  <2>. QED  BY <1>1, <1>2, <2>1, UpTo
<1>. QED  BY <1>3 DEF Follows

\* A part of a sequence.
LEMMA PartType ==
  ASSUME NEW T, NEW s \in Seq(T), NEW m \in Nat \ {0}, NEW n \in Int, n <= Len(s)
  PROVE  SubSeq(s, m, n) \in Seq(T)
<1>1. Len(s) \in Nat /\ \A i \in 1..Len(s) : s[i] \in T
  BY ElementOfSeq, LenProperties
<1>2. \A i \in m..n : s[i] \in T
  BY <1>1
<1>. QED  BY <1>2, SubSeqProperties

\* Min is one of them.
LEMMA MinIn ==
  ASSUME NEW S \in SUBSET Nat, S # {}
  PROVE  Min(S) \in S /\ \A y \in S : Min(S) <= y
<1>1. \E x \in S : \A y \in S : x <= y
  BY LeastNatural
<1>. QED  BY <1>1 DEF Min

-----------------------------------------------------------------------------
\* Paths.

\* The elements of a sequence.
LEMMA Elements ==
  ASSUME NEW T, NEW s \in Seq(T)
  PROVE  Len(s) \in Nat /\ DOMAIN s = 1..Len(s) /\ \A i \in 1..Len(s) : s[i] \in T
BY ElementOfSeq, LenProperties

\* One '/' for several is again a path.
LEMMA CleanUrlType ==
  ASSUME NEW path \in Path
  PROVE  clean_url(path) \in Path
<1>. DEFINE n    == Len(path)
            upTo == CHOOSE f : f = [i \in 0..n |->
                      IF i = 0 THEN <<>>
                      ELSE IF Doubled(path, i) THEN f[i - 1] ELSE Append(f[i - 1], path[i])]
            step == [i \in 1..n |->
                      [x \in Path |-> IF Doubled(path, i) THEN x ELSE Append(x, path[i])]]
            P    == {i \in 0..n : upTo[i] \in Path}
<1>1. n \in Nat /\ \A i \in 1..n : path[i] \in STRING
  BY Elements DEF Path
<1>2. step \in Steps(n, Path) /\ <<>> \in Path
  <2>1. <<>> \in Path
    BY DEF Path
  <2>2. \A i \in 1..n, x \in Path : Append(x, path[i]) \in Path
    BY <1>1 DEF Path
  <2>. DEFINE Longer(x, i) == IF Doubled(path, i) THEN x ELSE Append(x, path[i])
  <2>3. \A i \in 1..n, x \in Path : Longer(x, i) \in Path
    BY <2>2
  <2>4. step = [i \in 1..n |-> [x \in Path |-> Longer(x, i)]]
    OBVIOUS
  <2>. HIDE DEF Longer, n, step
  <2>. QED  BY <2>1, <2>3, <2>4 DEF Steps
<1>3. clean_url(path) = IF Len(upTo[n]) > 1 /\ Last(upTo[n]) = "/" THEN Front(upTo[n]) ELSE upTo[n]
  BY DEF clean_url
<1>. HIDE DEF step, n
<1>4. PICK g \in [0..n -> Path] : Follows(g, <<>>, step, n)
  BY <1>1, <1>2, StepByStep
<1>5. \A i \in 1..n : g[i] = IF Doubled(path, i) THEN g[i - 1] ELSE Append(g[i - 1], path[i])
  <2>. TAKE i \in 1..n
  <2>1. i - 1 \in 0..n
    BY <1>1
  <2>2. g[i - 1] \in Path /\ g[i] = step[i][g[i - 1]]
    BY <1>4, <2>1 DEF Follows
  <2>. QED  BY <2>2 DEF step
<1>6. g = [i \in 0..n |->
             IF i = 0 THEN <<>>
             ELSE IF Doubled(path, i) THEN g[i - 1] ELSE Append(g[i - 1], path[i])]
  <2>1. ASSUME NEW i \in 0..n
        PROVE  g[i] = IF i = 0 THEN <<>>
                      ELSE IF Doubled(path, i) THEN g[i - 1] ELSE Append(g[i - 1], path[i])
    <3>1. CASE i = 0
      BY <1>4, <3>1 DEF Follows
    <3>2. CASE i # 0
      <4>1. i \in 1..n
        BY <1>1, <3>2
      <4>. QED  BY <1>5, <3>2, <4>1
    <3>. QED  BY <3>1, <3>2
  <2>. QED  BY <2>1
<1>7. upTo = [i \in 0..n |->
                IF i = 0 THEN <<>>
                ELSE IF Doubled(path, i) THEN upTo[i - 1] ELSE Append(upTo[i - 1], path[i])]
  BY <1>6
<1>. HIDE DEF upTo
<1>8. 0 \in P
  BY <1>1, <1>2, <1>7
<1>9. ASSUME NEW i \in 1..n, i - 1 \in P
      PROVE  i \in P
  <2>1. i \in 0..n /\ i # 0 /\ upTo[i - 1] \in Path
    BY <1>1, <1>9
  <2>2. upTo[i] = IF Doubled(path, i) THEN upTo[i - 1] ELSE Append(upTo[i - 1], path[i])
    BY <1>7, <2>1
  <2>3. Append(upTo[i - 1], path[i]) \in Path
    BY <1>1, <2>1 DEF Path
  <2>. QED  BY <2>1, <2>2, <2>3
<1>10. n \in 0..n
  BY <1>1
<1>. HIDE DEF P
<1>11. n \in P
  BY <1>1, <1>8, <1>9, <1>10, UpTo
<1>12. upTo[n] \in Path
  BY <1>11 DEF P
<1>13. Len(upTo[n]) \in Nat /\ (Len(upTo[n]) > 1 => Front(upTo[n]) \in Path)
  <2>1. Len(upTo[n]) \in Nat
    BY <1>12, Elements DEF Path
  <2>2. Len(upTo[n]) > 1 => SubSeq(upTo[n], 1, Len(upTo[n]) - 1) \in Path
    BY <1>12, <2>1, PartType DEF Path
  <2>. QED  BY <2>1, <2>2 DEF Front
<1>. QED  BY <1>3, <1>12, <1>13

\* A path without the '/' in front.
LEMMA RelativeType ==
  ASSUME NEW path \in Path
  PROVE  Relative(path) \in Path
<1>. DEFINE names == {i \in DOMAIN path : path[i] # "/"}
<1>1. Len(path) \in Nat /\ DOMAIN path = 1..Len(path)
  BY Elements DEF Path
<1>2. CASE names = {}
  BY <1>2 DEF Relative, Path
<1>3. CASE names # {}
  <2>1. names \in SUBSET Nat /\ names \subseteq 1..Len(path)
    BY <1>1
  <2>2. Min(names) \in 1..Len(path)
    BY <1>3, <2>1, MinIn
  <2>3. Relative(path) = SubSeq(path, Min(names), Len(path))
    BY <1>3 DEF Relative
  <2>4. Min(names) \in Nat \ {0} /\ Len(path) \in Int
    BY <1>1, <2>2
  <2>. HIDE DEF names
  <2>5. SubSeq(path, Min(names), Len(path)) \in Path
    BY <1>1, <2>4, PartType DEF Path
  <2>. QED  BY <2>3, <2>5
<1>. QED  BY <1>2, <1>3


-----------------------------------------------------------------------------
\* The configuration.

\* The locations of a server.
LEMMA LocationsType ==
  ASSUME NEW sid \in DOMAIN Servers
  PROVE  /\ Servers[sid] \in ServerInfo /\ Len(Servers) \in Nat /\ sid \in 1..Len(Servers)
         /\ Locations(sid) \in Seq(LocatiInfo) /\ Len(Locations(sid)) \in Nat \ {0}
         /\ DOMAIN Locations(sid) = 1..Len(Locations(sid))
         /\ \A i \in DOMAIN Locations(sid) :
              /\ Locations(sid)[i] \in LocatiInfo
              /\ Locations(sid)[i].retour = <<>> => Locations(sid)[i].root # <<>>
<1>1. Servers \in Seq(ServerInfo)
  BY ServersAssumption
<1>2. Servers[sid] \in ServerInfo /\ Len(Servers) \in Nat /\ sid \in 1..Len(Servers)
  BY <1>1, Elements
<1>3. Locations(sid) \in Seq(LocatiInfo) /\ Locations(sid) # <<>>
  BY <1>2 DEF ServerInfo, Locations
<1>4. Len(Locations(sid)) \in Nat /\ Len(Locations(sid)) # 0
  BY <1>3, Elements, EmptySeq
<1>5. /\ DOMAIN Locations(sid) = 1..Len(Locations(sid))
      /\ \A i \in DOMAIN Locations(sid) : Locations(sid)[i] \in LocatiInfo
  BY <1>3, Elements
<1>6. \A i \in DOMAIN Locations(sid) :
        Locations(sid)[i].retour = <<>> => Locations(sid)[i].root # <<>>
  BY ServersAssumption DEF Locations
<1>. QED  BY <1>2, <1>3, <1>4, <1>5, <1>6

\* The words of a return: a status and a path.
LEMMA ReturnType ==
  ASSUME NEW l \in LocatiInfo, l.retour # <<>>
  PROVE  Head(l.retour) \in Nat /\ Last(l.retour) \in Path
<1>1. l.retour \in Nat \X Seq(STRING)
  BY DEF LocatiInfo
<1>2. PICK c \in Nat, p \in Seq(STRING) : l.retour = <<c, p>>
  BY <1>1
<1>. QED  BY <1>2 DEF Last, Path

\* Statuses are numbers.
LEMMA StatusesAreNaturals == Statuses \subseteq Nat
<1>1. ASSUME NEW c \in Codes
      PROVE  c \in Nat
  <2>1. PICK sid \in DOMAIN Servers :
          c \in {Head(l.retour) : l \in {k \in Range(Locations(sid)) : k.retour # <<>>}}
    BY <1>1 DEF Codes
  <2>2. PICK l \in Range(Locations(sid)) : l.retour # <<>> /\ c = Head(l.retour)
    BY <2>1
  <2>3. l \in LocatiInfo
    BY <2>2, LocationsType DEF Range
  <2>. QED  BY <2>2, <2>3, ReturnType
<1>. QED  BY <1>1 DEF Statuses

\* The code of a return is a status.
LEMMA CodeIsStatus ==
  ASSUME NEW sid \in DOMAIN Servers, NEW i \in DOMAIN Locations(sid),
         Locations(sid)[i].retour # <<>>
  PROVE  Head(Locations(sid)[i].retour) \in Statuses
<1>1. Locations(sid)[i] \in {k \in Range(Locations(sid)) : k.retour # <<>>}
  BY DEF Range
<1>. QED  BY <1>1 DEF Codes, Statuses

-----------------------------------------------------------------------------
\* The status line.

\* The page of errors is written, the others stay.
LEMMA MarkedType ==
  ASSUME NEW fs \in Files, NEW code \in Statuses
  PROVE  /\ Marked(fs, code) \in Files /\ SameFiles(fs, Marked(fs, code))
         /\ code >= 300 /\ ErrorPage \in DOMAIN fs => Marked(fs, code)[ErrorPage].shows = code
<1>0. code \in Nat
  BY StatusesAreNaturals
<1>1. DOMAIN fs \subseteq Path /\ \A p \in DOMAIN fs : fs[p] \in FileType
  BY DEF Files
<1>2. CASE ~(code >= 300 /\ ErrorPage \in DOMAIN fs)
  BY <1>2 DEF Marked, SameFiles
<1>3. CASE code >= 300 /\ ErrorPage \in DOMAIN fs
  <2>. DEFINE page == [fs[ErrorPage] EXCEPT !.shows = code]
              gs   == [fs EXCEPT ![ErrorPage] = page]
  <2>1. Marked(fs, code) = gs
    BY <1>3 DEF Marked
  <2>2. page \in FileType /\ page.id = fs[ErrorPage].id /\ page.size = fs[ErrorPage].size
        /\ page.shows = code
    BY <1>0, <1>1, <1>3 DEF FileType
  <2>. HIDE DEF page
  <2>3. DOMAIN gs = DOMAIN fs /\ gs[ErrorPage] = page
        /\ \A p \in DOMAIN fs : p # ErrorPage => gs[p] = fs[p]
    BY <1>1, <1>3 DEF Files
  <2>4. gs \in [DOMAIN fs -> FileType]
    BY <1>1, <2>2, <2>3
  <2>5. gs \in Files
    BY <1>1, <2>4 DEF Files
  <2>6. SameFiles(fs, gs)
    BY <2>2, <2>3 DEF SameFiles
  <2>. QED  BY <2>1, <2>2, <2>3, <2>5, <2>6
<1>. QED  BY <1>2, <1>3

\* A turn with another status line.
LEMMA StartLine ==
  ASSUME NEW t \in Turn, NEW code \in Statuses
  PROVE  Line(t, gen_startLine(t, code)) /\ gen_startLine(t, code).status = code
<1>. DEFINE fs == Marked(t.files, code)
<1>1. t.files \in Files
  BY DEF Turn
<1>2. /\ fs \in Files /\ SameFiles(t.files, fs)
      /\ code >= 300 /\ ErrorPage \in DOMAIN t.files => fs[ErrorPage].shows = code
  BY <1>1, MarkedType
<1>3. gen_startLine(t, code) = [t EXCEPT !.status = code, !.files = fs]
  BY DEF gen_startLine
<1>. HIDE DEF fs
<1>4. gen_startLine(t, code) \in Turn
  BY <1>2, <1>3 DEF Turn
<1>5. /\ gen_startLine(t, code).status = code /\ gen_startLine(t, code).files = fs
      /\ gen_startLine(t, code).sid = t.sid /\ gen_startLine(t, code).lid = t.lid
      /\ gen_startLine(t, code).path = t.path /\ gen_startLine(t, code).body = t.body
      /\ gen_startLine(t, code).rq = t.rq /\ gen_startLine(t, code).url = t.url
      /\ gen_startLine(t, code).response = t.response /\ gen_startLine(t, code).out = t.out
  BY <1>3 DEF Turn
<1>6. Shown(gen_startLine(t, code))
  BY <1>2, <1>5 DEF Shown, SameFiles
<1>. QED  BY <1>2, <1>4, <1>5, <1>6 DEF Line, Lined

\* Line is a preorder on the turns with a status line.
LEMMA LineTwice ==
  ASSUME NEW t, NEW u, NEW v, Line(t, u), Line(u, v)
  PROVE  Line(t, v)
BY DEF Line, SameFiles

LEMMA LineNone ==
  ASSUME NEW t \in Lined
  PROVE  Line(t, t)
BY DEF Line, SameFiles

\* Redirections only add status lines.
LEMMA LedType ==
  ASSUME NEW t \in Lined, NEW codes \in Seq(Statuses)
  PROVE  Line(t, Led(t, codes))
<1>. DEFINE n     == Len(codes)
            after == CHOOSE f : f = [i \in 0..n |->
                       IF i = 0 THEN t ELSE gen_startLine(f[i - 1], codes[i])]
            T     == {u \in Lined : Line(t, u)}
            step  == [i \in 1..n |-> [u \in T |-> gen_startLine(u, codes[i])]]
            P     == {i \in 0..n : after[i] \in T}
<1>1. n \in Nat /\ \A i \in 1..n : codes[i] \in Statuses
  BY Elements
<1>2. t \in T
  BY LineNone
<1>3. ASSUME NEW i \in 1..n, NEW u \in T
      PROVE  gen_startLine(u, codes[i]) \in T
  <2>1. Line(u, gen_startLine(u, codes[i]))
    BY <1>1, StartLine DEF Lined
  <2>. QED  BY <2>1, LineTwice DEF Line
<1>4. Led(t, codes) = after[n]
  BY DEF Led
<1>. HIDE DEF T, n
<1>5. step \in Steps(n, T)
  BY <1>3 DEF Steps
<1>. HIDE DEF step
<1>6. PICK g \in [0..n -> T] : Follows(g, t, step, n)
  BY <1>1, <1>2, <1>5, StepByStep
<1>7. \A i \in 1..n : g[i] = gen_startLine(g[i - 1], codes[i])
  <2>. TAKE i \in 1..n
  <2>1. i - 1 \in 0..n
    BY <1>1
  <2>2. g[i - 1] \in T /\ g[i] = step[i][g[i - 1]]
    BY <1>6, <2>1 DEF Follows
  <2>. QED  BY <2>2 DEF step
<1>8. g = [i \in 0..n |-> IF i = 0 THEN t ELSE gen_startLine(g[i - 1], codes[i])]
  <2>1. ASSUME NEW i \in 0..n
        PROVE  g[i] = IF i = 0 THEN t ELSE gen_startLine(g[i - 1], codes[i])
    <3>1. CASE i = 0
      BY <1>6, <3>1 DEF Follows
    <3>2. CASE i # 0
      <4>1. i \in 1..n
        BY <1>1, <3>2
      <4>. QED  BY <1>7, <3>2, <4>1
    <3>. QED  BY <3>1, <3>2
  <2>. QED  BY <2>1
<1>9. after = [i \in 0..n |-> IF i = 0 THEN t ELSE gen_startLine(after[i - 1], codes[i])]
  BY <1>8
<1>. HIDE DEF after
<1>10. 0 \in P
  BY <1>1, <1>2, <1>9
<1>11. ASSUME NEW i \in 1..n, i - 1 \in P
       PROVE  i \in P
  <2>1. i \in 0..n /\ i # 0 /\ after[i - 1] \in T
    BY <1>1, <1>11
  <2>. QED  BY <1>3, <1>9, <2>1
<1>12. n \in 0..n
  BY <1>1
<1>. HIDE DEF P
<1>13. n \in P
  BY <1>1, <1>10, <1>11, <1>12, UpTo
<1>. QED  BY <1>4, <1>13 DEF P, T

-----------------------------------------------------------------------------
\* The location.

\* What the loop of resolve_path keeps.
Best(sid) == [lid : DOMAIN Locations(sid), path : Path, len : Nat,
              codes : Seq(Statuses), thrown : BOOLEAN]

\* A root with a '/' at its end is a path.
LEMMA WithSlashType ==
  ASSUME NEW root \in Path
  PROVE  WithSlash(root) \in Path
<1>1. "/" \in STRING
  BY LiteralsAssumption
<1>2. Append(root, "/") \in Path
  BY <1>1, AppendProperties DEF Path
<1>. QED  BY <1>2 DEF WithSlash

\* The location that a turn of the loop looks at fits better, or nothing
\* changes; if it fits better it is taken, or the one its return names.
LEMMA ConsiderType ==
  ASSUME NEW sid \in DOMAIN Servers, NEW i \in DOMAIN Locations(sid), NEW url \in Path,
         NEW best \in Best(sid), NEW new, new = Consider(Locations(sid), url, i, best)
  PROVE  /\ new \in Best(sid)
         /\ ~Better(Locations(sid)[i], i, url, best) => new = best
         /\ Better(Locations(sid)[i], i, url, best) =>
              /\ new.len = Len(Locations(sid)[i].location)
              /\ Locations(sid)[i].retour = <<>> => new.lid = i
              /\ Locations(sid)[i].retour # <<>>
                   /\ (\E j \in DOMAIN Locations(sid) :
                         Locations(sid)[j].location = Last(Locations(sid)[i].retour))
                   => Locations(sid)[new.lid].location = Last(Locations(sid)[i].retour)
<1>. DEFINE locs    == Locations(sid)
            l       == locs[i]
            targets == {j \in DOMAIN locs : l.retour # <<>> /\ locs[j].location = Last(l.retour)}
            place   == CASE l.retour = <<>> -> [lid |-> i, path |-> WithSlash(l.root)]
                         [] targets # {}    -> [lid  |-> Min(targets),
                                                path |-> WithSlash(locs[Min(targets)].root)]
                         [] OTHER           -> [lid |-> best.lid, path |-> best.path]
            rest    == SubSeq(url, Len(l.location) + 1, Len(url))
            index   == IF Len(l.location) = Len(url) THEN locs[place.lid].index ELSE <<>>
            codes   == IF targets # {} THEN Append(best.codes, Head(l.retour)) ELSE best.codes
            better  == [lid     |-> place.lid,
                        path    |-> place.path \o rest \o index,
                        len     |-> Len(l.location),
                        codes   |-> codes,
                        thrown  |-> best.thrown \/ Len(l.location) > Len(url)]
<1>1. new = IF ~Better(l, i, url, best) THEN best ELSE better
  BY DEF Consider
<1>2. /\ locs \in Seq(LocatiInfo) /\ Len(locs) \in Nat /\ DOMAIN locs = 1..Len(locs)
      /\ \A j \in DOMAIN locs : locs[j] \in LocatiInfo
  BY LocationsType
<1>3. l \in LocatiInfo
  BY <1>2
<1>4. \A j \in DOMAIN locs : locs[j].root \in Path /\ locs[j].index \in Path
  BY <1>2 DEF LocatiInfo, Path
<1>5. Len(l.location) \in Nat /\ Len(url) \in Nat
  <2>1. l.location \in Seq(STRING)
    BY <1>3 DEF LocatiInfo
  <2>. QED  BY <2>1, Elements DEF Path
<1>6. targets # {} => l.retour # <<>> /\ Min(targets) \in targets
  <2>1. targets \in SUBSET Nat
    BY <1>2
  <2>2. targets # {} => l.retour # <<>>
    OBVIOUS
  <2>. HIDE DEF targets
  <2>. QED  BY <2>1, <2>2, MinIn
<1>7. targets # {} => Min(targets) \in DOMAIN locs /\ locs[Min(targets)].location = Last(l.retour)
  BY <1>6
<1>8. targets # {} => Head(l.retour) \in Statuses
  BY <1>6, CodeIsStatus
<1>9. best.lid \in DOMAIN locs /\ best.path \in Path /\ best.codes \in Seq(Statuses)
      /\ best.thrown \in BOOLEAN
  BY DEF Best
<1>10. targets = {} /\ l.retour # <<>> =>
         ~(\E j \in DOMAIN locs : locs[j].location = Last(l.retour))
  OBVIOUS
<1>. HIDE DEF targets
<1>11. place.lid \in DOMAIN locs /\ place.path \in Path
  <2>1. CASE l.retour = <<>>
    BY <1>4, <2>1, <1>6, WithSlashType
  <2>2. CASE l.retour # <<>> /\ targets # {}
    BY <1>4, <1>7, <2>2, WithSlashType
  <2>3. CASE l.retour # <<>> /\ targets = {}
    BY <1>9, <2>3
  <2>. QED  BY <2>1, <2>2, <2>3
<1>12. /\ l.retour = <<>> => place.lid = i
       /\ l.retour # <<>> /\ (\E j \in DOMAIN locs : locs[j].location = Last(l.retour))
            => locs[place.lid].location = Last(l.retour)
  <2>1. CASE l.retour = <<>>
    BY <1>6, <2>1
  <2>2. CASE l.retour # <<>> /\ targets # {}
    BY <1>7, <2>2
  <2>3. CASE l.retour # <<>> /\ targets = {}
    BY <1>10, <2>3
  <2>. QED  BY <2>1, <2>2, <2>3
<1>. HIDE DEF place
<1>13. rest \in Path /\ index \in Path
  <2>1. rest \in Path
    BY <1>5, PartType DEF Path
  <2>2. locs[place.lid].index \in Path
    BY <1>4, <1>11
  <2>3. <<>> \in Path
    BY DEF Path
  <2>. HIDE DEF rest
  <2>. QED  BY <2>1, <2>2, <2>3
<1>14. codes \in Seq(Statuses)
  BY <1>8, <1>9
<1>. HIDE DEF rest, index, codes
<1>15. place.path \o rest \o index \in Path
  BY <1>11, <1>13 DEF Path
<1>16. better \in Best(sid)
  BY <1>5, <1>9, <1>11, <1>14, <1>15 DEF Best
<1>17. better.len = Len(l.location) /\ better.lid = place.lid
  OBVIOUS
<1>. HIDE DEF better
<1>. QED  BY <1>1, <1>12, <1>16, <1>17

\* The turns of the loop, from the last location to the first.
Turned(sid, url, f) ==
  /\ f[0] = NoneYet
  /\ \A i \in 1..Len(Locations(sid)) :
       f[i] = Consider(Locations(sid), url, Len(Locations(sid)) - i + 1, f[i - 1])
  /\ Resolved(Locations(sid), url) = f[Len(Locations(sid))]

LEMMA ResolvedSteps ==
  ASSUME NEW sid \in DOMAIN Servers, NEW url \in Path
  PROVE  \E f \in [0..Len(Locations(sid)) -> Best(sid)] : Turned(sid, url, f)
<1>. DEFINE locs  == Locations(sid)
            n     == Len(locs)
            after == CHOOSE f : f = [i \in 0..n |->
                       IF i = 0 THEN NoneYet ELSE Consider(locs, url, n - i + 1, f[i - 1])]
            T     == Best(sid)
            step  == [i \in 1..n |-> [b \in T |-> Consider(locs, url, n - i + 1, b)]]
<1>1. n \in Nat \ {0} /\ DOMAIN locs = 1..n
  BY LocationsType
<1>2. NoneYet \in T
  <2>1. 1 \in DOMAIN locs /\ <<>> \in Path /\ <<>> \in Seq(Statuses)
    BY <1>1 DEF Path
  <2>. QED  BY <2>1 DEF Best, NoneYet
<1>3. ASSUME NEW i \in 1..n, NEW b \in T
      PROVE  Consider(locs, url, n - i + 1, b) \in T
  <2>1. n - i + 1 \in DOMAIN locs
    BY <1>1
  <2>. QED  BY <2>1, ConsiderType
<1>4. Resolved(locs, url) = after[n]
  BY DEF Resolved
<1>. HIDE DEF T, n
<1>5. step \in Steps(n, T)
  BY <1>3 DEF Steps
<1>. HIDE DEF step
<1>6. PICK g \in [0..n -> T] : Follows(g, NoneYet, step, n)
  BY <1>1, <1>2, <1>5, StepByStep
<1>7. \A i \in 1..n : g[i] = Consider(locs, url, n - i + 1, g[i - 1])
  <2>. TAKE i \in 1..n
  <2>1. i - 1 \in 0..n
    BY <1>1
  <2>2. g[i - 1] \in T /\ g[i] = step[i][g[i - 1]]
    BY <1>6, <2>1 DEF Follows
  <2>. QED  BY <2>2 DEF step
<1>8. g = [i \in 0..n |-> IF i = 0 THEN NoneYet ELSE Consider(locs, url, n - i + 1, g[i - 1])]
  <2>1. ASSUME NEW i \in 0..n
        PROVE  g[i] = IF i = 0 THEN NoneYet ELSE Consider(locs, url, n - i + 1, g[i - 1])
    <3>1. CASE i = 0
      BY <1>6, <3>1 DEF Follows
    <3>2. CASE i # 0
      <4>1. i \in 1..n
        BY <1>1, <3>2
      <4>. QED  BY <1>7, <3>2, <4>1
    <3>. QED  BY <3>1, <3>2
  <2>. QED  BY <2>1
<1>9. after = [i \in 0..n |-> IF i = 0 THEN NoneYet
                              ELSE Consider(locs, url, n - i + 1, after[i - 1])]
  BY <1>8
<1>. HIDE DEF after
<1>10. after \in [0..n -> T]
  <2>. DEFINE P == {i \in 0..n : after[i] \in T}
  <2>1. 0 \in P
    BY <1>1, <1>2, <1>9
  <2>2. ASSUME NEW i \in 1..n, i - 1 \in P
        PROVE  i \in P
    <3>1. i \in 0..n /\ i # 0 /\ after[i - 1] \in T
      BY <1>1, <2>2
    <3>. QED  BY <1>3, <1>9, <3>1
  <2>. HIDE DEF P
  <2>3. \A i \in 0..n : i \in P
    BY <1>1, <2>1, <2>2, UpTo
  <2>4. \A i \in 0..n : after[i] \in T
    BY <2>3 DEF P
  <2>. QED  BY <1>9, <2>4
<1>11. after[0] = NoneYet
  BY <1>1, <1>9
<1>12. \A i \in 1..n : after[i] = Consider(locs, url, n - i + 1, after[i - 1])
  <2>. TAKE i \in 1..n
  <2>1. i \in 0..n /\ i # 0
    BY <1>1
  <2>. QED  BY <1>9, <2>1
<1>13. Turned(sid, url, after)
  BY <1>4, <1>11, <1>12 DEF Turned, n
<1>. QED  BY <1>10, <1>13 DEF T, n

\* What the loop finds.
LEMMA ResolvedType ==
  ASSUME NEW sid \in DOMAIN Servers, NEW url \in Path
  PROVE  Resolved(Locations(sid), url) \in Best(sid)
<1>1. PICK f \in [0..Len(Locations(sid)) -> Best(sid)] : Turned(sid, url, f)
  BY ResolvedSteps
<1>2. Len(Locations(sid)) \in 0..Len(Locations(sid))
  BY LocationsType
<1>. QED  BY <1>1, <1>2 DEF Turned

-----------------------------------------------------------------------------
\* The reader.

\* What the object keeps.
Handler == [sid : 0..Len(Servers), lid : Nat, path : Path, body : Body, hrx : {<<>>}]

\* Max is one of them.
LEMMA MaxIn ==
  ASSUME NEW n \in Nat, NEW S \in SUBSET (1..n), S # {}
  PROVE  Max(S) \in S
<1>. DEFINE T == {n - x : x \in S}
<1>1. T \in SUBSET Nat /\ T # {}
  <2>1. \A x \in S : n - x \in Nat
    OBVIOUS
  <2>2. \A y \in T : y \in Nat
    BY <2>1
  <2>. QED  BY <2>2
<1>. HIDE DEF T
<1>2. PICK m \in T : \A y \in T : m <= y
  BY <1>1, LeastNatural
<1>3. PICK x \in S : m = n - x
  BY <1>2 DEF T
<1>4. \A y \in S : x >= y
  <2>. TAKE y \in S
  <2>1. n - y \in T
    BY DEF T
  <2>. QED  BY <1>2, <1>3, <2>1
<1>. QED  BY <1>3, <1>4 DEF Max

\* The server is one there is, whatever it was, when one has the port.
LEMMA ServerChosen ==
  ASSUME NEW sid \in 0..Len(Servers), NEW host
  PROVE  /\ set_server_id(sid, host) \in 0..Len(Servers)
         /\ (\E i \in DOMAIN Servers : Servers[i].port = PortPart(host)) =>
              /\ set_server_id(sid, host) \in DOMAIN Servers
              /\ \A s : set_server_id(s, host) = set_server_id(sid, host)
<1>. DEFINE samePort == {i \in DOMAIN Servers : Servers[i].port = PortPart(host)}
            exact == {i \in samePort : HostPart(host) \in {Servers[i].host, Servers[i].server_name}}
<1>1. \A s : set_server_id(s, host) =
                CASE exact # {}                     -> Min(exact)
                  [] exact = {} /\ samePort # {}    -> Max(samePort)
                  [] OTHER                          -> s
  BY DEF set_server_id
<1>2. Len(Servers) \in Nat /\ DOMAIN Servers = 1..Len(Servers)
  BY ServersAssumption, Elements
<1>3. samePort \in SUBSET (1..Len(Servers)) /\ exact \in SUBSET samePort /\ exact \in SUBSET Nat
  BY <1>2
<1>4. (\E i \in DOMAIN Servers : Servers[i].port = PortPart(host)) => samePort # {}
  OBVIOUS
<1>. HIDE DEF samePort, exact
<1>5. CASE exact # {}
  <2>1. Min(exact) \in exact
    BY <1>3, <1>5, MinIn
  <2>2. Min(exact) \in 1..Len(Servers)
    BY <1>3, <2>1
  <2>. QED  BY <1>1, <1>2, <1>5, <2>2
<1>6. CASE exact = {} /\ samePort # {}
  <2>1. Max(samePort) \in 1..Len(Servers)
    BY <1>2, <1>3, <1>6, MaxIn
  <2>. QED  BY <1>1, <1>2, <1>6, <2>1
<1>7. CASE exact = {} /\ samePort = {}
  BY <1>1, <1>4, <1>7
<1>. QED  BY <1>5, <1>6, <1>7

\* An object with no words left over reads the request it is given.
LEMMA ReaderType ==
  ASSUME NEW h \in Handler, NEW r \in Requests, files \in Files, NEW t, t = reader(h, r)
  PROVE  /\ t \in Turn /\ t.rq = r /\ t.url = r.url /\ t.body = h.body /\ t.files = files
         /\ t.lid = h.lid /\ t.path = h.path /\ t.response = NoResponse
         /\ t.status = 0
         /\ t.out \in {"ok", "undefined"}
         /\ t.out = "ok" => t.sid = set_server_id(h.sid, r.host)
         /\ t.out = "ok" <=> r.host # <<>>
<1>. DEFINE first == [sid |-> h.sid, lid |-> h.lid, path |-> h.path, body |-> h.body,
                      rq |-> r, url |-> r.url, status |-> 0, files |-> files,
                      response |-> NoResponse, out |-> "ok"]
<1>1. h.hrx = <<>> /\ h.sid \in 0..Len(Servers) /\ h.lid \in Nat /\ h.path \in Path /\ h.body \in Body
  BY DEF Handler
<1>2. Head(Append(h.hrx, r)) = r
  BY <1>1
<1>3. t = IF r.host = <<>> THEN [first EXCEPT !.out = "undefined"]
          ELSE [first EXCEPT !.sid = set_server_id(h.sid, r.host)]
  BY <1>2 DEF reader
<1>4. r.url \in Path
  BY RequestsAssumption DEF Path
<1>5. NoResponse \in Response
  BY DEF Response, NoResponse, Body
<1>6. first \in Turn
  BY <1>1, <1>4, <1>5 DEF Turn
<1>7. set_server_id(h.sid, r.host) \in 0..Len(Servers)
  BY <1>1, ServerChosen
<1>8. CASE r.host = <<>>
  BY <1>3, <1>6, <1>8 DEF Turn
<1>9. CASE r.host # <<>>
  BY <1>3, <1>6, <1>7, <1>9 DEF Turn
<1>. QED  BY <1>8, <1>9

-----------------------------------------------------------------------------
\* resolve_path.

\* Some parts of a turn replaced.
LEMMA TurnWith ==
  ASSUME NEW t \in Lined
  PROVE  /\ \A p \in Path : [t EXCEPT !.path = p] \in Lined
         /\ \A b \in Body : [t EXCEPT !.body = b] \in Lined
         /\ \A o \in {"undefined", "exception"} : [t EXCEPT !.out = o] \in Lined
         /\ \A u, p \in Path : [t EXCEPT !.url = u, !.path = p] \in Lined
         /\ \A u, p \in Path : \A l \in Nat : [t EXCEPT !.url = u, !.lid = l, !.path = p] \in Lined
<1>1. \A p \in Path : [t EXCEPT !.path = p] \in Lined
  BY DEF Lined, Turn, Shown
<1>2. \A b \in Body : [t EXCEPT !.body = b] \in Lined
  BY DEF Lined, Turn, Shown
<1>3. \A o \in {"undefined", "exception"} : [t EXCEPT !.out = o] \in Lined
  BY DEF Lined, Turn, Shown
<1>4. \A u, p \in Path : [t EXCEPT !.url = u, !.path = p] \in Lined
  BY DEF Lined, Turn, Shown
<1>5. \A u, p \in Path : \A l \in Nat : [t EXCEPT !.url = u, !.lid = l, !.path = p] \in Lined
  BY DEF Lined, Turn, Shown
<1>. QED  BY <1>1, <1>2, <1>3, <1>4, <1>5

\* The same request on the same server, with nothing answered so far.
Same(t, u) == u \in Lined /\ u.sid = t.sid /\ u.rq = t.rq /\ u.response = t.response

\* A path as the program opens it.
LEMMA Opened ==
  ASSUME NEW p \in Path
  PROVE  clean_url(Relative(p)) \in Path /\ <<"files">> \o p \in Path
<1>1. "files" \in STRING
  BY LiteralsAssumption
<1>2. <<"files">> \in Path
  BY <1>1 DEF Path
<1>. QED  BY <1>2, CleanUrlType, RelativeType, ConcatProperties DEF Path

\* Where the request leads, and whether its method is allowed there.
LEMMA ResolvePathType ==
  ASSUME NEW t \in Lined, t.sid \in DOMAIN Servers, t.out = "ok",
         NEW r, r = resolve_path(t),
         NEW url, url = clean_url(t.url)
  PROVE  /\ Same(t, r.turn) /\ SameFiles(t.files, r.turn.files)
         /\ r.turn.body = t.body /\ r.done \in BOOLEAN
         /\ r.turn.out \in {"ok", "exception"}
         /\ ~IsPrefix(ErrorPages, url) /\ r.turn.out = "ok" =>
              r.turn.lid = Resolved(Locations(t.sid), url).lid
         /\ ~r.done =>
              /\ ~IsPrefix(ErrorPages, url) /\ r.turn.out = "ok" /\ r.turn.url = url
              /\ Allowed(Locations(t.sid)[r.turn.lid], t.rq.method)
<1>. DEFINE best == Resolved(Locations(t.sid), url)
            path == clean_url(Relative(best.path))
            met  == [t EXCEPT !.url = url, !.lid = best.lid, !.path = path]
            led  == Led(met, best.codes)
            page == [t EXCEPT !.url = url, !.path = <<"files">> \o url]
            not  == gen_startLine(led, 405)
            ends == [t EXCEPT !.out = "exception"]
<1>1. t.url \in Path /\ t.files \in Files /\ t \in Turn
  BY DEF Lined, Turn
<1>2. url \in Path
  BY <1>1, CleanUrlType
<1>3. best \in Best(t.sid)
  BY <1>2, ResolvedType
<1>4. best.lid \in Nat /\ best.path \in Path /\ best.codes \in Seq(Statuses)
  BY <1>3, LocationsType DEF Best
<1>5. path \in Path /\ <<"files">> \o url \in Path
  BY <1>2, <1>4, Opened
<1>6. r = CASE IsPrefix(ErrorPages, url) -> [turn |-> page, done |-> TRUE]
            [] ~IsPrefix(ErrorPages, url) /\ best.thrown ->
                 [turn |-> ends, done |-> TRUE]
            [] OTHER -> IF Allowed(Locations(t.sid)[best.lid], t.rq.method)
                        THEN [turn |-> led, done |-> FALSE]
                        ELSE [turn |-> not, done |-> TRUE]
  BY DEF resolve_path
<1>7. /\ page \in Lined /\ page.sid = t.sid /\ page.rq = t.rq /\ page.response = t.response
      /\ page.files = t.files /\ page.body = t.body /\ page.out = t.out
  <2>1. page \in Lined
    BY <1>2, <1>5, TurnWith
  <2>. QED  BY <2>1 DEF Lined, Turn
<1>8. /\ met \in Lined /\ met.sid = t.sid /\ met.rq = t.rq /\ met.response = t.response
      /\ met.files = t.files /\ met.body = t.body /\ met.out = t.out /\ met.lid = best.lid
      /\ met.url = url
  <2>1. met \in Lined
    <3>. HIDE DEF best, path
    <3>. QED  BY <1>2, <1>4, <1>5, TurnWith
  <2>. QED  BY <2>1 DEF Lined, Turn
<1>9. /\ ends \in Lined /\ ends.sid = t.sid /\ ends.rq = t.rq /\ ends.response = t.response
      /\ ends.files = t.files /\ ends.body = t.body /\ ends.out = "exception"
  <2>1. ends \in Lined
    BY TurnWith
  <2>. QED  BY <2>1 DEF Lined, Turn
<1>10. SameFiles(t.files, t.files)
  BY DEF SameFiles
<1>. HIDE DEF page, met, path, best, ends
<1>11. Line(met, led)
  BY <1>4, <1>8, LedType
<1>12. Line(led, not)
  <2>1. 405 \in Statuses /\ led \in Turn
    BY <1>11 DEF Statuses, Line, Lined
  <2>. QED  BY <2>1, StartLine
<1>13. Line(met, not)
  BY <1>11, <1>12, LineTwice
<1>. HIDE DEF led, not
<1>14. ~IsPrefix(ErrorPages, url) /\ ~best.thrown =>
         r = IF Allowed(Locations(t.sid)[best.lid], t.rq.method)
             THEN [turn |-> led, done |-> FALSE]
             ELSE [turn |-> not, done |-> TRUE]
  BY <1>6, Zenon
<1>15. CASE IsPrefix(ErrorPages, url)
  <2>1. r = [turn |-> page, done |-> TRUE]
    BY <1>6, <1>15, Zenon
  <2>. QED  BY <1>7, <1>10, <1>15, <2>1 DEF Same
<1>16. CASE ~IsPrefix(ErrorPages, url) /\ best.thrown
  <2>1. r = [turn |-> ends, done |-> TRUE]
    BY <1>6, <1>16, Zenon
  <2>. QED  BY <1>9, <1>10, <1>16, <2>1 DEF Same
<1>17. CASE ~IsPrefix(ErrorPages, url) /\ ~best.thrown
               /\ Allowed(Locations(t.sid)[best.lid], t.rq.method)
  <2>1. r = [turn |-> led, done |-> FALSE]
    BY <1>17, <1>14
  <2>. QED  BY <1>8, <1>11, <1>17, <2>1 DEF Same, Line, SameFiles, best
<1>18. CASE ~IsPrefix(ErrorPages, url) /\ ~best.thrown
               /\ ~Allowed(Locations(t.sid)[best.lid], t.rq.method)
  <2>1. r = [turn |-> not, done |-> TRUE]
    BY <1>18, <1>14
  <2>. QED  BY <1>8, <1>13, <1>18, <2>1 DEF Same, Line, SameFiles, best
<1>. QED  BY <1>15, <1>16, <1>17, <1>18

-----------------------------------------------------------------------------
\* The methods.

\* The files that stay as an object's invariant needs them.
Kind(fs) == fs \in Files /\ OneErrorPage(fs) /\ DOMAIN fs \subseteq DOMAIN InitialFiles \cup Writable

LEMMA SameFilesKind ==
  ASSUME NEW fs, NEW gs \in Files, Kind(fs), SameFiles(fs, gs)
  PROVE  Kind(gs)
BY DEF Kind, SameFiles, OneErrorPage

\* An upload adds a file, or takes the place of one.
LEMMA UploadedType ==
  ASSUME NEW t \in Turn, t.url \in Writable
  PROVE  /\ Uploaded(t) \in Files /\ DOMAIN t.files \subseteq DOMAIN Uploaded(t)
         /\ Kind(t.files) => Kind(Uploaded(t))
<1>. DEFINE file == [id |-> "upload", of |-> t.url, size |-> t.rq.size, shows |-> 0]
            D    == DOMAIN t.files
<1>1. t.url \in Path /\ t.files \in Files /\ t.rq \in Requests
  BY DEF Turn
<1>2. D \subseteq Path /\ \A p \in D : t.files[p] \in FileType
  BY <1>1 DEF Files
<1>3. file \in FileType /\ file.id = "upload"
  <2>1. t.rq.size \in Nat /\ "upload" \in STRING
    BY <1>1, RequestsAssumption, LiteralsAssumption
  <2>. QED  BY <1>1, <2>1 DEF FileType, Path
<1>. HIDE DEF file
<1>4. Uploaded(t) = [p \in D \cup {t.url} |-> IF p = t.url THEN file ELSE t.files[p]]
  BY DEF Uploaded, file
<1>5. DOMAIN Uploaded(t) = D \cup {t.url}
  BY <1>4
<1>6. \A p \in D \cup {t.url} : Uploaded(t)[p] = IF p = t.url THEN file ELSE t.files[p]
  BY <1>4
<1>. HIDE DEF D
<1>7. D \cup {t.url} \in SUBSET Path
  BY <1>1, <1>2
<1>8. Uploaded(t) \in [D \cup {t.url} -> FileType]
  BY <1>2, <1>3, <1>4
<1>9. Uploaded(t) \in Files
  BY <1>7, <1>8 DEF Files
<1>10. Kind(t.files) => Kind(Uploaded(t))
  <2>1. SUFFICES ASSUME Kind(t.files) PROVE Kind(Uploaded(t))
    OBVIOUS
  <2>2. ASSUME NEW p \in D \cup {t.url}, Uploaded(t)[p].id = "error_4xx"
        PROVE  p = ErrorPage
    <3>1. p # t.url
      BY <1>3, <1>6, <2>2
    <3>2. p \in D /\ Uploaded(t)[p] = t.files[p]
      BY <1>6, <2>2, <3>1
    <3>. QED  BY <2>1, <2>2, <3>2 DEF Kind, OneErrorPage, D
  <2>3. D \cup {t.url} \subseteq DOMAIN InitialFiles \cup Writable
    BY <2>1 DEF Kind, D
  <2>. QED  BY <1>5, <1>9, <2>2, <2>3 DEF Kind, OneErrorPage
<1>. QED  BY <1>5, <1>9, <1>10 DEF D

\* The files without some of them.
LEMMA RemovedType ==
  ASSUME NEW fs \in Files, NEW D \in SUBSET DOMAIN fs
  PROVE  /\ Restrict(fs, D) \in Files /\ DOMAIN Restrict(fs, D) = D
         /\ Kind(fs) => Kind(Restrict(fs, D))
         /\ \A p \in D : Restrict(fs, D)[p] = fs[p]
<1>1. DOMAIN fs \subseteq Path /\ \A p \in DOMAIN fs : fs[p] \in FileType
  BY DEF Files
<1>2. Restrict(fs, D) = [p \in D |-> fs[p]]
  BY DEF Restrict
<1>3. DOMAIN Restrict(fs, D) = D /\ \A p \in D : Restrict(fs, D)[p] = fs[p]
  BY <1>2
<1>4. Restrict(fs, D) \in [D -> FileType] /\ D \in SUBSET Path
  BY <1>1, <1>2
<1>5. Restrict(fs, D) \in Files
  BY <1>4 DEF Files
<1>6. Kind(fs) => Kind(Restrict(fs, D))
  BY <1>3, <1>5 DEF Kind, OneErrorPage
<1>. QED  BY <1>3, <1>5, <1>6

\* POST and DELETE: a file may appear or disappear, the request stays.
LEMMA MethodType ==
  ASSUME NEW t \in Lined, t.out = "ok", NEW u, u = Method(t)
  PROVE  /\ Same(t, u) /\ u.body = t.body /\ u.lid = t.lid
         /\ u.out \in {"ok", "undefined"}
         /\ Kind(t.files) => Kind(u.files)
         /\ DOMAIN u.files # DOMAIN t.files => t.rq.method \in {"POST", "DELETE"}
         /\ \A p \in DOMAIN t.files :
              p \notin DOMAIN u.files => t.rq.method = "DELETE" /\ p = Relative(t.url)
<1>1. t \in Turn /\ t.files \in Files
  BY DEF Lined, Turn
<1>2. {200, 404, 413} \subseteq Statuses
  BY DEF Statuses
<1>3. ASSUME NEW code \in Statuses, NEW v, v = gen_startLine(t, code)
      PROVE  /\ Same(t, v) /\ v.body = t.body /\ v.lid = t.lid /\ v.out = "ok"
             /\ SameFiles(t.files, v.files) /\ v.files \in Files
  BY <1>1, <1>3, StartLine DEF Line, Same, Lined, Turn
<1>4. CASE t.rq.method = "POST"
  <2>1. u = handle_post_rqst(t)
    BY <1>4 DEF Method
  <2>2. CASE t.rq.type # "multipart"
    <3>1. u = [t EXCEPT !.out = "undefined"]
      BY <2>1, <2>2 DEF handle_post_rqst
    <3>2. u \in Lined
      BY <3>1, TurnWith
    <3>. QED  BY <1>1, <3>1, <3>2 DEF Same, Lined, Turn
  <2>3. CASE t.rq.type = "multipart" /\ Exceeds(t.rq.size, Servers[t.sid].max)
    <3>1. u = gen_startLine(t, 413)
      BY <2>1, <2>3 DEF handle_post_rqst
    <3>. QED  BY <1>2, <1>3, <3>1, SameFilesKind DEF SameFiles
  <2>4. CASE t.rq.type = "multipart" /\ ~Exceeds(t.rq.size, Servers[t.sid].max)
    <3>1. u = gen_startLine(IF t.url \in Writable THEN [t EXCEPT !.files = Uploaded(t)] ELSE t, 200)
      BY <2>1, <2>4 DEF handle_post_rqst, Uploaded
    <3>2. CASE t.url \in Writable
      <4>. DEFINE v == [t EXCEPT !.files = Uploaded(t)]
      <4>1. u = gen_startLine(v, 200)
        BY <3>1, <3>2
      <4>2. /\ Uploaded(t) \in Files /\ DOMAIN t.files \subseteq DOMAIN Uploaded(t)
            /\ Kind(t.files) => Kind(Uploaded(t))
        BY <1>1, <3>2, UploadedType
      <4>3. /\ v \in Turn /\ v.sid = t.sid /\ v.rq = t.rq /\ v.response = t.response
            /\ v.body = t.body /\ v.lid = t.lid /\ v.out = "ok" /\ v.files = Uploaded(t)
        BY <1>1, <4>2 DEF Turn
      <4>. HIDE DEF v
      <4>4. Line(v, u)
        BY <1>2, <4>1, <4>3, StartLine
      <4>5. u.files \in Files
        BY <4>4 DEF Line, Lined, Turn
      <4>6. Kind(t.files) => Kind(u.files)
        BY <4>2, <4>3, <4>4, <4>5, SameFilesKind DEF Line
      <4>. QED  BY <1>4, <4>2, <4>3, <4>4, <4>6 DEF Line, Same, SameFiles
    <3>3. CASE t.url \notin Writable
      <4>1. u = gen_startLine(t, 200)
        BY <3>1, <3>3
      <4>. QED  BY <1>2, <1>3, <4>1, SameFilesKind DEF SameFiles
    <3>. QED  BY <3>2, <3>3
  <2>. QED  BY <2>2, <2>3, <2>4
<1>5. CASE t.rq.method = "DELETE"
  <2>. DEFINE name == Relative(t.url)
              left == DOMAIN t.files \ {name}
              gs   == Restrict(t.files, left)
  <2>1. u = IF name \in DOMAIN t.files THEN [t EXCEPT !.files = gs] ELSE gen_startLine(t, 404)
    BY <1>5 DEF Method, handle_delete_rqst
  <2>2. CASE name \in DOMAIN t.files
    <3>1. left \in SUBSET DOMAIN t.files /\ \A p \in DOMAIN t.files : p \in left <=> p # name
      OBVIOUS
    <3>. HIDE DEF left, name
    <3>2. /\ gs \in Files /\ DOMAIN gs = left
          /\ \A p \in left : gs[p] = t.files[p]
          /\ Kind(t.files) => Kind(gs)
      BY <1>1, <3>1, RemovedType
    <3>. HIDE DEF gs
    <3>3. /\ u \in Turn /\ u.sid = t.sid /\ u.rq = t.rq /\ u.response = t.response /\ u.lid = t.lid
          /\ u.body = t.body /\ u.out = "ok" /\ u.files = gs /\ u.status = t.status
      BY <1>1, <2>1, <2>2, <3>2 DEF Turn
    <3>4. Shown(u) /\ u.status \in Statuses
      BY <3>1, <3>2, <3>3 DEF Shown, Lined
    <3>. QED  BY <1>5, <3>1, <3>2, <3>3, <3>4 DEF Same, Lined, name
  <2>3. CASE name \notin DOMAIN t.files
    <3>1. u = gen_startLine(t, 404)
      BY <2>1, <2>3
    <3>. QED  BY <1>2, <1>3, <3>1, SameFilesKind DEF SameFiles
  <2>. QED  BY <2>2, <2>3
<1>6. CASE t.rq.method # "POST" /\ t.rq.method # "DELETE"
  <2>1. u = t
    BY <1>6 DEF Method
  <2>. QED  BY <2>1 DEF Same
<1>. QED  BY <1>4, <1>5, <1>6

-----------------------------------------------------------------------------
\* The response.

\* A file is something.
LEMMA FileIsSomething ==
  ASSUME NEW f \in FileType
  PROVE  f # Nothing
<1>1. "id" \in DOMAIN f
  BY DEF FileType
<1>2. DOMAIN Nothing = {}
  BY DEF Nothing
<1>. QED  BY <1>1, <1>2

\* A listing is a file that is no page of errors.
LEMMA ListingType ==
  ASSUME NEW path \in Path
  PROVE  Listing(path) \in FileType /\ Listing(path).id = "listing" /\ Listing(path) # Nothing
<1>1. "listing" \in STRING
  BY LiteralsAssumption
<1>2. Listing(path) \in FileType /\ Listing(path).id = "listing"
  BY <1>1 DEF Listing, FileType, Path
<1>. QED  BY <1>2, FileIsSomething

\* The pages that the program names are paths.
LEMMA PageTypes ==
  /\ FolderPage \in Path /\ ErrorPage \in Path
  /\ \A sid \in DOMAIN Servers : ErrorPath(sid) \in Path
<1>1. {"/", "files", "error_pages", "error_4xx.html", "if_folder.html"} \subseteq STRING
  BY LiteralsAssumption
<1>2. FolderPage \in Path
  BY <1>1 DEF FolderPage, Path
<1>3. ErrorPage \in Path
  BY <1>1 DEF ErrorPage, Path
<1>4. ASSUME NEW sid \in DOMAIN Servers
      PROVE  ErrorPath(sid) \in Path
  <2>1. Servers[sid].error_page \in Path
    BY LocationsType DEF ServerInfo, Path
  <2>2. Append(Servers[sid].error_page, "error_4xx.html") \in Path
    BY <1>1, <2>1, AppendProperties DEF Path
  <2>. QED  BY <1>3, <2>2 DEF ErrorPath
<1>. QED  BY <1>2, <1>3, <1>4

\* file_type: what is sent is listed, there, or a page that stands for it.
LEMMA FileTypeType ==
  ASSUME NEW t \in Lined, t.sid \in DOMAIN Servers, t.out = "ok",
         NEW env, NEW v, v = file_type(t, env)
  PROVE  /\ Same(t, v) /\ SameFiles(t.files, v.files) /\ v.lid = t.lid
         /\ v.out \in {"ok", "exception"}
         /\ v.body = t.body \/ v.body.id = "listing"
         /\ v.out = "ok" /\ v.body = Nothing =>
              \/ v.path \in DOMAIN v.files
              \/ v.path = FolderPage
              \/ v.status >= 400 /\ v.path = ErrorPath(v.sid)
<1>. DEFINE found == CASE t.path \in Directories -> [t EXCEPT !.path = FolderPage]
                       [] t.path \in DOMAIN t.files \ Directories -> t
                       [] OTHER -> IF t.status < 400 THEN gen_startLine(t, 404) ELSE t
            listed == [t EXCEPT !.body = Listing(t.path)]
            ends   == [t EXCEPT !.out = "exception"]
            folder == [t EXCEPT !.path = FolderPage]
            not    == gen_startLine(t, 404)
<1>0. t \in Turn /\ t.files \in Files /\ t.path \in Path
  BY DEF Lined, Turn
<1>1. /\ listed \in Lined /\ listed.sid = t.sid /\ listed.lid = t.lid /\ listed.rq = t.rq
      /\ listed.response = t.response /\ listed.files = t.files /\ listed.out = t.out
      /\ listed.body = Listing(t.path)
  <2>1. Listing(t.path) \in Body
    BY <1>0, ListingType DEF Body
  <2>2. listed \in Lined
    BY <2>1, TurnWith
  <2>. QED  BY <2>2 DEF Lined, Turn
<1>2. /\ ends \in Lined /\ ends.sid = t.sid /\ ends.lid = t.lid /\ ends.rq = t.rq
      /\ ends.response = t.response /\ ends.files = t.files /\ ends.out = "exception"
      /\ ends.body = t.body
  <2>1. ends \in Lined
    BY TurnWith
  <2>. QED  BY <2>1 DEF Lined, Turn
<1>3. /\ folder \in Lined /\ folder.sid = t.sid /\ folder.lid = t.lid /\ folder.rq = t.rq
      /\ folder.response = t.response /\ folder.files = t.files /\ folder.out = t.out
      /\ folder.body = t.body /\ folder.path = FolderPage
  <2>1. folder \in Lined
    BY PageTypes, TurnWith
  <2>. QED  BY <2>1 DEF Lined, Turn
<1>4. Line(t, not) /\ not.status = 404
  <2>1. 404 \in Statuses
    BY DEF Statuses
  <2>. QED  BY <1>0, <2>1, StartLine
<1>5. SameFiles(t.files, t.files)
  BY DEF SameFiles
<1>6. t.status \in Nat
  BY StatusesAreNaturals DEF Lined
<1>. HIDE DEF listed, ends, folder, not
<1>7. CASE t.path \in Directories /\ Locations(t.sid)[t.lid].autoindex
  <2>1. v = IF env.forks THEN listed ELSE ends
    BY <1>7 DEF file_type, generate_folder_list, listed, ends
  <2>2. CASE env.forks
    BY <1>0, <1>1, <1>5, <2>1, <2>2, ListingType DEF Same
  <2>3. CASE ~env.forks
    BY <1>2, <1>5, <2>1, <2>3 DEF Same
  <2>. QED  BY <2>2, <2>3
<1>8. CASE ~(t.path \in Directories /\ Locations(t.sid)[t.lid].autoindex)
  <2>1. v = IF found.status >= 400 THEN [found EXCEPT !.path = ErrorPath(t.sid)] ELSE found
    BY <1>8 DEF file_type
  <2>2. /\ found \in Lined /\ found.sid = t.sid /\ found.lid = t.lid /\ found.rq = t.rq
        /\ found.response = t.response /\ SameFiles(t.files, found.files) /\ found.out = t.out
        /\ found.body = t.body
        /\ found.path = FolderPage \/ found.path \in DOMAIN found.files \/ found.status >= 400
    <3>1. CASE t.path \in Directories
      <4>1. found = folder
        BY <3>1, Zenon DEF folder
      <4>. QED  BY <1>3, <1>5, <4>1
    <3>2. CASE t.path \notin Directories /\ t.path \in DOMAIN t.files
      <4>1. found = t
        BY <3>2, Zenon
      <4>. QED  BY <1>5, <3>2, <4>1
    <3>3. CASE t.path \notin Directories /\ t.path \notin DOMAIN t.files /\ t.status < 400
      <4>1. found = IF t.status < 400 THEN not ELSE t
        BY <3>3, Zenon DEF not
      <4>2. found = not
        BY <3>3, <4>1
      <4>. HIDE DEF found
      <4>. QED  BY <1>4, <4>2 DEF Line
    <3>4. CASE t.path \notin Directories /\ t.path \notin DOMAIN t.files /\ ~(t.status < 400)
      <4>1. found = IF t.status < 400 THEN not ELSE t
        BY <3>4, Zenon DEF not
      <4>2. t.status >= 400
        BY <1>6, <3>4
      <4>. HIDE DEF found
      <4>. QED  BY <1>5, <3>4, <4>1, <4>2
    <3>. QED  BY <3>1, <3>2, <3>3, <3>4
  <2>. HIDE DEF found
  <2>3. CASE found.status >= 400
    <3>1. v = [found EXCEPT !.path = ErrorPath(t.sid)]
      BY <2>1, <2>3
    <3>2. v \in Lined
      BY <2>2, <3>1, PageTypes, TurnWith
    <3>3. /\ v.sid = found.sid /\ v.lid = found.lid /\ v.rq = found.rq /\ v.status = found.status
          /\ v.response = found.response /\ v.files = found.files /\ v.out = found.out
          /\ v.body = found.body /\ v.path = ErrorPath(t.sid)
      BY <2>2, <3>1 DEF Lined, Turn
    <3>. QED  BY <2>2, <2>3, <3>2, <3>3 DEF Same
  <2>4. CASE ~(found.status >= 400)
    <3>1. v = found
      BY <2>1, <2>4
    <3>. QED  BY <2>2, <2>4, <3>1 DEF Same
  <2>. QED  BY <2>3, <2>4
<1>. QED  BY <1>7, <1>8

\* Where the body of a response comes from.
Found(t) == \/ t.body # Nothing
            \/ t.path \in DOMAIN t.files
            \/ t.path = FolderPage
            \/ t.status >= 400 /\ t.path = ErrorPath(t.sid)

\* Nothing is kept as a body but a listing.
OnlyListing(b) == b # Nothing => b.id = "listing"

\* The right page of errors, and as much as was announced.
ShowsStatus(response) ==
  response.status >= 400 /\ response.body # Nothing /\ response.body.id = "error_4xx"
    => response.body.shows = response.status

Whole(w, method) ==
  /\ method \in {"GET", "POST"} /\ w.response.status # 413
  /\ w.response.status >= 400 => ErrorPath(w.sid) \in DOMAIN w.files
  /\ FolderPage \in DOMAIN w.files
  => /\ w.response.body # Nothing
     /\ w.response.length = w.response.body.size

\* gen_CLength: at most another status line.
LEMMA CLengthType ==
  ASSUME NEW t \in Lined, NEW u, u = gen_CLength(t)
  PROVE  Line(t, u) /\ (Found(t) => Found(u) \/ u.status = 413)
<1>1. 413 \in Statuses /\ t \in Turn
  BY DEF Statuses, Lined
<1>2. CASE Exceeds(Announced(t), Locations(t.sid)[t.lid].max)
  <2>1. u = gen_startLine(t, 413)
    BY <1>2 DEF gen_CLength
  <2>. QED  BY <1>1, <2>1, StartLine
<1>3. CASE ~Exceeds(Announced(t), Locations(t.sid)[t.lid].max)
  <2>1. u = t
    BY <1>3 DEF gen_CLength
  <2>. QED  BY <2>1, LineNone
<1>. QED  BY <1>2, <1>3

\* add_body: what is sent, and what is left.
LEMMA AddBodyType ==
  ASSUME NEW t \in Lined, OnlyListing(t.body), NEW method, NEW w, w = add_body(t, method)
  PROVE  /\ w \in Turn /\ w.sid = t.sid /\ w.lid = t.lid /\ w.rq = t.rq /\ w.out = t.out
         /\ w.files = t.files /\ w.response.status = t.status
         /\ w.body # Nothing => w.response.status = 413
         /\ OnlyListing(w.body)
         /\ OneErrorPage(t.files) => ShowsStatus(w.response)
         /\ Found(t) => Whole(w, method)
<1>. DEFINE file == IF method \in {"GET", "POST"} /\ t.path \in DOMAIN t.files
                    THEN t.files[t.path] ELSE Nothing
            body == CASE t.status = 413 -> Nothing
                      [] t.status # 413 /\ t.body # Nothing -> t.body
                      [] OTHER -> file
            response == [status |-> t.status, length |-> Announced(t), body |-> body]
            left == BodyLeft(t)
<1>1. t \in Turn /\ t.files \in Files /\ t.body \in Body /\ t.status \in Statuses /\ t.status \in Nat
  BY StatusesAreNaturals DEF Lined, Turn
<1>2. \A p \in DOMAIN t.files : t.files[p] \in FileType
  BY <1>1 DEF Files
<1>3. file \in Body
  BY <1>2 DEF Body
<1>4. body = IF t.status = 413 THEN Nothing ELSE IF t.body # Nothing THEN t.body ELSE file
  <2>. HIDE DEF file
  <2>. QED  BY Zenon
<1>5. body \in Body
  <2>. HIDE DEF file, body
  <2>. QED  BY <1>1, <1>3, <1>4 DEF Body
<1>6. /\ t.body # Nothing => Announced(t) = t.body.size
      /\ t.body = Nothing /\ t.path \in DOMAIN t.files => Announced(t) = t.files[t.path].size
      /\ t.body = Nothing /\ t.path \notin DOMAIN t.files => Announced(t) = -1
  BY Zenon DEF Announced, Unknown
<1>7. Announced(t) \in Int
  <2>1. \A f \in FileType : f.size \in Int
    BY DEF FileType
  <2>2. t.body # Nothing => t.body \in FileType
    BY <1>1 DEF Body
  <2>. QED  BY <1>2, <1>6, <2>1, <2>2
<1>8. w = [t EXCEPT !.response = response, !.body = left]
  BY DEF add_body
<1>9. left = IF t.status = 413 THEN t.body ELSE Nothing
  BY DEF BodyLeft
<1>10. left \in Body
  BY <1>1, <1>9 DEF Body
<1>11. response \in Response
  <2>. HIDE DEF body
  <2>. QED  BY <1>1, <1>5, <1>7 DEF Response
<1>12. response.status = t.status /\ response.length = Announced(t) /\ response.body = body
  OBVIOUS
<1>. HIDE DEF response, left
<1>13. w \in Turn
  BY <1>1, <1>8, <1>10, <1>11 DEF Turn
<1>14. /\ w.sid = t.sid /\ w.lid = t.lid /\ w.rq = t.rq /\ w.out = t.out
       /\ w.files = t.files /\ w.response = response /\ w.body = left
  BY <1>1, <1>8 DEF Turn
<1>15. (w.body # Nothing => w.response.status = 413) /\ OnlyListing(w.body)
  BY <1>9, <1>12, <1>14 DEF OnlyListing
<1>. HIDE DEF body
<1>16. ASSUME OneErrorPage(t.files)
       PROVE  ShowsStatus(w.response)
  <2>1. SUFFICES ASSUME t.status >= 400, body # Nothing, body.id = "error_4xx"
                 PROVE  body.shows = t.status
    BY <1>12, <1>14 DEF ShowsStatus
  <2>2. body # t.body
    BY <2>1 DEF OnlyListing
  <2>3. body = file /\ file # Nothing
    BY <1>4, <2>1, <2>2
  <2>4. t.path \in DOMAIN t.files /\ body = t.files[t.path]
    BY <2>3
  <2>5. t.path = ErrorPage
    BY <1>16, <2>1, <2>4 DEF OneErrorPage
  <2>6. Shown(t)
    BY DEF Lined
  <2>. QED  BY <1>1, <2>1, <2>4, <2>5, <2>6 DEF Shown
<1>17. ASSUME Found(t)
       PROVE  Whole(w, method)
  <2>1. SUFFICES ASSUME method \in {"GET", "POST"}, t.status # 413,
                        t.status >= 400 => ErrorPath(t.sid) \in DOMAIN t.files,
                        FolderPage \in DOMAIN t.files
                 PROVE  body # Nothing /\ Announced(t) = body.size
    BY <1>12, <1>14 DEF Whole
  <2>2. CASE t.body # Nothing
    BY <1>4, <1>6, <2>1, <2>2
  <2>3. CASE t.body = Nothing
    <3>1. t.path \in DOMAIN t.files
      BY <1>17, <2>1, <2>3 DEF Found
    <3>2. file = t.files[t.path] /\ file # Nothing
      BY <1>2, <2>1, <3>1, FileIsSomething
    <3>. HIDE DEF file
    <3>. QED  BY <1>4, <1>6, <2>1, <2>3, <3>1, <3>2
  <2>. QED  BY <2>2, <2>3
<1>. QED  BY <1>12, <1>13, <1>14, <1>15, <1>16, <1>17

\* The end of writer: what a turn is answered with, if it is.
Answers(t, w, method) ==
  /\ w \in Turn /\ w.sid = t.sid /\ w.lid = t.lid /\ w.rq = t.rq /\ SameFiles(t.files, w.files)
  /\ w.out = "ok" =>
       /\ t.out = "ok" /\ t.lid \in DOMAIN Locations(t.sid)
       /\ w.response.status \in Statuses
       /\ w.body # Nothing => w.response.status = 413
       /\ OnlyListing(w.body)
       /\ OneErrorPage(t.files) => ShowsStatus(w.response)
       /\ Whole(w, method)

LEMMA FinishType ==
  ASSUME NEW t \in Lined, t.sid \in DOMAIN Servers, OnlyListing(t.body),
         NEW method, NEW env, NEW w, w = Finish(t, method, env)
  PROVE  Answers(t, w, method)
<1>. DEFINE typed == file_type(t, env)
            sent  == gen_CLength(typed)
<1>0. t \in Turn /\ SameFiles(t.files, t.files)
  BY DEF Lined, SameFiles
<1>1. CASE t.out # "ok"
  <2>1. w = t
    BY <1>1, Zenon DEF Finish
  <2>. QED  BY <1>0, <1>1, <2>1 DEF Answers
<1>2. CASE t.out = "ok" /\ t.lid \notin DOMAIN Locations(t.sid)
  <2>1. w = [t EXCEPT !.out = "undefined"]
    BY <1>2, Zenon DEF Finish
  <2>2. w \in Lined
    BY <2>1, TurnWith
  <2>. QED  BY <1>0, <2>1, <2>2 DEF Answers, Lined, Turn
<1>3. CASE t.out = "ok" /\ t.lid \in DOMAIN Locations(t.sid)
  <2>1. w = IF typed.out # "ok" THEN typed ELSE add_body(sent, method)
    BY <1>3, Zenon DEF Finish
  <2>2. /\ Same(t, typed) /\ SameFiles(t.files, typed.files) /\ typed.lid = t.lid
        /\ OnlyListing(typed.body)
        /\ typed.out = "ok" => Found(typed)
    <3>1. \A v : v = typed =>
            /\ Same(t, v) /\ SameFiles(t.files, v.files) /\ v.lid = t.lid
            /\ v.body = t.body \/ v.body.id = "listing"
            /\ v.out = "ok" /\ v.body = Nothing =>
                 \/ v.path \in DOMAIN v.files
                 \/ v.path = FolderPage
                 \/ v.status >= 400 /\ v.path = ErrorPath(v.sid)
      BY <1>3, FileTypeType
    <3>. HIDE DEF typed
    <3>. QED  BY <3>1 DEF OnlyListing, Found
  <2>. HIDE DEF typed
  <2>3. CASE typed.out # "ok"
    BY <2>1, <2>2, <2>3 DEF Answers, Same, Lined
  <2>4. CASE typed.out = "ok"
    <3>1. w = add_body(sent, method)
      BY <2>1, <2>4
    <3>2. Line(typed, sent) /\ (Found(sent) \/ sent.status = 413)
      BY <2>2, <2>4, CLengthType DEF Same
    <3>. HIDE DEF sent
    <3>3. sent \in Lined /\ OnlyListing(sent.body)
      BY <2>2, <3>2 DEF Line
    <3>4. /\ w \in Turn /\ w.sid = sent.sid /\ w.lid = sent.lid /\ w.rq = sent.rq
          /\ w.files = sent.files /\ w.response.status = sent.status
          /\ w.body # Nothing => w.response.status = 413
          /\ OnlyListing(w.body)
          /\ OneErrorPage(sent.files) => ShowsStatus(w.response)
          /\ Found(sent) => Whole(w, method)
      BY <3>1, <3>3, AddBodyType
    <3>5. Whole(w, method)
      BY <3>2, <3>4 DEF Whole
    <3>6. SameFiles(t.files, sent.files)
      BY <2>2, <3>2 DEF Line, SameFiles
    <3>7. OneErrorPage(t.files) => OneErrorPage(sent.files)
      BY <3>6 DEF OneErrorPage, SameFiles
    <3>8. sent.status \in Statuses
      BY <3>3 DEF Lined
    <3>. QED  BY <1>3, <2>2, <3>2, <3>4, <3>5, <3>6, <3>7, <3>8 DEF Answers, Line, Same
  <2>. QED  BY <2>3, <2>4
<1>. QED  BY <1>1, <1>2, <1>3

-----------------------------------------------------------------------------
\* The writer.

\* What one request is answered with, and what it does to the files.
Handles(t, w) ==
  /\ w \in Turn /\ w.rq = t.rq /\ Kind(w.files)
  /\ w.out = "ok" =>
       /\ t.out = "ok" /\ t.sid \in DOMAIN Servers /\ w.sid = t.sid
       /\ w.lid \in DOMAIN Locations(w.sid)
       /\ w.response.status \in Statuses
       /\ w.body # Nothing => w.response.status = 413
       /\ OnlyListing(w.body)
       /\ ShowsStatus(w.response)
       /\ ~is_cgi(t) => Whole(w, t.rq.method)
       /\ ~IsPrefix(ErrorPages, clean_url(t.url)) =>
            w.lid = Resolved(Locations(w.sid), clean_url(t.url)).lid
  /\ DOMAIN w.files # DOMAIN t.files =>
       t.rq.method \in {"POST", "DELETE"} /\ Allowed(Locations(w.sid)[w.lid], t.rq.method)
  /\ \A p \in DOMAIN t.files :
       p \notin DOMAIN w.files => t.rq.method = "DELETE" /\ p = Relative(clean_url(t.url))

LEMMA WriterType ==
  ASSUME NEW t \in Turn, OnlyListing(t.body), Kind(t.files), NEW env, NEW w, w = writer(t, env)
  PROVE  Handles(t, w)
<1>. DEFINE first    == gen_startLine(t, 200)
            resolved == resolve_path(first)
            turn     == resolved.turn
            url      == clean_url(t.url)
            method   == IF is_cgi(t) THEN env.word ELSE t.rq.method
            done     == IF is_cgi(t) \/ resolved.done THEN turn ELSE Method(turn)
<1>0. t.files \in Files
  BY DEF Turn
<1>1. CASE t.out # "ok"
  <2>1. w = t
    BY <1>1, Zenon DEF writer
  <2>. QED  BY <1>1, <2>1 DEF Handles
<1>2. CASE t.out = "ok" /\ t.sid \notin DOMAIN Servers
  <2>1. w = [t EXCEPT !.out = "undefined"]
    BY <1>2, Zenon DEF writer
  <2>2. /\ w \in Turn /\ w.rq = t.rq /\ w.files = t.files /\ w.out = "undefined"
    BY <2>1 DEF Turn
  <2>. QED  BY <2>2 DEF Handles
<1>3. CASE t.out = "ok" /\ t.sid \in DOMAIN Servers
  <2>1. w = Finish(done, method, env)
    <3>1. w = IF is_cgi(t) THEN Finish(turn, env.word, env)
              ELSE IF resolved.done THEN Finish(turn, t.rq.method, env)
              ELSE Finish(Method(turn), t.rq.method, env)
      BY <1>3, Zenon DEF writer
    <3>. HIDE DEF turn, resolved
    <3>. QED  BY <3>1
  <2>2. 200 \in Statuses
    BY DEF Statuses
  <2>3. Line(t, first)
    BY <2>2, StartLine
  <2>. HIDE DEF first
  <2>4. first \in Lined /\ first.sid \in DOMAIN Servers /\ first.out = "ok" /\ url = clean_url(first.url)
    BY <1>3, <2>3 DEF Line
  <2>. HIDE DEF url
  <2>5. /\ Same(first, turn) /\ SameFiles(first.files, turn.files)
        /\ turn.body = first.body
        /\ turn.out \in {"ok", "exception"}
        /\ ~IsPrefix(ErrorPages, url) /\ turn.out = "ok" =>
             turn.lid = Resolved(Locations(first.sid), url).lid
        /\ ~resolved.done =>
             /\ ~IsPrefix(ErrorPages, url) /\ turn.out = "ok" /\ turn.url = url
             /\ Allowed(Locations(first.sid)[turn.lid], first.rq.method)
    <3>1. resolved = resolve_path(first)
      OBVIOUS
    <3>. HIDE DEF resolved
    <3>. QED  BY <2>4, <3>1, ResolvePathType
  <2>. HIDE DEF resolved
  <2>6. turn.files \in Files /\ Kind(turn.files)
    <3>1. turn.files \in Files
      BY <2>5 DEF Same, Lined, Turn
    <3>2. SameFiles(t.files, turn.files)
      BY <2>3, <2>5 DEF Line, SameFiles
    <3>. QED  BY <3>1, <3>2, SameFilesKind
  <2>7. /\ done \in Lined /\ done.sid = t.sid /\ done.rq = t.rq /\ done.body = t.body
        /\ done.lid = turn.lid
        /\ done.out = "ok" => turn.out = "ok"
        /\ Kind(done.files)
        /\ DOMAIN done.files # DOMAIN turn.files =>
             t.rq.method \in {"POST", "DELETE"} /\ Allowed(Locations(t.sid)[turn.lid], t.rq.method)
        /\ \A p \in DOMAIN turn.files :
             p \notin DOMAIN done.files => t.rq.method = "DELETE" /\ p = Relative(url)
    <3>1. CASE is_cgi(t) \/ resolved.done
      <4>1. done = turn
        BY <3>1
      <4>. QED  BY <2>3, <2>5, <2>6, <4>1 DEF Line, Same
    <3>2. CASE ~(is_cgi(t) \/ resolved.done)
      <4>1. done = Method(turn)
        BY <3>2
      <4>2. turn \in Lined /\ turn.out = "ok"
        BY <2>5, <3>2 DEF Same
      <4>. HIDE DEF done, turn
      <4>3. /\ Same(turn, done) /\ done.body = turn.body /\ done.lid = turn.lid
            /\ Kind(turn.files) => Kind(done.files)
            /\ DOMAIN done.files # DOMAIN turn.files => turn.rq.method \in {"POST", "DELETE"}
            /\ \A p \in DOMAIN turn.files :
                 p \notin DOMAIN done.files => turn.rq.method = "DELETE" /\ p = Relative(turn.url)
        BY <4>1, <4>2, MethodType
      <4>. QED  BY <2>3, <2>5, <2>6, <3>2, <4>2, <4>3 DEF Line, Same
    <3>. QED  BY <3>1, <3>2
  <2>. HIDE DEF done, turn
  <2>8. Answers(done, w, method)
    <3>. HIDE DEF method
    <3>. QED  BY <1>3, <2>1, <2>7, FinishType
  <2>9. Kind(w.files) /\ DOMAIN w.files = DOMAIN done.files
    <3>1. w.files \in Files
      BY <2>8 DEF Answers, Turn
    <3>. QED  BY <2>7, <2>8, <3>1, SameFilesKind DEF Answers, SameFiles
  <2>10. DOMAIN turn.files = DOMAIN t.files
    BY <2>3, <2>5 DEF Line, SameFiles
  <2>11. w \in Turn /\ w.rq = t.rq /\ w.sid = t.sid /\ w.lid = turn.lid
    BY <2>7, <2>8 DEF Answers
  <2>12. ASSUME w.out = "ok"
         PROVE  /\ w.lid \in DOMAIN Locations(w.sid)
                /\ w.response.status \in Statuses
                /\ w.body # Nothing => w.response.status = 413
                /\ OnlyListing(w.body)
                /\ ShowsStatus(w.response)
                /\ ~is_cgi(t) => Whole(w, t.rq.method)
                /\ ~IsPrefix(ErrorPages, url) =>
                     w.lid = Resolved(Locations(w.sid), url).lid
    <3>1. /\ done.out = "ok" /\ done.lid \in DOMAIN Locations(done.sid)
          /\ w.response.status \in Statuses
          /\ w.body # Nothing => w.response.status = 413
          /\ OnlyListing(w.body)
          /\ OneErrorPage(done.files) => ShowsStatus(w.response)
          /\ Whole(w, method)
      BY <2>8, <2>12 DEF Answers
    <3>2. OneErrorPage(done.files)
      BY <2>7 DEF Kind
    <3>3. ~is_cgi(t) => Whole(w, t.rq.method)
      BY <3>1
    <3>4. first.sid = t.sid
      BY <2>3 DEF Line
    <3>. HIDE DEF method
    <3>. QED  BY <2>5, <2>7, <2>11, <3>1, <3>2, <3>3, <3>4
  <2>13. url = clean_url(t.url)
    BY DEF url
  <2>. HIDE DEF method
  <2>. QED  BY <1>3, <2>7, <2>9, <2>10, <2>11, <2>12, <2>13 DEF Handles
<1>. QED  BY <1>1, <1>2, <1>3

-----------------------------------------------------------------------------
\* The inductive invariant: what the object keeps is a listing at most, and
\* that only after a 413; the last response was made as it should be.
LastFine ==
  /\ last.rq \in Requests /\ last.sid \in DOMAIN Servers
  /\ last.lid \in DOMAIN Locations(last.sid) /\ last.response.status \in Statuses

IInv ==
  /\ handler \in Handler /\ Kind(files) /\ OnlyListing(handler.body)
  /\ handler.body # Nothing => last.response.status = 413
  /\ Answered => LastFine
  /\ stop \in {"none", "exception", "undefined"}

\* The files of the start.
LEMMA InitialKind == Kind(InitialFiles)
<1>1. DOMAIN InitialFiles \in SUBSET Path /\ InitialFiles \in [DOMAIN InitialFiles -> FileType]
  BY FilesAssumption DEF Path
<1>2. InitialFiles \in Files
  BY <1>1 DEF Files
<1>. QED  BY <1>2, FilesAssumption DEF Kind, OneErrorPage

LEMMA InitInvariant == Init => IInv
<1>. SUFFICES ASSUME Init PROVE IInv
  OBVIOUS
<1>1. handler \in Handler /\ handler.body = Nothing
  <2>1. Len(Servers) \in Nat /\ DOMAIN Servers = 1..Len(Servers) /\ Servers # <<>>
    BY ServersAssumption, Elements
  <2>2. 1 \in DOMAIN Servers
    BY <2>1, ServersAssumption, EmptySeq
  <2>3. Len(Locations(1)) \in Nat
    BY <2>2, LocationsType
  <2>4. <<>> \in Path /\ Nothing \in Body
    BY DEF Path, Body
  <2>. QED  BY <2>1, <2>3, <2>4 DEF Init, New, Handler
<1>2. last.rq = Nothing /\ stop = "none" /\ files = InitialFiles
  BY DEF Init
<1>. QED  BY <1>1, <1>2, InitialKind DEF IInv, OnlyListing, Answered

\* A turn is read from a request and written.
LEMMA TurnsType ==
  ASSUME IInv, NEW t \in Turns
  PROVE  \E r \in Requests : \E env \in Environment(r) :
           /\ t = writer(reader(handler, r), env)
           /\ reader(handler, r) \in Turn /\ reader(handler, r).rq = r
           /\ reader(handler, r).url = r.url /\ reader(handler, r).files = files
           /\ reader(handler, r).body = handler.body
           /\ Handles(reader(handler, r), t)
<1>1. PICK r \in Requests : t \in {writer(reader(handler, r), env) : env \in Environment(r)}
  BY DEF Turns
<1>2. PICK env \in Environment(r) : t = writer(reader(handler, r), env)
  BY <1>1
<1>3. \A u : u = reader(handler, r) =>
        /\ u \in Turn /\ u.rq = r /\ u.url = r.url /\ u.body = handler.body /\ u.files = files
  BY ReaderType DEF IInv, Kind
<1>4. \A u : u = reader(handler, r) => Handles(u, t)
  BY <1>2, <1>3, WriterType DEF IInv
<1>. QED  BY <1>2, <1>3, <1>4

LEMMA NextInvariant == IInv /\ [Next]_vars => IInv'
<1>. SUFFICES ASSUME IInv, [Next]_vars PROVE IInv'
  OBVIOUS
<1>1. CASE Respond
  <2>1. PICK t \in Turns :
          /\ t.out = "ok" /\ handler' = Kept(t) /\ files' = t.files
          /\ last' = [rq |-> t.rq, sid |-> t.sid, lid |-> t.lid, response |-> t.response]
          /\ stop' = stop
    BY <1>1 DEF Respond
  <2>2. PICK u : Handles(u, t)
    BY TurnsType
  <2>3. /\ t \in Turn /\ Kind(t.files) /\ t.sid \in DOMAIN Servers
        /\ t.lid \in DOMAIN Locations(t.sid) /\ t.response.status \in Statuses
        /\ t.body # Nothing => t.response.status = 413
        /\ OnlyListing(t.body)
    BY <2>1, <2>2 DEF Handles
  <2>4. Kept(t) \in Handler /\ Kept(t).body = t.body
    BY <2>3 DEF Kept, Handler, Turn
  <2>5. t.rq \in Requests
    BY <2>3 DEF Turn
  <2>6. LastFine'
    BY <2>1, <2>3, <2>5 DEF LastFine, Locations
  <2>. QED  BY <2>1, <2>3, <2>4, <2>6 DEF IInv, Kind, OneErrorPage, OnlyListing
<1>2. CASE EndProcess
  <2>1. PICK t \in Turns : t.out # "ok" /\ files' = t.files /\ stop' = t.out /\ handler' = handler /\ last' = last
    BY <1>2 DEF EndProcess
  <2>2. PICK u : Handles(u, t)
    BY TurnsType
  <2>3. Kind(t.files) /\ t.out \in {"undefined", "exception"}
    BY <2>1, <2>2 DEF Handles, Turn
  <2>. QED  BY <2>1, <2>3 DEF IInv, Kind, OneErrorPage, OnlyListing, Answered, LastFine, Locations
<1>3. CASE UNCHANGED vars
  BY <1>3 DEF vars, IInv, Kind, OneErrorPage, OnlyListing, Answered, LastFine, Locations
<1>. QED  BY <1>1, <1>2, <1>3 DEF Next

\* The invariant holds in every state.
THEOREM Invariant == Spec => []IInv
BY InitInvariant, NextInvariant, PTL DEF Spec

\* The object, the files and the response have their types.
THEOREM TypeCorrect == Spec => []TypeOK
<1>1. IInv => TypeOK
  BY DEF IInv, TypeOK, Handler, Kind, LastFine, Statuses
<1>. QED  BY <1>1, Invariant, PTL

\* A file appears or disappears only by a POST or a DELETE that the location
\* of its URL allows (resolve_path, before handle_post_rqst and remove()).
THEOREM OnlyAllowedChangeFiles == Spec => MethodsRespected
<1>1. IInv /\ [Next]_vars =>
        [DOMAIN files' # DOMAIN files =>
          \E t \in Turns :
            /\ t.files = files'
            /\ t.rq.method \in {"POST", "DELETE"}
            /\ t.rq.method \in Locations(t.sid)[t.lid].allowed
            /\ stop' = "none" => <<last'.rq, last'.sid, last'.lid>> = <<t.rq, t.sid, t.lid>>]_vars
  <2>. SUFFICES ASSUME IInv, Next, DOMAIN files' # DOMAIN files
                PROVE  \E t \in Turns :
                         /\ t.files = files'
                         /\ t.rq.method \in {"POST", "DELETE"}
                         /\ t.rq.method \in Locations(t.sid)[t.lid].allowed
                         /\ stop' = "none" => <<last'.rq, last'.sid, last'.lid>> = <<t.rq, t.sid, t.lid>>
    BY DEF vars
  <2>1. PICK t \in Turns :
          /\ t.files = files'
          /\ stop' = "none" => last' = [rq |-> t.rq, sid |-> t.sid, lid |-> t.lid, response |-> t.response]
    <3>1. CASE Respond
      BY <3>1 DEF Respond
    <3>2. CASE EndProcess
      <4>1. PICK t \in Turns : t.out # "ok" /\ files' = t.files /\ stop' = t.out
        BY <3>2 DEF EndProcess
      <4>2. PICK u : Handles(u, t)
        BY TurnsType
      <4>3. t.out # "none"
        BY <4>1, <4>2 DEF Handles, Turn
      <4>. QED  BY <4>1, <4>3
    <3>. QED  BY <3>1, <3>2 DEF Next
  <2>2. PICK r \in Requests :
          /\ reader(handler, r).rq = r /\ reader(handler, r).files = files
          /\ Handles(reader(handler, r), t)
    BY TurnsType
  <2>3. t.rq = r /\ r.method \in {"POST", "DELETE"} /\ Allowed(Locations(t.sid)[t.lid], r.method)
    BY <2>1, <2>2 DEF Handles
  <2>4. t.rq.method \in {"POST", "DELETE"} /\ t.rq.method \in Locations(t.sid)[t.lid].allowed
    BY <2>3 DEF Allowed
  <2>. QED  BY <2>1, <2>4
<1>. QED  BY <1>1, Invariant, PTL DEF Spec, MethodsRespected

-----------------------------------------------------------------------------
\* A response is its own.
ResponseFine ==
  /\ IInv
  /\ Answered => ShowsStatus(last.response)
  /\ stop = "none" /\ Answered /\ ~is_cgi(last.rq) =>
       Whole([response |-> last.response, sid |-> last.sid, files |-> files], last.rq.method)
  /\ FolderPage \in DOMAIN files

LEMMA ResponseFineNext ==
  ASSUME FolderPageStays
  PROVE  ResponseFine /\ [Next]_vars => ResponseFine'
<1>. SUFFICES ASSUME ResponseFine, [Next]_vars PROVE ResponseFine'
  OBVIOUS
<1>1. IInv /\ IInv'
  BY NextInvariant DEF ResponseFine
<1>2. ASSUME NEW t \in Turns, files' = t.files
      PROVE  FolderPage \in DOMAIN files'
  <2>1. PICK r \in Requests :
          /\ reader(handler, r).rq = r /\ reader(handler, r).url = r.url
          /\ reader(handler, r).files = files /\ Handles(reader(handler, r), t)
    BY <1>1, TurnsType
  <2>2. \A p \in DOMAIN files :
          p \notin DOMAIN t.files => r.method = "DELETE" /\ p = Relative(clean_url(r.url))
    BY <2>1 DEF Handles
  <2>. QED  BY <1>2, <2>2 DEF ResponseFine, FolderPageStays
<1>3. CASE Respond
  <2>1. PICK t \in Turns :
          /\ t.out = "ok" /\ files' = t.files
          /\ last' = [rq |-> t.rq, sid |-> t.sid, lid |-> t.lid, response |-> t.response]
    BY <1>3 DEF Respond
  <2>2. PICK r \in Requests :
          /\ reader(handler, r).rq = r /\ reader(handler, r).url = r.url
          /\ Handles(reader(handler, r), t)
    BY <1>1, TurnsType
  <2>3. /\ t.rq = r /\ ShowsStatus(t.response)
        /\ ~is_cgi(reader(handler, r)) => Whole(t, r.method)
    BY <2>1, <2>2 DEF Handles
  <2>4. is_cgi(reader(handler, r)) <=> is_cgi(r)
    BY <2>2 DEF is_cgi
  <2>5. /\ last'.response = t.response /\ last'.rq = r /\ last'.sid = t.sid
    BY <2>1, <2>3
  <2>6. ~is_cgi(r) => Whole([response |-> last'.response, sid |-> last'.sid, files |-> files'], r.method)
    BY <2>1, <2>3, <2>4, <2>5 DEF Whole
  <2>7. (is_cgi(last.rq))' <=> is_cgi(r)
    BY <2>5 DEF is_cgi
  <2>8. ShowsStatus(last'.response)
    BY <2>3, <2>5
  <2>. QED  BY <1>1, <1>2, <2>1, <2>5, <2>6, <2>7, <2>8 DEF ResponseFine, ShowsStatus, Whole, ErrorPath
<1>4. CASE EndProcess
  <2>1. PICK t \in Turns : t.out # "ok" /\ files' = t.files /\ stop' = t.out /\ last' = last
    BY <1>4 DEF EndProcess
  <2>2. t.out # "none"
    <3>1. PICK u : Handles(u, t)
      BY <1>1, TurnsType
    <3>. QED  BY <3>1 DEF Handles, Turn
  <2>. QED  BY <1>1, <1>2, <2>1, <2>2 DEF ResponseFine, Answered, ShowsStatus
<1>5. CASE UNCHANGED vars
  BY <1>1, <1>5 DEF ResponseFine, vars, Answered, ShowsStatus, Whole, is_cgi, ErrorPath
<1>. QED  BY <1>3, <1>4, <1>5 DEF Next

\* What a client gets is its own response, the whole of it: the one page of
\* errors, which all responses write, shows its status, and the length that is
\* announced is that of the body (gen_startLine, gen_CLength, add_body).
THEOREM ResponseIsOwn ==
  ASSUME FolderPageStays
  PROVE  Spec => []OwnResponse
<1>1. Init => ResponseFine
  <2>. SUFFICES ASSUME Init PROVE ResponseFine
    OBVIOUS
  <2>1. ~Answered /\ files = InitialFiles
    BY DEF Init, Answered
  <2>. QED  BY <2>1, InitInvariant DEF ResponseFine, FolderPageStays
<1>2. ResponseFine /\ [Next]_vars => ResponseFine'
  BY ResponseFineNext
<1>3. ResponseFine => OwnResponse
  <2>. SUFFICES ASSUME ResponseFine PROVE OwnResponse
    OBVIOUS
  <2>1. ErrorPageShowsStatus
    BY DEF ResponseFine, ErrorPageShowsStatus, ShowsStatus
  <2>2. ASSUME stop = "none", Answered, last.rq.method \in {"GET", "POST"}, ~is_cgi(last.rq),
               last.response.status # 413,
               last.response.status >= 400 => ErrorPath(last.sid) \in DOMAIN files
        PROVE  last.response.body # Nothing /\ last.response.length = last.response.body.size
    BY <2>2 DEF ResponseFine, Whole
  <2>. QED  BY <2>1, <2>2 DEF OwnResponse, GetComplete
<1>. QED  BY <1>1, <1>2, <1>3, PTL DEF Spec

-----------------------------------------------------------------------------
\* The longest location.

\* The locations that the URL starts with, and where they lead.
Fits(sid, url)     == {i \in DOMAIN Locations(sid) : IsPrefix(Locations(sid)[i].location, url)}
Leads(sid, i, lid) == IF Locations(sid)[i].retour = <<>> THEN lid = i
                      ELSE Locations(sid)[lid].location = Last(Locations(sid)[i].retour)

\* Of the last n locations the longest that fits is taken.
Longest(sid, url, n, best) ==
  LET seen == {i \in Fits(sid, url) : i > Len(Locations(sid)) - n}
  IN  /\ seen = {} => best.len = 0 \/ n = Len(Locations(sid))
      /\ seen # {} =>
           \E b \in seen :
             /\ Leads(sid, b, best.lid) /\ best.len = Len(Locations(sid)[b].location)
             /\ \A j \in seen : Len(Locations(sid)[j].location) <= best.len

\* One turn of the loop.
LEMMA LongestStep ==
  ASSUME ReturnsLead, NEW sid \in DOMAIN Servers, NEW url \in Path,
         NEW n \in 1..Len(Locations(sid)), NEW best \in Best(sid),
         Longest(sid, url, n - 1, best),
         NEW new, new = Consider(Locations(sid), url, Len(Locations(sid)) - n + 1, best)
  PROVE  Longest(sid, url, n, new)
<1>. DEFINE locs == Locations(sid)
            N    == Len(locs)
            i    == N - n + 1
            long(j) == Len(locs[j].location)
            seen == {j \in Fits(sid, url) : j > N - (n - 1)}
            now  == {j \in Fits(sid, url) : j > N - n}
            fits == IsPrefix(locs[i].location, url)
<1>1. N \in Nat \ {0} /\ DOMAIN locs = 1..N /\ i \in DOMAIN locs
  BY LocationsType
<1>2. \A j \in DOMAIN locs : long(j) \in Nat \ {0}
  <2>. TAKE j \in DOMAIN locs
  <2>1. locs[j].location \in Seq(STRING) \ {<<>>}
    BY LocationsType DEF LocatiInfo
  <2>. QED  BY <2>1, Elements, EmptySeq
<1>3. Fits(sid, url) \subseteq DOMAIN locs /\ (i \in Fits(sid, url) <=> fits)
  BY <1>1 DEF Fits
<1>4. now = IF fits THEN seen \cup {i} ELSE seen
  BY <1>1, <1>3
<1>5. /\ seen = {} => best.len = 0 \/ n - 1 = N
      /\ seen # {} => \E b \in seen : /\ Leads(sid, b, best.lid) /\ best.len = long(b)
                                      /\ \A j \in seen : long(j) <= best.len
  BY DEF Longest
<1>6. best.len \in Nat
  BY DEF Best
<1>7. seen = {} => best.len = 0
  BY <1>1, <1>5
<1>. DEFINE better == Better(locs[i], i, url, best)
<1>8. better <=> (fits /\ long(i) > best.len) \/ (best.len = 0 /\ i = 1)
  BY DEF Better
<1>9. /\ ~better => new = best
      /\ better => new.len = long(i) /\ Leads(sid, i, new.lid)
  <2>1. /\ ~better => new = best
        /\ better =>
             /\ new.len = long(i)
             /\ locs[i].retour = <<>> => new.lid = i
             /\ locs[i].retour # <<>>
                  /\ (\E j \in DOMAIN locs : locs[j].location = Last(locs[i].retour))
                  => locs[new.lid].location = Last(locs[i].retour)
    BY <1>1, ConsiderType
  <2>2. locs[i].retour # <<>> => \E j \in DOMAIN locs : locs[j].location = Last(locs[i].retour)
    BY <1>1 DEF ReturnsLead
  <2>. QED  BY <2>1, <2>2 DEF Leads
<1>10. seen \subseteq DOMAIN locs
  BY <1>3
<1>11. i = 1 <=> n = N
  <2>1. N \in Nat /\ n \in Nat
    BY <1>1
  <2>. HIDE DEF N
  <2>2. i = 1 => n = N
    BY <2>1
  <2>3. n = N => i = 1
    BY <2>1
  <2>. QED  BY <2>2, <2>3
<1>. SUFFICES /\ now = {} => new.len = 0 \/ n = N
              /\ now # {} => \E b \in now : /\ Leads(sid, b, new.lid) /\ new.len = long(b)
                                            /\ \A j \in now : long(j) <= new.len
  BY DEF Longest
<1>. HIDE DEF seen, now, fits, better, long, locs, N
<1>12. CASE better /\ fits
  <2>1. long(i) > best.len \/ seen = {}
    <3>1. best.len = 0 => long(i) > best.len
      BY <1>1, <1>2
    <3>. QED  BY <1>8, <1>12, <3>1
  <2>2. \A j \in seen : long(j) <= best.len
    BY <1>5
  <2>3. \A j \in now : long(j) <= long(i)
    BY <1>1, <1>2, <1>4, <1>6, <1>10, <1>12, <2>1, <2>2
  <2>. QED  BY <1>4, <1>9, <1>12, <2>3
<1>13. CASE better /\ ~fits
  <2>1. best.len = 0 /\ n = N
    BY <1>8, <1>11, <1>13
  <2>2. seen = {}
    <3>1. ASSUME NEW j \in seen
          PROVE  FALSE
      <4>1. long(j) <= best.len
        BY <1>5
      <4>. QED  BY <1>2, <1>10, <2>1, <4>1
    <3>. QED  BY <3>1
  <2>. QED  BY <1>4, <1>13, <2>1, <2>2
<1>14. CASE ~better /\ fits
  <2>1. long(i) <= best.len
    BY <1>1, <1>2, <1>6, <1>8, <1>14
  <2>2. seen # {}
    BY <1>1, <1>2, <1>7, <2>1
  <2>3. PICK b \in seen : /\ Leads(sid, b, best.lid) /\ best.len = long(b)
                          /\ \A j \in seen : long(j) <= best.len
    BY <1>5, <2>2
  <2>. QED  BY <1>4, <1>9, <1>14, <2>1, <2>3
<1>15. CASE ~better /\ ~fits
  BY <1>4, <1>5, <1>7, <1>9, <1>15
<1>. QED  BY <1>12, <1>13, <1>14, <1>15

\* After all turns it is the longest of all.
LEMMA LongestTaken ==
  ASSUME ReturnsLead, NEW sid \in DOMAIN Servers, NEW url \in Path, Fits(sid, url) # {}
  PROVE  \E b \in Fits(sid, url) :
           /\ Leads(sid, b, Resolved(Locations(sid), url).lid)
           /\ \A j \in Fits(sid, url) :
                Len(Locations(sid)[j].location) <= Len(Locations(sid)[b].location)
<1>. DEFINE N == Len(Locations(sid))
<1>1. PICK f \in [0..N -> Best(sid)] : Turned(sid, url, f)
  BY ResolvedSteps
<1>. DEFINE P == {n \in 0..N : Longest(sid, url, n, f[n])}
<1>2. N \in Nat \ {0} /\ DOMAIN Locations(sid) = 1..N
  BY LocationsType
<1>3. \A i \in Fits(sid, url) : i \in 1..N
  BY <1>2 DEF Fits
<1>4. 0 \in P
  <2>1. {i \in Fits(sid, url) : i > N - 0} = {}
    BY <1>2, <1>3
  <2>2. f[0].len = 0
    BY <1>1 DEF Turned, NoneYet
  <2>3. Longest(sid, url, 0, f[0])
    BY <2>1, <2>2 DEF Longest
  <2>. QED  BY <1>2, <2>3
<1>5. ASSUME NEW n \in 1..N, n - 1 \in P
      PROVE  n \in P
  <2>1. n - 1 \in 0..N /\ n \in 0..N /\ f[n - 1] \in Best(sid) /\ Longest(sid, url, n - 1, f[n - 1])
    BY <1>2, <1>5
  <2>2. f[n] = Consider(Locations(sid), url, N - n + 1, f[n - 1])
    BY <1>1 DEF Turned
  <2>3. Longest(sid, url, n, f[n])
    BY <2>1, <2>2, LongestStep
  <2>. QED  BY <2>1, <2>3
<1>. HIDE DEF P
<1>6. \A n \in 0..N : n \in P
  BY <1>2, <1>4, <1>5, UpTo
<1>7. Longest(sid, url, N, f[N])
  BY <1>2, <1>6 DEF P
<1>8. Fits(sid, url) = {i \in Fits(sid, url) : i > N - N}
  BY <1>2, <1>3
<1>9. f[N] = Resolved(Locations(sid), url)
  BY <1>1 DEF Turned
<1>. QED  BY <1>7, <1>8, <1>9 DEF Longest

\* The location of the last response is the one resolve_path finds.
LocationFine ==
  /\ IInv
  /\ Answered /\ ~IsPrefix(ErrorPages, clean_url(last.rq.url)) =>
       last.lid = Resolved(Locations(last.sid), clean_url(last.rq.url)).lid

\* resolve_path takes "la location qui partage le plus avec l'url", for any
\* locations in any order whose returns lead to one of them.
THEOREM LongestIsTaken ==
  ASSUME ReturnsLead
  PROVE  Spec => []LongestLocation
<1>1. Init => LocationFine
  <2>. SUFFICES ASSUME Init PROVE LocationFine
    OBVIOUS
  <2>1. ~Answered
    BY DEF Init, Answered
  <2>. QED  BY <2>1, InitInvariant DEF LocationFine
<1>2. LocationFine /\ [Next]_vars => LocationFine'
  <2>. SUFFICES ASSUME LocationFine, [Next]_vars PROVE LocationFine'
    OBVIOUS
  <2>1. IInv /\ IInv'
    BY NextInvariant DEF LocationFine
  <2>2. CASE Respond
    <3>1. PICK t \in Turns :
            /\ t.out = "ok"
            /\ last' = [rq |-> t.rq, sid |-> t.sid, lid |-> t.lid, response |-> t.response]
      BY <2>2 DEF Respond
    <3>2. PICK r \in Requests :
            /\ reader(handler, r).rq = r /\ reader(handler, r).url = r.url
            /\ Handles(reader(handler, r), t)
      BY <2>1, TurnsType
    <3>3. /\ t.rq = r
          /\ ~IsPrefix(ErrorPages, clean_url(r.url)) =>
               t.lid = Resolved(Locations(t.sid), clean_url(r.url)).lid
      BY <3>1, <3>2 DEF Handles
    <3>. QED  BY <2>1, <3>1, <3>3 DEF LocationFine, Locations
  <2>3. CASE EndProcess \/ UNCHANGED vars
    <3>1. last' = last
      BY <2>3 DEF EndProcess, vars
    <3>. QED  BY <2>1, <3>1 DEF LocationFine, Answered, Locations
  <2>. QED  BY <2>2, <2>3 DEF Next
<1>3. LocationFine => LongestLocation
  <2>. SUFFICES ASSUME LocationFine PROVE LongestLocation
    OBVIOUS
  <2>1. TypeOK
    BY DEF LocationFine, IInv, TypeOK, Handler, Kind, LastFine, Statuses
  <2>. DEFINE locs == Locations(last.sid)
              url  == clean_url(last.rq.url)
              fits == {i \in DOMAIN locs : IsPrefix(locs[i].location, url)}
  <2>2. ASSUME Answered, ~IsPrefix(ErrorPages, url), fits # {}
        PROVE  \E best \in fits :
                 /\ \A j \in fits : Len(locs[j].location) <= Len(locs[best].location)
                 /\ IF locs[best].retour = <<>> THEN last.lid = best
                    ELSE locs[last.lid].location = Last(locs[best].retour)
    <3>1. last.sid \in DOMAIN Servers /\ last.rq \in Requests
      BY <2>2 DEF LocationFine, IInv, LastFine
    <3>2. url \in Path
      BY <3>1, RequestsAssumption, CleanUrlType DEF Path
    <3>3. last.lid = Resolved(locs, url).lid
      BY <2>2 DEF LocationFine
    <3>4. fits = Fits(last.sid, url)
      BY DEF Fits
    <3>. HIDE DEF fits, url
    <3>. QED  BY <2>2, <3>1, <3>2, <3>3, <3>4, LongestTaken DEF Leads
  <2>. QED  BY <2>1, <2>2 DEF LongestLocation
<1>. QED  BY <1>1, <1>2, <1>3, PTL DEF Spec

-----------------------------------------------------------------------------
\* One request, whatever the object handled before.

\* Turns that differ in what resolve_path sets, the location and the path.
Alike(t, u) ==
  /\ u.sid = t.sid /\ u.body = t.body /\ u.rq = t.rq /\ u.url = t.url /\ u.status = t.status
  /\ u.files = t.files /\ u.response = t.response /\ u.out = t.out

\* The fields of a turn are all there is to it.
LEMMA TurnEqual ==
  ASSUME NEW t \in Turn, NEW u \in Turn, Alike(t, u), u.lid = t.lid, u.path = t.path
  PROVE  u = t
BY DEF Turn, Alike

\* They are resolved to the same turn, unless the request ends there.
LEMMA AlikeResolved ==
  ASSUME NEW t \in Lined, NEW u \in Lined, Alike(t, u), t.sid \in DOMAIN Servers,
         ~IsPrefix(ErrorPages, clean_url(t.url)), resolve_path(t).turn.out = "ok"
  PROVE  resolve_path(u) = resolve_path(t)
<1>. DEFINE url    == clean_url(t.url)
            best   == Resolved(Locations(t.sid), url)
            path   == clean_url(Relative(best.path))
            Met(x) == [x EXCEPT !.url = url, !.lid = best.lid, !.path = path]
            Ends(x) == [x EXCEPT !.out = "exception"]
            Sees(x) == IF Allowed(Locations(t.sid)[best.lid], t.rq.method)
                       THEN [turn |-> Led(Met(x), best.codes), done |-> FALSE]
                       ELSE [turn |-> gen_startLine(Led(Met(x), best.codes), 405), done |-> TRUE]
<1>1. t \in Turn /\ u \in Turn /\ t.url \in Path
  BY DEF Lined, Turn
<1>2. clean_url(u.url) = url /\ u.sid = t.sid /\ u.rq = t.rq
  BY DEF Alike
<1>3. resolve_path(t) =
        CASE IsPrefix(ErrorPages, url) ->
               [turn |-> [t EXCEPT !.url = url, !.path = <<"files">> \o url], done |-> TRUE]
          [] ~IsPrefix(ErrorPages, url) /\ best.thrown -> [turn |-> Ends(t), done |-> TRUE]
          [] OTHER -> Sees(t)
  BY DEF resolve_path
<1>4. resolve_path(u) =
        CASE IsPrefix(ErrorPages, url) ->
               [turn |-> [u EXCEPT !.url = url, !.path = <<"files">> \o url], done |-> TRUE]
          [] ~IsPrefix(ErrorPages, url) /\ best.thrown -> [turn |-> Ends(u), done |-> TRUE]
          [] OTHER -> Sees(u)
  BY <1>2 DEF resolve_path
<1>5. best.lid \in Nat /\ path \in Path /\ url \in Path
  <2>1. url \in Path
    BY <1>1, CleanUrlType
  <2>2. best \in Best(t.sid)
    BY <2>1, ResolvedType
  <2>3. best.lid \in Nat /\ best.path \in Path
    BY <2>2, LocationsType DEF Best
  <2>. QED  BY <2>1, <2>3, Opened
<1>6. Ends(t).out = "exception"
  BY <1>1 DEF Turn
<1>. HIDE DEF url, best, path
<1>7. Met(u) = Met(t)
  <2>1. Met(u) \in Turn /\ Met(t) \in Turn
    BY <1>5, TurnWith DEF Lined
  <2>2. /\ Met(u).lid = Met(t).lid /\ Met(u).path = Met(t).path /\ Met(u).url = Met(t).url
        /\ Met(u).sid = Met(t).sid /\ Met(u).body = Met(t).body /\ Met(u).rq = Met(t).rq
        /\ Met(u).status = Met(t).status /\ Met(u).files = Met(t).files
        /\ Met(u).response = Met(t).response /\ Met(u).out = Met(t).out
    BY <1>1 DEF Alike, Turn
  <2>. HIDE DEF Met
  <2>. QED  BY <2>1, <2>2, TurnEqual DEF Alike
<1>8. Sees(u) = Sees(t)
  <2>. HIDE DEF Met
  <2>. QED  BY <1>7
<1>9. ~IsPrefix(ErrorPages, url)
  BY DEF url
<1>. HIDE DEF Sees, Ends
<1>10. ~best.thrown
  <2>1. SUFFICES ASSUME best.thrown PROVE FALSE
    OBVIOUS
  <2>2. resolve_path(t) = [turn |-> Ends(t), done |-> TRUE]
    BY <1>3, <1>9, <2>1, Zenon
  <2>. QED  BY <1>6, <2>2
<1>11. resolve_path(t) = Sees(t) /\ resolve_path(u) = Sees(u)
  BY <1>3, <1>4, <1>9, <1>10, Zenon
<1>. QED  BY <1>8, <1>11

\* They are answered alike.
LEMMA AlikeAnswered ==
  ASSUME NEW t \in Turn, NEW u \in Turn, Alike(t, u), NEW env,
         ~IsPrefix(ErrorPages, clean_url(t.url)), writer(t, env).out = "ok"
  PROVE  writer(u, env) = writer(t, env)
<1>. DEFINE First(x) == gen_startLine(x, 200)
            Wrote(x) == IF is_cgi(x) THEN Finish(resolve_path(First(x)).turn, env.word, env)
                        ELSE IF resolve_path(First(x)).done
                        THEN Finish(resolve_path(First(x)).turn, x.rq.method, env)
                        ELSE Finish(Method(resolve_path(First(x)).turn), x.rq.method, env)
<1>1. \A x : writer(x, env) =
               CASE x.out # "ok" -> x
                 [] x.out = "ok" /\ x.sid \notin DOMAIN Servers -> [x EXCEPT !.out = "undefined"]
                 [] OTHER -> Wrote(x)
  BY DEF writer
<1>. HIDE DEF Wrote
<1>2. t.out = "ok"
  <2>1. SUFFICES ASSUME t.out # "ok" PROVE FALSE
    OBVIOUS
  <2>2. writer(t, env) = t
    BY <1>1, <2>1, Zenon
  <2>. QED  BY <2>1, <2>2
<1>3. t.sid \in DOMAIN Servers
  <2>1. SUFFICES ASSUME t.sid \notin DOMAIN Servers PROVE FALSE
    OBVIOUS
  <2>2. writer(t, env) = [t EXCEPT !.out = "undefined"]
    BY <1>1, <1>2, <2>1, Zenon
  <2>3. [t EXCEPT !.out = "undefined"].out = "undefined"
    BY DEF Turn
  <2>. QED  BY <2>2, <2>3
<1>4. u.out = "ok" /\ u.sid \in DOMAIN Servers
  BY <1>2, <1>3 DEF Alike
<1>5. writer(t, env) = Wrote(t) /\ writer(u, env) = Wrote(u)
  BY <1>1, <1>2, <1>3, <1>4, Zenon
<1>6. First(t) \in Lined /\ First(u) \in Lined /\ Alike(First(t), First(u))
      /\ First(t).sid \in DOMAIN Servers /\ First(t).url = t.url /\ First(t).out = "ok"
  <2>1. 200 \in Statuses
    BY DEF Statuses
  <2>2. Line(t, First(t)) /\ Line(u, First(u)) /\ First(t).status = 200 /\ First(u).status = 200
    BY <2>1, StartLine
  <2>3. First(t).files = Marked(t.files, 200) /\ First(u).files = Marked(u.files, 200)
    BY DEF gen_startLine, Turn
  <2>. HIDE DEF First
  <2>. QED  BY <1>2, <1>3, <2>2, <2>3 DEF Line, Alike
<1>7. is_cgi(u) <=> is_cgi(t)
  BY DEF is_cgi, Alike
<1>8. resolve_path(First(t)).turn.out = "ok"
  <2>. DEFINE r == resolve_path(First(t))
  <2>1. SUFFICES ASSUME r.turn.out # "ok" PROVE FALSE
    OBVIOUS
  <2>2. \A x : x = r => /\ Same(First(t), x.turn) /\ x.turn.out \in {"ok", "exception"}
                        /\ ~x.done => x.turn.out = "ok"
    <3>. HIDE DEF First
    <3>. QED  BY <1>6, ResolvePathType
  <2>. HIDE DEF r
  <2>3. r.turn.out = "exception" /\ r.done
    BY <2>1, <2>2
  <2>4. \A m : Finish(r.turn, m, env) = r.turn
    BY <2>3, Zenon DEF Finish
  <2>5. Wrote(t) = r.turn
    BY <2>3, <2>4 DEF Wrote, r
  <2>. QED  BY <1>5, <2>3, <2>5
<1>9. resolve_path(First(u)) = resolve_path(First(t))
  <2>. HIDE DEF First
  <2>. QED  BY <1>6, <1>8, AlikeResolved
<1>10. u.rq = t.rq
  BY DEF Alike
<1>. HIDE DEF First
<1>11. Wrote(u) = Wrote(t)
  BY <1>7, <1>9, <1>10 DEF Wrote
<1>. QED  BY <1>5, <1>11

\* A response depends on the request and the files, not on the requests the
\* object has handled before, but in the ways OnItsOwn names.
THEOREM RequestsIndependent == Spec => Independent
<1>. DEFINE Other(s, l) == [sid |-> s, lid |-> l, path |-> <<>>, body |-> Nothing, hrx |-> <<>>]
<1>1. IInv /\ [Next]_vars =>
        [Answered' /\ stop' = "none" /\ OnItsOwn(last'.rq) =>
           \A s \in 0..Len(Servers) : \A l \in 0..Len(Locations(1)) :
             \E env \in Environment(last'.rq) :
               LET other == [sid |-> s, lid |-> l, path |-> <<>>, body |-> Nothing, hrx |-> <<>>]
                   t == writer(reader(other, last'.rq), env)
               IN  t.out = "ok" /\ t.response = last'.response]_vars
  <2>. SUFFICES ASSUME IInv, Next, stop' = "none", OnItsOwn(last'.rq),
                       NEW s \in 0..Len(Servers), NEW l \in 0..Len(Locations(1))
                PROVE  \E env \in Environment(last'.rq) :
                         /\ writer(reader(Other(s, l), last'.rq), env).out = "ok"
                         /\ writer(reader(Other(s, l), last'.rq), env).response = last'.response
    BY DEF vars
  <2>1. PICK t \in Turns :
          /\ t.out = "ok"
          /\ last' = [rq |-> t.rq, sid |-> t.sid, lid |-> t.lid, response |-> t.response]
    <3>1. CASE Respond
      BY <3>1 DEF Respond
    <3>2. CASE EndProcess
      <4>1. PICK t \in Turns : t.out # "ok" /\ stop' = t.out
        BY <3>2 DEF EndProcess
      <4>2. PICK u : Handles(u, t)
        BY TurnsType
      <4>. QED  BY <4>1, <4>2 DEF Handles, Turn
    <3>. QED  BY <3>1, <3>2 DEF Next
  <2>2. PICK r \in Requests : \E env \in Environment(r) :
          /\ t = writer(reader(handler, r), env)
          /\ reader(handler, r) \in Turn /\ reader(handler, r).rq = r
          /\ Handles(reader(handler, r), t)
    BY TurnsType
  <2>3. PICK env \in Environment(r) :
          /\ t = writer(reader(handler, r), env)
          /\ Handles(reader(handler, r), t)
    BY <2>2
  <2>4. t.rq = r /\ last'.rq = r /\ last'.response = t.response
    BY <2>1, <2>2 DEF Handles
  <2>5. /\ \E i \in DOMAIN Servers : Servers[i].port = PortPart(r.host)
        /\ ~IsPrefix(ErrorPages, clean_url(r.url))
        /\ last.response.status # 413
    BY <2>4 DEF OnItsOwn
  <2>6. handler.body = Nothing /\ handler \in Handler /\ files \in Files
    BY <2>5 DEF IInv, Kind
  <2>7. Other(s, l) \in Handler /\ Other(s, l).body = Nothing /\ Other(s, l).sid = s
    <3>1. <<>> \in Path /\ Nothing \in Body
      BY DEF Path, Body
    <3>2. l \in Nat
      BY ServersAssumption, LocationsType
    <3>. QED  BY <3>1, <3>2 DEF Handler
  <2>. HIDE DEF Other
  <2>. DEFINE u == reader(handler, r)
              v == reader(Other(s, l), r)
  <2>8. /\ u \in Turn /\ u.rq = r /\ u.url = r.url /\ u.body = handler.body /\ u.files = files
        /\ u.response = NoResponse /\ u.status = 0
        /\ u.out \in {"ok", "undefined"}
        /\ u.out = "ok" => u.sid = set_server_id(handler.sid, r.host)
        /\ u.out = "ok" <=> r.host # <<>>
    <3>1. \A x : x = u =>
            /\ x \in Turn /\ x.rq = r /\ x.url = r.url /\ x.body = handler.body /\ x.files = files
            /\ x.response = NoResponse /\ x.status = 0
            /\ x.out \in {"ok", "undefined"}
            /\ x.out = "ok" => x.sid = set_server_id(handler.sid, r.host)
            /\ x.out = "ok" <=> r.host # <<>>
      BY <2>6, ReaderType
    <3>. QED  BY <3>1
  <2>9. /\ v \in Turn /\ v.rq = r /\ v.url = r.url /\ v.body = Nothing /\ v.files = files
        /\ v.response = NoResponse /\ v.status = 0
        /\ v.out \in {"ok", "undefined"}
        /\ v.out = "ok" => v.sid = set_server_id(s, r.host)
        /\ v.out = "ok" <=> r.host # <<>>
    <3>1. \A x : x = v =>
            /\ x \in Turn /\ x.rq = r /\ x.url = r.url /\ x.body = Other(s, l).body /\ x.files = files
            /\ x.response = NoResponse /\ x.status = 0
            /\ x.out \in {"ok", "undefined"}
            /\ x.out = "ok" => x.sid = set_server_id(Other(s, l).sid, r.host)
            /\ x.out = "ok" <=> r.host # <<>>
      BY <2>6, <2>7, ReaderType
    <3>. QED  BY <2>7, <3>1
  <2>. HIDE DEF u, v
  <2>10. u.out = "ok"
    BY <2>1, <2>3 DEF Handles, u
  <2>11. set_server_id(s, r.host) = set_server_id(handler.sid, r.host)
    BY <2>5, <2>6, ServerChosen DEF Handler
  <2>12. Alike(u, v)
    BY <2>6, <2>8, <2>9, <2>10, <2>11 DEF Alike
  <2>13. writer(u, env) = t
    BY <2>3 DEF u
  <2>14. writer(v, env) = t
    BY <2>1, <2>5, <2>8, <2>9, <2>12, <2>13, AlikeAnswered
  <2>15. env \in Environment(last'.rq) /\ v = reader(Other(s, l), last'.rq)
    BY <2>4 DEF v
  <2>. QED  BY <2>1, <2>4, <2>14, <2>15
<1>. QED  BY <1>1, Invariant, PTL DEF Spec, Independent
=============================================================================
