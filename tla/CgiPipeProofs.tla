----------------------------- MODULE CgiPipeProofs -----------------------------
(***************************************************************************)
(* Proofs about CgiPipe, for pipes of every size, and for every request    *)
(* and every script: what is in the pipes, who holds their ends, that a    *)
(* script that does not fit is never read, and that of one that does fit   *)
(* every line reaches the answer.                                          *)
(***************************************************************************)
EXTENDS CgiPipe, SequenceTheorems, WellFoundedInduction, TLAPS

\* The types, without the sizes of the pipes.
Typed == /\ rq \in Calls /\ script \in Scripts
         /\ pc \in {"start", "wait", "read", "done"} /\ open \subseteq Ends
         /\ stdin \in {"server", "out0"}
         /\ child \in {"none", "feed", "script", "dead"} /\ held \subseteq Ends
         /\ in \in Seq(Unit) /\ out \in Seq(Char)
         /\ fed \in Nat /\ eaten \in Seq(Unit) /\ printed \in Nat /\ ran \in BOOLEAN

\* As long as the child lives the server waits, with every descriptor open.
Waits == /\ (pc = "start" => child = "none")
         /\ (pc = "wait" => child # "none" /\ open = Ends)
         /\ (pc = "read" => child = "dead" /\ open = {"save0", "save1"})
         /\ (child \in {"feed", "script"} => pc = "wait")
         /\ (child \in {"none", "dead"} => held = {})
         /\ (pc = "done" => stdin = "server" /\ (child # "none" => open = {}))
         /\ (pc \in {"start", "wait"} => stdin = "server")

\* While the server waits nothing leaves "out", and what left "in" was eaten.
Counted == /\ fed <= ToFeed /\ printed <= Len(script.prints)
           /\ Len(in) <= PipeSize /\ Len(out) <= PipeSize
           /\ fed = Len(in) + Len(eaten)
           /\ (pc \in {"start", "wait"} => Len(out) = printed)
           /\ (child = "none" => fed = 0)
           /\ (child \in {"none", "feed"} => eaten = <<>> /\ printed = 0 /\ ~ran)
           /\ (child = "script" => ran)
           /\ (child \in {"script", "dead"} => fed = ToFeed /\ InputFits)
           /\ (child = "dead" /\ ran => ScriptFits)

IInv == Typed /\ Waits /\ Counted

\* What the script has printed is what is in "out" and what the server has
\* read of it, and BODY has the lines of that.
Printed == script.prints
At == printed - Len(out)
Lines == /\ (child = "dead" /\ ran => printed = Len(Printed))
         /\ (~ran => printed = 0)
         /\ (pc \in {"start", "wait"} => out = SubSeq(Printed, 1, printed))
         /\ (pc = "read" => /\ At \in Nat
                            /\ out = SubSeq(Printed, At + 1, printed)
                            /\ ReadTo(Printed)[At].start = At + 1
                            /\ BODY = ReadTo(Printed)[At].kept)
         /\ LinesKept

-----------------------------------------------------------------------------
\* Numbers and recursive functions.

\* A nonempty set of naturals has a least element.
LEMMA LeastNatural ==
  ASSUME NEW S \in SUBSET Nat, S # {}
  PROVE  \E x \in S : \A y \in S : x <= y
<1> DEFINE R == OpToRel(<, Nat)
<1>1. PICK x \in S : \A y \in S : ~ (<<y, x>> \in R)
  BY NatLessThanWellFounded, WFMin
<1>2. \A y \in S : ~ (y < x)
  BY <1>1 DEF OpToRel
<1>. QED  BY <1>2

\* A set that 0 is in, and with each number the next, has all up to n.
LEMMA UpTo ==
  ASSUME NEW n \in Nat, NEW P, 0 \in P, \A i \in 1..n : i - 1 \in P => i \in P
  PROVE  \A i \in 0..n : i \in P
<1>. DEFINE Bad == {i \in 0..n : i \notin P}
<1>1. SUFFICES ASSUME Bad # {} PROVE FALSE
  OBVIOUS
<1>2. Bad \in SUBSET Nat
  OBVIOUS
<1>. HIDE DEF Bad
<1>3. PICK i \in Bad : \A j \in Bad : i <= j
  BY <1>1, <1>2, LeastNatural
<1>4. i \in 1..n /\ i \notin P
  BY <1>3 DEF Bad
<1>5. i - 1 \in 0..n /\ i - 1 \notin Bad
  BY <1>2, <1>3, <1>4
<1>6. i - 1 \in P
  BY <1>5 DEF Bad
<1>. QED  BY <1>4, <1>6

\* n steps that stay in a set, and what they make of base.
Steps(n, T) == [1..n -> [T -> T]]
Follows(f, base, step, n) == f[0] = base /\ \A i \in 1..n : f[i] = step[i][f[i - 1]]

\* What is made step by step exists.
LEMMA StepByStep ==
  ASSUME NEW n \in Nat, NEW T, NEW base \in T, NEW step \in Steps(n, T)
  PROVE  \E f \in [0..n -> T] : Follows(f, base, step, n)
<1>. DEFINE Made(f, m) == f[0] = base /\ \A i \in 1..m : f[i] = step[i][f[i - 1]]
            P == {m \in 0..n : \E f \in [0..m -> T] : Made(f, m)}
<1>. USE DEF Steps
<1>1. 0 \in P
  <2>. DEFINE f == [i \in 0..0 |-> base]
  <2>1. f \in [0..0 -> T]
    OBVIOUS
  <2>2. Made(f, 0)
    OBVIOUS
  <2>3. 0 \in 0..n
    OBVIOUS
  <2>. HIDE DEF f, Made
  <2>. QED  BY <2>1, <2>2, <2>3
<1>2. ASSUME NEW m \in 1..n, m - 1 \in P
      PROVE  m \in P
  <2>1. PICK g \in [0..(m - 1) -> T] : Made(g, m - 1)
    BY <1>2
  <2>. DEFINE f == [i \in 0..m |-> IF i = m THEN step[m][g[m - 1]] ELSE g[i]]
  <2>2. m - 1 \in 0..(m - 1) /\ step[m] \in [T -> T]
    OBVIOUS
  <2>3. step[m][g[m - 1]] \in T
    BY <2>1, <2>2
  <2>4. \A i \in 0..m : i # m => i \in 0..(m - 1)
    OBVIOUS
  <2>5. f \in [0..m -> T]
    BY <2>1, <2>3, <2>4
  <2>6. f[0] = base
    BY <2>1
  <2>7. \A i \in 1..m : f[i] = step[i][f[i - 1]]
    <3>. TAKE i \in 1..m
    <3>1. i - 1 \in 0..(m - 1) /\ f[i - 1] = g[i - 1]
      OBVIOUS
    <3>2. CASE i = m
      BY <3>1, <3>2
    <3>3. CASE i # m
      <4>1. i \in 1..(m - 1) /\ f[i] = g[i]
        BY <3>3
      <4>2. g[i] = step[i][g[i - 1]]
        BY <2>1, <4>1
      <4>. QED  BY <3>1, <4>1, <4>2
    <3>. QED  BY <3>2, <3>3
  <2>. HIDE DEF f
  <2>8. Made(f, m)
    BY <2>6, <2>7
  <2>9. m \in 0..n
    OBVIOUS
  <2>. QED  BY <2>5, <2>8, <2>9
<1>3. n \in P
  <2>1. n \in 0..n
    OBVIOUS
  <2>. HIDE DEF P
  <2>. QED  BY <1>1, <1>2, <2>1, UpTo
<1>. QED  BY <1>3 DEF Follows

-----------------------------------------------------------------------------
\* Parts of texts, and the lines in them.

\* A part of a text is a text, and its characters are those of the text.
LEMMA Part ==
  ASSUME NEW T, NEW s \in Seq(T), NEW m \in Nat \ {0}, NEW n \in Nat, n <= Len(s)
  PROVE  /\ SubSeq(s, m, n) \in Seq(T)
         /\ Len(SubSeq(s, m, n)) = IF m <= n THEN n + 1 - m ELSE 0
         /\ \A i \in 1..(n + 1 - m) : SubSeq(s, m, n)[i] = s[m + i - 1]
OBVIOUS

\* And a part of that is a part of the text.
LEMMA PartOfPart ==
  ASSUME NEW T, NEW s \in Seq(T), NEW a \in Nat, NEW b \in Nat, a <= b, b <= Len(s),
         NEW k \in 1..(b - a), NEW l \in (k - 1)..(b - a)
  PROVE  SubSeq(SubSeq(s, a + 1, b), k, l) = SubSeq(s, a + k, a + l)
<1>. DEFINE t == SubSeq(s, a + 1, b)
<1>1. t \in Seq(T) /\ Len(t) = b - a /\ \A i \in 1..(b - a) : t[i] = s[a + i]
  <2>1. a + 1 \in Nat \ {0} /\ Len(s) \in Nat
    OBVIOUS
  <2>2. /\ t \in Seq(T)
        /\ Len(t) = IF a + 1 <= b THEN b + 1 - (a + 1) ELSE 0
        /\ \A i \in 1..(b + 1 - (a + 1)) : t[i] = s[(a + 1) + i - 1]
    BY <2>1, Part
  <2>. QED  BY <2>2
<1>. HIDE DEF t
<1>2. /\ SubSeq(t, k, l) \in Seq(T)
      /\ Len(SubSeq(t, k, l)) = l + 1 - k
      /\ \A i \in 1..(l + 1 - k) : SubSeq(t, k, l)[i] = t[k + i - 1]
  <2>1. k \in Nat \ {0} /\ l \in Nat /\ l <= Len(t)
    BY <1>1
  <2>. QED  BY <1>1, <2>1, Part
<1>3. /\ SubSeq(s, a + k, a + l) \in Seq(T)
      /\ Len(SubSeq(s, a + k, a + l)) = l + 1 - k
      /\ \A i \in 1..(l + 1 - k) : SubSeq(s, a + k, a + l)[i] = s[a + k + i - 1]
  <2>1. a + k \in Nat \ {0} /\ a + l \in Nat /\ a + l <= Len(s)
    OBVIOUS
  <2>2. /\ SubSeq(s, a + k, a + l) \in Seq(T)
        /\ Len(SubSeq(s, a + k, a + l)) = IF a + k <= a + l THEN (a + l) + 1 - (a + k) ELSE 0
        /\ \A i \in 1..((a + l) + 1 - (a + k)) : SubSeq(s, a + k, a + l)[i] = s[(a + k) + i - 1]
    BY <2>1, Part
  <2>. QED  BY <2>2
<1>4. \A i \in 1..(l + 1 - k) : t[k + i - 1] = s[a + k + i - 1]
  <2>. TAKE i \in 1..(l + 1 - k)
  <2>1. k + i - 1 \in 1..(b - a) /\ a + (k + i - 1) = a + k + i - 1
    OBVIOUS
  <2>. QED  BY <1>1, <2>1
<1>5. SubSeq(t, k, l) = SubSeq(s, a + k, a + l)
  <2>. DEFINE x == SubSeq(t, k, l)
              y == SubSeq(s, a + k, a + l)
  <2>1. x \in Seq(T) /\ y \in Seq(T) /\ Len(x) = Len(y) /\ \A i \in 1..Len(x) : x[i] = y[i]
    BY <1>2, <1>3, <1>4
  <2>. HIDE DEF x, y
  <2>2. x = y
    BY <2>1
  <2>. QED  BY <2>2 DEF x, y
<1>. QED  BY <1>5 DEF t

Known == [start : Nat \ {0}, kept : Seq(Seq(Char))]

\* One character more.
LEMMA FurtherType ==
  ASSUME NEW text \in Seq(Char), NEW n \in 1..Len(text), NEW known \in Known
  PROVE  Further(known, text, n) \in Known
<1>. DEFINE line == SubSeq(text, known.start, n - 1)
<1>1. known.start \in Nat \ {0} /\ known.kept \in Seq(Seq(Char)) /\ n - 1 \in Nat /\ n + 1 \in Nat \ {0}
  BY DEF Known
<1>2. line \in Seq(Char)
  BY <1>1, Part
<1>. HIDE DEF line
<1>3. Append(known.kept, line) \in Seq(Seq(Char))
  <2>. DEFINE S == Seq(Char)
  <2>1. known.kept \in Seq(S) /\ line \in S
    BY <1>1, <1>2
  <2>. HIDE DEF S
  <2>2. Append(known.kept, line) \in Seq(S)
    BY <2>1
  <2>. QED  BY <2>2 DEF S
<1>4. Further(known, text, n) =
        IF text[n] # "nl" THEN known
        ELSE [start |-> n + 1,
              kept  |-> IF "type" \in Range(line) \/ "powered" \in Range(line)
                        THEN known.kept ELSE Append(known.kept, line)]
  BY DEF Further, line
<1>. QED  BY <1>1, <1>3, <1>4 DEF Known

\* ReadTo goes from character to character.
LEMMA ReadToIs ==
  ASSUME NEW text \in Seq(Char)
  PROVE  /\ ReadTo(text)[0] = NothingRead
         /\ \A n \in 1..Len(text) : ReadTo(text)[n] = Further(ReadTo(text)[n - 1], text, n)
         /\ \A n \in 0..Len(text) : ReadTo(text)[n] \in Known
<1>. DEFINE m     == Len(text)
            known == CHOOSE f : f = [n \in 0..m |-> IF n = 0 THEN NothingRead ELSE Further(f[n - 1], text, n)]
            step  == [n \in 1..m |-> [k \in Known |-> Further(k, text, n)]]
<1>1. m \in Nat
  OBVIOUS
<1>2. NothingRead \in Known
  <2>. DEFINE S == Seq(Char)
  <2>1. <<>> \in Seq(S)
    OBVIOUS
  <2>. QED  BY <2>1 DEF NothingRead, Known
<1>3. step \in Steps(m, Known)
  BY FurtherType DEF Steps
<1>4. ReadTo(text) = known
  BY DEF ReadTo
<1>. HIDE DEF m, step
<1>5. PICK g \in [0..m -> Known] : Follows(g, NothingRead, step, m)
  BY <1>1, <1>2, <1>3, StepByStep
<1>6. g = [n \in 0..m |-> IF n = 0 THEN NothingRead ELSE Further(g[n - 1], text, n)]
  <2>1. \A n \in 0..m : g[n] = IF n = 0 THEN NothingRead ELSE Further(g[n - 1], text, n)
    <3>. TAKE n \in 0..m
    <3>1. CASE n = 0
      BY <1>5, <3>1 DEF Follows
    <3>2. CASE n # 0
      <4>1. n \in 1..m /\ n - 1 \in 0..m
        BY <1>1, <3>2
      <4>2. g[n - 1] \in Known /\ g[n] = step[n][g[n - 1]]
        BY <1>5, <4>1 DEF Follows
      <4>3. g[n] = Further(g[n - 1], text, n)
        BY <4>1, <4>2 DEF step
      <4>. QED  BY <3>2, <4>3
    <3>. QED  BY <3>1, <3>2
  <2>. QED  BY <2>1
<1>7. known = [n \in 0..m |-> IF n = 0 THEN NothingRead ELSE Further(known[n - 1], text, n)]
  BY <1>6
<1>. HIDE DEF known
<1>8. known[0] = NothingRead
  BY <1>1, <1>7
<1>9. \A n \in 1..m : known[n] = Further(known[n - 1], text, n)
  BY <1>1, <1>7
<1>. DEFINE P == {n \in 0..m : known[n] \in Known}
<1>10. 0 \in P
  BY <1>1, <1>2, <1>8
<1>11. ASSUME NEW n \in 1..m, n - 1 \in P
       PROVE  n \in P
  <2>1. known[n] \in Known
    BY <1>9, <1>11, FurtherType DEF m
  <2>. QED  BY <1>1, <2>1
<1>12. \A n \in 0..m : n \in P
  <2>. HIDE DEF P
  <2>. QED  BY <1>1, <1>10, <1>11, UpTo
<1>. QED  BY <1>4, <1>8, <1>9, <1>12 DEF m

\* While no line ends, nothing more is known.
LEMMA NoLineEnds ==
  ASSUME NEW text \in Seq(Char), NEW a \in 0..Len(text), NEW b \in a..Len(text),
         \A i \in (a + 1)..b : text[i] # "nl"
  PROVE  ReadTo(text)[b] = ReadTo(text)[a]
<1>. DEFINE n == b - a
            P == {k \in 0..n : ReadTo(text)[a + k] = ReadTo(text)[a]}
<1>1. n \in Nat /\ Len(text) \in Nat
  OBVIOUS
<1>2. 0 \in P
  BY <1>1
<1>3. ASSUME NEW k \in 1..n, k - 1 \in P
      PROVE  k \in P
  <2>1. a + k \in 1..Len(text) /\ a + k \in (a + 1)..b /\ (a + k) - 1 = a + (k - 1)
    BY <1>1
  <2>2. ReadTo(text)[a + k] = Further(ReadTo(text)[a + (k - 1)], text, a + k)
    BY <2>1, ReadToIs
  <2>3. Further(ReadTo(text)[a + (k - 1)], text, a + k) = ReadTo(text)[a + (k - 1)]
    BY <2>1 DEF Further
  <2>. QED  BY <1>3, <2>2, <2>3
<1>4. \A k \in 0..n : k \in P
  <2>. HIDE DEF P, n
  <2>. QED  BY <1>1, <1>2, <1>3, UpTo
<1>5. n \in P /\ a + n = b
  BY <1>1, <1>4
<1>. QED  BY <1>5

\* And when one ends that starts after a, that is all there is more.
LEMMA LineEnds ==
  ASSUME NEW text \in Seq(Char), NEW a \in 0..Len(text), NEW b \in (a + 1)..Len(text),
         \A i \in (a + 1)..(b - 1) : text[i] # "nl", text[b] = "nl",
         ReadTo(text)[a].start = a + 1
  PROVE  LET line == SubSeq(text, a + 1, b - 1)
         IN  /\ ReadTo(text)[b].start = b + 1
             /\ ReadTo(text)[b].kept =
                  IF "type" \in Range(line) \/ "powered" \in Range(line)
                  THEN ReadTo(text)[a].kept ELSE Append(ReadTo(text)[a].kept, line)
<1>1. b \in 1..Len(text) /\ b - 1 \in a..Len(text)
  OBVIOUS
<1>2. ReadTo(text)[b - 1] = ReadTo(text)[a]
  BY <1>1, NoLineEnds
<1>3. ReadTo(text)[b] = Further(ReadTo(text)[a], text, b)
  BY <1>1, <1>2, ReadToIs
<1>. QED  BY <1>3 DEF Further

-----------------------------------------------------------------------------
\* What the theorems rest on.

\* What the child feeds is a number, and at most what was declared.
LEMMA ToFeedBound == ASSUME Typed PROVE ToFeed \in Nat /\ ToFeed <= rq.cLen /\ rq.cLen \in Nat
<1> rq \in [header : Seq({"head"}), body : Seq({"body"}), cLen : Nat]
  BY CallsAssumption DEF Typed
<1>1. Text \in Seq({"head", "body"})
  BY DEF Text
<1>2. Len(Text) \in Nat /\ rq.cLen \in Nat
  BY <1>1
<1> QED BY <1>2 DEF ToFeed

\* A unit of the text is one of the two.
LEMMA TextUnit == ASSUME Typed PROVE Text \in Seq(Unit)
<1> rq \in [header : Seq({"head"}), body : Seq({"body"}), cLen : Nat]
  BY CallsAssumption DEF Typed
<1> QED BY DEF Text, Unit

\* The initial states.
LEMMA InitHolds == Init => IInv
<1> SUFFICES ASSUME Init PROVE IInv
  OBVIOUS
<1>1. in \in Seq(Unit) /\ out \in Seq(Char) /\ eaten \in Seq(Unit)
  BY DEF Init
<1>2. Typed
  BY <1>1 DEF Init, Typed
<1>3. script.prints \in Seq(Char)
  BY <1>2, ScriptsAssumption DEF Typed
<1>4. Waits
  BY DEF Init, Waits
<1>5. Counted
  BY <1>2, <1>3, ToFeedBound, PipeSizeAssumption DEF Init, Counted
<1> QED BY <1>2, <1>4, <1>5 DEF IInv

\* A step that leaves the request and the script alone leaves ToFeed alone.
LEMMA Inputs == ASSUME UNCHANGED input
                PROVE  ToFeed' = ToFeed /\ InputFits' = InputFits /\ Text' = Text
BY DEF input, ToFeed, InputFits, Text

\* The server's steps keep the types.
LEMMA ServerTyped == ASSUME IInv, Server PROVE Typed'
<1>1. CASE Start
  BY <1>1 DEF Start, IInv, Typed, Ends, input
<1>2. CASE StartFails
  BY <1>2 DEF StartFails, Leaks, IInv, Typed, Ends, input
<1>3. CASE WaitPid
  BY <1>3 DEF WaitPid, IInv, Typed, Ends, input
<1>4. CASE ReadLine
  <2>1. PICK n \in DOMAIN out : out' = SubSeq(out, n + 1, Len(out))
    BY <1>4 DEF ReadLine
  <2>2. out \in Seq(Char) /\ n \in 1..Len(out)
    BY <2>1 DEF IInv, Typed
  <2>3. out' \in Seq(Char)
    BY <2>1, <2>2
  <2> QED BY <1>4, <2>3 DEF ReadLine, IInv, Typed, input
<1>5. CASE ReadEnd
  BY <1>5 DEF ReadEnd, IInv, Typed, Ends, input
<1> QED BY <1>1, <1>2, <1>3, <1>4, <1>5 DEF Server

\* And so do the child's.
LEMMA ChildTyped == ASSUME IInv, Child PROVE Typed'
<1> USE DEF IInv
<1>1. CASE Feed
  <2>1. fed + 1 \in 1..Len(Text) /\ Text \in Seq(Unit)
    BY <1>1, TextUnit, ToFeedBound DEF Feed, ToFeed, Typed
  <2>2. in' \in Seq(Unit)
    BY <1>1, <2>1 DEF Feed, Typed
  <2> QED BY <1>1, <2>2 DEF Feed, Typed, input, parent
<1>2. CASE Exec
  BY <1>2 DEF Exec, Typed, input, parent
<1>3. CASE ExecFails
  BY <1>3 DEF ExecFails, Typed, input, parent
<1>4. CASE Eats
  <2>1. Head(in) \in Unit /\ Tail(in) \in Seq(Unit)
    BY <1>4 DEF Eats, Typed
  <2>2. eaten' \in Seq(Unit) /\ in' \in Seq(Unit)
    BY <1>4, <2>1 DEF Eats, Typed
  <2> QED BY <1>4, <2>2 DEF Eats, Typed, input, parent
<1>5. CASE Prints
  <2>1. script.prints \in Seq(Char)
    BY ScriptsAssumption DEF Typed
  <2>2. script.prints[printed + 1] \in Char
    BY <1>5, <2>1 DEF Prints, Typed
  <2>3. out' \in Seq(Char)
    BY <1>5, <2>2 DEF Prints, Typed
  <2> QED BY <1>5, <2>3 DEF Prints, Typed, input, parent
<1>6. CASE Exit
  BY <1>6 DEF Exit, Typed, input, parent
<1> QED BY <1>1, <1>2, <1>3, <1>4, <1>5, <1>6 DEF Child

\* Every step keeps what Waits says.
LEMMA WaitsHolds == ASSUME IInv, Next PROVE Waits'
<1> USE DEF IInv
<1>1. CASE Start
  BY <1>1 DEF Start, Waits, Typed
<1>2. CASE StartFails
  BY <1>2 DEF StartFails, Waits, Typed
<1>3. CASE WaitPid
  BY <1>3 DEF WaitPid, Waits, Typed
<1>4. CASE ReadLine
  BY <1>4 DEF ReadLine, Waits, Typed
<1>5. CASE ReadEnd
  BY <1>5 DEF ReadEnd, Waits, Typed
<1>6. CASE Feed
  BY <1>6 DEF Feed, Waits, Typed, parent
<1>7. CASE Exec
  BY <1>7 DEF Exec, Waits, Typed, parent
<1>8. CASE ExecFails
  BY <1>8 DEF ExecFails, Waits, Typed, parent
<1>9. CASE Eats
  BY <1>9 DEF Eats, Waits, Typed, parent
<1>10. CASE Prints
  BY <1>10 DEF Prints, Waits, Typed, parent
<1>11. CASE Exit
  BY <1>11 DEF Exit, Waits, Typed, parent
<1> QED BY <1>1, <1>2, <1>3, <1>4, <1>5, <1>6, <1>7, <1>8, <1>9, <1>10, <1>11
        DEF Next, Server, Child

\* The server's steps keep the counts: it takes nothing out of "out" before
\* the child is dead.
LEMMA ServerCounted == ASSUME IInv, Server PROVE Counted'
<1> USE DEF IInv
<1>1. PipeSize \in Nat /\ Len(out) \in Nat
  BY PipeSizeAssumption DEF Typed
<1>2. CASE Start
  BY <1>2, Inputs DEF Start, Counted, Waits, ScriptFits, input
<1>3. CASE StartFails
  BY <1>3, Inputs DEF StartFails, Counted, Waits, ScriptFits, input
<1>4. CASE WaitPid
  BY <1>4, Inputs DEF WaitPid, Counted, Waits, ScriptFits, input
<1>5. CASE ReadLine
  <2>1. PICK n \in DOMAIN out : out' = SubSeq(out, n + 1, Len(out))
    BY <1>5 DEF ReadLine
  <2>2. out \in Seq(Char) /\ n \in 1..Len(out)
    BY <2>1 DEF Typed
  <2>3. Len(out') <= Len(out)
    BY <2>1, <2>2
  <2>4. Len(out') \in Nat
    BY <2>1, <2>2
  <2>5. Len(out') <= PipeSize
    BY <1>1, <2>3, <2>4 DEF Counted
  <2> QED BY <1>5, <2>5, Inputs DEF ReadLine, Counted, Waits, ScriptFits, input
<1>6. CASE ReadEnd
  <2>1. Len(out') <= PipeSize
    BY <1>1, <1>6 DEF ReadEnd
  <2> QED BY <1>6, <2>1, Inputs DEF ReadEnd, Counted, Waits, ScriptFits, input
<1> QED BY <1>2, <1>3, <1>4, <1>5, <1>6 DEF Server

\* When the script exits all it printed is still in "out", and it has read
\* what it wanted: the server holds "in1", so that it met no end.
LEMMA ExitFits == ASSUME IInv, Exit PROVE ScriptFits
<1>1. ~AtEnd(in, "in1")
  BY DEF IInv, Exit, Waits, AtEnd, Ends
<1>2. ~script.toEnd /\ Len(eaten) = script.eats
  BY <1>1 DEF Exit, Sated
<1>3. Len(in) \in Nat /\ Len(eaten) \in Nat /\ ToFeed \in Nat
  BY ToFeedBound DEF IInv, Typed
<1>4. script.eats <= ToFeed
  BY <1>2, <1>3 DEF IInv, Counted, Exit
<1>5. Len(script.prints) <= PipeSize
  BY DEF IInv, Counted, Waits, Exit
<1> QED BY <1>2, <1>4, <1>5 DEF ScriptFits

\* The child's steps keep the counts.
LEMMA ChildCounted == ASSUME IInv, Child PROVE Counted'
<1> USE DEF IInv
<1>1. /\ PipeSize \in Nat /\ ToFeed \in Nat
      /\ Len(in) \in Nat /\ Len(out) \in Nat /\ Len(eaten) \in Nat /\ fed \in Nat
  BY PipeSizeAssumption, ToFeedBound DEF Typed
<1>2. CASE Feed
  <2>1. Len(in') = Len(in) + 1
    BY <1>2 DEF Feed, Typed
  <2>2. Len(in') <= PipeSize /\ fed' <= ToFeed /\ fed' = Len(in') + Len(eaten)
    BY <1>1, <1>2, <2>1 DEF Feed, Room, Counted
  <2> QED BY <1>2, <2>2, Inputs DEF Feed, Counted, ScriptFits, input, parent
<1>3. CASE Exec
  <2>1. Len(eaten) = 0
    BY <1>3 DEF Exec, Counted
  <2>2. InputFits
    BY <1>1, <1>3, <2>1 DEF Exec, Counted, InputFits
  <2> QED BY <1>3, <2>2, Inputs DEF Exec, Counted, Waits, ScriptFits, input, parent
<1>4. CASE ExecFails
  <2>1. Len(eaten) = 0
    BY <1>4 DEF ExecFails, Counted
  <2>2. InputFits
    BY <1>1, <1>4, <2>1 DEF ExecFails, Counted, InputFits
  <2> QED BY <1>4, <2>2, Inputs DEF ExecFails, Counted, Waits, ScriptFits, input, parent
<1>5. CASE Eats
  <2>1. Len(in') = Len(in) - 1 /\ Len(eaten') = Len(eaten) + 1
    BY <1>5 DEF Eats, Typed
  <2>2. Len(in') <= PipeSize /\ fed = Len(in') + Len(eaten')
    BY <1>1, <2>1 DEF Counted
  <2> QED BY <1>5, <2>2, Inputs DEF Eats, Counted, ScriptFits, input, parent
<1>6. CASE Prints
  <2>1. script.prints \in Seq(Char)
    BY ScriptsAssumption DEF Typed
  <2>2. Len(out') = Len(out) + 1 /\ printed \in Nat /\ Len(script.prints) \in Nat
    BY <1>6, <2>1 DEF Prints, Typed
  <2>3. /\ Len(out') <= PipeSize /\ printed' <= Len(script.prints)
        /\ (pc \in {"start", "wait"} => Len(out') = printed')
    BY <1>1, <1>6, <2>2 DEF Prints, Room, Counted
  <2> QED BY <1>6, <2>3, Inputs DEF Prints, Counted, Waits, ScriptFits, input, parent
<1>7. CASE Exit
  <2>1. ScriptFits
    BY <1>7, ExitFits
  <2> QED BY <1>7, <2>1, Inputs DEF Exit, Counted, Waits, ScriptFits, input, parent
<1> QED BY <1>2, <1>3, <1>4, <1>5, <1>6, <1>7 DEF Child

\* Nothing changes in a stuttering step.
LEMMA StutterHolds == ASSUME IInv, UNCHANGED vars PROVE IInv'
BY Inputs DEF IInv, Typed, Waits, Counted, ScriptFits, vars, input

\* The invariant the theorems rest on is one.
LEMMA InvariantHolds == Spec => []IInv
<1>1. Init => IInv
  BY InitHolds
<1>2. IInv /\ [Next]_vars => IInv'
  <2> SUFFICES ASSUME IInv, [Next]_vars PROVE IInv'
    OBVIOUS
  <2>1. CASE Server
    BY <2>1, ServerTyped, ServerCounted, WaitsHolds DEF Next, IInv
  <2>2. CASE Child
    BY <2>2, ChildTyped, ChildCounted, WaitsHolds DEF Next, IInv
  <2>3. CASE UNCHANGED vars
    BY <2>3, StutterHolds
  <2> QED BY <2>1, <2>2, <2>3 DEF Next
<1> QED BY <1>1, <1>2, PTL DEF Spec

\* go_cgi and its child keep their types, no pipe holds more than it can, and
\* no script is fed more than was declared.
THEOREM TypeCorrect == Spec => []TypeOK
<1>1. ASSUME IInv PROVE TypeOK
  <2>1. fed \in 0..rq.cLen
    BY <1>1, ToFeedBound DEF IInv, Typed, Counted
  <2>2. script.prints \in Seq(Char)
    BY <1>1, ScriptsAssumption DEF IInv, Typed
  <2>3. printed \in 0..Len(script.prints)
    BY <1>1, <2>2 DEF IInv, Typed, Counted
  <2> QED BY <1>1, <2>1, <2>3 DEF IInv, Typed, Counted, TypeOK
<1> QED BY <1>1, InvariantHolds, PTL

\* A request or a script that does not fit into the pipes is never read back:
\* go_cgi, and with it the loop of the server, waits for it for ever.
THEOREM OnlyWhatFitsReturns == Spec => []ReturnsOnlyIfFits
<1>1. ASSUME IInv PROVE ReturnsOnlyIfFits
  BY <1>1 DEF IInv, Typed, Waits, Counted, ReturnsOnlyIfFits
<1> QED BY <1>1, InvariantHolds, PTL

\* A script that was started leaves no descriptor behind, and descriptor 0 is
\* the server's own again.
THEOREM DescriptorsAreBack == Spec => []DescriptorsBack
<1>1. ASSUME IInv PROVE DescriptorsBack
  BY <1>1 DEF IInv, Typed, Waits, DescriptorsBack
<1> QED BY <1>1, InvariantHolds, PTL

\* The initial states.
LEMMA LinesAtFirst == IInv /\ Init => Lines
<1>. SUFFICES ASSUME IInv, Init PROVE Lines
  OBVIOUS
<1>1. Printed \in Seq(Char)
  BY ScriptsAssumption DEF IInv, Typed, Printed
<1>2. SubSeq(Printed, 1, 0) = <<>>
  BY <1>1
<1>. QED  BY <1>2 DEF Init, Lines, LinesKept

\* The child prints behind what is in "out".
LEMMA ChildLines == ASSUME IInv, Lines, Child PROVE Lines'
<1>1. Printed \in Seq(Char) /\ Printed' = Printed
  BY ScriptsAssumption DEF IInv, Typed, Printed, Child, Feed, Exec, ExecFails, Eats, Prints, Exit, input
<1>2. pc = "wait" /\ pc' = "wait"
  BY DEF IInv, Waits, Child, Feed, Exec, ExecFails, Eats, Prints, Exit, parent
<1>3. CASE Feed \/ Exec \/ ExecFails \/ Eats
  BY <1>1, <1>2, <1>3 DEF IInv, Counted, Lines, LinesKept, Feed, Exec, ExecFails, Eats
<1>4. CASE Exit
  BY <1>1, <1>2, <1>4 DEF IInv, Counted, Lines, LinesKept, Exit, Printed
<1>5. CASE Prints
  <2>1. printed \in Nat /\ printed < Len(Printed) /\ out = SubSeq(Printed, 1, printed)
    BY <1>2, <1>5 DEF IInv, Typed, Lines, Prints, Printed
  <2>2. Append(SubSeq(Printed, 1, printed), Printed[printed + 1]) = SubSeq(Printed, 1, printed + 1)
    <3>. DEFINE x == SubSeq(Printed, 1, printed)
                y == SubSeq(Printed, 1, printed + 1)
    <3>1. x \in Seq(Char) /\ Len(x) = printed /\ \A i \in 1..printed : x[i] = Printed[i]
      BY <1>1, <2>1
    <3>2. y \in Seq(Char) /\ Len(y) = printed + 1 /\ \A i \in 1..(printed + 1) : y[i] = Printed[i]
      BY <1>1, <2>1
    <3>3. Printed[printed + 1] \in Char
      BY <1>1, <2>1
    <3>. HIDE DEF x, y
    <3>4. Append(x, Printed[printed + 1]) = y
      BY <2>1, <3>1, <3>2, <3>3
    <3>. QED  BY <3>4 DEF x, y
  <2>3. out' = SubSeq(Printed, 1, printed') /\ printed' = printed + 1
    BY <1>5, <2>1, <2>2 DEF Prints, Printed
  <2>4. ran /\ child' = "script"
    BY <1>5 DEF IInv, Counted, Prints
  <2>. QED  BY <1>1, <1>2, <1>5, <2>3, <2>4 DEF Lines, LinesKept, Prints
<1>. QED  BY <1>3, <1>4, <1>5 DEF Child

\* The server takes line after line, until no end of one is left.
LEMMA ServerLines == ASSUME IInv, Lines, Server PROVE Lines'
<1>1. Printed \in Seq(Char) /\ Printed' = Printed /\ printed \in 0..Len(Printed) /\ printed' = printed
  BY ScriptsAssumption DEF IInv, Typed, Counted, Printed, Server, Start, StartFails, WaitPid, ReadLine, ReadEnd, input
<1>2. CASE Start \/ StartFails
  BY <1>1, <1>2 DEF IInv, Waits, Counted, Lines, LinesKept, Start, StartFails
<1>3. CASE WaitPid
  <2>1. out' = SubSeq(Printed, 1, printed) /\ out' = out /\ pc' = "read" /\ BODY' = <<>>
    BY <1>3 DEF Lines, WaitPid
  <2>2. Len(out') = printed
    BY <1>3 DEF IInv, Counted, WaitPid
  <2>3. printed - Len(out') = 0
    BY <1>1, <2>2
  <2>4. ReadTo(Printed)[0].start = 1 /\ ReadTo(Printed)[0].kept = <<>>
    BY <1>1, ReadToIs DEF NothingRead
  <2>. QED  BY <1>1, <1>3, <2>1, <2>3, <2>4 DEF Lines, LinesKept, WaitPid, At
<1>4. CASE ReadLine
  <2>1. PICK n \in DOMAIN out :
          /\ rec_gnl(n)
          /\ BODY' = IF Diverted(SubSeq(out, 1, n - 1)) THEN BODY ELSE Append(BODY, SubSeq(out, 1, n - 1))
          /\ out' = SubSeq(out, n + 1, Len(out))
    BY <1>4 DEF ReadLine
  <2>2. PICK a : a = At
    OBVIOUS
  <2>3. PICK p : p = printed
    OBVIOUS
  <2>4. /\ a \in Nat /\ p \in 0..Len(Printed) /\ out = SubSeq(Printed, a + 1, p)
        /\ ReadTo(Printed)[a].start = a + 1 /\ BODY = ReadTo(Printed)[a].kept
        /\ out \in Seq(Char) /\ Len(out) = p - a /\ a <= p
    <3>1. pc = "read" /\ out \in Seq(Char)
      BY <1>4 DEF ReadLine, IInv, Typed
    <3>2. Len(out) \in Nat /\ a = p - Len(out) /\ a \in Nat /\ p \in 0..Len(Printed)
      BY <1>1, <2>2, <2>3, <3>1 DEF Lines, At
    <3>. QED  BY <2>2, <2>3, <3>1, <3>2 DEF Lines
  <2>5. n \in 1..(p - a) /\ Len(Printed) \in Nat
    BY <1>1, <2>4
  <2>6. \A i \in 1..(p - a) : out[i] = Printed[a + i]
    <3>1. a + 1 \in Nat \ {0} /\ p \in Nat /\ p <= Len(Printed) /\ (p + 1) - (a + 1) = p - a
      BY <2>4, <2>5
    <3>2. \A i \in 1..((p + 1) - (a + 1)) : SubSeq(Printed, a + 1, p)[i] = Printed[(a + 1) + i - 1]
      BY <1>1, <3>1, Part
    <3>3. \A i \in 1..(p - a) : out[i] = Printed[(a + 1) + i - 1]
      BY <2>4, <3>1, <3>2
    <3>. QED  BY <2>4, <3>3
  <2>7. Printed[a + n] = "nl" /\ \A i \in 1..(n - 1) : out[i] # "nl"
    <3>1. out[n] = "nl" /\ "nl" \notin Range(SubSeq(out, 1, n - 1))
      BY <2>1 DEF rec_gnl
    <3>2. n - 1 \in Nat /\ n - 1 <= Len(out) /\ 1 \in Nat \ {0}
      BY <2>4, <2>5
    <3>3. SubSeq(out, 1, n - 1) \in Seq(Char) /\ Len(SubSeq(out, 1, n - 1)) = n - 1
          /\ \A i \in 1..(n - 1) : SubSeq(out, 1, n - 1)[i] = out[i]
      BY <2>4, <3>2
    <3>4. \A i \in 1..(n - 1) : SubSeq(out, 1, n - 1)[i] # "nl"
      BY <3>1, <3>2, <3>3 DEF Range
    <3>. QED  BY <2>5, <2>6, <3>1, <3>3, <3>4
  <2>8. \A i \in (a + 1)..((a + n) - 1) : Printed[i] # "nl"
    <3>. TAKE i \in (a + 1)..((a + n) - 1)
    <3>1. i - a \in 1..(n - 1) /\ i - a \in 1..(p - a) /\ a + (i - a) = i
      BY <2>4, <2>5
    <3>. QED  BY <2>6, <2>7, <3>1
  <2>9. SubSeq(out, 1, n - 1) = SubSeq(Printed, a + 1, (a + n) - 1)
    <3>1. 1 \in 1..(p - a) /\ n - 1 \in (1 - 1)..(p - a) /\ a + (n - 1) = (a + n) - 1
      BY <2>4, <2>5
    <3>2. p \in Nat /\ p <= Len(Printed)
      BY <2>4, <2>5
    <3>3. SubSeq(SubSeq(Printed, a + 1, p), 1, n - 1) = SubSeq(Printed, a + 1, a + (n - 1))
      BY <1>1, <2>4, <3>1, <3>2, PartOfPart
    <3>. QED  BY <2>4, <3>1, <3>3
  <2>10. out' = SubSeq(Printed, (a + n) + 1, p) /\ Len(out') = p - (a + n)
    <3>1. CASE n = p - a
      <4>1. SubSeq(out, n + 1, Len(out)) = <<>> /\ SubSeq(Printed, (a + n) + 1, p) = <<>>
        BY <1>1, <2>4, <2>5, <3>1
      <4>. QED  BY <2>1, <2>4, <2>5, <3>1, <4>1
    <3>2. CASE n # p - a
      <4>1. n + 1 \in 1..(p - a) /\ p - a \in ((n + 1) - 1)..(p - a) /\ a + (p - a) = p /\ a + (n + 1) = (a + n) + 1
        BY <2>4, <2>5, <3>2
      <4>2. p \in Nat /\ p <= Len(Printed)
        BY <2>4, <2>5
      <4>3. SubSeq(SubSeq(Printed, a + 1, p), n + 1, p - a) = SubSeq(Printed, a + (n + 1), a + (p - a))
        BY <1>1, <2>4, <4>1, <4>2, PartOfPart
      <4>4. out' = SubSeq(Printed, (a + n) + 1, p)
        BY <2>1, <2>4, <4>1, <4>3
      <4>5. Len(out) \in Nat /\ n + 1 \in Nat /\ n + 1 <= Len(out) /\ Len(out) - n = p - (a + n)
        BY <2>4, <4>1
      <4>6. Len(SubSeq(out, n + 1, Len(out))) = Len(out) - n
        <5>. PICK q : q = out
          OBVIOUS
        <5>1. q \in Seq(Char) /\ n + 1 \in Nat /\ n + 1 <= Len(q) /\ n \in Nat \ {0}
          BY <2>4, <2>5, <4>5
        <5>2. Len(SubSeq(q, n + 1, Len(q))) = Len(q) - n
          BY <5>1
        <5>. QED  BY <5>2
      <4>7. Len(out') = p - (a + n)
        BY <2>1, <4>5, <4>6
      <4>. QED  BY <4>4, <4>7
    <3>. QED  BY <3>1, <3>2
  <2>11. /\ ReadTo(Printed)[a + n].start = (a + n) + 1
         /\ BODY' = ReadTo(Printed)[a + n].kept
    <3>1. a \in 0..Len(Printed) /\ a + n \in (a + 1)..Len(Printed)
      BY <2>4, <2>5
    <3>2. LET line == SubSeq(Printed, a + 1, (a + n) - 1)
          IN  /\ ReadTo(Printed)[a + n].start = (a + n) + 1
              /\ ReadTo(Printed)[a + n].kept =
                   IF "type" \in Range(line) \/ "powered" \in Range(line)
                   THEN ReadTo(Printed)[a].kept ELSE Append(ReadTo(Printed)[a].kept, line)
      BY <1>1, <2>4, <2>7, <2>8, <3>1, LineEnds
    <3>3. PICK line : line = SubSeq(Printed, a + 1, (a + n) - 1)
      OBVIOUS
    <3>4. Diverted(line) <=> "type" \in Range(line) \/ "powered" \in Range(line)
      BY DEF Diverted
    <3>5. BODY' = IF Diverted(line) THEN BODY ELSE Append(BODY, line)
      BY <2>1, <2>9, <3>3
    <3>. QED  BY <2>4, <3>2, <3>3, <3>4, <3>5
  <2>12. At' = a + n
    <3>1. At' = p - Len(out')
      BY <1>1, <2>3 DEF At
    <3>. QED  BY <2>4, <2>5, <2>10, <3>1
  <2>13. pc' = "read" /\ printed' = p /\ a + n \in Nat
    BY <1>1, <1>4, <2>3, <2>4, <2>5 DEF ReadLine
  <2>. QED  BY <1>1, <1>4, <2>10, <2>11, <2>12, <2>13 DEF Lines, LinesKept, ReadLine
<1>5. CASE ReadEnd
  <2>1. pc = "read" /\ child = "dead" /\ "nl" \notin Range(out) /\ out \in Seq(Char)
    BY <1>5 DEF ReadEnd, IInv, Waits, Typed
  <2>2. PICK a : a = At
    OBVIOUS
  <2>3. a \in Nat /\ Len(out) \in Nat /\ a = printed - Len(out)
    BY <2>1, <2>2 DEF Lines, At
  <2>7. out = SubSeq(Printed, a + 1, printed) /\ BODY = ReadTo(Printed)[a].kept
    BY <2>1, <2>2 DEF Lines
  <2>4. CASE ran
    <3>1. printed = Len(Printed) /\ Len(Printed) \in Nat
      BY <1>1, <2>1, <2>4 DEF Lines
    <3>2. \A i \in 1..Len(out) : out[i] # "nl"
      BY <2>1 DEF Range
    <3>3. \A i \in 1..Len(out) : out[i] = Printed[a + i]
      <4>1. a + 1 \in Nat \ {0} /\ printed \in Nat /\ printed <= Len(Printed) /\ (printed + 1) - (a + 1) = Len(out)
        BY <2>3, <3>1
      <4>2. \A i \in 1..((printed + 1) - (a + 1)) : SubSeq(Printed, a + 1, printed)[i] = Printed[(a + 1) + i - 1]
        BY <1>1, <4>1, Part
      <4>3. \A i \in 1..Len(out) : out[i] = Printed[(a + 1) + i - 1]
        BY <2>7, <4>1, <4>2
      <4>4. \A i \in 1..Len(out) : (a + 1) + i - 1 = a + i
        BY <2>3
      <4>. QED  BY <4>3, <4>4
    <3>4. \A i \in (a + 1)..Len(Printed) : Printed[i] # "nl"
      <4>. TAKE i \in (a + 1)..Len(Printed)
      <4>1. i - a \in 1..Len(out) /\ a + (i - a) = i
        BY <2>3, <3>1
      <4>. QED  BY <3>2, <3>3, <4>1
    <3>5. a \in 0..Len(Printed) /\ Len(Printed) \in a..Len(Printed)
      BY <2>3, <3>1
    <3>6. ReadTo(Printed)[Len(Printed)] = ReadTo(Printed)[a]
      BY <1>1, <3>4, <3>5, NoLineEnds
    <3>7. BODY' = ReadTo(Printed)[Len(Printed)].kept /\ ran' /\ pc' = "done" /\ child' = child
      BY <1>5, <2>7, <2>4, <3>6 DEF ReadEnd
    <3>. QED  BY <1>1, <2>1, <3>1, <3>7 DEF Lines, LinesKept, Printed
  <2>5. CASE ~ran
    <3>1. printed = 0
      BY <2>5 DEF Lines
    <3>2. a = 0
      BY <2>3, <3>1
    <3>3. BODY = <<>>
      BY <1>1, <2>7, <3>2, ReadToIs DEF NothingRead
    <3>4. BODY' = <<>> /\ ~ran' /\ pc' = "done" /\ printed' = 0
      BY <1>5, <2>5, <3>1, <3>3 DEF ReadEnd
    <3>. QED  BY <3>4 DEF Lines, LinesKept
  <2>6. ran \in BOOLEAN
    BY DEF IInv, Typed
  <2>. QED  BY <2>4, <2>5, <2>6
<1>. QED  BY <1>2, <1>3, <1>4, <1>5 DEF Server

\* For every request, every script and every size of the pipes: when go_cgi
\* returns, BODY has every line the script has ended, in order and whole, but
\* those with a header of PHP, and nothing else.
THEOREM LinesAreKept == Spec => []LinesKept
<1>1. Init /\ IInv => Lines
  BY LinesAtFirst
<1>2. IInv /\ Lines /\ [Next]_vars => Lines'
  <2>. SUFFICES ASSUME IInv, Lines, [Next]_vars PROVE Lines'
    OBVIOUS
  <2>1. CASE Server
    BY <2>1, ServerLines
  <2>2. CASE Child
    BY <2>2, ChildLines
  <2>3. CASE UNCHANGED vars
    BY <2>3 DEF Lines, LinesKept, Printed, At, vars
  <2>. QED  BY <2>1, <2>2, <2>3 DEF Next
<1>3. Lines => LinesKept
  BY DEF Lines
<1>. QED  BY <1>1, <1>2, <1>3, InvariantHolds, PTL DEF Spec
================================================================================
