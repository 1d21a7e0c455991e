----------------------------- MODULE LogStoreProofs -----------------------------
(***************************************************************************)
(* The visible log is the end of what was shown (model.rs, model/memory.rs)*)
(* and a TUI that has drawn shows it (micromux-tui lib.rs, render.rs), for *)
(* every retention limit, size of a line and of the histories, and for     *)
(* every number of runs, writes and insertions of the service.             *)
(*                                                                         *)
(* `Faithful` holds of the entry in every state: its lines are the end of  *)
(* the stream that was shown, which is in the order of its numbers and of  *)
(* its runs, and the byte count is the sum over the lines.  The count is   *)
(* what a push subtracts from and compares with the limit, so that it is   *)
(* needed for a push that keeps to the limit; the last line of both must   *)
(* stay the same one, because it is what a live screen replaces.           *)
(*                                                                         *)
(* ViewFresh speaks of quiet states only.  What holds in between (`Heard`) *)
(* is that the cache is aligned with the log (`Aligned`: what both hold is *)
(* the end of the cache and the beginning of the log, and only the last of *)
(* it may have an older text) and that a change is on its way or the cache *)
(* is dirty, unless the cache is the log.  Drawing drops the beginning of  *)
(* the cache, fetches the last line again and what follows it, and so      *)
(* turns an aligned cache into the log; every write keeps it aligned.      *)
(*                                                                         *)
(* SumOf, Rebuilt and Cached recur over the number of lines.  What they    *)
(* compute is proved by induction for a set of numbers (`Induction`), from *)
(* a function that `Recursion` shows to exist.                             *)
(***************************************************************************)
EXTENDS LogStore, SequenceTheorems, FiniteSetTheorems, WellFoundedInduction, TLAPS

\* The types of a line of the log, of the cache and of the history, of a buffer,
\* a retention, a run, the entry and the TUI's view.
Lines == [seq : Nat \ {0}, run : Nat, text : Nat, size : Nat]
Texts == [seq : Nat \ {0}, text : Nat]
ShownLines == [seq : Nat \ {0}, run : Nat, text : Nat]
Buffers == [lines : Seq(Lines), bytes : Nat]
Limits == [lines : Nat \ {0}, bytes : Nat \ {0}, runs : Nat \ {0}]
Runs == [gen : Nat, last : Nat, live : Nat]
Entries ==
  [begun : Nat, runs : Seq(Runs), visible : Buffers, nextSeq : Nat \ {0},
   retention : Limits, health : Seq([run : Nat, done : BOOLEAN]), nextEvent : Nat \ {0}]
Views == [known : BOOLEAN, lines : Seq(Texts), dirty : BOOLEAN]

TypeOK ==
  /\ entry \in Entries /\ alive \in BOOLEAN /\ updates \in Nat
  /\ pending \in SUBSET Kinds /\ view \in Views
  /\ shown \in Seq(ShownLines) /\ reused \in BOOLEAN

\* A run is retained once.
Once(runs) == \A i, j \in DOMAIN runs : runs[i].gen = runs[j].gen => i = j

\* Lines are in the order of their numbers, all of them below the next one.
Increasing(lines) == \A i, j \in DOMAIN lines : i < j => lines[i].seq < lines[j].seq
Below(lines, next) == \A i \in DOMAIN lines : lines[i].seq < next

\* A stream is in the order of its numbers and of its runs.
Ordered(stream, next, begun) ==
  /\ Increasing(stream) /\ Below(stream, next)
  /\ \A i, j \in DOMAIN stream : i < j => stream[i].run <= stream[j].run
  /\ \A i \in DOMAIN stream : stream[i].run <= begun

InOrder == Ordered(shown, entry.nextSeq, entry.begun) /\ (~alive => shown = <<>>)

\* The line n is the line m of the stream.
SameLine(n, m) == n.seq = m.seq /\ n.text = m.text

\* A log is the end of the stream.
EndOf(lines, stream) ==
  /\ Len(lines) <= Len(stream)
  /\ \A i \in DOMAIN lines : SameLine(lines[i], stream[(Len(stream) - Len(lines)) + i])

\* A buffer counts its bytes, and keeps to its limits.
Counts(buffer) == buffer.bytes = SumOf(buffer.lines)
Within(buffer, limits) ==
  buffer.bytes <= limits.bytes /\ Len(buffer.lines) <= limits.lines

\* Every retained health attempt is one of the latest run.
OwnHealth(e) == \A i \in DOMAIN e.health : e.health[i].run = e.begun

Faithful(e, stream) ==
  /\ EndOf(e.visible.lines, stream) /\ (stream # <<>> => e.visible.lines # <<>>)
  /\ Counts(e.visible) /\ Within(e.visible, e.retention) /\ OwnHealth(e)

\* While the service is in the roster its entry is faithful to the stream.
Visible == alive => Faithful(entry, shown)

\* The number below which nothing is retained.
Floor(lines, next) == IF lines = <<>> THEN next ELSE lines[1].seq

\* The last k lines of a cache are the first k of the log, the last of them
\* perhaps with an older text; those before are no longer retained.
Agrees(cache, lines, next, k) ==
  /\ k \in 0 .. Len(cache) /\ k <= Len(lines)
  /\ \A i \in DOMAIN cache : i <= Len(cache) - k => cache[i].seq < Floor(lines, next)
  /\ \A i \in 1 .. k : /\ cache[(Len(cache) - k) + i].seq = lines[i].seq
                       /\ i < k => cache[(Len(cache) - k) + i].text = lines[i].text
Aligned(cache, lines, next) == \E k \in Nat : Agrees(cache, lines, next, k)

\* Unless the id was used again unseen, the TUI lists a service that exists or
\* will hear that it does not, and its cache is aligned with the log: it will
\* draw again, or it shows it.
Heard ==
  ~reused =>
    /\ view.known # alive => "roster" \in pending
    /\ ~view.known => view.lines = <<>> /\ ~view.dirty
    /\ (view.known /\ alive) =>
         /\ Aligned(view.lines, entry.visible.lines, entry.nextSeq)
         /\ view.dirty \/ pending # {} \/ view.lines = Bare(entry.visible.lines)

\* The inductive invariant.
IInv == TypeOK /\ Once(entry.runs) /\ InOrder /\ Visible /\ Heard

-----------------------------------------------------------------------------
(* Induction and recursion over numbers.                                     *)

\* Induction over the numbers up to n, for a set instead of a predicate.
LEMMA Induction ==
  ASSUME NEW n \in Nat, NEW P, 0 \in P, \A k \in 0 .. n - 1 : k \in P => k + 1 \in P
  PROVE  \A k \in 0 .. n : k \in P
<1> SUFFICES ASSUME NEW k \in 0 .. n, k \notin P  PROVE FALSE
  OBVIOUS
<1> DEFINE B == {j \in 0 .. n : j \notin P}
<1>1. PICK x \in B : \A y \in B : ~(<<y, x>> \in OpToRel(<, Nat))
  <2>1. B \subseteq Nat /\ k \in B
    OBVIOUS
  <2> HIDE DEF B
  <2> QED  BY <2>1, WFMin, NatLessThanWellFounded, Zenon
<1>2. x \in 0 .. n /\ x # 0 /\ x - 1 \in 0 .. n - 1 /\ (x - 1) + 1 = x
  OBVIOUS
<1>3. x - 1 \in B
  BY <1>2
<1>4. <<x - 1, x>> \in OpToRel(<, Nat)
  <2>1. <<x - 1, x>> \in Nat \X Nat /\ <<x - 1, x>>[1] < <<x - 1, x>>[2]
    BY <1>2
  <2> QED  BY <2>1, Zenon DEF OpToRel
<1> HIDE DEF B
<1> QED  BY <1>1, <1>3, <1>4, Zenon

\* A set of numbers has a least one.
LEMMA LeastOf ==
  ASSUME NEW S \in SUBSET Nat, S # {}
  PROVE  \E n \in S : \A m \in S : n <= m
<1>1. PICK x \in S : \A y \in S : ~(<<y, x>> \in OpToRel(<, Nat))
  BY WFMin, NatLessThanWellFounded, Zenon
<1>2. ASSUME NEW y \in S  PROVE x <= y
  <2> SUFFICES ASSUME y < x  PROVE FALSE
    OBVIOUS
  <2>1. <<y, x>> \in Nat \X Nat /\ <<y, x>>[1] < <<y, x>>[2]
    OBVIOUS
  <2>2. <<y, x>> \in OpToRel(<, Nat)
    BY <2>1, Zenon DEF OpToRel
  <2> QED  BY <1>1, <2>2
<1> QED  BY <1>2

\* A step for each number up to N has a function that takes them.
Closed(N, X, G) == \A n \in 1 .. N, v \in X : G[n][v] \in X
Steps(f, N, X, x, G) ==
  f \in [0 .. N -> X] /\ f[0] = x /\ \A n \in 1 .. N : f[n] = G[n][f[n - 1]]

LEMMA Recursion ==
  ASSUME NEW N \in Nat, NEW X, NEW x \in X, NEW G, Closed(N, X, G)
  PROVE  \E f : Steps(f, N, X, x, G)
<1> DEFINE Takes(f, k) == f[0] = x /\ \A n \in 1 .. k : f[n] = G[n][f[n - 1]]
           P == {k \in 0 .. N : \E f \in [0 .. k -> X] : Takes(f, k)}
<1>1. 0 \in P
  <2>1. [n \in 0 .. 0 |-> x] \in [0 .. 0 -> X] /\ Takes([n \in 0 .. 0 |-> x], 0)
    OBVIOUS
  <2>2. 0 \in 0 .. N
    OBVIOUS
  <2> HIDE DEF Takes
  <2> QED  BY <2>1, <2>2
<1>2. ASSUME NEW k \in 0 .. N - 1, k \in P  PROVE k + 1 \in P
  <2>1. PICK f \in [0 .. k -> X] : Takes(f, k)
    BY <1>2
  <2> DEFINE g == [n \in 0 .. k + 1 |-> IF n <= k THEN f[n] ELSE G[k + 1][f[k]]]
  <2>2. k + 1 \in 1 .. N /\ k \in 0 .. k /\ k + 1 \in 0 .. k + 1
    OBVIOUS
  <2>3. G[k + 1][f[k]] \in X
    BY <2>2 DEF Closed
  <2>4. \A n \in 0 .. k + 1 : n <= k => n \in 0 .. k
    OBVIOUS
  <2>5. g \in [0 .. k + 1 -> X]
    BY <2>3, <2>4
  <2>6. \A n \in 0 .. k : g[n] = f[n]
    OBVIOUS
  <2>7. g[k + 1] = G[k + 1][f[k]]
    OBVIOUS
  <2> HIDE DEF g
  <2>8. ASSUME NEW n \in 1 .. k + 1  PROVE g[n] = G[n][g[n - 1]]
    <3>1. CASE n = k + 1
      <4>1. n - 1 = k
        BY <3>1
      <4> QED  BY <2>2, <2>6, <2>7, <3>1, <4>1
    <3>2. CASE n # k + 1
      <4>1. n \in 1 .. k /\ n \in 0 .. k /\ n - 1 \in 0 .. k
        BY <3>2
      <4> QED  BY <2>1, <2>6, <4>1
    <3> QED  BY <3>1, <3>2
  <2>9. g[0] = x
    <3>1. 0 \in 0 .. k
      OBVIOUS
    <3> QED  BY <2>1, <2>6, <3>1
  <2>10. Takes(g, k + 1)
    BY <2>8, <2>9
  <2>11. k + 1 \in 0 .. N
    OBVIOUS
  <2> HIDE DEF Takes
  <2> QED  BY <2>5, <2>10, <2>11
<1> HIDE DEF P
<1>3. \A k \in 0 .. N : k \in P
  BY <1>1, <1>2, Induction
<1>4. N \in 0 .. N
  OBVIOUS
<1> QED  BY <1>3, <1>4 DEF P, Steps

-----------------------------------------------------------------------------
(* Ends and beginnings of a sequence.                                        *)

\* The first k elements, and those after them.
LEMMA Parts ==
  ASSUME NEW S, NEW s \in Seq(S), NEW k \in 0 .. Len(s)
  PROVE  /\ SubSeq(s, 1, k) \in Seq(S) /\ Len(SubSeq(s, 1, k)) = k
         /\ \A i \in 1 .. k : SubSeq(s, 1, k)[i] = s[i]
         /\ SubSeq(s, k + 1, Len(s)) \in Seq(S) /\ Len(SubSeq(s, k + 1, Len(s))) = Len(s) - k
         /\ \A i \in 1 .. Len(s) - k : SubSeq(s, k + 1, Len(s))[i] = s[k + i]
<1>1. Len(s) \in Nat /\ \A i \in 1 .. Len(s) : s[i] \in S
  BY ElementOfSeq, LenProperties
<1>2. /\ 1 \in Int /\ k \in Int /\ k + 1 \in Int /\ Len(s) \in Int
      /\ \A i \in 1 .. k : i \in 1 .. Len(s)
      /\ \A i \in k + 1 .. Len(s) : i \in 1 .. Len(s)
  BY <1>1
<1>3. /\ SubSeq(s, 1, k) \in Seq(S)
      /\ Len(SubSeq(s, 1, k)) = IF 1 <= k THEN k - 1 + 1 ELSE 0
      /\ \A i \in 1 .. k - 1 + 1 : SubSeq(s, 1, k)[i] = s[1 + i - 1]
  <2>1. \A i \in 1 .. k : s[i] \in S
    BY <1>1, <1>2
  <2> QED  BY <1>2, <2>1, SubSeqProperties
<1>4. /\ SubSeq(s, k + 1, Len(s)) \in Seq(S)
      /\ Len(SubSeq(s, k + 1, Len(s))) = IF k + 1 <= Len(s) THEN Len(s) - (k + 1) + 1 ELSE 0
      /\ \A i \in 1 .. Len(s) - (k + 1) + 1 : SubSeq(s, k + 1, Len(s))[i] = s[(k + 1) + i - 1]
  <2>1. \A i \in k + 1 .. Len(s) : s[i] \in S
    BY <1>1, <1>2
  <2> QED  BY <1>2, <2>1, SubSeqProperties
<1>5. /\ (IF 1 <= k THEN k - 1 + 1 ELSE 0) = k /\ k - 1 + 1 = k
      /\ (IF k + 1 <= Len(s) THEN Len(s) - (k + 1) + 1 ELSE 0) = Len(s) - k
      /\ Len(s) - (k + 1) + 1 = Len(s) - k
      /\ \A i \in Nat : 1 + i - 1 = i /\ (k + 1) + i - 1 = k + i
  BY <1>1
<1>6. \A i \in 1 .. k : i \in Nat
  OBVIOUS
<1>7. \A i \in 1 .. Len(s) - k : i \in Nat
  OBVIOUS
<1> QED  BY <1>3, <1>4, <1>5, <1>6, <1>7

\* A sequence that is not empty, without its last element.
LEMMA FrontIs ==
  ASSUME NEW S, NEW s \in Seq(S), s # <<>>
  PROVE  /\ Len(s) \in Nat \ {0} /\ DOMAIN s = 1 .. Len(s)
         /\ Front(s) \in Seq(S) /\ Len(Front(s)) = Len(s) - 1
         /\ \A i \in 1 .. Len(s) - 1 : Front(s)[i] = s[i]
         /\ Last(s) = s[Len(s)] /\ Last(s) \in S
<1> DEFINE N == Len(s)
<1>1. N \in Nat \ {0} /\ DOMAIN s = 1 .. N
  BY LenProperties, EmptySeq
<1>2. N - 1 \in 0 .. N /\ N \in 1 .. N
  <2> HIDE DEF N
  <2> QED  BY <1>1
<1>3. /\ Front(s) \in Seq(S) /\ Len(Front(s)) = N - 1
      /\ \A i \in 1 .. N - 1 : Front(s)[i] = s[i]
  BY <1>2, Parts DEF Front
<1>4. Last(s) = s[N] /\ s[N] \in S
  BY <1>2, ElementOfSeq DEF Last
<1> QED  BY <1>1, <1>3, <1>4

-----------------------------------------------------------------------------
(* The size of a sequence of lines.                                          *)

\* f[n] is the size of the first n lines.
Sums(f, lines) ==
  /\ f \in [0 .. Len(lines) -> Nat]
  /\ f[0] = 0 /\ \A n \in 1 .. Len(lines) : f[n] = f[n - 1] + lines[n].size

\* The sizes of lines are numbers.
LEMMA Sizes ==
  ASSUME NEW lines \in Seq(Lines)
  PROVE  /\ Len(lines) \in Nat /\ DOMAIN lines = 1 .. Len(lines)
         /\ \A n \in 1 .. Len(lines) : lines[n] \in Lines /\ lines[n].size \in Nat
<1>1. Len(lines) \in Nat /\ DOMAIN lines = 1 .. Len(lines)
  BY LenProperties
<1>2. \A n \in 1 .. Len(lines) : lines[n] \in Lines
  BY ElementOfSeq
<1>3. \A l \in Lines : l.size \in Nat
  BY DEF Lines
<1> QED  BY <1>1, <1>2, <1>3

\* SumOf is the last value of a function of running sums.
LEMMA SumIs ==
  ASSUME NEW lines \in Seq(Lines)
  PROVE  \E f : Sums(f, lines) /\ SumOf(lines) = f[Len(lines)]
<1> DEFINE N == Len(lines)
           G == [n \in 1 .. N |-> [v \in Nat |-> v + lines[n].size]]
           Def(f) == f = [n \in 0 .. N |-> IF n = 0 THEN 0 ELSE f[n - 1] + lines[n].size]
<1>1. N \in Nat /\ \A n \in 1 .. N : lines[n].size \in Nat
  BY Sizes
<1>2. \A n \in 1 .. N, v \in Nat : G[n][v] = v + lines[n].size
  OBVIOUS
<1>3. Closed(N, Nat, G)
  BY <1>1, <1>2 DEF Closed
<1>4. PICK f : Steps(f, N, Nat, 0, G)
  <2>1. 0 \in Nat
    OBVIOUS
  <2> HIDE DEF G, N
  <2> QED  BY <1>1, <1>3, <2>1, Recursion, Zenon
<1>5. Def(f)
  <2>1. ASSUME NEW n \in 0 .. N
        PROVE  f[n] = IF n = 0 THEN 0 ELSE f[n - 1] + lines[n].size
    <3>1. CASE n = 0
      BY <1>4, <3>1 DEF Steps
    <3>2. CASE n # 0
      <4>1. n \in 1 .. N /\ n - 1 \in 0 .. N
        BY <1>1, <3>2
      <4>2. f[n - 1] \in Nat
        BY <1>4, <4>1 DEF Steps
      <4> QED  BY <1>2, <1>4, <3>2, <4>1, <4>2 DEF Steps
    <3> QED  BY <3>1, <3>2
  <2> HIDE DEF N, G
  <2> QED  BY <1>4, <2>1 DEF Steps
<1> DEFINE g == CHOOSE sum : Def(sum)
<1>6. SumOf(lines) = g[N]
  BY DEF SumOf
<1>7. Def(g)
  <2> HIDE DEF Def
  <2> QED  BY <1>5
<1>8. \A n \in 0 .. N : g[n] = IF n = 0 THEN 0 ELSE g[n - 1] + lines[n].size
  <2> HIDE DEF g, N
  <2> QED  BY <1>7
<1>9. g[0] = 0 /\ \A n \in 1 .. N : g[n] = g[n - 1] + lines[n].size
  <2>1. 0 \in 0 .. N /\ \A n \in 1 .. N : n \in 0 .. N /\ n # 0
    BY <1>1
  <2> HIDE DEF g, N
  <2> QED  BY <1>8, <2>1
<1>10. \A k \in 0 .. N : g[k] \in Nat
  <2> DEFINE P == {k \in 0 .. N : g[k] \in Nat}
  <2> HIDE DEF g
  <2>1. 0 \in P
    BY <1>1, <1>9
  <2>2. ASSUME NEW k \in 0 .. N - 1, k \in P  PROVE k + 1 \in P
    <3>1. k + 1 \in 1 .. N /\ k + 1 \in 0 .. N /\ (k + 1) - 1 = k
      BY <1>1
    <3>2. g[k] \in Nat
      BY <2>2
    <3>3. lines[k + 1].size \in Nat
      BY <1>1, <3>1
    <3>4. g[k + 1] = g[k] + lines[k + 1].size
      BY <1>9, <3>1
    <3>5. g[k + 1] \in Nat
      BY <3>2, <3>3, <3>4
    <3> QED  BY <3>1, <3>5
  <2> HIDE DEF P
  <2>3. \A k \in 0 .. N : k \in P
    BY <1>1, <2>1, <2>2, Induction
  <2> QED  BY <2>3 DEF P
<1>11. g \in [0 .. N -> Nat]
  <2> HIDE DEF g, N
  <2>1. g = [n \in 0 .. N |-> g[n]]
    BY <1>7, <1>8
  <2> QED  BY <1>10, <2>1
<1> HIDE DEF g
<1> QED  BY <1>6, <1>9, <1>11 DEF Sums

\* The sums of a sequence are those of one that begins as it does.
LEMMA SumOfFirst ==
  ASSUME NEW lines \in Seq(Lines), NEW part \in Seq(Lines), NEW f, Sums(f, lines),
         Len(part) <= Len(lines), \A n \in 1 .. Len(part) : part[n].size = lines[n].size
  PROVE  SumOf(part) = f[Len(part)]
<1>1. PICK g : Sums(g, part) /\ SumOf(part) = g[Len(part)]
  BY SumIs
<1> DEFINE N == Len(part)
           P == {k \in 0 .. N : g[k] = f[k]}
<1>2. N \in Nat /\ Len(lines) \in Nat
  BY LenProperties
<1>3. 0 \in P
  BY <1>1, <1>2 DEF Sums
<1>4. ASSUME NEW k \in 0 .. N - 1, k \in P  PROVE k + 1 \in P
  <2>1. k + 1 \in 1 .. N /\ k + 1 \in 0 .. N /\ (k + 1) - 1 = k /\ k + 1 \in 1 .. Len(lines)
    BY <1>2
  <2>2. g[k] = f[k]
    BY <1>4
  <2>3. g[k + 1] = g[k] + part[k + 1].size
    BY <1>1, <2>1 DEF Sums
  <2>4. f[k + 1] = f[k] + lines[k + 1].size
    BY <2>1 DEF Sums
  <2>5. part[k + 1].size = lines[k + 1].size
    BY <2>1
  <2> QED  BY <2>1, <2>2, <2>3, <2>4, <2>5
<1>5. N \in 0 .. N
  BY <1>2
<1> HIDE DEF P
<1>6. \A k \in 0 .. N : k \in P
  BY <1>2, <1>3, <1>4, Induction
<1> QED  BY <1>1, <1>5, <1>6 DEF P

\* The sizes of the first lines and of the others add up.
LEMMA SumSplit ==
  ASSUME NEW lines \in Seq(Lines), NEW k \in 0 .. Len(lines)
  PROVE  /\ SumOf(lines) \in Nat
         /\ SumOf(SubSeq(lines, 1, k)) \in Nat /\ SumOf(SubSeq(lines, k + 1, Len(lines))) \in Nat
         /\ SumOf(lines) = SumOf(SubSeq(lines, 1, k)) + SumOf(SubSeq(lines, k + 1, Len(lines)))
<1> DEFINE N == Len(lines)
           a == SubSeq(lines, 1, k)
           b == SubSeq(lines, k + 1, N)
<1>1. PICK f : Sums(f, lines) /\ SumOf(lines) = f[N]
  BY SumIs
<1>2. /\ a \in Seq(Lines) /\ Len(a) = k /\ \A i \in 1 .. k : a[i] = lines[i]
      /\ b \in Seq(Lines) /\ Len(b) = N - k /\ \A i \in 1 .. N - k : b[i] = lines[k + i]
  BY Parts
<1>3. N \in Nat /\ k \in Nat
  BY LenProperties
<1> HIDE DEF a, b, N
<1>4. SumOf(a) = f[k]
  <2>1. Len(a) <= Len(lines) /\ \A n \in 1 .. Len(a) : a[n].size = lines[n].size
    BY <1>2, <1>3 DEF N
  <2> QED  BY <1>1, <1>2, <2>1, SumOfFirst
<1>5. PICK g : Sums(g, b) /\ SumOf(b) = g[N - k]
  BY <1>2, SumIs
<1> DEFINE P == {i \in 0 .. N - k : f[k] + g[i] = f[k + i]}
<1>6. \A i \in 0 .. N - k : g[i] \in Nat /\ k + i \in 0 .. N /\ f[k + i] \in Nat
  <2>1. \A i \in 0 .. N - k : k + i \in 0 .. N
    BY <1>3
  <2> QED  BY <1>1, <1>2, <1>5, <2>1 DEF Sums, N
<1>7. f[k] \in Nat /\ 0 \in 0 .. N - k /\ N - k \in 0 .. N - k /\ N - k \in Nat
      /\ k + (N - k) = N /\ k + 0 = k
  <2>1. k \in 0 .. N
    BY DEF N
  <2>2. 0 \in 0 .. N - k /\ N - k \in 0 .. N - k /\ N - k \in Nat
        /\ k + (N - k) = N /\ k + 0 = k
    BY <1>3, <2>1
  <2> QED  BY <1>6, <2>2
<1>8. 0 \in P
  <2>1. g[0] = 0
    BY <1>5 DEF Sums
  <2>2. f[k] + g[0] = f[k + 0]
    BY <1>7, <2>1
  <2> QED  BY <1>7, <2>2
<1>9. ASSUME NEW i \in 0 .. (N - k) - 1, i \in P  PROVE i + 1 \in P
  <2>1. /\ i + 1 \in 1 .. N - k /\ i + 1 \in 0 .. N - k /\ (i + 1) - 1 = i /\ i \in 0 .. N - k
        /\ k + (i + 1) \in 1 .. N /\ (k + (i + 1)) - 1 = k + i
    BY <1>3, <1>7
  <2>2. f[k] + g[i] = f[k + i]
    BY <1>9
  <2>3. g[i + 1] = g[i] + b[i + 1].size
    BY <1>2, <1>5, <2>1 DEF Sums
  <2>4. f[k + (i + 1)] = f[k + i] + lines[k + (i + 1)].size
    BY <1>1, <2>1 DEF Sums, N
  <2>5. b[i + 1] = lines[k + (i + 1)] /\ lines[k + (i + 1)].size \in Nat
    BY <1>2, <2>1, Sizes DEF N
  <2>6. f[k] \in Nat /\ g[i] \in Nat
    BY <1>6, <1>7, <2>1
  <2>7. f[k] + g[i + 1] = (f[k] + g[i]) + b[i + 1].size
    BY <2>3, <2>5, <2>6
  <2>8. f[k] + g[i + 1] = f[k + (i + 1)]
    BY <2>2, <2>4, <2>5, <2>7
  <2> QED  BY <2>1, <2>8
<1> HIDE DEF P
<1>10. \A i \in 0 .. N - k : i \in P
  BY <1>7, <1>8, <1>9, Induction
<1>11. f[k] + g[N - k] = f[N] /\ g[N - k] \in Nat /\ f[N] \in Nat
  BY <1>6, <1>7, <1>10 DEF P
<1> QED  BY <1>1, <1>4, <1>5, <1>7, <1>11 DEF a, b, N

\* Nothing has no size, and a line adds its own.
LEMMA SumAppend ==
  ASSUME NEW lines \in Seq(Lines), NEW l \in Lines
  PROVE  SumOf(<<>>) = 0 /\ SumOf(Append(lines, l)) = SumOf(lines) + l.size
<1>1. SumOf(<<>>) = 0
  <2>1. <<>> \in Seq(Lines) /\ Len(<<>>) = 0
    BY EmptySeq
  <2>2. PICK f : Sums(f, <<>>) /\ SumOf(<<>>) = f[0]
    BY <2>1, SumIs
  <2> QED  BY <2>2 DEF Sums
<1> DEFINE all == Append(lines, l)
           N == Len(lines)
<1>2. /\ all \in Seq(Lines) /\ Len(all) = N + 1 /\ all[N + 1] = l
      /\ \A i \in 1 .. N : all[i] = lines[i]
  BY AppendProperties
<1>3. N \in Nat
  BY LenProperties
<1> HIDE DEF all
<1>4. PICK f : Sums(f, all) /\ SumOf(all) = f[N + 1]
  BY <1>2, SumIs
<1>5. SumOf(lines) = f[N]
  <2>1. N <= Len(all) /\ \A n \in 1 .. N : lines[n].size = all[n].size
    BY <1>2, <1>3
  <2> HIDE DEF N
  <2>2. SumOf(lines) = f[Len(lines)]
    BY <1>2, <1>4, <2>1, SumOfFirst DEF N
  <2> QED  BY <2>2 DEF N
<1>6. f[N + 1] = f[N] + l.size
  <2>1. N + 1 \in 1 .. N + 1 /\ (N + 1) - 1 = N
    BY <1>3
  <2> QED  BY <1>2, <1>4, <2>1 DEF Sums
<1> QED  BY <1>1, <1>4, <1>5, <1>6 DEF all

-----------------------------------------------------------------------------
(* The end of a stream.                                                      *)

\* A suffix is an end.
LEMMA EndOfPart ==
  ASSUME NEW S, NEW s \in Seq(S), NEW k \in 0 .. Len(s)
  PROVE  EndOf(SubSeq(s, k + 1, Len(s)), s)
<1> DEFINE a == SubSeq(s, k + 1, Len(s))
<1>1. a \in Seq(S) /\ Len(a) = Len(s) - k /\ \A i \in 1 .. Len(s) - k : a[i] = s[k + i]
  BY Parts
<1>2. DOMAIN a = 1 .. Len(s) - k /\ Len(s) \in Nat /\ k \in Nat
  BY <1>1, LenProperties
<1> HIDE DEF a
<1>3. Len(a) <= Len(s) /\ Len(s) - Len(a) = k
  BY <1>1, <1>2
<1> QED  BY <1>1, <1>2, <1>3 DEF EndOf, SameLine, a

\* An end of an end is an end.
LEMMA EndOfEnd ==
  ASSUME NEW S, NEW T, NEW U, NEW a \in Seq(S), NEW b \in Seq(T), NEW c \in Seq(U),
         EndOf(a, b), EndOf(b, c)
  PROVE  EndOf(a, c)
<1> DEFINE x == Len(a)  y == Len(b)  z == Len(c)
<1>1. /\ x \in Nat /\ y \in Nat /\ z \in Nat /\ x <= y /\ y <= z
      /\ DOMAIN a = 1 .. x /\ DOMAIN b = 1 .. y
  BY LenProperties DEF EndOf
<1>2. ASSUME NEW i \in 1 .. x  PROVE SameLine(a[i], c[(z - x) + i])
  <2>1. (y - x) + i \in 1 .. y /\ (z - y) + ((y - x) + i) = (z - x) + i
    <3> HIDE DEF x, y, z
    <3> QED  BY <1>1
  <2>2. SameLine(a[i], b[(y - x) + i])
    BY <1>1 DEF EndOf
  <2>3. SameLine(b[(y - x) + i], c[(z - y) + ((y - x) + i)])
    <3> HIDE DEF x
    <3> QED  BY <1>1, <2>1 DEF EndOf
  <2> HIDE DEF x, y, z
  <2> QED  BY <2>1, <2>2, <2>3 DEF SameLine
<1>3. x <= z
  <2> HIDE DEF x, y, z
  <2> QED  BY <1>1
<1> QED  BY <1>1, <1>2, <1>3 DEF EndOf

\* The same line added to both leaves an end.
LEMMA EndOfAppended ==
  ASSUME NEW S, NEW T, NEW a \in Seq(S), NEW b \in Seq(T), NEW m \in S, NEW n \in T,
         EndOf(a, b), SameLine(m, n)
  PROVE  EndOf(Append(a, m), Append(b, n))
<1> DEFINE x == Len(a)  y == Len(b)  am == Append(a, m)  bn == Append(b, n)
<1>1. x \in Nat /\ y \in Nat /\ x <= y /\ DOMAIN a = 1 .. x
  BY LenProperties DEF EndOf
<1>2. am \in Seq(S) /\ Len(am) = x + 1 /\ am[x + 1] = m /\ \A i \in 1 .. x : am[i] = a[i]
  BY AppendProperties
<1>3. bn \in Seq(T) /\ Len(bn) = y + 1 /\ bn[y + 1] = n /\ \A i \in 1 .. y : bn[i] = b[i]
  BY AppendProperties
<1>4. DOMAIN am = 1 .. x + 1
  <2> HIDE DEF am, x
  <2> QED  BY <1>2, LenProperties
<1>5. ASSUME NEW i \in 1 .. x + 1  PROVE SameLine(am[i], bn[((y + 1) - (x + 1)) + i])
  <2>1. CASE i = x + 1
    <3>1. ((y + 1) - (x + 1)) + i = y + 1
      <4> HIDE DEF x, y
      <4> QED  BY <1>1, <2>1
    <3> HIDE DEF am, bn, x, y
    <3> QED  BY <1>2, <1>3, <2>1, <3>1
  <2>2. CASE i # x + 1
    <3>1. i \in 1 .. x /\ ((y + 1) - (x + 1)) + i = (y - x) + i /\ (y - x) + i \in 1 .. y
      <4> HIDE DEF x, y
      <4> QED  BY <1>1, <2>2
    <3>2. SameLine(a[i], b[(y - x) + i])
      BY <1>1, <3>1 DEF EndOf
    <3> HIDE DEF am, bn, x, y
    <3> QED  BY <1>2, <1>3, <3>1, <3>2
  <2> QED  BY <2>1, <2>2
<1>6. x + 1 <= y + 1
  <2> HIDE DEF x, y
  <2> QED  BY <1>1
<1> HIDE DEF am, bn, x, y
<1>7. EndOf(am, bn)
  BY <1>2, <1>3, <1>4, <1>5, <1>6 DEF EndOf
<1> QED  BY <1>7 DEF am, bn

\* Without its last line: that of the stream.
LEMMA EndOfFront ==
  ASSUME NEW S, NEW T, NEW a \in Seq(S), NEW b \in Seq(T), EndOf(a, b), a # <<>>
  PROVE  /\ b # <<>> /\ SameLine(Last(a), Last(b))
         /\ Front(a) \in Seq(S) /\ Front(b) \in Seq(T) /\ EndOf(Front(a), Front(b))
         /\ Len(Front(a)) = Len(a) - 1 /\ Len(Front(b)) = Len(b) - 1
         /\ \A i \in 1 .. Len(a) - 1 : Front(a)[i] = a[i]
         /\ \A i \in 1 .. Len(b) - 1 : Front(b)[i] = b[i]
         /\ Last(a) = a[Len(a)] /\ Last(b) = b[Len(b)] /\ Last(a) \in S /\ Last(b) \in T
<1> DEFINE x == Len(a)  y == Len(b)
<1>1. x \in Nat /\ y \in Nat /\ x <= y /\ DOMAIN a = 1 .. x /\ DOMAIN b = 1 .. y
  BY LenProperties DEF EndOf
<1>2. x # 0
  BY EmptySeq
<1>3. /\ x \in 1 .. x /\ y \in 1 .. y /\ x - 1 \in 0 .. x /\ y - 1 \in 0 .. y /\ y # 0
      /\ x - 1 <= y - 1 /\ (y - x) + x = y
      /\ \A i \in 1 .. x - 1 :
           i \in 1 .. x /\ (y - x) + i \in 1 .. y - 1 /\ ((y - 1) - (x - 1)) + i = (y - x) + i
  <2> HIDE DEF x, y
  <2> QED  BY <1>1, <1>2
<1>4. b # <<>>
  BY <1>3, EmptySeq
<1>5. /\ Last(a) = a[x] /\ Last(b) = b[y] /\ Last(a) \in S /\ Last(b) \in T
      /\ Front(a) \in Seq(S) /\ Len(Front(a)) = x - 1
      /\ Front(b) \in Seq(T) /\ Len(Front(b)) = y - 1
      /\ \A i \in 1 .. x - 1 : Front(a)[i] = a[i]
      /\ \A i \in 1 .. y - 1 : Front(b)[i] = b[i]
  BY <1>4, FrontIs
<1>6. SameLine(a[x], b[y])
  <2>1. SameLine(a[x], b[(y - x) + x])
    BY <1>1, <1>3 DEF EndOf
  <2> HIDE DEF x, y
  <2> QED  BY <1>3, <2>1
<1>7. ASSUME NEW i \in 1 .. x - 1  PROVE SameLine(Front(a)[i], Front(b)[((y - 1) - (x - 1)) + i])
  <2>1. SameLine(a[i], b[(y - x) + i])
    BY <1>1, <1>3 DEF EndOf
  <2> HIDE DEF x, y
  <2> QED  BY <1>3, <1>5, <2>1
<1>8. DOMAIN Front(a) = 1 .. x - 1
  BY <1>5, LenProperties
<1>9. EndOf(Front(a), Front(b))
  <2> HIDE DEF x, y
  <2> QED  BY <1>3, <1>5, <1>7, <1>8 DEF EndOf
<1> QED  BY <1>4, <1>5, <1>6, <1>9

-----------------------------------------------------------------------------
(* The buffer.                                                               *)

\* What TakenUntil leaves is after the least number that is enough.
LEMMA TakenIs ==
  ASSUME NEW s, NEW enough \in SUBSET Nat, enough # {}
  PROVE  \E n \in enough : /\ \A m \in enough : n <= m
                           /\ TakenUntil(s, enough) = SubSeq(s, n + 1, Len(s))
<1> DEFINE Least(n) == \A m \in enough : n <= m
           c == CHOOSE n \in enough : Least(n)
<1>1. \E n \in enough : Least(n)
  BY LeastOf
<1>2. c \in enough /\ Least(c)
  <2> HIDE DEF Least
  <2> QED  BY <1>1
<1>3. TakenUntil(s, enough) = SubSeq(s, c + 1, Len(s))
  BY DEF TakenUntil
<1> QED  BY <1>2, <1>3

\* Subtraction that stops at zero (saturating_sub), and the minimum.
LEMMA Differences ==
  ASSUME NEW n \in Nat, NEW m \in Nat
  PROVE  /\ Minus(n, m) \in Nat /\ AtMost(n, m) \in Nat /\ AtMost(n, m) <= m
         /\ m <= n => Minus(n, m) = n - m
         /\ n <= m => Minus(n, m) = 0
BY DEF Minus, AtMost

\* The newest elements of a sequence that are not more than n: those after m.
After(new, s, n, S, m) ==
  /\ new = SubSeq(s, m + 1, Len(s)) /\ new \in Seq(S) /\ Len(new) = Len(s) - m
  /\ \A i \in 1 .. Len(s) - m : new[i] = s[m + i]
  /\ Len(s) - m <= n /\ new # <<>>

LEMMA NewestIs ==
  ASSUME NEW S, NEW s \in Seq(S), NEW n \in Nat \ {0}, s # <<>>
  PROVE  \E m \in 0 .. Len(s) - 1 : After(Newest(s, n), s, n, S, m)
<1> DEFINE N == Len(s)  m == Minus(N, n)
<1>1. N \in Nat /\ N # 0
  BY LenProperties, EmptySeq
<1>2. m \in 0 .. N - 1 /\ m \in 0 .. N /\ N - m <= n /\ N - m > 0
  <2> HIDE DEF N
  <2> QED  BY <1>1 DEF Minus
<1>3. Newest(s, n) = SubSeq(s, m + 1, N)
  BY DEF Newest
<1> HIDE DEF m
<1>4. /\ Newest(s, n) \in Seq(S) /\ Len(Newest(s, n)) = N - m
      /\ \A i \in 1 .. N - m : Newest(s, n)[i] = s[m + i]
  BY <1>2, <1>3, Parts
<1>5. Newest(s, n) # <<>>
  <2> HIDE DEF N
  <2> QED  BY <1>2, <1>4, EmptySeq
<1> QED  BY <1>2, <1>3, <1>4, <1>5 DEF After

\* A pushed line is the last of the buffer, after the end of what it held.
LEMMA PushIs ==
  ASSUME NEW b \in Buffers, Counts(b), NEW line \in Lines, NEW r \in Limits
  PROVE  /\ Push(b, line, r) \in Buffers /\ Counts(Push(b, line, r))
         /\ Within(Push(b, line, r), r) /\ Push(b, line, r).lines # <<>>
         /\ EndOf(Push(b, line, r).lines, Append(b.lines, line))
<1> DEFINE s == b.lines  N == Len(s)  cap == r.bytes
           l == [line EXCEPT !.size = AtMost(@, cap)]
           Without(n) == Minus(b.bytes, SumOf(SubSeq(s, 1, n)))
           enough == {n \in 0 .. N : n = N \/ Without(n) + l.size <= cap}
           kept == TakenUntil(s, enough)
           all == Append(kept, l)
           last == Newest(all, r.lines)
           bytes == Minus(Without(N - Len(kept)) + l.size, SumOf(SubSeq(all, 1, Len(all) - Len(last))))
<1>1. /\ s \in Seq(Lines) /\ N \in Nat /\ b.bytes = SumOf(s)
      /\ cap \in Nat \ {0} /\ r.lines \in Nat \ {0}
  BY LenProperties DEF Buffers, Limits, Counts
<1>2. l \in Lines /\ SameLine(l, line) /\ l.size \in Nat /\ l.size <= cap
  <2>1. line.size \in Nat
    BY DEF Lines
  <2>2. AtMost(line.size, cap) \in Nat /\ AtMost(line.size, cap) <= cap
    BY <1>1, <2>1, Differences
  <2>3. l.size = AtMost(line.size, cap)
    BY DEF Lines
  <2> QED  BY <2>2, <2>3 DEF Lines, SameLine
<1>3. ASSUME NEW n \in 0 .. N
      PROVE  Without(n) = SumOf(SubSeq(s, n + 1, N)) /\ Without(n) \in Nat
  <2>1. /\ SumOf(s) \in Nat /\ SumOf(SubSeq(s, 1, n)) \in Nat
        /\ SumOf(SubSeq(s, n + 1, N)) \in Nat
        /\ SumOf(s) = SumOf(SubSeq(s, 1, n)) + SumOf(SubSeq(s, n + 1, N))
    BY <1>1, SumSplit
  <2>2. b.bytes = SumOf(s)
    BY <1>1
  <2> HIDE DEF s, N
  <2> QED  BY <2>1, <2>2 DEF Minus
<1> HIDE DEF l, Without
<1>4. PICK n \in enough : kept = SubSeq(s, n + 1, N)
  <2>1. enough \in SUBSET Nat /\ enough # {}
    <3>1. N \in enough
      BY <1>1
    <3> QED  BY <3>1
  <2> HIDE DEF enough
  <2> QED  BY <2>1, TakenIs
<1>5. n \in 0 .. N /\ (n = N \/ Without(n) + l.size <= cap)
  OBVIOUS
<1>6. kept \in Seq(Lines) /\ Len(kept) = N - n
  <2> HIDE DEF kept, enough
  <2> QED  BY <1>1, <1>4, <1>5, Parts
<1> HIDE DEF enough, kept
<1>7. EndOf(kept, s)
  BY <1>1, <1>4, <1>5, EndOfPart
<1>8. SumOf(kept) \in Nat /\ SumOf(kept) = Without(n) /\ SumOf(kept) + l.size <= cap
  <2>1. SumOf(kept) \in Nat /\ SumOf(kept) = Without(n)
    BY <1>3, <1>4, <1>5
  <2>2. CASE n = N
    <3>1. N - n = 0
      BY <1>1, <2>2
    <3>2. kept = <<>>
      BY <1>6, <3>1, EmptySeq
    <3>3. SumOf(kept) = 0
      BY <1>1, <1>2, <3>2, SumAppend
    <3> QED  BY <1>2, <2>1, <3>3
  <2>3. CASE n # N
    BY <1>5, <2>1, <2>3
  <2> QED  BY <2>1, <2>2, <2>3
<1>9. all \in Seq(Lines) /\ Len(all) = Len(kept) + 1 /\ SumOf(all) = SumOf(kept) + l.size
  BY <1>2, <1>6, SumAppend, AppendProperties
<1>10. all # <<>>
  BY <1>2, <1>6, AppendProperties
<1>11. EndOf(all, Append(s, line))
  BY <1>1, <1>2, <1>6, <1>7, EndOfAppended
<1> HIDE DEF all
<1>0. PICK m \in 0 .. Len(all) - 1 : After(last, all, r.lines, Lines, m)
  BY <1>1, <1>9, <1>10, NewestIs
<1>12. /\ last = SubSeq(all, m + 1, Len(all)) /\ last \in Seq(Lines)
       /\ Len(last) = Len(all) - m /\ Len(all) - m <= r.lines /\ last # <<>>
  BY <1>0 DEF After
<1>13. m \in 0 .. Len(all) /\ Len(all) \in Nat /\ Len(all) - Len(last) = m /\ N - Len(kept) = n
  <2>1. Len(all) \in Nat /\ Len(kept) \in Nat
    BY <1>6, <1>9, LenProperties
  <2> HIDE DEF last, N
  <2> QED  BY <1>1, <1>5, <1>6, <1>12, <2>1
<1> HIDE DEF last
<1>14. /\ SumOf(all) \in Nat /\ SumOf(SubSeq(all, 1, m)) \in Nat /\ SumOf(last) \in Nat
       /\ SumOf(all) = SumOf(SubSeq(all, 1, m)) + SumOf(last)
  BY <1>9, <1>12, <1>13, SumSplit
<1>15. bytes = SumOf(last)
  <2>1. bytes = Minus(SumOf(all), SumOf(SubSeq(all, 1, m)))
    BY <1>8, <1>9, <1>13
  <2> HIDE DEF bytes
  <2> QED  BY <1>14, <2>1 DEF Minus
<1>16. Push(b, line, r) = [lines |-> last, bytes |-> bytes]
  <2> USE DEF last, all, kept, enough, Without, l
  <2> QED  BY DEF Push
<1> HIDE DEF bytes
<1>17. EndOf(last, Append(s, line))
  <2>1. EndOf(last, all)
    BY <1>9, <1>12, <1>13, EndOfPart
  <2>2. Append(s, line) \in Seq(Lines)
    BY <1>1, AppendProperties
  <2>3. last \in Seq(Lines) /\ all \in Seq(Lines) /\ EndOf(all, Append(s, line))
    BY <1>9, <1>11, <1>12
  <2> HIDE DEF s
  <2> QED  BY <2>1, <2>2, <2>3, EndOfEnd, Zenon
<1>18. SumOf(last) <= cap /\ Len(last) <= r.lines
  <2>1. SumOf(all) <= cap
    BY <1>8, <1>9
  <2>2. cap \in Nat /\ Len(last) <= r.lines
    BY <1>1, <1>12
  <2> HIDE DEF cap
  <2> QED  BY <1>14, <2>1, <2>2
<1> QED  BY <1>12, <1>14, <1>15, <1>16, <1>17, <1>18 DEF Buffers, Counts, Within

\* A frame that replaces the last line is the last of the buffer in its place.
LEMMA ReplaceLastIs ==
  ASSUME NEW b \in Buffers, Counts(b), NEW line \in Lines, NEW r \in Limits,
         b.lines # <<>>, Last(b.lines).seq = line.seq
  PROVE  /\ ReplaceLast(b, line, r) \in Buffers /\ Counts(ReplaceLast(b, line, r))
         /\ Within(ReplaceLast(b, line, r), r) /\ ReplaceLast(b, line, r).lines # <<>>
         /\ EndOf(ReplaceLast(b, line, r).lines, Append(Front(b.lines), line))
<1> DEFINE s == b.lines  N == Len(s)
           c == [lines |-> Front(s), bytes |-> Minus(b.bytes, Last(s).size)]
<1>1. s \in Seq(Lines) /\ N \in Nat /\ b.bytes = SumOf(s) /\ N # 0
  BY LenProperties, EmptySeq DEF Buffers, Counts
<1>2. N - 1 \in 0 .. N /\ N \in 1 .. N /\ (N - 1) + 1 = N
  <2> HIDE DEF N
  <2> QED  BY <1>1
<1>3. Front(s) = SubSeq(s, 1, N - 1) /\ Front(s) \in Seq(Lines) /\ Last(s) = s[N] /\ s[N] \in Lines
  BY <1>1, <1>2, Parts, ElementOfSeq DEF Front, Last
<1>4. SumOf(SubSeq(s, N, N)) = Last(s).size
  <2>1. /\ SubSeq(s, N, N) \in Seq(Lines) /\ Len(SubSeq(s, N, N)) = 1
        /\ SubSeq(s, N, N)[1] = s[N]
    <3>1. /\ SubSeq(s, (N - 1) + 1, N) \in Seq(Lines)
          /\ Len(SubSeq(s, (N - 1) + 1, N)) = N - (N - 1)
          /\ \A i \in 1 .. N - (N - 1) : SubSeq(s, (N - 1) + 1, N)[i] = s[(N - 1) + i]
      BY <1>1, <1>2, Parts
    <3>2. N - (N - 1) = 1 /\ 1 \in 1 .. 1
      BY <1>1
    <3> HIDE DEF N
    <3> QED  BY <1>2, <3>1, <3>2
  <2> HIDE DEF s, N
  <2>2. PICK f : Sums(f, SubSeq(s, N, N)) /\ SumOf(SubSeq(s, N, N)) = f[1]
    BY <2>1, SumIs
  <2>3. f[0] = 0 /\ f[1] = f[1 - 1] + s[N].size
    <3>1. 1 \in 1 .. 1
      OBVIOUS
    <3> QED  BY <2>1, <2>2, <3>1 DEF Sums
  <2>4. s[N].size \in Nat
    BY <1>3 DEF Lines
  <2> QED  BY <1>3, <2>2, <2>3, <2>4
<1>5. /\ SumOf(Front(s)) \in Nat /\ SumOf(SubSeq(s, N, N)) \in Nat
      /\ SumOf(s) = SumOf(Front(s)) + SumOf(SubSeq(s, N, N))
  BY <1>1, <1>2, <1>3, SumSplit
<1>6. c \in Buffers /\ Counts(c)
  <2>1. c.bytes = SumOf(Front(s))
    <3>1. c.bytes = Minus(SumOf(s), SumOf(SubSeq(s, N, N)))
      BY <1>1, <1>4
    <3> HIDE DEF c, s, N
    <3> QED  BY <1>5, <3>1 DEF Minus
  <2> QED  BY <1>3, <1>5, <2>1 DEF Buffers, Counts
<1>7. ReplaceLast(b, line, r) = Push(c, line, r)
  BY DEF ReplaceLast
<1>8. c.lines = Front(s)
  OBVIOUS
<1> HIDE DEF c
<1> QED  BY <1>6, <1>7, <1>8, PushIs

\* The first k elements are the first k - 1 and the next one.
LEMMA FirstAppended ==
  ASSUME NEW S, NEW s \in Seq(S), NEW k \in 1 .. Len(s)
  PROVE  SubSeq(s, 1, k) = Append(SubSeq(s, 1, k - 1), s[k])
<1>1. 1 \in 1 .. Len(s) + 1 /\ k \in 1 .. Len(s)
  BY LenProperties
<1> QED  BY <1>1, SubSeqRecursiveSecond

\* A buffer that was rebuilt holds the end of what it held, within its limits.
LEMMA RebuiltIs ==
  ASSUME NEW b \in Buffers, NEW r \in Limits
  PROVE  /\ Rebuilt(b, r) \in Buffers /\ Counts(Rebuilt(b, r)) /\ Within(Rebuilt(b, r), r)
         /\ EndOf(Rebuilt(b, r).lines, b.lines)
         /\ b.lines # <<>> => Rebuilt(b, r).lines # <<>>
<1> DEFINE s == b.lines  N == Len(s)
           X == {c \in Buffers : Counts(c)}
           none == [lines |-> <<>>, bytes |-> 0]
           G == [n \in 1 .. N |-> [v \in X |-> Push(v, s[n], r)]]
           Def(f) == f = [n \in 0 .. N |-> IF n = 0 THEN none ELSE Push(f[n - 1], s[n], r)]
<1>1. s \in Seq(Lines) /\ N \in Nat /\ \A n \in 1 .. N : s[n] \in Lines
  BY LenProperties, ElementOfSeq DEF Buffers
<1>2. \A n \in 1 .. N, v \in X : G[n][v] = Push(v, s[n], r)
  OBVIOUS
<1>3. Closed(N, X, G)
  <2>1. \A n \in 1 .. N, v \in X : Push(v, s[n], r) \in X
    <3> HIDE DEF s, N
    <3> QED  BY <1>1, PushIs
  <2> HIDE DEF G, X, s, N
  <2> QED  BY <1>2, <2>1 DEF Closed
<1>4. none \in X /\ none.lines = <<>> /\ none.bytes = 0
  <2>1. SumOf(<<>>) = 0
    <3>1. [seq |-> 1, run |-> 0, text |-> 0, size |-> 0] \in Lines /\ <<>> \in Seq(Lines)
      BY EmptySeq DEF Lines
    <3> QED  BY <3>1, SumAppend
  <2> QED  BY <2>1, EmptySeq DEF Buffers, Counts
<1>5. PICK f : Steps(f, N, X, none, G)
  <2> HIDE DEF G, N, X, none
  <2> QED  BY <1>1, <1>3, <1>4, Recursion, Zenon
<1> HIDE DEF G, none, s
<1>6. Def(f)
  <2>1. ASSUME NEW n \in 0 .. N
        PROVE  f[n] = IF n = 0 THEN none ELSE Push(f[n - 1], s[n], r)
    <3>1. CASE n = 0
      BY <1>5, <3>1 DEF Steps
    <3>2. CASE n # 0
      <4>1. n \in 1 .. N /\ n - 1 \in 0 .. N
        BY <1>1, <3>2
      <4>2. f[n - 1] \in X
        BY <1>5, <4>1 DEF Steps
      <4> HIDE DEF X
      <4> QED  BY <1>2, <1>5, <3>2, <4>1, <4>2 DEF Steps
    <3> QED  BY <3>1, <3>2
  <2> HIDE DEF N, X
  <2> QED  BY <1>5, <2>1 DEF Steps
<1> DEFINE g == CHOOSE after : Def(after)
<1>7. Rebuilt(b, r) = g[N]
  BY DEF Rebuilt, s, none
<1>8. Def(g)
  <2> HIDE DEF Def
  <2> QED  BY <1>6
<1> HIDE DEF g
<1>9. \A n \in 0 .. N : g[n] = IF n = 0 THEN none ELSE Push(g[n - 1], s[n], r)
  <2> HIDE DEF N
  <2> QED  BY <1>8
<1> DEFINE Is(k) == /\ g[k] \in X /\ Within(g[k], r) /\ EndOf(g[k].lines, SubSeq(s, 1, k))
                    /\ k > 0 => g[k].lines # <<>>
           P == {k \in 0 .. N : Is(k)}
<1> HIDE DEF X
<1>10. 0 \in P
  <2>1. g[0] = none /\ 0 \in 0 .. N
    BY <1>1, <1>9
  <2>2. SubSeq(s, 1, 0) \in Seq(Lines) /\ Len(SubSeq(s, 1, 0)) = 0
    BY <1>1, <2>1, Parts
  <2>3. Within(none, r) /\ EndOf(none.lines, SubSeq(s, 1, 0))
    BY <1>4, <2>2 DEF Within, EndOf, Limits
  <2> QED  BY <1>4, <2>1, <2>3
<1>11. ASSUME NEW k \in 0 .. N - 1, k \in P  PROVE k + 1 \in P
  <2>1. k + 1 \in 1 .. N /\ k + 1 \in 0 .. N /\ (k + 1) - 1 = k /\ k + 1 # 0 /\ k \in 0 .. N
    <3> HIDE DEF P, N
    <3> QED  BY <1>1
  <2>2. Is(k)
    BY <1>11
  <2>3. s[k + 1] \in Lines
    BY <1>1, <2>1
  <2>4. g[k + 1] = Push(g[k], s[k + 1], r)
    <3>1. g[k + 1] = IF k + 1 = 0 THEN none ELSE Push(g[(k + 1) - 1], s[k + 1], r)
      <4> HIDE DEF N
      <4> QED  BY <1>9, <2>1, Zenon
    <3> QED  BY <2>1, <3>1
  <2>5. g[k] \in Buffers /\ Counts(g[k])
    BY <2>2 DEF X
  <2>6. /\ g[k + 1] \in Buffers /\ Counts(g[k + 1]) /\ Within(g[k + 1], r)
        /\ g[k + 1].lines # <<>> /\ EndOf(g[k + 1].lines, Append(g[k].lines, s[k + 1]))
    <3> HIDE DEF N
    <3> QED  BY <2>3, <2>4, <2>5, PushIs
  <2> DEFINE part == SubSeq(s, 1, k)
  <2>7. part \in Seq(Lines) /\ g[k].lines \in Seq(Lines) /\ g[k + 1].lines \in Seq(Lines)
    BY <1>1, <2>1, <2>5, <2>6, Parts DEF Buffers
  <2>8. SubSeq(s, 1, k + 1) = Append(part, s[k + 1])
    <3>1. SubSeq(s, 1, k + 1) = Append(SubSeq(s, 1, (k + 1) - 1), s[k + 1])
      BY <1>1, <2>1, FirstAppended
    <3> QED  BY <2>1, <3>1
  <2>9. EndOf(g[k].lines, part)
    BY <2>2
  <2> HIDE DEF part, N
  <2>10. EndOf(Append(g[k].lines, s[k + 1]), Append(part, s[k + 1]))
    <3>1. SameLine(s[k + 1], s[k + 1])
      BY DEF SameLine
    <3> QED  BY <2>3, <2>7, <2>9, <3>1, EndOfAppended, Zenon
  <2>11. EndOf(g[k + 1].lines, Append(part, s[k + 1]))
    <3> DEFINE x == g[k + 1].lines  y == Append(g[k].lines, s[k + 1])  z == Append(part, s[k + 1])
    <3>1. x \in Seq(Lines) /\ y \in Seq(Lines) /\ z \in Seq(Lines)
      BY <2>3, <2>7, AppendProperties
    <3>2. EndOf(x, y) /\ EndOf(y, z)
      BY <2>6, <2>10
    <3> HIDE DEF x, y, z
    <3>3. EndOf(x, z)
      BY <3>1, <3>2, EndOfEnd
    <3> QED  BY <3>3 DEF x, z
  <2> QED  BY <2>1, <2>6, <2>8, <2>11 DEF X
<1> HIDE DEF P
<1>12. \A k \in 0 .. N : k \in P
  BY <1>1, <1>10, <1>11, Induction
<1>13. Is(N)
  <2>1. N \in 0 .. N
    BY <1>1
  <2> QED  BY <1>12, <2>1 DEF P
<1>14. SubSeq(s, 1, N) = s
  BY <1>1, SubSeqFull
<1>15. s # <<>> => N > 0
  BY <1>1, EmptySeq
<1> QED  BY <1>7, <1>13, <1>14, <1>15 DEF X, s

-----------------------------------------------------------------------------
(* The runs of an entry.                                                     *)

\* Two entries differ in their runs only.
ButRuns(f, e) ==
  /\ f.begun = e.begun /\ f.visible = e.visible /\ f.nextSeq = e.nextSeq
  /\ f.retention = e.retention /\ f.health = e.health /\ f.nextEvent = e.nextEvent

RunOf(e, g) == CHOOSE r \in ToSet(e.runs) : r.gen = g

\* A retained run is the only one of its generation.
LEMMA RunIs ==
  ASSUME NEW e \in Entries, Once(e.runs), NEW g, HasRun(e, g)
  PROVE  /\ RunOf(e, g) \in Runs /\ RunOf(e, g).gen = g
         /\ \A r \in ToSet(e.runs) : r.gen = g => r = RunOf(e, g)
<1>1. RunOf(e, g) \in ToSet(e.runs) /\ RunOf(e, g).gen = g
  <2>1. \E r \in ToSet(e.runs) : r.gen = g
    BY DEF HasRun
  <2> QED  BY <2>1 DEF RunOf
<1>2. e.runs \in Seq(Runs)
  BY DEF Entries
<1>3. \A r \in ToSet(e.runs) : r \in Runs
  BY <1>2, LenProperties, ElementOfSeq DEF ToSet
<1>4. \A q, r \in ToSet(e.runs) : q.gen = r.gen => q = r
  BY DEF ToSet, Once
<1> HIDE DEF RunOf
<1> QED  BY <1>1, <1>3, <1>4

\* A run that is not retained is none of them.
LEMMA NoRun ==
  ASSUME NEW e \in Entries, NEW g, ~HasRun(e, g)
  PROVE  \A i \in DOMAIN e.runs : e.runs[i].gen # g
BY DEF HasRun, ToSet

\* The newest runs are retained once each.
LEMMA OnceNewest ==
  ASSUME NEW runs \in Seq(Runs), Once(runs), NEW n \in Nat \ {0}
  PROVE  Newest(runs, n) \in Seq(Runs) /\ Once(Newest(runs, n))
<1>1. CASE runs = <<>>
  <2>1. Len(runs) = 0
    BY <1>1, EmptySeq
  <2>2. Minus(0, n) = 0
    BY DEF Minus
  <2>3. Newest(runs, n) = SubSeq(runs, 1, Len(runs))
    BY <2>1, <2>2 DEF Newest
  <2>4. Newest(runs, n) = runs
    BY <2>3, SubSeqFull
  <2> QED  BY <2>4
<1>2. CASE runs # <<>>
  <2> DEFINE s == Newest(runs, n)
  <2>0. PICK m \in 0 .. Len(runs) - 1 : After(s, runs, n, Runs, m)
    BY <1>2, NewestIs
  <2>1. /\ s \in Seq(Runs) /\ Len(s) = Len(runs) - m
        /\ \A i \in 1 .. Len(runs) - m : s[i] = runs[m + i]
    BY <2>0 DEF After
  <2>2. Len(runs) \in Nat /\ DOMAIN runs = 1 .. Len(runs) /\ DOMAIN s = 1 .. Len(runs) - m
    BY <2>1, LenProperties
  <2> HIDE DEF s
  <2>3. ASSUME NEW i \in 1 .. Len(runs) - m, NEW j \in 1 .. Len(runs) - m, s[i].gen = s[j].gen
        PROVE  i = j
    <3>1. m + i \in 1 .. Len(runs) /\ m + j \in 1 .. Len(runs)
      BY <2>2
    <3>2. s[i] = runs[m + i] /\ s[j] = runs[m + j]
      BY <2>1
    <3>3. runs[m + i].gen = runs[m + j].gen
      BY <2>3, <3>2
    <3>4. m + i = m + j
      BY <2>2, <3>1, <3>3 DEF Once
    <3> QED  BY <2>2, <3>4
  <2> QED  BY <2>1, <2>2, <2>3 DEF Once, s
<1> QED  BY <1>1, <1>2

\* ensure_run leaves all but the runs alone, and the run is one of them.
LEMMA EnsureRunIs ==
  ASSUME NEW e \in Entries, Once(e.runs), NEW g \in Nat
  PROVE  /\ EnsureRun(e, g) \in Entries /\ ButRuns(EnsureRun(e, g), e)
         /\ Once(EnsureRun(e, g).runs) /\ HasRun(EnsureRun(e, g), g)
         /\ \A live : Replaces(EnsureRun(e, g), g, live) <=> Replaces(e, g, live)
<1>1. CASE HasRun(e, g)
  BY <1>1 DEF EnsureRun, ButRuns
<1>2. CASE ~HasRun(e, g)
  <2> DEFINE run == [gen |-> g, last |-> 0, live |-> 0]
             all == Append(e.runs, run)
             N == Len(e.runs)
             n == e.retention.runs
             new == Newest(all, n)
             f == EnsureRun(e, g)
  <2>1. /\ e.runs \in Seq(Runs) /\ run \in Runs /\ n \in Nat \ {0} /\ N \in Nat
        /\ DOMAIN e.runs = 1 .. N
    BY LenProperties DEF Entries, Runs, Limits
  <2>2. /\ all \in Seq(Runs) /\ Len(all) = N + 1 /\ all # <<>> /\ all[N + 1] = run
        /\ \A i \in 1 .. N : all[i] = e.runs[i]
    BY <2>1, AppendProperties
  <2>3. run.gen = g /\ run.last = 0 /\ run.live = 0
    OBVIOUS
  <2> HIDE DEF run, all
  <2>4. \A i \in 1 .. N : e.runs[i].gen # g
    BY <1>2, <2>1, NoRun
  <2>5. Once(all)
    <3>1. DOMAIN all = 1 .. N + 1
      BY <2>2, LenProperties
    <3>2. ASSUME NEW i \in 1 .. N + 1, NEW j \in 1 .. N + 1, all[i].gen = all[j].gen
          PROVE  i = j
      <4>1. CASE i \in 1 .. N /\ j \in 1 .. N
        BY <2>1, <2>2, <3>2, <4>1 DEF Once
      <4>2. CASE i = N + 1 /\ j \in 1 .. N
        BY <2>2, <2>3, <2>4, <3>2, <4>2
      <4>3. CASE i \in 1 .. N /\ j = N + 1
        BY <2>2, <2>3, <2>4, <3>2, <4>3
      <4> QED  BY <2>1, <4>1, <4>2, <4>3
    <3> QED  BY <3>1, <3>2 DEF Once
  <2>6. new \in Seq(Runs) /\ Once(new)
    BY <2>1, <2>2, <2>5, OnceNewest
  <2>0. PICK m \in 0 .. Len(all) - 1 : After(new, all, n, Runs, m)
    BY <2>1, <2>2, NewestIs
  <2>7. Len(new) = Len(all) - m /\ \A i \in 1 .. Len(all) - m : new[i] = all[m + i]
    BY <2>0 DEF After
  <2>8. f = [e EXCEPT !.runs = new]
    BY <1>2 DEF EnsureRun, all, run
  <2> HIDE DEF new, f
  <2>9. f.runs = new
    BY <2>8 DEF Entries
  <2>10. f \in Entries /\ ButRuns(f, e)
    <3>1. f \in Entries
      BY <2>6, <2>8 DEF Entries
    <3>2. ButRuns(f, e)
      BY <2>8 DEF Entries, ButRuns
    <3> QED  BY <3>1, <3>2
  <2>11. DOMAIN new = 1 .. (N + 1) - m /\ m \in 0 .. N
    BY <2>1, <2>2, <2>6, <2>7, LenProperties
  <2>12. HasRun(f, g)
    <3>1. (N + 1) - m \in 1 .. (N + 1) - m /\ m + ((N + 1) - m) = N + 1
      BY <2>1, <2>11
    <3>2. new[(N + 1) - m] = run
      BY <2>2, <2>7, <3>1
    <3> QED  BY <2>3, <2>9, <2>11, <3>1, <3>2 DEF HasRun, ToSet
  <2>13. \A r \in ToSet(f.runs) : r.gen = g => r.live = 0
    <3> SUFFICES ASSUME NEW i \in 1 .. (N + 1) - m, new[i].gen = g  PROVE new[i].live = 0
      BY <2>9, <2>11 DEF ToSet
    <3>1. m + i \in 1 .. N + 1 /\ new[i] = all[m + i]
      BY <2>1, <2>2, <2>7, <2>11
    <3>2. CASE m + i = N + 1
      BY <2>2, <2>3, <3>1, <3>2
    <3>3. CASE m + i # N + 1
      <4>1. m + i \in 1 .. N
        BY <2>1, <3>1, <3>3
      <4> QED  BY <2>2, <2>4, <3>1, <4>1
    <3> QED  BY <3>2, <3>3
  <2>14. \A live : ~Replaces(f, g, live) /\ ~Replaces(e, g, live)
    <3>1. \A live : ~Replaces(f, g, live)
      BY <2>13 DEF Replaces
    <3>2. \A live : ~Replaces(e, g, live)
      BY <1>2 DEF Replaces, HasRun
    <3> QED  BY <3>1, <3>2
  <2> QED  BY <2>6, <2>9, <2>10, <2>12, <2>14 DEF f
<1> QED  BY <1>1, <1>2

\* A new value for one run leaves all but the runs alone.
LEMMA WithRunIs ==
  ASSUME NEW e \in Entries, Once(e.runs), NEW g \in Nat, NEW run \in Runs, run.gen = g
  PROVE  /\ WithRun(e, g, run) \in Entries /\ ButRuns(WithRun(e, g, run), e)
         /\ Once(WithRun(e, g, run).runs)
<1> DEFINE f == WithRun(e, g, run)
           new == [i \in DOMAIN e.runs |-> IF e.runs[i].gen = g THEN run ELSE e.runs[i]]
<1>1. e.runs \in Seq(Runs) /\ Len(e.runs) \in Nat /\ DOMAIN e.runs = 1 .. Len(e.runs)
  BY LenProperties DEF Entries
<1>2. f = [e EXCEPT !.runs = new]
  BY DEF WithRun
<1>3. new \in Seq(Runs)
  <2>1. \A i \in 1 .. Len(e.runs) : new[i] \in Runs
    BY <1>1, ElementOfSeq
  <2>2. new = [i \in 1 .. Len(e.runs) |-> new[i]]
    BY <1>1
  <2> HIDE DEF new
  <2>3. [i \in 1 .. Len(e.runs) |-> new[i]] \in Seq(Runs)
    BY <1>1, <2>1, IsASeq
  <2> QED  BY <2>2, <2>3
<1>4. \A i \in DOMAIN e.runs : new[i].gen = e.runs[i].gen
  OBVIOUS
<1>5. DOMAIN new = DOMAIN e.runs
  OBVIOUS
<1> HIDE DEF new, f
<1>6. f.runs = new /\ f \in Entries
  BY <1>2, <1>3 DEF Entries
<1>7. ButRuns(f, e)
  BY <1>2 DEF Entries, ButRuns
<1>8. Once(new)
  BY <1>4, <1>5 DEF Once
<1> QED  BY <1>6, <1>7, <1>8 DEF f

-----------------------------------------------------------------------------
(* What a write leaves.                                                      *)

\* The entry a is e after the run g wrote a line.
Written(a, e, g, live, size, text) ==
  /\ a \in Entries /\ Once(a.runs)
  /\ a.begun = e.begun /\ a.retention = e.retention /\ a.health = e.health
  /\ a.nextEvent = e.nextEvent
  /\ g # e.begun => a.visible = e.visible /\ e.nextSeq <= a.nextSeq
  /\ (g = e.begun /\ Replaces(e, g, live)) =>
       /\ e.visible.lines # <<>> /\ a.nextSeq = e.nextSeq
       /\ a.visible = ReplaceLast(e.visible, [seq |-> Last(e.visible.lines).seq, run |-> g,
                                              text |-> text, size |-> size], e.retention)
  /\ (g = e.begun /\ ~Replaces(e, g, live)) =>
       /\ a.nextSeq = e.nextSeq + 1
       /\ a.visible = Push(e.visible, [seq |-> e.nextSeq, run |-> g,
                                       text |-> text, size |-> size], e.retention)

\* What append_log leaves: the cases of a late run, a replaced line, a new one.
LEMMA AppendLogIs ==
  ASSUME NEW e \in Entries, Once(e.runs), Counts(e.visible), NEW g \in Nat, NEW live \in Nat,
         NEW size \in Nat, NEW text \in Nat
  PROVE  Written(AppendLog(e, g, live, size, text), e, g, live, size, text)
<1> DEFINE a == AppendLog(e, g, live, size, text)
           f == EnsureRun(e, g)
           replaces == Replaces(f, g, live)
           run == RunOf(f, g)
           seq == IF replaces THEN run.last ELSE e.nextSeq
           line == [seq |-> seq, run |-> g, text |-> text, size |-> size]
           new == [run EXCEPT !.last = seq, !.live = live]
           w == WithRun(f, g, new)
           h == [w EXCEPT !.nextSeq = IF replaces THEN @ ELSE @ + 1]
           v == IF replaces THEN ReplaceLast(e.visible, line, e.retention)
                            ELSE Push(e.visible, line, e.retention)
<1> SUFFICES Written(a, e, g, live, size, text)
  OBVIOUS
<1>1. e.nextSeq \in Nat \ {0} /\ e.visible \in Buffers /\ e.retention \in Limits
  BY DEF Entries
<1>2. CASE g # e.begun /\ ~HasRun(e, g)
  BY <1>1, <1>2 DEF AppendLog, Written
<1>3. CASE ~(g # e.begun /\ ~HasRun(e, g))
  <2>1. f \in Entries /\ ButRuns(f, e) /\ Once(f.runs) /\ HasRun(f, g)
    BY EnsureRunIs
  <2>2. replaces <=> Replaces(e, g, live)
    BY EnsureRunIs, Zenon
  <2> HIDE DEF f
  <2>3. /\ run \in Runs /\ run.gen = g
        /\ \A r \in ToSet(f.runs) : r.gen = g => r = run
    BY <2>1, RunIs
  <2> HIDE DEF run, replaces
  <2>4. seq \in Nat
    BY <1>1, <2>3 DEF Runs
  <2> HIDE DEF seq
  <2>5. new \in Runs /\ new.gen = g
    BY <2>3, <2>4 DEF Runs
  <2> HIDE DEF new
  <2>6. w \in Entries /\ ButRuns(w, f) /\ Once(w.runs)
    BY <2>1, <2>5, WithRunIs
  <2>7. /\ w.begun = e.begun /\ w.retention = e.retention /\ w.health = e.health
        /\ w.nextEvent = e.nextEvent /\ w.visible = e.visible /\ w.nextSeq = e.nextSeq
    BY <2>1, <2>6 DEF ButRuns
  <2> HIDE DEF w
  <2>8. /\ h \in Entries /\ Once(h.runs)
        /\ h.begun = e.begun /\ h.retention = e.retention /\ h.health = e.health
        /\ h.nextEvent = e.nextEvent /\ h.visible = e.visible
        /\ h.nextSeq = IF replaces THEN e.nextSeq ELSE e.nextSeq + 1
    <3> DEFINE n == IF replaces THEN w.nextSeq ELSE w.nextSeq + 1
    <3>8. n \in Nat \ {0}
      BY <1>1, <2>7
    <3>9. h = [w EXCEPT !.nextSeq = n]
      OBVIOUS
    <3>1. h \in Entries
      <4> HIDE DEF n, h
      <4> QED  BY <2>6, <3>8, <3>9 DEF Entries
    <3>2. h.runs = w.runs
      BY <2>6 DEF Entries
    <3>3. /\ h.begun = w.begun /\ h.retention = w.retention /\ h.health = w.health
          /\ h.nextEvent = w.nextEvent /\ h.visible = w.visible
          /\ h.nextSeq = IF replaces THEN w.nextSeq ELSE w.nextSeq + 1
      BY <2>6 DEF Entries
    <3> HIDE DEF h
    <3> QED  BY <2>6, <2>7, <3>1, <3>2, <3>3
  <2>9. a = IF ~IsVisible(e, g) THEN h
            ELSE IF replaces
              THEN [h EXCEPT !.visible = ReplaceLast(@, line, e.retention)]
              ELSE [h EXCEPT !.visible = Push(@, line, e.retention)]
    BY <1>3 DEF AppendLog, RunOf, h, w, new, seq, run, replaces, f
  <2> HIDE DEF h, a
  <2>10. CASE g # e.begun
    BY <1>1, <2>8, <2>9, <2>10 DEF IsVisible, Written
  <2>11. CASE g = e.begun
    <3>1. a = [h EXCEPT !.visible = v]
      BY <2>8, <2>9, <2>11 DEF IsVisible
    <3>2. replaces => e.visible.lines # <<>> /\ seq = Last(e.visible.lines).seq /\ seq \in Nat \ {0}
      <4> HAVE replaces
      <4>1. PICK r \in ToSet(f.runs) :
              /\ r.gen = g /\ r.last # 0
              /\ g = f.begun => f.visible.lines # <<>> /\ Last(f.visible.lines).seq = r.last
        BY DEF replaces, Replaces
      <4>2. f.begun = e.begun /\ f.visible = e.visible
        BY <2>1 DEF ButRuns
      <4>3. r = run
        BY <2>3, <4>1
      <4>4. e.visible.lines # <<>> /\ Last(e.visible.lines).seq = seq
        BY <2>11, <4>1, <4>2, <4>3 DEF seq
      <4> QED  BY <2>4, <4>1, <4>3, <4>4 DEF seq
    <3>3. ~replaces => seq = e.nextSeq
      BY DEF seq
    <3>4. line \in Lines /\ line.seq = seq
      BY <1>1, <3>2, <3>3 DEF Lines
    <3> HIDE DEF line
    <3>5. v \in Buffers
      <4>1. CASE replaces
        BY <1>1, <3>2, <3>4, <4>1, ReplaceLastIs
      <4>2. CASE ~replaces
        BY <1>1, <3>4, <4>2, PushIs
      <4> QED  BY <4>1, <4>2
    <3> HIDE DEF v
    <3>6. a \in Entries /\ a.visible = v
      BY <2>8, <3>1, <3>5 DEF Entries
    <3>7. /\ a.runs = h.runs /\ a.begun = h.begun /\ a.retention = h.retention
          /\ a.health = h.health /\ a.nextEvent = h.nextEvent /\ a.nextSeq = h.nextSeq
      BY <2>8, <3>1 DEF Entries
    <3>8. /\ a \in Entries /\ Once(a.runs)
          /\ a.begun = e.begun /\ a.retention = e.retention /\ a.health = e.health
          /\ a.nextEvent = e.nextEvent
          /\ a.nextSeq = IF replaces THEN e.nextSeq ELSE e.nextSeq + 1
      BY <2>8, <3>6, <3>7
    <3>9. replaces => a.visible = ReplaceLast(e.visible,
            [seq |-> Last(e.visible.lines).seq, run |-> g, text |-> text, size |-> size], e.retention)
      BY <3>2, <3>6 DEF v, line
    <3>10. ~replaces => a.visible = Push(e.visible,
             [seq |-> e.nextSeq, run |-> g, text |-> text, size |-> size], e.retention)
      BY <3>3, <3>6 DEF v, line
    <3> QED  BY <2>2, <2>11, <3>2, <3>8, <3>9, <3>10 DEF Written
  <2> QED  BY <2>10, <2>11
<1> QED  BY <1>2, <1>3

-----------------------------------------------------------------------------
(* The order of the stream, and of its ends.                                 *)

\* An end of an increasing stream is increasing.
LEMMA EndIncreasing ==
  ASSUME NEW S, NEW T, NEW a \in Seq(S), NEW b \in Seq(T), NEW next,
         EndOf(a, b), Increasing(b), Below(b, next)
  PROVE  Increasing(a) /\ Below(a, next)
<1> DEFINE x == Len(a)  y == Len(b)
<1>1. x \in Nat /\ y \in Nat /\ x <= y /\ DOMAIN a = 1 .. x /\ DOMAIN b = 1 .. y
  BY LenProperties DEF EndOf
<1>2. \A i \in 1 .. x : (y - x) + i \in 1 .. y /\ a[i].seq = b[(y - x) + i].seq
  <2>1. \A i \in 1 .. x : (y - x) + i \in 1 .. y
    <3> HIDE DEF x, y
    <3> QED  BY <1>1
  <2>2. \A i \in 1 .. x : a[i].seq = b[(y - x) + i].seq
    BY <1>1 DEF EndOf, SameLine
  <2> QED  BY <2>1, <2>2
<1> HIDE DEF x, y
<1>3. \A i, j \in 1 .. x : i < j => (y - x) + i < (y - x) + j
  BY <1>1
<1> QED  BY <1>1, <1>2, <1>3 DEF Increasing, Below

\* A stream stays ordered with a line of the latest run at its end.
LEMMA OrderedAppended ==
  ASSUME NEW s \in Seq(ShownLines), NEW n \in ShownLines, NEW begun \in Nat, NEW next \in Nat,
         Ordered(s, n.seq, n.run), n.run <= begun, n.seq < next
  PROVE  Append(s, n) \in Seq(ShownLines) /\ Ordered(Append(s, n), next, begun)
<1> DEFINE x == Len(s)  t == Append(s, n)
<1>1. x \in Nat /\ DOMAIN s = 1 .. x
  BY LenProperties
<1>2. t \in Seq(ShownLines) /\ Len(t) = x + 1 /\ t[x + 1] = n /\ \A i \in 1 .. x : t[i] = s[i]
  BY AppendProperties
<1>3. DOMAIN t = 1 .. x + 1
  <2> HIDE DEF t, x
  <2> QED  BY <1>2, LenProperties
<1>4. /\ n.seq \in Nat /\ n.run \in Nat
      /\ \A i \in 1 .. x : s[i].seq \in Nat /\ s[i].run \in Nat
  <2>1. \A l \in ShownLines : l.seq \in Nat /\ l.run \in Nat
    BY DEF ShownLines
  <2>2. \A i \in 1 .. x : s[i] \in ShownLines
    BY ElementOfSeq
  <2> QED  BY <2>1, <2>2
<1> HIDE DEF t, x
<1>5. ASSUME NEW i \in 1 .. x + 1, NEW j \in 1 .. x + 1, i < j
      PROVE  t[i].seq < t[j].seq /\ t[i].run <= t[j].run
  <2>1. i \in 1 .. x
    BY <1>1, <1>5
  <2>2. CASE j = x + 1
    BY <1>1, <1>2, <2>1, <2>2 DEF Ordered, Below
  <2>3. CASE j # x + 1
    <3>1. j \in 1 .. x
      BY <1>1, <2>3
    <3> QED  BY <1>1, <1>2, <1>5, <2>1, <3>1 DEF Ordered, Increasing
  <2> QED  BY <2>2, <2>3
<1>6. ASSUME NEW i \in 1 .. x + 1  PROVE t[i].seq < next /\ t[i].run <= begun
  <2>1. CASE i = x + 1
    BY <1>2, <2>1
  <2>2. CASE i # x + 1
    <3>1. i \in 1 .. x
      BY <1>1, <2>2
    <3>2. t[i].seq < n.seq /\ t[i].run <= n.run /\ t[i].seq \in Nat /\ t[i].run \in Nat
      BY <1>1, <1>2, <1>4, <3>1 DEF Ordered, Below
    <3> QED  BY <1>4, <3>2
  <2> QED  BY <2>1, <2>2
<1>7. Ordered(t, next, begun)
  BY <1>3, <1>5, <1>6 DEF Ordered, Increasing, Below
<1> QED  BY <1>2, <1>7 DEF t

\* A stream stays ordered without its last line.
LEMMA OrderedFront ==
  ASSUME NEW s \in Seq(ShownLines), NEW begun \in Nat, NEW next \in Nat,
         Ordered(s, next, begun), s # <<>>
  PROVE  /\ Front(s) \in Seq(ShownLines) /\ Last(s) \in ShownLines
         /\ Ordered(Front(s), Last(s).seq, begun)
         /\ Last(s).seq < next /\ Last(s).run <= begun
<1> DEFINE x == Len(s)  t == Front(s)
<1>2. x \in Nat /\ DOMAIN s = 1 .. x /\ x # 0
  BY FrontIs
<1>3. /\ t \in Seq(ShownLines) /\ Len(t) = x - 1 /\ Last(s) = s[x] /\ Last(s) \in ShownLines
      /\ \A i \in 1 .. x - 1 : t[i] = s[i]
  BY FrontIs
<1>4. DOMAIN t = 1 .. x - 1
  <2> HIDE DEF t, x
  <2> QED  BY <1>3, LenProperties
<1> HIDE DEF t, x
<1>5. x \in 1 .. x /\ \A i \in 1 .. x - 1 : i \in 1 .. x /\ i < x
  BY <1>2
<1>6. Ordered(t, Last(s).seq, begun)
  BY <1>2, <1>3, <1>4, <1>5 DEF Ordered, Increasing, Below
<1> QED  BY <1>2, <1>3, <1>5, <1>6 DEF Ordered, Below, t

-----------------------------------------------------------------------------
(* A cache and the log it was taken from, when the log changes.              *)

\* The numbers of the lines of a log or a cache.
LEMMA Numbers ==
  ASSUME NEW s, (s \in Seq(Lines) \/ s \in Seq(Texts))
  PROVE  /\ Len(s) \in Nat /\ DOMAIN s = 1 .. Len(s)
         /\ \A i \in 1 .. Len(s) : s[i].seq \in Nat \ {0}
<1>1. CASE s \in Seq(Lines)
  <2>1. Len(s) \in Nat /\ DOMAIN s = 1 .. Len(s) /\ \A i \in 1 .. Len(s) : s[i] \in Lines
    BY <1>1, ElementOfSeq, LenProperties
  <2>2. \A l \in Lines : l.seq \in Nat \ {0}
    BY DEF Lines
  <2> QED  BY <2>1, <2>2
<1>2. CASE s \in Seq(Texts)
  <2>1. Len(s) \in Nat /\ DOMAIN s = 1 .. Len(s) /\ \A i \in 1 .. Len(s) : s[i] \in Texts
    BY <1>2, ElementOfSeq, LenProperties
  <2>2. \A l \in Texts : l.seq \in Nat \ {0}
    BY DEF Texts
  <2> QED  BY <2>1, <2>2
<1> QED  BY <1>1, <1>2

\* The next number grew.
LEMMA AlignedLater ==
  ASSUME NEW c \in Seq(Texts), NEW s \in Seq(Lines), NEW next \in Nat, NEW later \in Nat,
         next <= later, Aligned(c, s, next)
  PROVE  Aligned(c, s, later)
<1>1. PICK k \in Nat : Agrees(c, s, next, k)
  BY DEF Aligned
<1>2. DOMAIN c = 1 .. Len(c) /\ \A i \in 1 .. Len(c) : c[i].seq \in Nat
  BY Numbers
<1>3. \A i \in DOMAIN c : i <= Len(c) - k => c[i].seq < Floor(s, later)
  <2>1. CASE s = <<>>
    <3>1. \A i \in DOMAIN c : i <= Len(c) - k => c[i].seq < next
      BY <1>1, <2>1 DEF Agrees, Floor
    <3>2. Floor(s, later) = later
      BY <2>1 DEF Floor
    <3> QED  BY <1>2, <3>1, <3>2
  <2>2. CASE s # <<>>
    BY <1>1, <2>2 DEF Agrees, Floor
  <2> QED  BY <2>1, <2>2
<1>4. Agrees(c, s, later, k)
  BY <1>1, <1>3 DEF Agrees
<1> QED  BY <1>4 DEF Aligned

\* Every cached line is older than the next.
LEMMA AlignedBelow ==
  ASSUME NEW c \in Seq(Texts), NEW s \in Seq(Lines), NEW next \in Nat,
         Below(s, next), Aligned(c, s, next)
  PROVE  Below(c, next)
<1>1. PICK k \in Nat : Agrees(c, s, next, k)
  BY DEF Aligned
<1> DEFINE w == Len(c)  v == Len(s)
<1>2. /\ w \in Nat /\ DOMAIN c = 1 .. w /\ \A i \in 1 .. w : c[i].seq \in Nat
      /\ v \in Nat /\ DOMAIN s = 1 .. v /\ \A i \in 1 .. v : s[i].seq \in Nat
  BY Numbers
<1>3. k \in 0 .. w /\ k <= v
  BY <1>1 DEF Agrees
<1>4. ASSUME NEW i \in 1 .. w  PROVE c[i].seq < next
  <2>1. CASE i <= w - k
    <3>1. c[i].seq < Floor(s, next)
      BY <1>1, <1>2, <2>1 DEF Agrees
    <3>2. CASE s = <<>>
      BY <3>1, <3>2 DEF Floor
    <3>3. CASE s # <<>>
      <4>1. 1 \in 1 .. v
        BY <1>2, <3>3, EmptySeq
      <4>2. s[1].seq < next /\ s[1].seq \in Nat
        BY <1>2, <4>1 DEF Below
      <4>3. c[i].seq < s[1].seq
        BY <3>1, <3>3 DEF Floor
      <4> QED  BY <1>2, <4>2, <4>3
    <3> QED  BY <3>2, <3>3
  <2>2. CASE ~(i <= w - k)
    <3>1. i - (w - k) \in 1 .. k /\ (w - k) + (i - (w - k)) = i /\ i - (w - k) \in 1 .. v
      <4> HIDE DEF w, v
      <4> QED  BY <1>2, <1>3, <2>2
    <3>2. c[(w - k) + (i - (w - k))].seq = s[i - (w - k)].seq
      BY <1>1, <3>1 DEF Agrees
    <3>3. s[i - (w - k)].seq < next
      <4> HIDE DEF w, v
      <4> QED  BY <1>2, <3>1 DEF Below
    <3> QED  BY <3>1, <3>2, <3>3
  <2> QED  BY <2>1, <2>2
<1> QED  BY <1>2, <1>4 DEF Below

\* With a log that was emptied.
LEMMA AlignedCleared ==
  ASSUME NEW c \in Seq(Texts), NEW next, Below(c, next)
  PROVE  Aligned(c, <<>>, next)
<1>1. Len(c) \in Nat /\ DOMAIN c = 1 .. Len(c)
  BY LenProperties
<1>2. 0 \in 0 .. Len(c) /\ 0 <= Len(<<>>) /\ 1 .. 0 = {}
  BY <1>1, EmptySeq
<1>3. Floor(<<>>, next) = next
  BY DEF Floor
<1>4. Agrees(c, <<>>, next, 0)
  BY <1>2, <1>3 DEF Agrees, Below
<1> QED  BY <1>4 DEF Aligned

\* With the end of the log.
LEMMA AlignedEnd ==
  ASSUME NEW c \in Seq(Texts), NEW s \in Seq(Lines), NEW t \in Seq(Lines), NEW next \in Nat,
         Increasing(s), EndOf(t, s), s # <<>> => t # <<>>, Aligned(c, s, next)
  PROVE  Aligned(c, t, next)
<1>1. PICK k \in Nat : Agrees(c, s, next, k)
  BY DEF Aligned
<1> DEFINE w == Len(c)  v == Len(s)  x == Len(t)  d == v - x
           n == IF k <= d THEN 0 ELSE k - d
<1>2. /\ w \in Nat /\ DOMAIN c = 1 .. w /\ \A i \in 1 .. w : c[i].seq \in Nat
      /\ v \in Nat /\ DOMAIN s = 1 .. v /\ \A i \in 1 .. v : s[i].seq \in Nat
      /\ x \in Nat /\ DOMAIN t = 1 .. x
  BY Numbers
<1>3. x <= v /\ \A i \in 1 .. x : t[i].seq = s[d + i].seq /\ t[i].text = s[d + i].text
  BY <1>2 DEF EndOf, SameLine
<1>4. k \in 0 .. w /\ k <= v
  BY <1>1 DEF Agrees
<1>5. /\ \A i \in 1 .. w : i <= w - k => c[i].seq < Floor(s, next)
      /\ \A i \in 1 .. k : /\ c[(w - k) + i].seq = s[i].seq
                           /\ i < k => c[(w - k) + i].text = s[i].text
  BY <1>1, <1>2 DEF Agrees
<1>6. s = <<>> => v = 0
  BY EmptySeq
<1>7. s # <<>> => v # 0 /\ x # 0
  BY EmptySeq
<1>8. t = <<>> => x = 0
  BY EmptySeq
<1> HIDE DEF w, v, x
<1>9. d \in Nat /\ n \in 0 .. w /\ n <= x
  BY <1>2, <1>3, <1>4
<1>10. ASSUME NEW i \in 1 .. w, i <= w - n  PROVE c[i].seq < Floor(t, next)
  <2>1. CASE s = <<>>
    <3>1. v = 0 /\ x = 0 /\ k = 0 /\ n = 0
      BY <1>2, <1>3, <1>4, <1>6, <2>1
    <3>2. t = <<>>
      BY <3>1, EmptySeq DEF x
    <3>3. i <= w - k
      BY <1>2, <1>10, <3>1
    <3> QED  BY <1>5, <2>1, <3>2, <3>3 DEF Floor
  <2>2. CASE s # <<>>
    <3>1. x # 0 /\ t # <<>> /\ 1 \in 1 .. x /\ d + 1 \in 1 .. v /\ 1 \in 1 .. v
      <4>1. x # 0 /\ t # <<>>
        BY <1>7, <2>2
      <4>2. 1 \in 1 .. x /\ d + 1 \in 1 .. v /\ 1 \in 1 .. v
        BY <1>2, <1>3, <4>1
      <4> QED  BY <4>1, <4>2
    <3>2. Floor(t, next) = s[d + 1].seq /\ Floor(s, next) = s[1].seq
      BY <1>3, <2>2, <3>1 DEF Floor
    <3>3. \A j \in 1 .. v : j <= d => s[j].seq < s[d + 1].seq
      <4>1. \A j \in 1 .. v : j <= d => j < d + 1
        BY <1>9
      <4> QED  BY <1>2, <3>1, <4>1 DEF Increasing
    <3>4. s[1].seq <= s[d + 1].seq
      <4>1. CASE d = 0
        BY <1>2, <3>1, <4>1
      <4>2. CASE d # 0
        <5>1. 1 <= d
          BY <1>9, <4>2
        <5> QED  BY <1>2, <3>1, <3>3, <5>1
      <4> QED  BY <4>1, <4>2
    <3>5. CASE i <= w - k
      BY <1>2, <1>5, <3>1, <3>2, <3>4, <3>5
    <3>6. CASE ~(i <= w - k)
      <4> DEFINE j == i - (w - k)
      <4>1. j \in 1 .. k /\ (w - k) + j = i /\ j \in 1 .. v /\ j <= d
        BY <1>2, <1>3, <1>4, <1>10, <3>6
      <4>2. c[i].seq = s[j].seq
        <5>1. c[(w - k) + j].seq = s[j].seq
          <6> HIDE DEF j
          <6> QED  BY <1>5, <4>1
        <5> QED  BY <4>1, <5>1
      <4> HIDE DEF j
      <4> QED  BY <3>2, <3>3, <4>1, <4>2
    <3> QED  BY <3>5, <3>6
  <2> QED  BY <2>1, <2>2
<1>11. ASSUME NEW i \in 1 .. n
       PROVE  /\ c[(w - n) + i].seq = t[i].seq
              /\ i < n => c[(w - n) + i].text = t[i].text
  <2>1. /\ (w - n) + i = (w - k) + (d + i) /\ d + i \in 1 .. k /\ i \in 1 .. x
        /\ i < n => d + i < k
    BY <1>2, <1>3, <1>4, <1>9
  <2> HIDE DEF d, n
  <2>2. /\ c[(w - k) + (d + i)].seq = s[d + i].seq
        /\ d + i < k => c[(w - k) + (d + i)].text = s[d + i].text
    BY <1>5, <2>1
  <2> QED  BY <1>3, <2>1, <2>2
<1> HIDE DEF n, d
<1>12. Agrees(c, t, next, n)
  BY <1>2, <1>9, <1>10, <1>11 DEF Agrees, w, x
<1> QED  BY <1>9, <1>12 DEF Aligned

\* With one more line, which the cache has still to fetch.
LEMMA AlignedAppended ==
  ASSUME NEW c \in Seq(Texts), NEW s \in Seq(Lines), NEW l \in Lines, Aligned(c, s, l.seq)
  PROVE  Aligned(c, Append(s, l), l.seq + 1)
<1>1. PICK k \in Nat : Agrees(c, s, l.seq, k)
  BY DEF Aligned
<1> DEFINE t == Append(s, l)
<1>2. /\ Len(s) \in Nat /\ Len(t) = Len(s) + 1 /\ t[Len(s) + 1] = l
      /\ \A i \in 1 .. Len(s) : t[i] = s[i]
  BY AppendProperties, LenProperties
<1>3. t # <<>>
  BY AppendProperties
<1> HIDE DEF t
<1>4. Floor(t, l.seq + 1) = Floor(s, l.seq)
  <2>1. CASE s = <<>>
    <3>1. Len(s) = 0
      BY <2>1, EmptySeq
    <3>2. t[1] = l
      BY <1>2, <3>1
    <3> QED  BY <1>3, <2>1, <3>2 DEF Floor
  <2>2. CASE s # <<>>
    <3>1. 1 \in 1 .. Len(s)
      BY <1>2, <2>2, EmptySeq
    <3>2. t[1] = s[1]
      BY <1>2, <3>1
    <3> QED  BY <1>3, <2>2, <3>2 DEF Floor
  <2> QED  BY <2>1, <2>2
<1>5. k <= Len(s) /\ k \in 0 .. Len(c)
  BY <1>1 DEF Agrees
<1>6. k <= Len(t) /\ \A i \in 1 .. k : t[i] = s[i]
  BY <1>2, <1>5
<1>7. Agrees(c, t, l.seq + 1, k)
  BY <1>1, <1>4, <1>6 DEF Agrees
<1> QED  BY <1>7 DEF Aligned, t

\* With another text in its last line, which the cache has still to fetch.
LEMMA AlignedReplaced ==
  ASSUME NEW c \in Seq(Texts), NEW s \in Seq(Lines), NEW l \in Lines, NEW next,
         Aligned(c, s, next), s # <<>>, Last(s).seq = l.seq
  PROVE  Aligned(c, Append(Front(s), l), next)
<1>1. PICK k \in Nat : Agrees(c, s, next, k)
  BY DEF Aligned
<1> DEFINE a == Front(s)  t == Append(a, l)  N == Len(s)
<1>2. /\ N \in Nat \ {0} /\ a \in Seq(Lines) /\ Len(a) = N - 1 /\ Last(s) = s[N]
      /\ \A i \in 1 .. N - 1 : a[i] = s[i]
  BY FrontIs
<1> HIDE DEF a, N
<1>3. /\ Len(t) = Len(a) + 1 /\ t[Len(a) + 1] = l /\ t # <<>>
      /\ \A i \in 1 .. Len(a) : t[i] = a[i]
  BY <1>2, AppendProperties
<1> HIDE DEF t
<1>4. Len(t) = N /\ t[N] = l /\ \A i \in 1 .. N - 1 : t[i] = s[i]
  BY <1>2, <1>3
<1>5. \A i \in 1 .. N : t[i].seq = s[i].seq /\ (i < N => t[i].text = s[i].text)
  <2>1. \A i \in 1 .. N : i < N => i \in 1 .. N - 1
    BY <1>2
  <2>2. \A i \in 1 .. N : i = N \/ i < N
    BY <1>2
  <2> QED  BY <1>2, <1>4, <2>1, <2>2
<1>6. Floor(t, next) = Floor(s, next)
  <2>1. 1 \in 1 .. N
    BY <1>2
  <2> QED  BY <1>3, <1>5, <2>1 DEF Floor
<1>7. k <= N /\ k \in 0 .. Len(c) /\ \A i \in 1 .. k : i \in 1 .. N /\ (i < k => i < N)
  <2>1. k <= N /\ k \in 0 .. Len(c)
    BY <1>1 DEF Agrees, N
  <2> QED  BY <1>2, <2>1
<1>8. \A i \in 1 .. k : /\ c[(Len(c) - k) + i].seq = t[i].seq
                        /\ i < k => c[(Len(c) - k) + i].text = t[i].text
  BY <1>1, <1>5, <1>7 DEF Agrees
<1>9. \A i \in DOMAIN c : i <= Len(c) - k => c[i].seq < Floor(t, next)
  <2>1. \A i \in DOMAIN c : i <= Len(c) - k => c[i].seq < Floor(s, next)
    BY <1>1 DEF Agrees
  <2> HIDE DEF N
  <2> QED  BY <1>6, <2>1
<1>10. k \in 0 .. Len(c) /\ k <= Len(t)
  BY <1>4, <1>7
<1>11. Agrees(c, t, next, k)
  <2> HIDE DEF N
  <2> QED  BY <1>8, <1>9, <1>10 DEF Agrees
<1> QED  BY <1>11 DEF Aligned, t, a

-----------------------------------------------------------------------------
(* A write to the log.                                                       *)

\* The stream after a write (Shown, for any text).
Streamed(stream, e, g, live, text) ==
  IF g # e.begun THEN stream
  ELSE IF Replaces(e, g, live)
    THEN Append(Front(stream), [seq |-> Last(stream).seq, run |-> g, text |-> text])
    ELSE Append(stream, [seq |-> e.nextSeq, run |-> g, text |-> text])

\* An entry and the stream of its visible log.
Kept(e, stream) ==
  /\ e \in Entries /\ Once(e.runs) /\ stream \in Seq(ShownLines)
  /\ Faithful(e, stream) /\ Ordered(stream, e.nextSeq, e.begun)

\* What Kept says of the numbers of the visible log.
LEMMA KeptNumbers ==
  ASSUME NEW e, NEW stream, Kept(e, stream)
  PROVE  /\ e.visible \in Buffers /\ e.visible.lines \in Seq(Lines)
         /\ e.retention \in Limits /\ e.nextSeq \in Nat \ {0} /\ e.begun \in Nat
         /\ Increasing(e.visible.lines) /\ Below(e.visible.lines, e.nextSeq)
<1>1. /\ e.visible \in Buffers /\ e.visible.lines \in Seq(Lines)
      /\ e.retention \in Limits /\ e.nextSeq \in Nat \ {0} /\ e.begun \in Nat
  BY DEF Kept, Entries, Buffers
<1>2. /\ stream \in Seq(ShownLines) /\ EndOf(e.visible.lines, stream)
      /\ Increasing(stream) /\ Below(stream, e.nextSeq)
  BY DEF Kept, Faithful, Ordered
<1>3. Increasing(e.visible.lines) /\ Below(e.visible.lines, e.nextSeq)
  BY <1>1, <1>2, EndIncreasing
<1> QED  BY <1>1, <1>3

\* A write keeps the visible log faithful and every cache aligned with it.
LEMMA WriteIs ==
  ASSUME NEW e, NEW s, Kept(e, s), NEW g \in Nat, NEW live \in Nat, NEW size \in Nat,
         NEW text \in Nat, NEW a, Written(a, e, g, live, size, text), g <= e.begun
  PROVE  /\ Kept(a, Streamed(s, e, g, live, text))
         /\ \A c \in Seq(Texts) : Aligned(c, e.visible.lines, e.nextSeq)
                                    => Aligned(c, a.visible.lines, a.nextSeq)
<1> DEFINE v == e.visible.lines  w == a.visible.lines  z == Streamed(s, e, g, live, text)
<1>1. /\ e \in Entries /\ Once(e.runs) /\ s \in Seq(ShownLines) /\ Ordered(s, e.nextSeq, e.begun)
      /\ EndOf(v, s) /\ (s # <<>> => v # <<>>) /\ Counts(e.visible)
      /\ Within(e.visible, e.retention) /\ OwnHealth(e)
  BY DEF Kept, Faithful
<1>2. /\ e.visible \in Buffers /\ v \in Seq(Lines) /\ e.retention \in Limits
      /\ e.nextSeq \in Nat \ {0} /\ e.begun \in Nat /\ Increasing(v) /\ Below(v, e.nextSeq)
  BY KeptNumbers
<1>3. /\ a \in Entries /\ Once(a.runs) /\ a.begun = e.begun /\ a.retention = e.retention
      /\ a.health = e.health
  BY DEF Written
<1>4. /\ OwnHealth(a) /\ a.visible \in Buffers /\ w \in Seq(Lines) /\ a.nextSeq \in Nat \ {0}
  BY <1>1, <1>3 DEF OwnHealth, Entries, Buffers
<1>5. CASE g # e.begun
  <2>1. a.visible = e.visible /\ e.nextSeq <= a.nextSeq /\ z = s
    BY <1>5 DEF Written, Streamed
  <2>2. Ordered(s, a.nextSeq, a.begun)
    <3>1. DOMAIN s = 1 .. Len(s) /\ \A i \in 1 .. Len(s) : s[i].seq \in Nat
      <4>1. \A i \in 1 .. Len(s) : s[i] \in ShownLines
        BY <1>1, ElementOfSeq
      <4>2. \A l \in ShownLines : l.seq \in Nat
        BY DEF ShownLines
      <4> QED  BY <1>1, <4>1, <4>2, LenProperties
    <3>2. Below(s, a.nextSeq)
      BY <1>1, <1>2, <1>4, <2>1, <3>1 DEF Ordered, Below
    <3> QED  BY <1>1, <1>3, <3>2 DEF Ordered
  <2>3. Kept(a, z)
    BY <1>1, <1>3, <1>4, <2>1, <2>2 DEF Kept, Faithful
  <2>4. \A c \in Seq(Texts) : Aligned(c, v, e.nextSeq) => Aligned(c, v, a.nextSeq)
    <3> HIDE DEF v
    <3> QED  BY <1>2, <1>4, <2>1, AlignedLater
  <2> QED  BY <2>1, <2>3, <2>4
<1>6. CASE g = e.begun
  <2>1. \E l \in Lines, b \in Seq(Lines) :
          /\ EndOf(b, z) /\ EndOf(w, b) /\ w # <<>>
          /\ z \in Seq(ShownLines) /\ z # <<>> /\ Ordered(z, a.nextSeq, e.begun)
          /\ Counts(a.visible) /\ Within(a.visible, e.retention)
          /\ \A c \in Seq(Texts) : Aligned(c, v, e.nextSeq) => Aligned(c, b, a.nextSeq)
    <3>1. CASE Replaces(e, g, live)
      <4> DEFINE l == [seq |-> Last(v).seq, run |-> g, text |-> text, size |-> size]
                 n == [seq |-> Last(s).seq, run |-> g, text |-> text]
                 b == Append(Front(v), l)
      <4>1. /\ v # <<>> /\ a.nextSeq = e.nextSeq
            /\ a.visible = ReplaceLast(e.visible, l, e.retention)
            /\ z = Append(Front(s), n)
        BY <1>6, <3>1 DEF Written, Streamed
      <4>2. /\ s # <<>> /\ SameLine(Last(v), Last(s)) /\ Last(v) \in Lines /\ Last(s) \in ShownLines
            /\ Front(v) \in Seq(Lines) /\ Front(s) \in Seq(ShownLines) /\ EndOf(Front(v), Front(s))
        <5> HIDE DEF v
        <5>1. /\ v \in Seq(Lines) /\ s \in Seq(ShownLines)
              /\ EndOf(v, s) /\ v # <<>>
          BY <1>1, <1>2, <4>1
        <5> QED  BY <5>1, EndOfFront
      <4>3. /\ Ordered(Front(s), Last(s).seq, e.begun)
            /\ Last(s).seq < e.nextSeq /\ Last(s).run <= e.begun
        BY <1>1, <1>2, <4>2, OrderedFront
      <4>4. l \in Lines /\ n \in ShownLines /\ n.seq = Last(s).seq /\ n.run = g
            /\ l.seq = Last(v).seq /\ SameLine(l, n)
        BY <4>2 DEF Lines, ShownLines, SameLine
      <4> HIDE DEF l, n
      <4>5. /\ ReplaceLast(e.visible, l, e.retention) \in Buffers
            /\ Counts(a.visible) /\ Within(a.visible, e.retention) /\ w # <<>> /\ EndOf(w, b)
        BY <1>1, <1>2, <4>1, <4>4, ReplaceLastIs
      <4>6. b \in Seq(Lines)
        BY <4>2, <4>4, AppendProperties
      <4>7. EndOf(b, z)
        <5> HIDE DEF v, z
        <5> QED  BY <4>1, <4>2, <4>4, EndOfAppended
      <4>8. z \in Seq(ShownLines) /\ Ordered(z, a.nextSeq, e.begun)
        <5> HIDE DEF z
        <5> QED  BY <1>2, <1>6, <4>1, <4>2, <4>3, <4>4, OrderedAppended
      <4>9. z # <<>>
        <5> HIDE DEF z
        <5> QED  BY <4>1, <4>2, <4>4, AppendProperties
      <4>10. \A c \in Seq(Texts) : Aligned(c, v, e.nextSeq) => Aligned(c, b, a.nextSeq)
        <5> HIDE DEF v
        <5> QED  BY <1>2, <4>1, <4>4, AlignedReplaced
      <4> HIDE DEF v, w, z, b
      <4> QED  BY <4>4, <4>5, <4>6, <4>7, <4>8, <4>9, <4>10
    <3>2. CASE ~Replaces(e, g, live)
      <4> DEFINE l == [seq |-> e.nextSeq, run |-> g, text |-> text, size |-> size]
                 n == [seq |-> e.nextSeq, run |-> g, text |-> text]
                 b == Append(v, l)
      <4>1. /\ a.nextSeq = e.nextSeq + 1
            /\ a.visible = Push(e.visible, l, e.retention)
            /\ z = Append(s, n)
        BY <1>6, <3>2 DEF Written, Streamed
      <4>4. l \in Lines /\ n \in ShownLines /\ n.seq = e.nextSeq /\ n.run = g
            /\ l.seq = e.nextSeq /\ SameLine(l, n)
        BY <1>2 DEF Lines, ShownLines, SameLine
      <4> HIDE DEF l, n
      <4>5. Counts(a.visible) /\ Within(a.visible, e.retention) /\ w # <<>> /\ EndOf(w, b)
        BY <1>1, <1>2, <4>1, <4>4, PushIs
      <4>6. b \in Seq(Lines)
        BY <1>2, <4>4, AppendProperties
      <4>7. EndOf(b, z)
        <5> HIDE DEF v, z
        <5> QED  BY <1>1, <1>2, <4>1, <4>4, EndOfAppended
      <4>8. z \in Seq(ShownLines) /\ Ordered(z, a.nextSeq, e.begun)
        <5>1. n.seq < a.nextSeq /\ a.nextSeq \in Nat /\ n.run <= e.begun
          BY <1>2, <1>6, <4>1, <4>4
        <5>2. Ordered(s, n.seq, n.run)
          BY <1>1, <1>6, <4>4
        <5> HIDE DEF z
        <5> QED  BY <1>1, <1>2, <4>1, <4>4, <5>1, <5>2, OrderedAppended
      <4>9. z # <<>>
        <5> HIDE DEF z
        <5> QED  BY <1>1, <4>1, <4>4, AppendProperties
      <4>10. \A c \in Seq(Texts) : Aligned(c, v, e.nextSeq) => Aligned(c, b, a.nextSeq)
        <5> HIDE DEF v
        <5> QED  BY <1>2, <4>1, <4>4, AlignedAppended
      <4> HIDE DEF v, w, z, b
      <4> QED  BY <4>4, <4>5, <4>6, <4>7, <4>8, <4>9, <4>10
    <3> QED  BY <3>1, <3>2
  <2>2. PICK b \in Seq(Lines) :
          /\ EndOf(b, z) /\ EndOf(w, b) /\ w # <<>>
          /\ z \in Seq(ShownLines) /\ z # <<>> /\ Ordered(z, a.nextSeq, e.begun)
          /\ Counts(a.visible) /\ Within(a.visible, e.retention)
          /\ \A c \in Seq(Texts) : Aligned(c, v, e.nextSeq) => Aligned(c, b, a.nextSeq)
    BY <2>1
  <2> HIDE DEF v, w, z
  <2>3. EndOf(w, z)
    BY <1>4, <2>2, EndOfEnd
  <2>4. Kept(a, z)
    BY <1>3, <1>4, <2>2, <2>3 DEF Kept, Faithful, w
  <2>5. Increasing(b) /\ Below(b, a.nextSeq)
    <3>1. Increasing(z) /\ Below(z, a.nextSeq)
      BY <2>2 DEF Ordered
    <3> QED  BY <2>2, <3>1, EndIncreasing
  <2>6. \A c \in Seq(Texts) : Aligned(c, b, a.nextSeq) => Aligned(c, w, a.nextSeq)
    BY <1>4, <2>2, <2>5, AlignedEnd
  <2> QED  BY <2>2, <2>4, <2>6 DEF v, w, z
<1> QED  BY <1>5, <1>6

-----------------------------------------------------------------------------
(* Reading with a cursor, and drawing.                                       *)

\* The lines up to the partition point are those with numbers up to n.
LEMMA PartitionIs ==
  ASSUME NEW s \in Seq(Lines), Increasing(s), NEW n \in Nat
  PROVE  /\ PartitionPoint(s, n) \in 0 .. Len(s)
         /\ \A i \in 1 .. Len(s) : i <= PartitionPoint(s, n) <=> s[i].seq <= n
<1> DEFINE N == Len(s)
           Is(k) == \A i \in DOMAIN s : i <= k <=> s[i].seq <= n
           B == {k \in 0 .. N : k = N \/ s[k + 1].seq > n}
           p == PartitionPoint(s, n)
<1>1. N \in Nat /\ DOMAIN s = 1 .. N /\ \A i \in 1 .. N : s[i].seq \in Nat
  BY Numbers
<1> HIDE DEF N
<1>2. PICK k \in B : \A m \in B : k <= m
  <2>1. N \in B /\ B \in SUBSET Nat
    BY <1>1
  <2> HIDE DEF B
  <2> QED  BY <2>1, LeastOf
<1>3. k \in 0 .. N /\ (k = N \/ s[k + 1].seq > n)
  OBVIOUS
<1>4. ASSUME NEW i \in 1 .. N  PROVE i <= k <=> s[i].seq <= n
  <2>1. CASE i <= k
    <3>1. i - 1 \in 0 .. N /\ ~(k <= i - 1) /\ i - 1 # N /\ (i - 1) + 1 = i
      BY <1>1, <1>3, <2>1
    <3>2. i - 1 \notin B
      <4> HIDE DEF B
      <4> QED  BY <1>2, <3>1
    <3>3. ~(s[(i - 1) + 1].seq > n)
      BY <3>1, <3>2
    <3> QED  BY <1>1, <2>1, <3>1, <3>3
  <2>2. CASE ~(i <= k)
    <3>1. k + 1 \in 1 .. N /\ s[k + 1].seq > n /\ (i = k + 1 \/ k + 1 < i)
      BY <1>1, <1>3, <2>2
    <3>2. i = k + 1 \/ s[k + 1].seq < s[i].seq
      BY <1>1, <3>1 DEF Increasing
    <3> QED  BY <1>1, <2>2, <3>1, <3>2
  <2> QED  BY <2>1, <2>2
<1>5. p = CHOOSE q \in 0 .. N : Is(q)
  BY DEF PartitionPoint, N
<1>6. k \in 0 .. N /\ Is(k)
  BY <1>1, <1>3, <1>4
<1> HIDE DEF Is, p
<1>7. p \in 0 .. N /\ Is(p)
  BY <1>5, <1>6
<1> QED  BY <1>1, <1>7 DEF Is, p, N

\* lines_since returns the end of the log, after a cursor.
LEMMA LinesSinceIs ==
  ASSUME NEW b \in Buffers, Increasing(b.lines), NEW n \in Nat
  PROVE  \E p \in 0 .. Len(b.lines) :
           /\ p = PartitionPoint(b.lines, n)
           /\ \A i \in 1 .. Len(b.lines) : i <= p <=> b.lines[i].seq <= n
           /\ LinesSince(b, n) \in Seq(Lines) /\ Len(LinesSince(b, n)) = Len(b.lines) - p
           /\ \A i \in 1 .. Len(b.lines) - p : LinesSince(b, n)[i] = b.lines[p + i]
<1> DEFINE s == b.lines
<1>1. s \in Seq(Lines)
  BY DEF Buffers
<1> DEFINE p == PartitionPoint(s, n)
<1>2. p \in 0 .. Len(s) /\ \A i \in 1 .. Len(s) : i <= p <=> s[i].seq <= n
  <2> HIDE DEF s
  <2> QED  BY <1>1, PartitionIs DEF s
<1>3. LinesSince(b, n) = SubSeq(s, p + 1, Len(s))
  BY DEF LinesSince
<1> HIDE DEF p, s
<1>4. /\ LinesSince(b, n) \in Seq(Lines) /\ Len(LinesSince(b, n)) = Len(s) - p
      /\ \A i \in 1 .. Len(s) - p : LinesSince(b, n)[i] = s[p + i]
  <2> DEFINE r == SubSeq(s, p + 1, Len(s))
  <2>1. p \in 0 .. Len(s)
    BY <1>2
  <2>2. r \in Seq(Lines) /\ Len(r) = Len(s) - p /\ \A i \in 1 .. Len(s) - p : r[i] = s[p + i]
    BY <1>1, <2>1, Parts
  <2>3. LinesSince(b, n) = r
    BY <1>3
  <2> HIDE DEF r
  <2> QED  BY <2>2, <2>3
<1> QED  BY <1>2, <1>4 DEF p, s

\* What is still retained of a cache.
LEMMA StillRetainedIs ==
  ASSUME NEW c \in Seq(Texts), NEW first \in Nat
  PROVE  /\ StillRetained(c, first) \in Seq(Texts)
         /\ \A k \in 0 .. Len(c) :
              (/\ first # 0
               /\ \A i \in 1 .. Len(c) : i <= Len(c) - k => c[i].seq < first
               /\ k > 0 => c[(Len(c) - k) + 1].seq = first)
              => StillRetained(c, first) = SubSeq(c, (Len(c) - k) + 1, Len(c))
<1> DEFINE w == Len(c)
           B == {n \in 0 .. w : n = w \/ c[n + 1].seq >= first}
<1>1. w \in Nat /\ \A i \in 1 .. w : c[i].seq \in Nat
  BY Numbers
<1>2. CASE first = 0
  BY <1>2, EmptySeq DEF StillRetained
<1>3. CASE first # 0
  <2>1. PICK n \in B : (\A m \in B : n <= m) /\ TakenUntil(c, B) = SubSeq(c, n + 1, w)
    <3>1. w \in B /\ B \in SUBSET Nat
      BY <1>1
    <3> HIDE DEF B
    <3> QED  BY <3>1, TakenIs
  <2>2. StillRetained(c, first) = SubSeq(c, n + 1, w)
    BY <1>3, <2>1 DEF StillRetained
  <2>3. n \in 0 .. w /\ (n = w \/ c[n + 1].seq >= first)
    OBVIOUS
  <2>4. SubSeq(c, n + 1, w) \in Seq(Texts)
    BY <2>3, Parts
  <2>5. ASSUME NEW k \in 0 .. w,
               \A i \in 1 .. w : i <= w - k => c[i].seq < first,
               k > 0 => c[(w - k) + 1].seq = first
        PROVE  n = w - k
    <3>1. w - k \in B
      <4>1. w - k \in 0 .. w /\ (k = 0 => w - k = w) /\ (k = 0 \/ k > 0)
        <5> HIDE DEF w
        <5> QED  BY <1>1
      <4> QED  BY <2>5, <4>1
    <3>2. n <= w - k
      <4> HIDE DEF B
      <4> QED  BY <2>1, <3>1
    <3>3. ~(n < w - k)
      <4> SUFFICES ASSUME n < w - k  PROVE FALSE
        OBVIOUS
      <4>1. n + 1 \in 1 .. w /\ n + 1 <= w - k /\ n # w
        <5> HIDE DEF w, B
        <5> QED  BY <1>1, <2>3
      <4>2. c[n + 1].seq < first /\ c[n + 1].seq >= first
        BY <2>3, <2>5, <4>1
      <4> HIDE DEF w, B
      <4> QED  BY <1>1, <4>1, <4>2
    <3> HIDE DEF w, B
    <3> QED  BY <1>1, <2>3, <3>2, <3>3
  <2> QED  BY <2>2, <2>4, <2>5
<1> QED  BY <1>2, <1>3

\* The cache after each of the new lines.
Caches(g, c, new) ==
  /\ g \in [0 .. Len(new) -> Seq(Texts)]
  /\ g[0] = c /\ \A n \in 1 .. Len(new) : g[n] = CacheLine(g[n - 1], new[n])

\* A cache stays one when a line is taken into it.
LEMMA CacheLineIs ==
  ASSUME NEW c \in Seq(Texts), NEW l \in Lines
  PROVE  CacheLine(c, l) \in Seq(Texts)
<1> DEFINE new == [seq |-> l.seq, text |-> l.text]
<1>1. new \in Texts
  BY DEF Lines, Texts
<1> HIDE DEF new
<1>2. Append(c, new) \in Seq(Texts)
  BY <1>1, AppendProperties
<1>3. c # <<>> => Append(Front(c), new) \in Seq(Texts)
  BY <1>1, FrontIs, AppendProperties
<1> QED  BY <1>2, <1>3 DEF CacheLine, new

\* Cached is the last value of a function that takes the lines one by one.
LEMMA CachedIs ==
  ASSUME NEW c \in Seq(Texts), NEW new \in Seq(Lines)
  PROVE  \E g : Caches(g, c, new) /\ Cached(c, new) = g[Len(new)]
<1> DEFINE N == Len(new)  X == Seq(Texts)
           G == [n \in 1 .. N |-> [v \in X |-> CacheLine(v, new[n])]]
           Def(f) == f = [n \in 0 .. N |-> IF n = 0 THEN c ELSE CacheLine(f[n - 1], new[n])]
<1>1. N \in Nat /\ \A n \in 1 .. N : new[n] \in Lines
  BY LenProperties, ElementOfSeq
<1>2. \A n \in 1 .. N, v \in X : G[n][v] = CacheLine(v, new[n])
  OBVIOUS
<1>3. Closed(N, X, G)
  <2>1. \A n \in 1 .. N, v \in X : CacheLine(v, new[n]) \in X
    BY <1>1, CacheLineIs
  <2> HIDE DEF G, X, N
  <2> QED  BY <1>2, <2>1 DEF Closed
<1>4. PICK f : Steps(f, N, X, c, G)
  <2>1. c \in X
    OBVIOUS
  <2> HIDE DEF G, N, X
  <2> QED  BY <1>1, <1>3, <2>1, Recursion, Zenon
<1> HIDE DEF G
<1>5. Def(f)
  <2>1. ASSUME NEW n \in 0 .. N
        PROVE  f[n] = IF n = 0 THEN c ELSE CacheLine(f[n - 1], new[n])
    <3>1. CASE n = 0
      BY <1>4, <3>1 DEF Steps
    <3>2. CASE n # 0
      <4>1. n \in 1 .. N /\ n - 1 \in 0 .. N
        BY <1>1, <3>2
      <4>2. f[n - 1] \in X
        BY <1>4, <4>1 DEF Steps
      <4> HIDE DEF X
      <4> QED  BY <1>2, <1>4, <3>2, <4>1, <4>2 DEF Steps
    <3> QED  BY <3>1, <3>2
  <2> HIDE DEF N, X
  <2> QED  BY <1>4, <2>1 DEF Steps
<1> DEFINE g == CHOOSE after : Def(after)
<1>6. Cached(c, new) = g[N]
  BY DEF Cached
<1>7. Def(g)
  <2> HIDE DEF Def
  <2> QED  BY <1>5
<1> HIDE DEF g
<1>8. /\ \A n \in 0 .. N : g[n] = IF n = 0 THEN c ELSE CacheLine(g[n - 1], new[n])
      /\ g = [n \in 0 .. N |-> g[n]]
  <2>1. \A n \in 0 .. N : g[n] = IF n = 0 THEN c ELSE CacheLine(g[n - 1], new[n])
    <3> HIDE DEF N
    <3> QED  BY <1>7
  <2>2. g = [n \in 0 .. N |-> g[n]]
    <3> HIDE DEF N
    <3> QED  BY <1>7, <2>1
  <2> QED  BY <2>1, <2>2
<1>9. g[0] = c /\ \A n \in 1 .. N : g[n] = CacheLine(g[n - 1], new[n])
  <2>1. 0 \in 0 .. N /\ \A n \in 1 .. N : n \in 0 .. N /\ n # 0
    BY <1>1
  <2> HIDE DEF N
  <2> QED  BY <1>8, <2>1
<1> DEFINE P == {k \in 0 .. N : g[k] \in X}
<1>10. 0 \in P
  BY <1>1, <1>9
<1>11. ASSUME NEW k \in 0 .. N - 1, k \in P  PROVE k + 1 \in P
  <2>1. k + 1 \in 1 .. N /\ k + 1 \in 0 .. N /\ (k + 1) - 1 = k
    BY <1>1
  <2>2. g[k] \in X
    BY <1>11
  <2>3. g[k + 1] = CacheLine(g[k], new[k + 1])
    <3>1. g[k + 1] = CacheLine(g[(k + 1) - 1], new[k + 1])
      BY <1>9, <2>1
    <3> QED  BY <2>1, <3>1
  <2>4. g[k + 1] \in X
    BY <1>1, <2>1, <2>2, <2>3, CacheLineIs
  <2> QED  BY <2>1, <2>4
<1> HIDE DEF P
<1>12. \A k \in 0 .. N : k \in P
  BY <1>1, <1>10, <1>11, Induction
<1>13. g \in [0 .. N -> X]
  <2>1. \A k \in 0 .. N : g[k] \in X
    BY <1>12 DEF P
  <2> HIDE DEF N, X
  <2> QED  BY <1>8, <2>1
<1> QED  BY <1>6, <1>9, <1>13 DEF Caches

\* The cursor of a fetch is just below the last cached line.
LEMMA FetchAfterIs ==
  ASSUME NEW c \in Seq(Texts)
  PROVE  /\ FetchAfter(c) \in Nat
         /\ \A n \in Nat : n <= FetchAfter(c) <=> (n = 0 \/ (c # <<>> /\ n < c[Len(c)].seq))
<1>1. CASE c = <<>>
  BY <1>1 DEF FetchAfter
<1>2. CASE c # <<>>
  <2>1. Last(c) = c[Len(c)] /\ Last(c) \in Texts
    BY <1>2, FrontIs
  <2>2. Last(c).seq \in Nat \ {0}
    BY <2>1 DEF Texts
  <2>3. FetchAfter(c) = Minus(Last(c).seq, 1)
    BY <1>2 DEF FetchAfter
  <2> QED  BY <1>2, <2>1, <2>2, <2>3 DEF Minus
<1> QED  BY <1>1, <1>2

\* What the TUI has cached after it drew a log.
Drawn(c, b) == Cached(StillRetained(c, FirstRetained(b)), LinesSince(b, FetchAfter(c)))

\* The first retained number is zero for an empty log only.
LEMMA FirstIs ==
  ASSUME NEW b \in Buffers
  PROVE  /\ FirstRetained(b) \in Nat
         /\ b.lines = <<>> => FirstRetained(b) = 0
         /\ b.lines # <<>> => FirstRetained(b) = b.lines[1].seq /\ FirstRetained(b) # 0
<1>1. b.lines \in Seq(Lines)
  BY DEF Buffers
<1>2. b.lines # <<>> => 1 \in 1 .. Len(b.lines)
  BY <1>1, EmptySeq, LenProperties
<1>3. b.lines # <<>> => b.lines[1].seq \in Nat \ {0}
  BY <1>1, <1>2, Numbers
<1> QED  BY <1>3 DEF FirstRetained

\* What is drawn is a cache.
LEMMA DrawnType ==
  ASSUME NEW c \in Seq(Texts), NEW b \in Buffers, Increasing(b.lines)
  PROVE  /\ Drawn(c, b) \in Seq(Texts)
         /\ b.lines = <<>> => Drawn(c, b) = <<>>
<1> DEFINE kept == StillRetained(c, FirstRetained(b))
           new == LinesSince(b, FetchAfter(c))
<1>1. kept \in Seq(Texts) /\ FetchAfter(c) \in Nat
  BY FirstIs, FetchAfterIs, StillRetainedIs
<1>2. PICK p \in 0 .. Len(b.lines) : new \in Seq(Lines) /\ Len(new) = Len(b.lines) - p
  <2> HIDE DEF kept
  <2> QED  BY <1>1, LinesSinceIs
<1> HIDE DEF new, kept
<1>3. PICK g : Caches(g, kept, new) /\ Cached(kept, new) = g[Len(new)]
  BY <1>1, <1>2, CachedIs
<1>4. Len(new) \in Nat /\ Len(new) \in 0 .. Len(new)
  BY <1>2, LenProperties
<1>5. Drawn(c, b) = g[Len(new)] /\ g[Len(new)] \in Seq(Texts)
  BY <1>3, <1>4 DEF Caches, Drawn, kept, new
<1>6. ASSUME b.lines = <<>>  PROVE Drawn(c, b) = <<>>
  <2>1. Len(new) = 0
    BY <1>2, <1>4, <1>6, EmptySeq
  <2>2. kept = <<>>
    BY <1>6, FirstIs DEF kept, StillRetained
  <2> QED  BY <1>3, <1>5, <2>1, <2>2 DEF Caches
<1> QED  BY <1>5, <1>6

\* A cache that is aligned with the log shows it once it was drawn.
LEMMA DrawnIs ==
  ASSUME NEW c \in Seq(Texts), NEW b \in Buffers, Increasing(b.lines), NEW next \in Nat,
         Aligned(c, b.lines, next)
  PROVE  Drawn(c, b) = Bare(b.lines)
<1> DEFINE s == b.lines  w == Len(c)  v == Len(s)
           kept == StillRetained(c, FirstRetained(b))
           new == LinesSince(b, FetchAfter(c))
<1>1. /\ s \in Seq(Lines)
      /\ w \in Nat /\ DOMAIN c = 1 .. w /\ \A i \in 1 .. w : c[i].seq \in Nat
      /\ v \in Nat /\ DOMAIN s = 1 .. v /\ \A i \in 1 .. v : s[i].seq \in Nat \ {0} /\ s[i] \in Lines
  <2>1. s \in Seq(Lines)
    BY DEF Buffers
  <2> HIDE DEF s
  <2> QED  BY <2>1, Numbers, ElementOfSeq
<1>2. CASE s = <<>>
  <2>1. Drawn(c, b) = <<>>
    BY <1>2, DrawnType
  <2>2. Bare(s) = <<>>
    <3>1. DOMAIN s = 1 .. 0
      BY <1>2
    <3> QED  BY <3>1 DEF Bare
  <2> QED  BY <2>1, <2>2
<1>3. CASE s # <<>>
  <2>1. PICK k \in Nat : Agrees(c, s, next, k)
    BY DEF Aligned
  <2>2. /\ FirstRetained(b) = s[1].seq /\ FirstRetained(b) \in Nat \ {0}
        /\ v # 0 /\ 1 \in 1 .. v
    <3>1. FirstRetained(b) = s[1].seq /\ FirstRetained(b) \in Nat \ {0}
      BY <1>3, FirstIs
    <3>2. v # 0
      BY <1>1, <1>3, EmptySeq
    <3> HIDE DEF v
    <3> QED  BY <1>1, <3>1, <3>2
  <2>3. /\ k \in 0 .. w /\ k <= v
        /\ \A i \in 1 .. w : i <= w - k => c[i].seq < s[1].seq
        /\ \A i \in 1 .. k : /\ c[(w - k) + i].seq = s[i].seq
                             /\ i < k => c[(w - k) + i].text = s[i].text
    BY <1>1, <1>3, <2>1 DEF Agrees, Floor
  <2>4. /\ kept \in Seq(Texts) /\ Len(kept) = k
        /\ \A i \in 1 .. k : /\ kept[i].seq = s[i].seq
                             /\ i < k => kept[i].text = s[i].text
    <3>1. k > 0 => c[(w - k) + 1].seq = s[1].seq
      BY <2>3
    <3>2. kept = SubSeq(c, (w - k) + 1, w)
      <4> HIDE DEF s, v
      <4> QED  BY <2>2, <2>3, <3>1, StillRetainedIs
    <3>3. w - k \in 0 .. w /\ w - (w - k) = k
      <4> HIDE DEF w
      <4> QED  BY <1>1, <2>3
    <3>4. /\ kept \in Seq(Texts) /\ Len(kept) = w - (w - k)
          /\ \A i \in 1 .. w - (w - k) : kept[i] = c[(w - k) + i]
      <4> HIDE DEF kept
      <4> QED  BY <3>2, <3>3, Parts
    <3> HIDE DEF kept, s, v, w
    <3> QED  BY <2>3, <3>3, <3>4
  <2> HIDE DEF kept
  <2>5. PICK p \in 0 .. v :
          /\ \A i \in 1 .. v : i <= p <=> s[i].seq <= FetchAfter(c)
          /\ new \in Seq(Lines) /\ Len(new) = v - p
          /\ \A i \in 1 .. v - p : new[i] = s[p + i]
    BY FetchAfterIs, LinesSinceIs
  <2> HIDE DEF new
  <2>6. p = IF k = 0 THEN 0 ELSE k - 1
    <3>1. \A i \in 1 .. v : i <= p <=> (c # <<>> /\ s[i].seq < c[w].seq)
      <4>1. \A i \in 1 .. v : s[i].seq \in Nat \ {0}
        BY <1>1
      <4> HIDE DEF v, s, w
      <4> QED  BY <2>5, <4>1, FetchAfterIs DEF w
    <3>2. CASE k = 0
      <4>1. ~(1 <= p)
        <5> SUFFICES ASSUME c # <<>>, s[1].seq < c[w].seq  PROVE FALSE
          BY <2>2, <3>1
        <5>1. w \in 1 .. w /\ w <= w - k
          <6>1. w # 0
            BY EmptySeq
          <6> HIDE DEF w
          <6> QED  BY <1>1, <3>2, <6>1
        <5>2. c[w].seq < s[1].seq /\ c[w].seq \in Nat /\ s[1].seq \in Nat
          <6> HIDE DEF w, v, s
          <6> QED  BY <1>1, <2>2, <2>3, <5>1
        <5> HIDE DEF w, v, s
        <5> QED  BY <5>2
      <4> QED  BY <2>5, <3>2, <4>1
    <3>3. CASE k # 0
      <4>1. c # <<>> /\ w = (w - k) + k /\ k \in 1 .. k /\ k \in 1 .. v
        <5>1. c # <<>>
          BY <2>3, <3>3, EmptySeq
        <5> HIDE DEF w, v
        <5> QED  BY <1>1, <2>3, <3>3, <5>1
      <4>2. c[w].seq = s[k].seq
        <5>1. c[(w - k) + k].seq = s[k].seq
          BY <2>3, <4>1
        <5> QED  BY <4>1, <5>1
      <4>3. \A i \in 1 .. v : i <= p <=> s[i].seq < s[k].seq
        <5> HIDE DEF v, w, s
        <5> QED  BY <3>1, <4>1, <4>2
      <4>4. \A i \in 1 .. v : s[i].seq < s[k].seq <=> i < k
        <5>1. \A i \in 1 .. v : i < k => s[i].seq < s[k].seq
          BY <1>1, <4>1 DEF Increasing
        <5>2. \A i \in 1 .. v : k < i => s[k].seq < s[i].seq
          BY <1>1, <4>1 DEF Increasing
        <5>3. \A i \in 1 .. v : s[i].seq \in Nat /\ (i < k \/ i = k \/ k < i)
          BY <1>1
        <5> HIDE DEF v, s
        <5> QED  BY <4>1, <5>1, <5>2, <5>3
      <4>5. \A i \in 1 .. v : i <= p <=> i < k
        BY <4>3, <4>4
      <4> HIDE DEF v, s
      <4>6. ~(k <= p)
        BY <4>1, <4>5
      <4>7. k - 1 <= p
        <5>1. CASE k = 1
          BY <2>5, <5>1
        <5>2. CASE k # 1
          <6>1. k - 1 \in 1 .. v /\ k - 1 < k
            BY <1>1, <4>1, <5>2
          <6> QED  BY <4>5, <6>1
        <5> QED  BY <5>1, <5>2
      <4> QED  BY <2>5, <3>3, <4>6, <4>7
    <3> QED  BY <3>2, <3>3
  <2>7. PICK g : Caches(g, kept, new) /\ Cached(kept, new) = g[v - p]
    BY <2>4, <2>5, CachedIs
  <2> DEFINE size(n) == IF n = 0 THEN k ELSE p + n
             Is(n) == /\ Len(g[n]) = size(n)
                      /\ \A i \in 1 .. size(n) :
                           /\ g[n][i].seq = s[i].seq
                           /\ (n # 0 \/ i < k) => g[n][i].text = s[i].text
             P == {n \in 0 .. v - p : Is(n)}
  <2>8. v - p \in Nat /\ v - p # 0 /\ v - p \in 0 .. v - p /\ p + (v - p) = v
    <3> HIDE DEF v
    <3> QED  BY <1>1, <2>2, <2>3, <2>5, <2>6
  <2>9. 0 \in P
    <3>1. 0 \in 0 .. v - p /\ g[0] = kept
      BY <2>7, <2>8 DEF Caches
    <3>2. Is(0)
      <4> HIDE DEF s
      <4> QED  BY <2>4, <3>1
    <3> QED  BY <3>1, <3>2
  <2>10. ASSUME NEW n \in 0 .. (v - p) - 1, n \in P  PROVE n + 1 \in P
    <3>1. /\ n + 1 \in 1 .. v - p /\ n + 1 \in 0 .. v - p /\ (n + 1) - 1 = n /\ n \in 0 .. v - p
          /\ n + 1 # 0 /\ p + (n + 1) \in 1 .. v
      <4> HIDE DEF v, P
      <4> QED  BY <1>1, <2>5, <2>8
    <3>2. Is(n)
      BY <2>10
    <3> DEFINE l == s[p + (n + 1)]  t == [seq |-> l.seq, text |-> l.text]  a == g[n]
    <3>3. a \in Seq(Texts) /\ g[n + 1] = CacheLine(a, l)
      <4>1. a \in Seq(Texts)
        BY <2>5, <2>7, <3>1 DEF Caches
      <4>2. g[n + 1] = CacheLine(g[(n + 1) - 1], new[n + 1])
        BY <2>5, <2>7, <3>1 DEF Caches
      <4>3. new[n + 1] = l
        BY <2>5, <3>1
      <4> QED  BY <3>1, <4>1, <4>2, <4>3
    <3>4. l \in Lines
      BY <1>1, <3>1
    <3>5. t \in Texts /\ t.seq = l.seq /\ t.text = l.text
      BY <3>4 DEF Lines, Texts
    <3>6. CacheLine(a, l) = IF a # <<>> /\ Last(a).seq = l.seq
                              THEN Append(Front(a), t) ELSE Append(a, t)
      BY DEF CacheLine
    <3> HIDE DEF t, a, l
    <3>7. a # <<>> => /\ Last(a) = a[size(n)] /\ size(n) \in 1 .. size(n)
                      /\ Front(a) \in Seq(Texts) /\ Len(Front(a)) = size(n) - 1
                      /\ \A i \in 1 .. size(n) - 1 : Front(a)[i] = a[i]
      <4> HAVE a # <<>>
      <4>1. Len(a) = size(n)
        BY <3>2 DEF a
      <4> HIDE DEF size
      <4>2. Len(a) \in Nat \ {0}
        BY <3>3, FrontIs
      <4>3. size(n) \in 1 .. size(n)
        BY <4>1, <4>2
      <4>4. /\ Last(a) = a[Len(a)] /\ Front(a) \in Seq(Texts) /\ Len(Front(a)) = Len(a) - 1
            /\ \A i \in 1 .. Len(a) - 1 : Front(a)[i] = a[i]
        BY <3>3, FrontIs
      <4> QED  BY <4>1, <4>3, <4>4
    <3>8. a # <<>> => Last(a).seq = s[size(n)].seq
      <4> HAVE a # <<>>
      <4>1. a[size(n)].seq = s[size(n)].seq
        <5> HIDE DEF size, s
        <5> QED  BY <3>2, <3>7 DEF a
      <4> QED  BY <3>7, <4>1
    <3>9. CASE n = 0 /\ k # 0
      <4>1. size(n) = k /\ size(n + 1) = k /\ p + (n + 1) = k /\ n + 1 = 1
        BY <2>3, <2>6, <3>9
      <4>2. a # <<>>
        <5>1. Len(a) = k
          BY <3>2, <4>1 DEF a
        <5> QED  BY <3>9, <5>1, EmptySeq
      <4>3. Last(a).seq = l.seq
        BY <3>8, <4>1, <4>2 DEF l
      <4>4. g[n + 1] = Append(Front(a), t)
        BY <3>3, <3>6, <4>2, <4>3
      <4> DEFINE f == Front(a)
      <4>5. /\ f \in Seq(Texts) /\ Len(f) = k - 1 /\ \A i \in 1 .. k - 1 : f[i] = a[i]
        BY <3>7, <4>1, <4>2
      <4> HIDE DEF f
      <4>6. /\ Len(Append(f, t)) = Len(f) + 1 /\ Append(f, t)[Len(f) + 1] = t
            /\ \A i \in 1 .. Len(f) : Append(f, t)[i] = f[i]
        BY <3>5, <4>5, AppendProperties
      <4>7. ASSUME NEW i \in 1 .. k
            PROVE  g[n + 1][i].seq = s[i].seq /\ g[n + 1][i].text = s[i].text
        <5>1. CASE i = k
          <6>1. Len(f) + 1 = k
            BY <2>3, <3>9, <4>5
          <6>2. g[n + 1][k] = t
            BY <4>4, <4>6, <6>1 DEF f
          <6>3. l = s[k]
            BY <4>1 DEF l
          <6> QED  BY <3>5, <5>1, <6>2, <6>3
        <5>2. CASE i # k
          <6>1. i \in 1 .. k - 1 /\ i \in 1 .. Len(f) /\ i < k
            BY <2>3, <4>5, <5>2
          <6>2. g[n + 1][i] = a[i]
            BY <4>4, <4>5, <4>6, <6>1 DEF f
          <6>3. a[i].seq = s[i].seq /\ a[i].text = s[i].text
            <7> HIDE DEF s
            <7> QED  BY <3>2, <4>1, <6>1 DEF a
          <6> QED  BY <6>2, <6>3
        <5> QED  BY <5>1, <5>2
      <4>8. Len(g[n + 1]) = k
        <5>1. Len(f) + 1 = k
          BY <2>3, <3>9, <4>5
        <5> QED  BY <4>4, <4>6, <5>1 DEF f
      <4>9. Is(n + 1)
        <5> HIDE DEF s, size
        <5> QED  BY <4>1, <4>7, <4>8
      <4> HIDE DEF Is
      <4> QED  BY <3>1, <4>9
    <3>10. CASE ~(n = 0 /\ k # 0)
      <4>1. size(n) = p + n /\ size(n + 1) = p + (n + 1) /\ p + (n + 1) = (p + n) + 1 /\ p + n \in Nat
            /\ p + n \in 0 .. v
        <5> HIDE DEF v
        <5> QED  BY <1>1, <2>3, <2>5, <2>6, <3>1, <3>10
      <4>2. ~(a # <<>> /\ Last(a).seq = l.seq)
        <5> SUFFICES ASSUME a # <<>>, Last(a).seq = l.seq  PROVE FALSE
          OBVIOUS
        <5>1. p + n \in 1 .. p + n /\ s[p + n].seq = s[p + (n + 1)].seq
          <6> HIDE DEF size
          <6> QED  BY <3>7, <3>8, <4>1 DEF l
        <5>2. p + n \in 1 .. v /\ p + n < p + (n + 1)
          <6> HIDE DEF v
          <6> QED  BY <4>1, <5>1
        <5>3. s[p + n].seq < s[p + (n + 1)].seq /\ s[p + n].seq \in Nat
          BY <1>1, <3>1, <5>2 DEF Increasing
        <5> HIDE DEF s
        <5> QED  BY <5>1, <5>3
      <4>3. g[n + 1] = Append(a, t)
        BY <3>3, <3>6, <4>2
      <4>4. Len(a) = p + n /\ \A i \in 1 .. p + n : a[i].seq = s[i].seq /\ a[i].text = s[i].text
        <5>1. n # 0 \/ p + n = 0
          BY <2>6, <3>10
        <5>2. Len(a) = p + n
          BY <3>2, <4>1 DEF a
        <5>3. CASE n # 0
          <6> HIDE DEF s, size
          <6> QED  BY <3>2, <4>1, <5>2, <5>3 DEF a
        <5>4. CASE p + n = 0
          <6>1. 1 .. p + n = {}
            BY <5>4
          <6> QED  BY <5>2, <6>1
        <5> QED  BY <5>1, <5>3, <5>4
      <4>5. /\ Len(Append(a, t)) = Len(a) + 1 /\ Append(a, t)[Len(a) + 1] = t
            /\ \A i \in 1 .. Len(a) : Append(a, t)[i] = a[i]
        BY <3>3, <3>5, AppendProperties
      <4>6. ASSUME NEW i \in 1 .. (p + n) + 1
            PROVE  g[n + 1][i].seq = s[i].seq /\ g[n + 1][i].text = s[i].text
        <5>1. CASE i = (p + n) + 1
          <6>1. g[n + 1][i] = t
            BY <4>3, <4>4, <4>5, <5>1
          <6>2. l = s[i]
            BY <4>1, <5>1 DEF l
          <6> QED  BY <3>5, <6>1, <6>2
        <5>2. CASE i # (p + n) + 1
          <6>1. i \in 1 .. p + n
            BY <4>1, <5>2
          <6> HIDE DEF s
          <6> QED  BY <4>3, <4>4, <4>5, <6>1
        <5> QED  BY <5>1, <5>2
      <4>7. Len(g[n + 1]) = (p + n) + 1
        BY <4>3, <4>4, <4>5
      <4>8. Is(n + 1)
        <5> HIDE DEF s, size
        <5> QED  BY <4>1, <4>6, <4>7
      <4> HIDE DEF Is
      <4> QED  BY <3>1, <4>8
    <3> QED  BY <3>9, <3>10
  <2> HIDE DEF P
  <2>11. \A n \in 0 .. v - p : n \in P
    <3> HIDE DEF v
    <3> QED  BY <2>8, <2>9, <2>10, Induction
  <2>12. Is(v - p)
    BY <2>8, <2>11 DEF P
  <2> DEFINE z == g[v - p]
  <2>13. /\ z \in Seq(Texts) /\ Len(z) = v
         /\ \A i \in 1 .. v : z[i].seq = s[i].seq /\ z[i].text = s[i].text
    <3>1. z \in Seq(Texts)
      BY <2>5, <2>7, <2>8 DEF Caches
    <3>2. size(v - p) = v
      BY <2>8
    <3> HIDE DEF size, s, v, z
    <3> QED  BY <2>8, <2>12, <3>1, <3>2 DEF z
  <2>14. Drawn(c, b) = z
    BY <2>7 DEF Drawn, kept, new
  <2>15. z = Bare(s)
    <3> DEFINE y == Bare(s)
    <3>1. y = [i \in 1 .. v |-> [seq |-> s[i].seq, text |-> s[i].text]]
      BY <1>1 DEF Bare
    <3>2. \A i \in 1 .. v : z[i] \in Texts
      BY <2>13, ElementOfSeq
    <3>3. \A x \in Texts : x = [seq |-> x.seq, text |-> x.text]
      BY DEF Texts
    <3> HIDE DEF z, v, s, y
    <3>4. \A i \in 1 .. v : z[i] = [seq |-> s[i].seq, text |-> s[i].text]
      <4> TAKE i \in 1 .. v
      <4>1. z[i] = [seq |-> z[i].seq, text |-> z[i].text]
        BY <3>2, <3>3
      <4> QED  BY <2>13, <4>1
    <3>5. DOMAIN z = 1 .. v /\ z = [i \in 1 .. v |-> z[i]]
      BY <2>13, LenProperties, SeqDef
    <3> QED  BY <3>1, <3>4, <3>5 DEF y
  <2> QED  BY <2>14, <2>15
<1> QED  BY <1>2, <1>3

\* An empty cache is aligned with every log.
LEMMA AlignedNothing ==
  ASSUME NEW s \in Seq(Lines), NEW next
  PROVE  Aligned(<<>>, s, next)
<1>1. Len(<<>>) = 0 /\ DOMAIN <<>> = {} /\ 1 .. 0 = {} /\ Len(s) \in Nat
  BY LenProperties
<1>2. Agrees(<<>>, s, next, 0)
  BY <1>1 DEF Agrees
<1> QED  BY <1>2 DEF Aligned

\* A cache that is the log is aligned with it.
LEMMA AlignedDrawn ==
  ASSUME NEW s \in Seq(Lines), NEW next
  PROVE  Bare(s) \in Seq(Texts) /\ Aligned(Bare(s), s, next)
<1> DEFINE v == Len(s)  z == Bare(s)
<1>1. v \in Nat /\ DOMAIN s = 1 .. v /\ \A i \in 1 .. v : s[i] \in Lines
  BY LenProperties, ElementOfSeq
<1>2. z = [i \in 1 .. v |-> [seq |-> s[i].seq, text |-> s[i].text]]
  BY <1>1 DEF Bare
<1>3. \A i \in 1 .. v : z[i] \in Texts /\ z[i].seq = s[i].seq /\ z[i].text = s[i].text
  <2>1. \A l \in Lines : [seq |-> l.seq, text |-> l.text] \in Texts
    BY DEF Lines, Texts
  <2> HIDE DEF v
  <2> QED  BY <1>1, <1>2, <2>1
<1>4. z = [i \in 1 .. v |-> z[i]]
  <2> HIDE DEF v
  <2> QED  BY <1>2
<1> HIDE DEF z, v
<1>5. z \in Seq(Texts) /\ Len(z) = v /\ DOMAIN z = 1 .. v
  <2>1. z \in Seq(Texts)
    BY <1>1, <1>3, <1>4, IsASeq
  <2>2. DOMAIN z = 1 .. v
    BY <1>4
  <2> QED  BY <1>1, <2>1, <2>2, LenProperties
<1>6. /\ v \in 0 .. v /\ v <= v /\ v - v = 0
      /\ \A i \in 1 .. v : ~(i <= 0) /\ 0 + i = i
  BY <1>1
<1>7. Agrees(z, s, next, v)
  BY <1>3, <1>5, <1>6 DEF Agrees, v
<1> QED  BY <1>1, <1>5, <1>7 DEF Aligned, z

-----------------------------------------------------------------------------
(* The writers.                                                              *)

\* The invariant says of the entry in the roster what a write needs.
LEMMA KeptNow ==
  ASSUME IInv, alive
  PROVE  Kept(entry, shown)
BY DEF IInv, TypeOK, InOrder, Visible, Kept

\* A write under the entry's lock keeps the invariant if what it leaves is
\* faithful, every cache stays aligned, and a change of the log is published.
LEMMA Wrote ==
  ASSUME IInv, NEW f, NEW kinds \in SUBSET Kinds, Write(f, kinds), updates' \in Nat,
         Kept(f, shown'),
         \A c \in Seq(Texts) : Aligned(c, entry.visible.lines, entry.nextSeq)
                                 => Aligned(c, f.visible.lines, f.nextSeq),
         kinds # {} \/ f.visible = entry.visible
  PROVE  IInv'
<1>1. /\ alive /\ entry' = f /\ pending' = pending \cup kinds
      /\ alive' = alive /\ view' = view /\ reused' = reused
  BY DEF Write
<1>2. f \in Entries /\ Once(f.runs) /\ shown' \in Seq(ShownLines)
      /\ Faithful(f, shown') /\ Ordered(shown', f.nextSeq, f.begun)
  BY DEF Kept
<1>3. TypeOK'
  BY <1>1, <1>2 DEF IInv, TypeOK
<1>4. InOrder' /\ Visible'
  BY <1>1, <1>2 DEF InOrder, Visible
<1>5. Heard'
  <2> SUFFICES ASSUME ~reused
               PROVE  /\ view.known # alive => "roster" \in pending'
                      /\ ~view.known => view.lines = <<>> /\ ~view.dirty
                      /\ (view.known /\ alive) =>
                           /\ Aligned(view.lines, f.visible.lines, f.nextSeq)
                           /\ view.dirty \/ pending' # {} \/ view.lines = Bare(f.visible.lines)
    BY <1>1 DEF Heard
  <2>1. /\ view.known # alive => "roster" \in pending
        /\ ~view.known => view.lines = <<>> /\ ~view.dirty
        /\ (view.known /\ alive) =>
             /\ Aligned(view.lines, entry.visible.lines, entry.nextSeq)
             /\ view.dirty \/ pending # {} \/ view.lines = Bare(entry.visible.lines)
    BY DEF IInv, Heard
  <2>2. view.lines \in Seq(Texts)
    BY DEF IInv, TypeOK, Views
  <2>3. pending # {} => pending' # {}
    BY <1>1
  <2>4. kinds # {} => pending' # {}
    BY <1>1
  <2>5. view.known # alive => "roster" \in pending'
    BY <1>1, <2>1
  <2>6. (view.known /\ alive) => Aligned(view.lines, f.visible.lines, f.nextSeq)
    BY <2>1, <2>2
  <2>7. (view.known /\ alive) =>
          view.dirty \/ pending' # {} \/ view.lines = Bare(f.visible.lines)
    BY <2>1, <2>3, <2>4
  <2> QED  BY <2>1, <2>5, <2>6, <2>7
<1> QED  BY <1>1, <1>2, <1>3, <1>4, <1>5 DEF IInv

\* RunSink::append_log.
LEMMA SinkWritesKeeps ==
  ASSUME LogStoreAssumption, IInv, NEW g \in 1 .. MaxLogRuns, NEW u \in Updates, SinkWrites(g, u)
  PROVE  IInv'
<1> DEFINE f == AppendLog(entry, g, u.live, u.size, updates + 1)
<1>1. /\ Write(f, {"logs"}) /\ shown' = Shown(entry, g, u.live) /\ g \in 1 .. entry.begun
      /\ updates' = updates + 1 /\ updates \in Nat /\ entry \in Entries
  BY DEF SinkWrites, Counted, IInv, TypeOK
<1>2. alive /\ Kept(entry, shown)
  BY <1>1, KeptNow DEF Write
<1>3. u.live \in Nat /\ u.size \in Nat /\ g \in Nat /\ updates + 1 \in Nat /\ g <= entry.begun
  <2>1. u \in [live : Nat, size : Nat]
    BY DEF LogStoreAssumption
  <2>2. u.live \in Nat /\ u.size \in Nat
    BY <2>1
  <2>3. entry.begun \in Nat
    BY <1>1 DEF Entries
  <2> QED  BY <1>1, <2>2, <2>3
<1> HIDE DEF f
<1>4. Written(f, entry, g, u.live, u.size, updates + 1)
  <2>1. Once(entry.runs) /\ Counts(entry.visible)
    BY <1>2 DEF Kept, Faithful
  <2> QED  BY <1>1, <1>3, <2>1, AppendLogIs DEF f
<1>5. shown' = Streamed(shown, entry, g, u.live, updates + 1)
  BY <1>1 DEF Shown, Streamed
<1>6. /\ Kept(f, shown')
      /\ \A c \in Seq(Texts) : Aligned(c, entry.visible.lines, entry.nextSeq)
                                 => Aligned(c, f.visible.lines, f.nextSeq)
  BY <1>2, <1>3, <1>4, <1>5, WriteIs
<1>7. {"logs"} \in SUBSET Kinds /\ {"logs"} # {} /\ updates' \in Nat
  BY <1>1 DEF Kinds
<1> QED  BY <1>1, <1>6, <1>7, Wrote

\* An entry whose events were counted on.
LEMMA Counting ==
  ASSUME NEW e, NEW s, Kept(e, s)
  PROVE  /\ Kept([e EXCEPT !.nextEvent = @ + 1], s)
         /\ [e EXCEPT !.nextEvent = @ + 1].visible = e.visible
         /\ [e EXCEPT !.nextEvent = @ + 1].nextSeq = e.nextSeq
         /\ [e EXCEPT !.nextEvent = @ + 1].begun = e.begun
<1> DEFINE n == e.nextEvent + 1  f == [e EXCEPT !.nextEvent = n]
<1>1. e \in Entries /\ n \in Nat \ {0}
  BY DEF Kept, Entries
<1> HIDE DEF n
<1>2. f \in Entries
  BY <1>1 DEF Entries
<1>3. /\ f.visible = e.visible /\ f.nextSeq = e.nextSeq /\ f.begun = e.begun /\ f.runs = e.runs
      /\ f.retention = e.retention /\ f.health = e.health
  BY <1>1 DEF Entries
<1> HIDE DEF f
<1>4. Kept(f, s)
  BY <1>2, <1>3 DEF Kept, Faithful, OwnHealth
<1> QED  BY <1>3, <1>4 DEF f, n

\* SessionModelWriter::append_event, with a banner or without.
LEMMA AppendEventKeeps ==
  ASSUME IInv, NEW mirrored \in BOOLEAN, AppendEvent(mirrored)
  PROVE  IInv'
<1> DEFINE e == [entry EXCEPT !.nextEvent = @ + 1]
           f == AppendLog(e, e.begun, 0, 1, updates + 1)
<1>1. updates' = updates + 1 /\ updates \in Nat /\ updates' \in Nat
  BY DEF AppendEvent, Counted, IInv, TypeOK
<1>2. /\ mirrored => Write(f, {"logs"}) /\ shown' = Shown(entry, e.begun, 0)
      /\ ~mirrored => Write(e, {}) /\ shown' = shown
  BY DEF AppendEvent
<1>3. alive
  BY <1>2 DEF Write
<1>4. /\ Kept(entry, shown) /\ Kept(e, shown) /\ e.visible = entry.visible
      /\ e.nextSeq = entry.nextSeq /\ e.begun = entry.begun
  BY <1>3, KeptNow, Counting
<1> HIDE DEF e
<1>5. CASE mirrored
  <2>1. e.begun \in Nat /\ 0 \in Nat /\ 1 \in Nat /\ updates + 1 \in Nat /\ e.begun <= e.begun
        /\ e \in Entries /\ Once(e.runs) /\ Counts(e.visible)
    BY <1>1, <1>4, KeptNumbers DEF Kept, Faithful
  <2> HIDE DEF f
  <2>2. Written(f, e, e.begun, 0, 1, updates + 1)
    BY <2>1, AppendLogIs DEF f
  <2>3. shown' = Streamed(shown, e, e.begun, 0, updates + 1)
    <3>1. ~Replaces(entry, e.begun, 0) /\ ~Replaces(e, e.begun, 0)
      BY DEF Replaces
    <3> QED  BY <1>2, <1>4, <1>5, <3>1 DEF Shown, Streamed
  <2>4. /\ Kept(f, shown')
        /\ \A c \in Seq(Texts) : Aligned(c, e.visible.lines, e.nextSeq)
                                   => Aligned(c, f.visible.lines, f.nextSeq)
    BY <1>4, <2>1, <2>2, <2>3, WriteIs
  <2>5. {"logs"} \in SUBSET Kinds /\ {"logs"} # {}
    BY DEF Kinds
  <2>6. \A c \in Seq(Texts) : Aligned(c, entry.visible.lines, entry.nextSeq)
                                => Aligned(c, f.visible.lines, f.nextSeq)
    BY <1>4, <2>4
  <2>7. Write(f, {"logs"})
    BY <1>2, <1>5
  <2> QED  BY <1>1, <2>4, <2>5, <2>6, <2>7, Wrote
<1>6. CASE ~mirrored
  <2>1. {} \in SUBSET Kinds
    OBVIOUS
  <2>2. Write(e, {}) /\ Kept(e, shown')
    BY <1>2, <1>4, <1>6
  <2>3. \A c \in Seq(Texts) : Aligned(c, entry.visible.lines, entry.nextSeq)
                                => Aligned(c, e.visible.lines, e.nextSeq)
    BY <1>4
  <2> QED  BY <1>1, <1>4, <2>1, <2>2, <2>3, Wrote
<1> QED  BY <1>5, <1>6

\* ServiceEntry::begin_run.
LEMMA BeginRunKeeps ==
  ASSUME IInv, BeginRun
  PROVE  IInv'
<1> DEFINE g == entry.begun + 1
           e == [entry EXCEPT !.begun = g]
           f == EnsureRun(e, g)
           run == [RunOf(f, g) EXCEPT !.live = 0]
           w == WithRun(f, g, run)
           h == [w EXCEPT !.health = <<>>]
<1>1. Write(Begun(entry, g), {"logs"}) /\ updates' = updates /\ shown' = shown
  BY DEF BeginRun
<1>2. Begun(entry, g) = h
  BY DEF Begun, RunOf
<1>3. Kept(entry, shown)
  BY <1>1, KeptNow DEF Write
<1>4. entry \in Entries /\ entry.begun \in Nat /\ g \in Nat /\ entry.begun <= g
  <2>1. entry \in Entries /\ entry.begun \in Nat
    BY <1>3, KeptNumbers DEF Kept
  <2> QED  BY <2>1
<1> HIDE DEF g
<1>5. /\ e \in Entries /\ e.runs = entry.runs /\ e.begun = g /\ e.visible = entry.visible
      /\ e.nextSeq = entry.nextSeq /\ e.retention = entry.retention
  BY <1>4 DEF Entries
<1> HIDE DEF e
<1>6. Once(e.runs)
  BY <1>3, <1>5 DEF Kept
<1>7. f \in Entries /\ ButRuns(f, e) /\ Once(f.runs) /\ HasRun(f, g)
  BY <1>4, <1>5, <1>6, EnsureRunIs
<1> HIDE DEF f
<1>8. run \in Runs /\ run.gen = g
  <2>1. RunOf(f, g) \in Runs /\ RunOf(f, g).gen = g
    BY <1>7, RunIs
  <2> QED  BY <2>1 DEF Runs
<1> HIDE DEF run
<1>9. w \in Entries /\ ButRuns(w, f) /\ Once(w.runs)
  BY <1>4, <1>7, <1>8, WithRunIs
<1> HIDE DEF w
<1>10. /\ h \in Entries /\ h.health = <<>> /\ h.runs = w.runs /\ h.begun = w.begun
       /\ h.visible = w.visible /\ h.nextSeq = w.nextSeq /\ h.retention = w.retention
  <2>1. <<>> \in Seq([run : Nat, done : BOOLEAN])
    BY EmptySeq
  <2> QED  BY <1>9, <2>1 DEF Entries
<1> HIDE DEF h
<1>11. /\ h.begun = g /\ h.visible = entry.visible /\ h.nextSeq = entry.nextSeq
       /\ h.retention = entry.retention
  BY <1>5, <1>7, <1>9, <1>10 DEF ButRuns
<1>12. OwnHealth(h)
  <2>1. DOMAIN h.health = {}
    BY <1>10
  <2> QED  BY <2>1 DEF OwnHealth
<1>13. Ordered(shown, h.nextSeq, h.begun)
  <2>1. shown \in Seq(ShownLines) /\ Ordered(shown, entry.nextSeq, entry.begun)
    BY <1>3 DEF Kept
  <2>2. DOMAIN shown = 1 .. Len(shown) /\ \A i \in 1 .. Len(shown) : shown[i].run \in Nat
    <3>1. \A i \in 1 .. Len(shown) : shown[i] \in ShownLines
      BY <2>1, ElementOfSeq
    <3>2. \A l \in ShownLines : l.run \in Nat
      BY DEF ShownLines
    <3> QED  BY <2>1, <3>1, <3>2, LenProperties
  <2>3. \A i \in DOMAIN shown : shown[i].run <= g
    BY <1>4, <2>1, <2>2 DEF Ordered
  <2> QED  BY <1>11, <2>1, <2>3 DEF Ordered
<1>14. Kept(h, shown')
  BY <1>1, <1>3, <1>9, <1>10, <1>11, <1>12, <1>13 DEF Kept, Faithful
<1>15. {"logs"} \in SUBSET Kinds /\ {"logs"} # {} /\ updates' \in Nat
  BY <1>1 DEF Kinds, IInv, TypeOK
<1>16. Write(h, {"logs"})
  BY <1>1, <1>2 DEF h
<1>17. \A c \in Seq(Texts) : Aligned(c, entry.visible.lines, entry.nextSeq)
                               => Aligned(c, h.visible.lines, h.nextSeq)
  BY <1>11
<1> QED  BY <1>14, <1>15, <1>16, <1>17, Wrote

\* SessionModelWriter::clear_logs: the log and the stream start again.
LEMMA ClearLogsKeeps ==
  ASSUME IInv, ClearLogs
  PROVE  IInv'
<1> DEFINE b == [lines |-> <<>>, bytes |-> Minus(entry.visible.bytes, SumOf(entry.visible.lines))]
           r == IF entry.runs = <<>> THEN entry.runs
                ELSE [entry.runs EXCEPT ![Len(entry.runs)].live = 0]
           f == [entry EXCEPT !.visible = b, !.runs = r]
<1>1. Write(Cleared(entry), {"logs"}) /\ updates' = updates /\ shown' = <<>>
  BY DEF ClearLogs
<1>2. Cleared(entry) = f
  BY DEF Cleared
<1>3. Kept(entry, shown)
  BY <1>1, KeptNow DEF Write
<1>4. /\ entry \in Entries /\ Once(entry.runs) /\ OwnHealth(entry) /\ entry.runs \in Seq(Runs)
      /\ entry.visible \in Buffers /\ Counts(entry.visible) /\ entry.retention \in Limits
  BY <1>3 DEF Kept, Faithful, Entries
<1>5. b \in Buffers /\ b.lines = <<>> /\ b.bytes = 0
  <2>1. entry.visible.bytes \in Nat /\ entry.visible.bytes = SumOf(entry.visible.lines)
    BY <1>4 DEF Buffers, Counts
  <2>2. b.bytes = 0
    BY <2>1 DEF Minus
  <2> QED  BY <2>2, EmptySeq DEF Buffers
<1> HIDE DEF b
<1>6. r \in Seq(Runs) /\ Once(r)
  <2>1. CASE entry.runs = <<>>
    BY <1>4, <2>1
  <2>2. CASE entry.runs # <<>>
    <3> DEFINE N == Len(entry.runs)  new == [entry.runs[N] EXCEPT !.live = 0]
    <3>1. N \in 1 .. N /\ entry.runs[N] \in Runs /\ DOMAIN entry.runs = 1 .. N
      BY <1>4, <2>2, LenProperties, EmptySeq, ElementOfSeq
    <3>2. new \in Runs /\ new.gen = entry.runs[N].gen
      BY <3>1 DEF Runs
    <3>3. r = [entry.runs EXCEPT ![N] = new]
      BY <2>2
    <3> HIDE DEF r, new, N
    <3>4. r \in Seq(Runs)
      BY <1>4, <3>1, <3>2, <3>3, ExceptSeq DEF N
    <3>5. DOMAIN r = DOMAIN entry.runs /\ \A i \in DOMAIN entry.runs : r[i].gen = entry.runs[i].gen
      BY <3>1, <3>2, <3>3
    <3> QED  BY <1>4, <3>4, <3>5 DEF Once
  <2> QED  BY <2>1, <2>2
<1> HIDE DEF r
<1>7. f \in Entries
  BY <1>4, <1>5, <1>6 DEF Entries
<1>8. /\ f.visible = b /\ f.runs = r /\ f.begun = entry.begun /\ f.nextSeq = entry.nextSeq
      /\ f.retention = entry.retention /\ f.health = entry.health
  BY <1>4 DEF Entries
<1> HIDE DEF f
<1>9. Faithful(f, <<>>)
  <2>1. EndOf(<<>>, <<>>) /\ SumOf(<<>>) = 0
    <3>1. EndOf(<<>>, <<>>)
      BY DEF EndOf
    <3>2. [seq |-> 1, run |-> 0, text |-> 0, size |-> 0] \in Lines /\ <<>> \in Seq(Lines)
      BY EmptySeq DEF Lines
    <3> QED  BY <3>1, <3>2, SumAppend
  <2>2. Counts(b)
    BY <1>5, <2>1 DEF Counts
  <2>3. Within(b, entry.retention)
    <3>1. entry.retention.bytes \in Nat /\ entry.retention.lines \in Nat
      BY <1>4 DEF Limits
    <3> QED  BY <1>5, <3>1 DEF Within
  <2>4. OwnHealth(f)
    BY <1>4, <1>8 DEF OwnHealth
  <2> QED  BY <1>5, <1>8, <2>1, <2>2, <2>3, <2>4 DEF Faithful
<1>10. Kept(f, shown')
  <2>1. <<>> \in Seq(ShownLines) /\ Ordered(<<>>, f.nextSeq, f.begun)
    BY EmptySeq DEF Ordered, Increasing, Below
  <2> QED  BY <1>1, <1>6, <1>7, <1>8, <1>9, <2>1 DEF Kept
<1>11. \A c \in Seq(Texts) : Aligned(c, entry.visible.lines, entry.nextSeq)
                               => Aligned(c, f.visible.lines, f.nextSeq)
  <2>1. /\ entry.visible.lines \in Seq(Lines) /\ entry.nextSeq \in Nat
        /\ Below(entry.visible.lines, entry.nextSeq)
    BY <1>3, KeptNumbers
  <2>2. \A c \in Seq(Texts) : Aligned(c, entry.visible.lines, entry.nextSeq)
                                => Aligned(c, <<>>, entry.nextSeq)
    BY <2>1, AlignedBelow, AlignedCleared
  <2> QED  BY <1>5, <1>8, <2>2
<1>12. {"logs"} \in SUBSET Kinds /\ {"logs"} # {} /\ updates' \in Nat /\ Write(f, {"logs"})
  BY <1>1, <1>2 DEF Kinds, IInv, TypeOK, f
<1> QED  BY <1>10, <1>11, <1>12, Wrote

\* ServiceEntry::reconfigure_log_retention: the buffer is rebuilt.
LEMMA ReconfigureKeeps ==
  ASSUME LogStoreAssumption, IInv, NEW retention \in Retentions, ReconfigureLogRetention(retention)
  PROVE  IInv'
<1> DEFINE b == Rebuilt(entry.visible, retention)
           r == Newest(entry.runs, retention.runs)
           f == [entry EXCEPT !.visible = b, !.runs = r, !.retention = retention]
<1>1. /\ Write(Reconfigured(entry, retention), {"logs"}) /\ shown' = shown
      /\ updates' = updates + 1 /\ updates \in Nat
  BY DEF ReconfigureLogRetention, Counted, IInv, TypeOK
<1>2. Reconfigured(entry, retention) = f
  BY DEF Reconfigured
<1>3. Kept(entry, shown)
  BY <1>1, KeptNow DEF Write
<1>4. /\ entry \in Entries /\ Once(entry.runs) /\ OwnHealth(entry) /\ entry.runs \in Seq(Runs)
      /\ entry.visible \in Buffers /\ EndOf(entry.visible.lines, shown)
      /\ shown \in Seq(ShownLines) /\ (shown # <<>> => entry.visible.lines # <<>>)
      /\ Ordered(shown, entry.nextSeq, entry.begun)
  BY <1>3 DEF Kept, Faithful, Entries
<1>5. retention \in Limits /\ retention.runs \in Nat \ {0}
  BY DEF LogStoreAssumption, Limits
<1>6. /\ b \in Buffers /\ Counts(b) /\ Within(b, retention) /\ EndOf(b.lines, entry.visible.lines)
      /\ entry.visible.lines # <<>> => b.lines # <<>>
  BY <1>4, <1>5, RebuiltIs
<1>7. r \in Seq(Runs) /\ Once(r)
  BY <1>4, <1>5, OnceNewest
<1> HIDE DEF b, r
<1>8. f \in Entries
  BY <1>4, <1>5, <1>6, <1>7 DEF Entries
<1>9. /\ f.visible = b /\ f.runs = r /\ f.begun = entry.begun /\ f.nextSeq = entry.nextSeq
      /\ f.retention = retention /\ f.health = entry.health
  BY <1>4 DEF Entries
<1> HIDE DEF f
<1>10. b.lines \in Seq(Lines) /\ entry.visible.lines \in Seq(Lines)
  BY <1>4, <1>6 DEF Buffers
<1>11. EndOf(b.lines, shown)
  BY <1>4, <1>6, <1>10, EndOfEnd
<1>12. Kept(f, shown')
  <2>1. OwnHealth(f)
    BY <1>4, <1>9 DEF OwnHealth
  <2>2. Faithful(f, shown)
    BY <1>4, <1>6, <1>9, <1>11, <2>1 DEF Faithful
  <2> QED  BY <1>1, <1>4, <1>7, <1>8, <1>9, <2>2 DEF Kept
<1>13. \A c \in Seq(Texts) : Aligned(c, entry.visible.lines, entry.nextSeq)
                               => Aligned(c, f.visible.lines, f.nextSeq)
  <2>1. entry.nextSeq \in Nat /\ Increasing(entry.visible.lines)
    BY <1>3, KeptNumbers
  <2>2. \A c \in Seq(Texts) : Aligned(c, entry.visible.lines, entry.nextSeq)
                                => Aligned(c, b.lines, entry.nextSeq)
    BY <1>6, <1>10, <2>1, AlignedEnd
  <2> QED  BY <1>9, <2>2
<1>14. {"logs"} \in SUBSET Kinds /\ {"logs"} # {} /\ updates' \in Nat /\ Write(f, {"logs"})
  BY <1>1, <1>2 DEF Kinds, f
<1> QED  BY <1>12, <1>13, <1>14, Wrote

\* The health attempts of an entry may be others of its latest run.
LEMMA HealthWrote ==
  ASSUME IInv, NEW h, h \in Seq([run : {entry.begun}, done : BOOLEAN]),
         Write([entry EXCEPT !.health = h], {}), shown' = shown, updates' \in Nat
  PROVE  IInv'
<1> DEFINE f == [entry EXCEPT !.health = h]
<1>1. Kept(entry, shown)
  BY KeptNow DEF Write
<1>2. entry \in Entries /\ entry.begun \in Nat
  BY <1>1, KeptNumbers DEF Kept
<1>3. h \in Seq([run : Nat, done : BOOLEAN])
  <2> DEFINE S == [run : {entry.begun}, done : BOOLEAN]  T == [run : Nat, done : BOOLEAN]
  <2>1. S \subseteq T
    BY <1>2
  <2>2. h \in Seq(S)
    OBVIOUS
  <2> HIDE DEF S, T
  <2>3. h \in Seq(T)
    BY <2>1, <2>2, SeqMonotonic
  <2> QED  BY <2>3 DEF T
<1>4. f \in Entries
  BY <1>2, <1>3 DEF Entries
<1>5. /\ f.visible = entry.visible /\ f.runs = entry.runs /\ f.begun = entry.begun
      /\ f.nextSeq = entry.nextSeq /\ f.retention = entry.retention /\ f.health = h
  BY <1>2 DEF Entries
<1>6. Write(f, {})
  OBVIOUS
<1> HIDE DEF f
<1>7. OwnHealth(f)
  <2>1. \A i \in DOMAIN h : h[i] \in [run : {entry.begun}, done : BOOLEAN]
    BY ElementOfSeq, LenProperties
  <2>2. \A x \in [run : {entry.begun}, done : BOOLEAN] : x.run = entry.begun
    OBVIOUS
  <2> QED  BY <1>5, <2>1, <2>2 DEF OwnHealth
<1>8. Kept(f, shown')
  BY <1>1, <1>4, <1>5, <1>7 DEF Kept, Faithful
<1>9. {} \in SUBSET Kinds
  OBVIOUS
<1>10. \A c \in Seq(Texts) : Aligned(c, entry.visible.lines, entry.nextSeq)
                               => Aligned(c, f.visible.lines, f.nextSeq)
  BY <1>5
<1> QED  BY <1>5, <1>6, <1>8, <1>9, <1>10, Wrote

\* The retained health attempts are the latest run's.
LEMMA LatestHealth ==
  ASSUME IInv, alive
  PROVE  /\ entry.begun \in Nat
         /\ entry.health \in Seq([run : {entry.begun}, done : BOOLEAN])
<1>1. Kept(entry, shown)
  BY KeptNow
<1>2. entry.begun \in Nat /\ entry.health \in Seq([run : Nat, done : BOOLEAN]) /\ OwnHealth(entry)
  BY <1>1 DEF Kept, Faithful, Entries
<1>3. /\ Len(entry.health) \in Nat /\ DOMAIN entry.health = 1 .. Len(entry.health)
      /\ \A i \in 1 .. Len(entry.health) : entry.health[i] \in [run : Nat, done : BOOLEAN]
      /\ entry.health = [i \in 1 .. Len(entry.health) |-> entry.health[i]]
  BY <1>2, LenProperties, ElementOfSeq, SeqDef
<1>4. \A i \in 1 .. Len(entry.health) : entry.health[i] \in [run : {entry.begun}, done : BOOLEAN]
  <2>1. \A i \in 1 .. Len(entry.health) : entry.health[i].run = entry.begun
    BY <1>2, <1>3 DEF OwnHealth
  <2>2. \A x \in [run : Nat, done : BOOLEAN] :
          x.run = entry.begun => x \in [run : {entry.begun}, done : BOOLEAN]
    OBVIOUS
  <2> QED  BY <1>3, <2>1, <2>2
<1>5. [i \in 1 .. Len(entry.health) |-> entry.health[i]]
        \in Seq([run : {entry.begun}, done : BOOLEAN])
  BY <1>3, <1>4, IsASeq
<1>6. entry.health \in Seq([run : {entry.begun}, done : BOOLEAN])
  BY <1>3, <1>5
<1> QED  BY <1>2, <1>6

\* RunSink::start_health_attempt and finish_health_attempt.
LEMMA HealthKeeps ==
  ASSUME LogStoreAssumption, IInv, NEW g, NEW n, StartHealthAttempt(g) \/ FinishHealthAttempt(g, n)
  PROVE  IInv'
<1> DEFINE S == [run : {entry.begun}, done : BOOLEAN]
           h == entry.health
<1>1. alive
  BY DEF StartHealthAttempt, FinishHealthAttempt, Write
<1>2. entry.begun \in Nat /\ h \in Seq(S)
  BY <1>1, LatestHealth
<1>3. CASE StartHealthAttempt(g)
  <2> DEFINE m == HealthHistory - 1
             d == Minus(Len(h), m)
             x == [run |-> g, done |-> FALSE]
             new == Append(Newest(h, m), x)
  <2>1. /\ Write([entry EXCEPT !.health = new], {}) /\ shown' = shown /\ g = entry.begun
        /\ updates' \in Nat
    BY <1>3 DEF StartHealthAttempt, Counted, IInv, TypeOK
  <2>2. m \in Nat /\ Len(h) \in Nat
    <3>1. HealthHistory \in Nat \ {0}
      BY DEF LogStoreAssumption
    <3> QED  BY <1>2, <3>1, LenProperties
  <2>3. d \in 0 .. Len(h)
    <3> DEFINE N == Len(h)
    <3> HIDE DEF N, m
    <3> QED  BY <2>2 DEF Minus, N
  <2>4. Newest(h, m) = SubSeq(h, d + 1, Len(h))
    BY DEF Newest
  <2> HIDE DEF d, m, S
  <2>5. Newest(h, m) \in Seq(S)
    BY <1>2, <2>3, <2>4, Parts
  <2>6. x \in S
    BY <2>1 DEF S
  <2> HIDE DEF x
  <2>7. new \in Seq(S)
    BY <2>5, <2>6, AppendProperties
  <2> HIDE DEF new
  <2> QED  BY <2>1, <2>7, HealthWrote DEF S
<1>4. CASE FinishHealthAttempt(g, n)
  <2> DEFINE new == [h EXCEPT ![n] = [@ EXCEPT !.done = TRUE]]
  <2>1. /\ Write([entry EXCEPT !.health = new], {}) /\ shown' = shown /\ n \in DOMAIN h
        /\ updates' \in Nat
    <3>1. [entry EXCEPT !.health[n].done = TRUE] = [entry EXCEPT !.health = new]
      OBVIOUS
    <3> QED  BY <1>4, <3>1 DEF FinishHealthAttempt, IInv, TypeOK
  <2>2. new \in Seq(S)
    <3> DEFINE e == [h[n] EXCEPT !.done = TRUE]
    <3>1. n \in 1 .. Len(h) /\ h[n] \in S
      BY <1>2, <2>1, LenProperties, ElementOfSeq
    <3>2. e \in S
      BY <3>1
    <3>3. new = [h EXCEPT ![n] = e]
      OBVIOUS
    <3> HIDE DEF new, e, S
    <3> QED  BY <1>2, <3>1, <3>2, <3>3, ExceptSeq
  <2> HIDE DEF new
  <2> QED  BY <2>1, <2>2, HealthWrote
<1> QED  BY <1>3, <1>4

\* SessionModelWriter::remove_service.
LEMMA RemoveKeeps ==
  ASSUME IInv, RemoveService
  PROVE  IInv'
<1>1. /\ alive' = FALSE /\ pending' = pending \cup {"roster"} /\ shown' = <<>>
      /\ entry' = entry /\ updates' = updates /\ view' = view /\ reused' = reused
  BY DEF RemoveService
<1>2. TypeOK'
  BY <1>1, EmptySeq DEF IInv, TypeOK, Kinds
<1>3. InOrder' /\ Visible'
  BY <1>1 DEF InOrder, Visible, Ordered, Increasing, Below
<1>4. Heard'
  BY <1>1 DEF IInv, Heard
<1> QED  BY <1>1, <1>2, <1>3, <1>4 DEF IInv

\* A new entry is faithful to an empty stream.
LEMMA NewIs ==
  ASSUME LogStoreAssumption, NEW r \in Retentions
  PROVE  Kept(NewEntry(r), <<>>)
<1> DEFINE b == [lines |-> <<>>, bytes |-> 0]  e == NewEntry(r)
<1>1. r \in Limits
  BY DEF LogStoreAssumption, Limits
<1>2. b \in Buffers /\ Counts(b) /\ Within(b, r)
  <2>1. [seq |-> 1, run |-> 0, text |-> 0, size |-> 0] \in Lines /\ <<>> \in Seq(Lines)
    BY EmptySeq DEF Lines
  <2>2. SumOf(<<>>) = 0
    BY <2>1, SumAppend
  <2>3. r.bytes \in Nat /\ r.lines \in Nat
    BY <1>1 DEF Limits
  <2> QED  BY <2>1, <2>2, <2>3, EmptySeq DEF Buffers, Counts, Within
<1>3. /\ e.begun = 0 /\ e.runs = <<>> /\ e.visible = b /\ e.nextSeq = 1 /\ e.retention = r
      /\ e.health = <<>> /\ e.nextEvent = 1
  BY DEF NewEntry
<1>4. e \in Entries
  <2>1. <<>> \in Seq(Runs) /\ <<>> \in Seq([run : Nat, done : BOOLEAN])
    BY EmptySeq
  <2> HIDE DEF b
  <2> QED  BY <1>1, <1>2, <2>1 DEF Entries, NewEntry, b
<1>5. Once(e.runs) /\ OwnHealth(e) /\ EndOf(e.visible.lines, <<>>)
  BY <1>3 DEF Once, OwnHealth, EndOf
<1> HIDE DEF b, e
<1>6. Faithful(e, <<>>)
  BY <1>2, <1>3, <1>5 DEF Faithful
<1>7. <<>> \in Seq(ShownLines) /\ Ordered(<<>>, e.nextSeq, e.begun)
  BY EmptySeq DEF Ordered, Increasing, Below
<1> QED  BY <1>4, <1>5, <1>6, <1>7 DEF Kept, e

\* SessionModelWriter::insert_service for the same id.
LEMMA InsertKeeps ==
  ASSUME LogStoreAssumption, IInv, NEW r \in Retentions, InsertService(r)
  PROVE  IInv'
<1>1. /\ alive' = TRUE /\ entry' = NewEntry(r) /\ pending' = pending \cup {"roster"}
      /\ reused' = (reused \/ view.known) /\ updates' = updates /\ view' = view /\ shown' = shown
      /\ alive = FALSE
  BY DEF InsertService, IInv, TypeOK
<1>2. shown = <<>>
  BY <1>1 DEF IInv, InOrder
<1>3. Kept(entry', shown')
  BY <1>1, <1>2, NewIs
<1>4. TypeOK'
  BY <1>1, <1>3 DEF IInv, TypeOK, Kept, Kinds, Views
<1>5. InOrder' /\ Visible' /\ Once(entry.runs)'
  BY <1>1, <1>3 DEF InOrder, Visible, Kept
<1>6. Heard'
  BY <1>1 DEF IInv, Heard
<1> QED  BY <1>4, <1>5, <1>6 DEF IInv

-----------------------------------------------------------------------------
(* The TUI.                                                                  *)

\* The log of a service that is gone is empty.
Buffer == IF alive THEN entry.visible ELSE [lines |-> <<>>, bytes |-> 0]

\* What the TUI reads: the visible log, or nothing of a service that is gone.
LEMMA BufferIs ==
  ASSUME IInv
  PROVE  Buffer \in Buffers /\ Increasing(Buffer.lines)
<1>1. CASE alive
  <2>1. Kept(entry, shown)
    BY <1>1, KeptNow
  <2>2. entry.visible \in Buffers /\ Increasing(entry.visible.lines)
    BY <2>1, KeptNumbers
  <2> QED  BY <1>1, <2>2 DEF Buffer
<1>2. CASE ~alive
  <2>1. Buffer.lines = <<>> /\ Buffer.bytes = 0 /\ Buffer = [lines |-> <<>>, bytes |-> 0]
    BY <1>2 DEF Buffer
  <2> QED  BY <2>1, EmptySeq DEF Buffers, Increasing
<1> QED  BY <1>1, <1>2

\* What the model's entry says of it does not change when the TUI acts.
LEMMA Read ==
  ASSUME IInv, UNCHANGED <<entry, alive, births, updates, shown, reused>>,
         pending' \in SUBSET Kinds, view' \in Views, Heard'
  PROVE  IInv'
<1>1. /\ entry' = entry /\ alive' = alive /\ updates' = updates /\ shown' = shown
      /\ reused' = reused
  OBVIOUS
<1>2. TypeOK' /\ InOrder' /\ Visible' /\ Once(entry.runs)'
  BY <1>1 DEF IInv, TypeOK, InOrder, Visible
<1> QED  BY <1>2 DEF IInv

\* App::resync.
LEMMA ResyncKeeps ==
  ASSUME IInv, UNCHANGED <<entry, alive, births, updates, shown, reused>>,
         pending' \in SUBSET Kinds, Resync
  PROVE  IInv'
<1> DEFINE lines == IF alive /\ view.known THEN view.lines ELSE <<>>
<1>1. view' = [known |-> alive, dirty |-> alive, lines |-> lines]
  BY DEF Resync
<1>2. view \in Views /\ alive \in BOOLEAN
  BY DEF IInv, TypeOK
<1>3. lines \in Seq(Texts)
  BY <1>2, EmptySeq DEF Views
<1>4. ~reused /\ alive => Aligned(lines, entry.visible.lines, entry.nextSeq)
  <2> SUFFICES ASSUME ~reused, alive  PROVE Aligned(lines, entry.visible.lines, entry.nextSeq)
    OBVIOUS
  <2>1. CASE view.known
    BY <2>1 DEF IInv, Heard
  <2>2. CASE ~view.known
    <3>1. entry.visible.lines \in Seq(Lines)
      BY DEF IInv, TypeOK, Entries, Buffers
    <3> QED  BY <2>2, <3>1, AlignedNothing
  <2> QED  BY <2>1, <2>2
<1>5. ~alive => lines = <<>>
  OBVIOUS
<1> HIDE DEF lines
<1>6. view'.known = alive /\ view'.dirty = alive /\ view'.lines = lines
  BY <1>1
<1>7. view' \in Views
  BY <1>1, <1>2, <1>3 DEF Views
<1>8. entry' = entry /\ alive' = alive /\ reused' = reused
  OBVIOUS
<1>9. Heard'
  <2> SUFFICES ASSUME ~reused
               PROVE  /\ view'.known # alive => "roster" \in pending'
                      /\ ~view'.known => view'.lines = <<>> /\ ~view'.dirty
                      /\ (view'.known /\ alive) =>
                           /\ Aligned(view'.lines, entry.visible.lines, entry.nextSeq)
                           /\ view'.dirty \/ pending' # {}
                                \/ view'.lines = Bare(entry.visible.lines)
    BY <1>8 DEF Heard
  <2> QED  BY <1>4, <1>5, <1>6
<1> QED  BY <1>7, <1>9, Read

\* App::apply_change.
LEMMA ReceiveKeeps ==
  ASSUME IInv, NEW kind, Receive(kind)
  PROVE  IInv'
<1>1. /\ UNCHANGED <<entry, alive, births, updates, shown, reused>>
      /\ kind \in pending /\ pending' = pending \ {kind} /\ pending' \in SUBSET Kinds
  BY DEF Receive, IInv, TypeOK
<1>2. CASE kind = "roster"
  <2>1. Resync
    BY <1>2 DEF Receive
  <2> QED  BY <1>1, <2>1, ResyncKeeps
<1>3. CASE kind # "roster"
  <2>1. view' = [view EXCEPT !.dirty = @ \/ view.known]
    BY <1>3 DEF Receive
  <2>2. view \in Views
    BY DEF IInv, TypeOK
  <2>3. view'.known = view.known /\ view'.lines = view.lines
    BY <2>1, <2>2 DEF Views
  <2>4. view'.dirty = (view.dirty \/ view.known)
    BY <2>1, <2>2 DEF Views
  <2>5. view' \in Views
    <3>1. view = [known |-> view.known, lines |-> view.lines, dirty |-> view.dirty]
          /\ view.known \in BOOLEAN /\ view.lines \in Seq(Texts)
      BY <2>2 DEF Views
    <3>2. (view.dirty \/ view.known) \in BOOLEAN
      OBVIOUS
    <3> QED  BY <2>1, <2>2, <3>2 DEF Views
  <2>6. Heard'
    <3>1. entry' = entry /\ alive' = alive /\ reused' = reused
      BY <1>1
    <3> SUFFICES ASSUME ~reused
                 PROVE  /\ view.known # alive => "roster" \in pending'
                        /\ ~view.known => view.lines = <<>> /\ ~view'.dirty
                        /\ (view.known /\ alive) =>
                             /\ Aligned(view.lines, entry.visible.lines, entry.nextSeq)
                             /\ view'.dirty \/ pending' # {}
                                  \/ view.lines = Bare(entry.visible.lines)
      BY <2>3, <3>1 DEF Heard
    <3>2. /\ view.known # alive => "roster" \in pending
          /\ ~view.known => view.lines = <<>> /\ ~view.dirty
          /\ (view.known /\ alive) => Aligned(view.lines, entry.visible.lines, entry.nextSeq)
      BY DEF IInv, Heard
    <3>3. "roster" \in pending => "roster" \in pending'
      BY <1>1, <1>3
    <3> QED  BY <2>4, <3>2, <3>3
  <2> QED  BY <1>1, <2>5, <2>6, Read
<1> QED  BY <1>2, <1>3

\* A lag of the broadcast: App::resync for everything that was missed.
LEMMA LaggedKeeps ==
  ASSUME IInv, Lagged
  PROVE  IInv'
<1>1. /\ UNCHANGED <<entry, alive, births, updates, shown, reused>>
      /\ pending' \in SUBSET Kinds /\ Resync
  BY DEF Lagged
<1> QED  BY <1>1, ResyncKeeps

\* App::render_logs: an aligned cache becomes the log.
LEMMA RenderLogsKeeps ==
  ASSUME IInv, RenderLogs
  PROVE  IInv'
<1> DEFINE lines == Drawn(view.lines, Buffer)
<1>1. /\ UNCHANGED <<entry, alive, births, updates, pending, shown, reused>>
      /\ view.dirty /\ view' = [view EXCEPT !.dirty = FALSE, !.lines = lines]
  BY DEF RenderLogs, Drawn, Buffer
<1>2. view \in Views /\ view.lines \in Seq(Texts) /\ pending \in SUBSET Kinds
  BY DEF IInv, TypeOK, Views
<1>3. Buffer \in Buffers /\ Increasing(Buffer.lines)
  BY BufferIs
<1>4. lines \in Seq(Texts)
  BY <1>2, <1>3, DrawnType
<1>5. ASSUME ~reused, view.known, alive
      PROVE  lines = Bare(entry.visible.lines) /\ Aligned(lines, entry.visible.lines, entry.nextSeq)
  <2>1. /\ Aligned(view.lines, entry.visible.lines, entry.nextSeq) /\ Buffer = entry.visible
        /\ entry.nextSeq \in Nat /\ entry.visible.lines \in Seq(Lines)
    BY <1>5 DEF IInv, Heard, Buffer, TypeOK, Entries, Buffers
  <2>2. lines = Bare(entry.visible.lines)
    BY <1>2, <1>3, <2>1, DrawnIs
  <2> QED  BY <2>1, <2>2, AlignedDrawn
<1> HIDE DEF lines
<1>6. view'.known = view.known /\ view'.dirty = FALSE /\ view'.lines = lines /\ view' \in Views
  BY <1>1, <1>2, <1>4 DEF Views
<1>7. Heard'
  <2>1. entry' = entry /\ alive' = alive /\ reused' = reused /\ pending' = pending
    BY <1>1
  <2> SUFFICES ASSUME ~reused
               PROVE  /\ view.known # alive => "roster" \in pending
                      /\ ~view.known => lines = <<>>
                      /\ (view.known /\ alive) =>
                           /\ Aligned(lines, entry.visible.lines, entry.nextSeq)
                           /\ lines = Bare(entry.visible.lines)
    BY <1>6, <2>1 DEF Heard
  <2>2. view.known # alive => "roster" \in pending
    BY DEF IInv, Heard
  <2>3. view.known
    BY <1>1 DEF IInv, Heard
  <2> QED  BY <1>5, <2>2, <2>3
<1>8. UNCHANGED <<entry, alive, births, updates, shown, reused>> /\ pending' \in SUBSET Kinds
  BY <1>1, <1>2
<1> QED  BY <1>6, <1>7, <1>8, Read

-----------------------------------------------------------------------------
(* The invariant.                                                            *)

\* The initial states.
LEMMA Begins ==
  ASSUME LogStoreAssumption, LogInit
  PROVE  IInv
<1>1. PICK r \in Retentions : entry = NewEntry(r)
  BY DEF LogInit
<1>2. /\ alive = TRUE /\ updates = 0 /\ pending = {} /\ shown = <<>> /\ reused = FALSE
      /\ view = [known |-> TRUE, lines |-> <<>>, dirty |-> TRUE]
  BY DEF LogInit
<1>3. Kept(entry, shown)
  BY <1>1, <1>2, NewIs
<1>4. TypeOK
  BY <1>2, <1>3, EmptySeq DEF TypeOK, Kept, Views
<1>5. InOrder /\ Visible /\ Once(entry.runs)
  BY <1>2, <1>3 DEF InOrder, Visible, Kept
<1>6. Heard
  <2>1. entry.visible.lines \in Seq(Lines)
    BY <1>3, KeptNumbers
  <2>2. Aligned(<<>>, entry.visible.lines, entry.nextSeq)
    BY <2>1, AlignedNothing
  <2> QED  BY <1>2, <2>2 DEF Heard
<1> QED  BY <1>4, <1>5, <1>6 DEF IInv

\* Every step.
LEMMA Keeps ==
  ASSUME LogStoreAssumption, IInv, [LogNext]_logVars
  PROVE  IInv'
<1>1. CASE UNCHANGED logVars
  BY <1>1 DEF logVars, IInv, TypeOK, InOrder, Visible, Heard
<1>2. CASE Writers
  <2>1. ASSUME NEW g \in 1 .. MaxLogRuns, NEW u \in Updates, SinkWrites(g, u)  PROVE IInv'
    BY <2>1, SinkWritesKeeps
  <2>2. ASSUME NEW g \in 1 .. MaxLogRuns, StartHealthAttempt(g)  PROVE IInv'
    BY <2>2, HealthKeeps
  <2>3. ASSUME NEW g \in 1 .. MaxLogRuns, NEW n \in 1 .. HealthHistory, FinishHealthAttempt(g, n)
        PROVE IInv'
    BY <2>3, HealthKeeps
  <2>4. ASSUME NEW mirrored \in BOOLEAN, AppendEvent(mirrored)  PROVE IInv'
    BY <2>4, AppendEventKeeps
  <2>5. ASSUME NEW r \in Retentions, ReconfigureLogRetention(r)  PROVE IInv'
    BY <2>5, ReconfigureKeeps
  <2>6. ASSUME NEW r \in Retentions, InsertService(r)  PROVE IInv'
    BY <2>6, InsertKeeps
  <2> QED
    BY <1>2, <2>1, <2>2, <2>3, <2>4, <2>5, <2>6, BeginRunKeeps, ClearLogsKeeps, RemoveKeeps
    DEF Writers
<1>3. CASE LogTui
  BY <1>3, LaggedKeeps, RenderLogsKeeps, ReceiveKeeps DEF LogTui
<1> QED  BY <1>1, <1>2, <1>3 DEF LogNext

\* Whatever the runs' sinks, the scheduler and the TUI do in whatever order, the
\* entry is faithful to what was shown and the TUI's cache is aligned with it, or
\* it will hear of a change (model.rs:1293, lib.rs, render.rs).
THEOREM Invariance ==
  ASSUME LogStoreAssumption
  PROVE  LogSpec => []IInv
<1>1. LogInit => IInv
  BY Begins
<1>2. IInv /\ [LogNext]_logVars => IInv'
  BY Keeps
<1> QED  BY <1>1, <1>2, PTL DEF LogSpec

-----------------------------------------------------------------------------
(* The visible log is the end of the stream, and its cursors are honest.     *)

\* A line that was shown is on the page, or older than the cursor or the log.
LEMMA NothingMissed ==
  ASSUME NEW e, NEW s, Kept(e, s), NEW n \in Nat, NEW l \in ToSet(s)
  PROVE  \/ l.seq <= n
         \/ \E p \in ToSet(LinesSince(e.visible, n)) : p.text = l.text
         \/ FirstRetained(e.visible) > l.seq
<1> DEFINE v == e.visible.lines  x == Len(v)  y == Len(s)  d == y - x
<1>1. /\ e.visible \in Buffers /\ v \in Seq(Lines) /\ Increasing(v) /\ s \in Seq(ShownLines)
      /\ EndOf(v, s) /\ (s # <<>> => v # <<>>) /\ Increasing(s)
  BY KeptNumbers DEF Kept, Faithful, Ordered
<1>2. /\ x \in Nat /\ y \in Nat /\ DOMAIN v = 1 .. x /\ DOMAIN s = 1 .. y /\ x <= y
      /\ \A i \in 1 .. x : v[i].seq = s[d + i].seq /\ v[i].text = s[d + i].text
  <2>1. DOMAIN v = 1 .. x /\ x \in Nat /\ y \in Nat /\ DOMAIN s = 1 .. y
    BY <1>1, LenProperties
  <2> QED  BY <1>1, <2>1 DEF EndOf, SameLine
<1>3. PICK j \in 1 .. y : l = s[j]
  BY <1>2 DEF ToSet
<1>4. \A i \in 1 .. y : s[i].seq \in Nat
  <2>1. \A i \in 1 .. y : s[i] \in ShownLines
    BY <1>1, ElementOfSeq
  <2>2. \A m \in ShownLines : m.seq \in Nat
    BY DEF ShownLines
  <2> QED  BY <2>1, <2>2
<1>5. CASE j > d
  <2> DEFINE i == j - d
  <2>1. i \in 1 .. x /\ d + i = j
    <3> HIDE DEF x, y
    <3> QED  BY <1>2, <1>3, <1>5
  <2>2. v[i].seq = l.seq /\ v[i].text = l.text /\ l.seq \in Nat
    <3> HIDE DEF i, x, v, y, d
    <3> QED  BY <1>2, <1>3, <1>4, <2>1
  <2> HIDE DEF i
  <2>3. SUFFICES ASSUME ~(l.seq <= n)
                 PROVE  \E p \in ToSet(LinesSince(e.visible, n)) : p.text = l.text
    OBVIOUS
  <2>4. PICK p \in 0 .. x :
          /\ \A k \in 1 .. x : k <= p <=> v[k].seq <= n
          /\ LinesSince(e.visible, n) \in Seq(Lines) /\ Len(LinesSince(e.visible, n)) = x - p
          /\ \A k \in 1 .. x - p : LinesSince(e.visible, n)[k] = v[p + k]
    BY <1>1, LinesSinceIs
  <2> HIDE DEF x, v
  <2>5. ~(i <= p)
    BY <2>1, <2>2, <2>3, <2>4
  <2>6. i - p \in 1 .. x - p /\ p + (i - p) = i
    BY <1>2, <2>1, <2>4, <2>5
  <2>7. LinesSince(e.visible, n)[i - p] = v[i]
    <3>1. LinesSince(e.visible, n)[i - p] = v[p + (i - p)]
      BY <2>4, <2>6
    <3> QED  BY <2>6, <3>1
  <2>8. i - p \in DOMAIN LinesSince(e.visible, n)
    BY <2>4, <2>6, LenProperties
  <2> QED  BY <2>2, <2>7, <2>8 DEF ToSet
<1>6. CASE ~(j > d)
  <2>1. v # <<>> /\ x # 0
    <3>1. s # <<>>
      BY <1>2, <1>3, EmptySeq
    <3> QED  BY <1>1, <3>1, EmptySeq
  <2>2. 1 \in 1 .. x /\ d + 1 \in 1 .. y /\ j < d + 1
    <3> HIDE DEF x, y
    <3> QED  BY <1>2, <1>3, <1>6, <2>1
  <2>3. s[j].seq < s[d + 1].seq
    <3> HIDE DEF x, y, d
    <3> QED  BY <1>1, <1>2, <1>3, <2>2 DEF Increasing
  <2>4. FirstRetained(e.visible) = v[1].seq /\ v[1].seq = s[d + 1].seq
    <3>1. FirstRetained(e.visible) = v[1].seq
      BY <1>1, <2>1, FirstIs
    <3> HIDE DEF x, y, d, v
    <3> QED  BY <1>2, <2>2, <3>1
  <2> HIDE DEF v, d
  <2>5. FirstRetained(e.visible) > l.seq
    <3> HIDE DEF x, y
    <3> QED  BY <1>3, <1>4, <2>2, <2>3, <2>4
  <2> QED  BY <2>5
<1> QED  BY <1>5, <1>6

\* An interval of numbers has a number of elements.
LEMMA Numbered ==
  ASSUME NEW a \in Int, NEW b \in Int
  PROVE  IsFiniteSet(a .. b) /\ Cardinality(a .. b) \in Nat
BY FS_Interval, FS_CardinalityType

\* A page of events that is not marked truncated is complete.
LEMMA PageComplete ==
  ASSUME LogStoreAssumption, NEW e, e.nextEvent \in Nat \ {0}, NEW after \in 0 .. e.nextEvent,
         NEW tail \in Nat, ~EventsPage(e, after, tail).truncated
  PROVE  EventsPage(e, after, tail).events = (after + 1) .. (e.nextEvent - 1)
<1> DEFINE N == e.nextEvent
           low == Minus(N, EventHistory + 1) + 1
           limit == AtMost(tail, EventHistory)
           matching == {n \in Events(e) : n > after}
           wanted == (after + 1) .. (N - 1)
<1>1. Events(e) = low .. N - 1
  BY DEF Events
<1>2. /\ N \in Nat \ {0} /\ EventHistory \in Nat \ {0} /\ low \in Nat \ {0}
      /\ N # 1 => low <= N - 1
  <2>1. EventHistory \in Nat \ {0}
    BY DEF LogStoreAssumption
  <2> HIDE DEF N
  <2>2. N \in Nat \ {0}
    BY DEF N
  <2> QED  BY <2>1, <2>2 DEF Minus
<1>3. /\ ~(\E n \in Events(e) : n > after + 1 /\ \A m \in Events(e) : m >= n)
      /\ ~(Cardinality(matching) > limit)
      /\ EventsPage(e, after, tail).events =
           IF after > 0
             THEN {n \in matching : Cardinality({m \in matching : m <= n}) <= limit}
             ELSE {n \in matching : Cardinality({m \in matching : m >= n}) <= limit}
  BY DEF EventsPage
<1> HIDE DEF low, limit, N
<1>4. after \in Nat
  BY DEF N
<1>5. matching = wanted
  <2>1. CASE N = 1
    <3>1. Events(e) = {} /\ wanted = {}
      BY <1>1, <1>2, <1>4, <2>1
    <3> QED  BY <3>1
  <2>2. CASE N # 1
    <3>1. low \in Events(e) /\ \A m \in Events(e) : m >= low
      BY <1>1, <1>2, <2>2
    <3>2. low <= after + 1
      BY <1>2, <1>3, <1>4, <3>1
    <3> QED  BY <1>1, <1>2, <1>4, <3>2
  <2> QED  BY <2>1, <2>2
<1> HIDE DEF matching
<1>6. IsFiniteSet(matching) /\ Cardinality(matching) \in Nat
  BY <1>2, <1>4, <1>5, Numbered
<1> HIDE DEF wanted
<1>7. \A S \in SUBSET matching : Cardinality(S) \in Nat /\ Cardinality(S) <= Cardinality(matching)
  BY <1>6, FS_Subset, FS_CardinalityType
<1>8. ~(Cardinality(matching) > limit)
  BY <1>3 DEF matching
<1>9. \A n \in matching :
        /\ Cardinality({m \in matching : m <= n}) <= limit
        /\ Cardinality({m \in matching : m >= n}) <= limit
  <2>1. limit \in Nat
    BY <1>2, Differences DEF limit
  <2>2. \A S \in SUBSET matching : Cardinality(S) <= limit
    BY <1>6, <1>7, <1>8, <2>1
  <2>3. \A n \in matching : /\ {m \in matching : m <= n} \in SUBSET matching
                            /\ {m \in matching : m >= n} \in SUBSET matching
    OBVIOUS
  <2> QED  BY <2>2, <2>3
<1>10. EventsPage(e, after, tail).events = matching
  <2>1. EventsPage(e, after, tail).events =
          IF after > 0
            THEN {n \in matching : Cardinality({m \in matching : m <= n}) <= limit}
            ELSE {n \in matching : Cardinality({m \in matching : m >= n}) <= limit}
    BY <1>3 DEF matching
  <2> QED  BY <1>9, <2>1
<1> QED  BY <1>5, <1>10 DEF wanted, N

\* Bare compares the number and the text of the lines.
LEMMA SameBare ==
  ASSUME NEW a \in Seq(Lines), NEW b \in Seq(ShownLines), EndOf(a, b)
  PROVE  Bare(a) = Bare(SubSeq(b, (Len(b) - Len(a)) + 1, Len(b)))
<1> DEFINE x == Len(a)  y == Len(b)  c == SubSeq(b, (y - x) + 1, y)
<1>1. x \in Nat /\ y \in Nat /\ x <= y /\ DOMAIN a = 1 .. x
  BY LenProperties DEF EndOf
<1>2. y - x \in 0 .. y /\ y - (y - x) = x
  <2> HIDE DEF x, y
  <2> QED  BY <1>1
<1>3. /\ c \in Seq(ShownLines) /\ Len(c) = y - (y - x)
      /\ \A i \in 1 .. y - (y - x) : c[i] = b[(y - x) + i]
  BY <1>2, Parts
<1>4. \A i \in 1 .. x : a[i].seq = b[(y - x) + i].seq /\ a[i].text = b[(y - x) + i].text
  BY <1>1 DEF EndOf, SameLine
<1> HIDE DEF c, x, y
<1>5. DOMAIN c = 1 .. x /\ \A i \in 1 .. x : c[i].seq = a[i].seq /\ c[i].text = a[i].text
  BY <1>2, <1>3, <1>4, LenProperties
<1>6. Bare(a) = Bare(c)
  BY <1>1, <1>5 DEF Bare
<1> QED  BY <1>6 DEF c, x, y

\* The cursors into the log and the events are honest.
LEMMA Honest ==
  ASSUME LogStoreAssumption, IInv
  PROVE  CursorsHonest
<1> SUFFICES ASSUME alive
             PROVE  /\ \A after \in 0 .. entry.nextSeq : \A l \in ToSet(shown) :
                         \/ l.seq <= after
                         \/ \E p \in ToSet(LinesSince(entry.visible, after)) : p.text = l.text
                         \/ FirstRetained(entry.visible) > l.seq
                    /\ \A after \in 0 .. entry.nextEvent, tail \in 1 .. (EventHistory + 1) :
                         EventsPage(entry, after, tail).truncated
                           \/ EventsPage(entry, after, tail).events
                                = (after + 1) .. (entry.nextEvent - 1)
  BY DEF CursorsHonest
<1>1. Kept(entry, shown)
  BY KeptNow
<1>2. entry.nextSeq \in Nat /\ entry.nextEvent \in Nat \ {0} /\ EventHistory \in Nat
  BY DEF IInv, TypeOK, Entries, LogStoreAssumption
<1>3. \A after \in 0 .. entry.nextSeq : after \in Nat
  BY <1>2
<1>4. \A tail \in 1 .. (EventHistory + 1) : tail \in Nat
  BY <1>2
<1>5. \A after \in 0 .. entry.nextSeq : \A l \in ToSet(shown) :
        \/ l.seq <= after
        \/ \E p \in ToSet(LinesSince(entry.visible, after)) : p.text = l.text
        \/ FirstRetained(entry.visible) > l.seq
  BY <1>1, <1>3, NothingMissed
<1>6. \A after \in 0 .. entry.nextEvent, tail \in 1 .. (EventHistory + 1) :
        EventsPage(entry, after, tail).truncated
          \/ EventsPage(entry, after, tail).events = (after + 1) .. (entry.nextEvent - 1)
  BY <1>2, <1>4, PageComplete
<1> QED  BY <1>5, <1>6

\* The invariant implies the property.
LEMMA VisibleIs ==
  ASSUME LogStoreAssumption, IInv
  PROVE  VisibleFaithful
<1> DEFINE v == entry.visible  dropped == Len(shown) - Len(v.lines)
<1> SUFFICES ASSUME alive
             PROVE  /\ dropped >= 0
                    /\ Bare(v.lines) = Bare(SubSeq(shown, dropped + 1, Len(shown)))
                    /\ \A i, j \in DOMAIN shown :
                         i < j => shown[i].seq < shown[j].seq /\ shown[i].run <= shown[j].run
                    /\ shown # <<>> => v.lines # <<>>
                    /\ v.bytes = SumOf(v.lines)
                    /\ v.bytes <= entry.retention.bytes /\ Len(v.lines) <= entry.retention.lines
                    /\ \A h \in ToSet(entry.health) : h.run = entry.begun
                    /\ CursorsHonest
  BY DEF VisibleFaithful
<1>1. Kept(entry, shown)
  BY KeptNow
<1>2. /\ v.lines \in Seq(Lines) /\ shown \in Seq(ShownLines) /\ EndOf(v.lines, shown)
      /\ (shown # <<>> => v.lines # <<>>) /\ Counts(v) /\ Within(v, entry.retention)
      /\ OwnHealth(entry) /\ Ordered(shown, entry.nextSeq, entry.begun)
  BY <1>1, KeptNumbers DEF Kept, Faithful
<1>3. dropped >= 0
  <2>1. Len(v.lines) \in Nat /\ Len(shown) \in Nat /\ Len(v.lines) <= Len(shown)
    BY <1>2, LenProperties DEF EndOf
  <2> QED  BY <2>1
<1>4. Bare(v.lines) = Bare(SubSeq(shown, dropped + 1, Len(shown)))
  BY <1>2, SameBare
<1>5. \A h \in ToSet(entry.health) : h.run = entry.begun
  BY <1>2 DEF OwnHealth, ToSet
<1> HIDE DEF dropped, v
<1> QED  BY <1>2, <1>3, <1>4, <1>5, Honest DEF Ordered, Increasing, Counts, Within

\* The visible log is the end of the stream that the runs wrote while each was
\* the latest, within both limits and with an exact byte count; a client that
\* reads with a cursor misses nothing without being told, and every health
\* attempt is the latest run's (model.rs:1293, memory.rs).
THEOREM VisibleFaithfulHolds ==
  ASSUME LogStoreAssumption
  PROVE  LogSpec => []VisibleFaithful
<1>1. IInv => VisibleFaithful
  BY VisibleIs
<1> QED  BY <1>1, Invariance, PTL

\* When every change was published and received and the TUI has drawn, it shows
\* the visible log, after replaced frames, evictions, clears and lags too
\* (render.rs, App::render_logs; lib.rs, App::apply_change).
THEOREM ViewFreshHolds ==
  ASSUME LogStoreAssumption
  PROVE  LogSpec => []ViewFresh
<1>1. IInv => ViewFresh
  <2> SUFFICES ASSUME IInv, pending = {}, ~view.dirty, ~reused
               PROVE  view.lines = IF alive THEN Bare(entry.visible.lines) ELSE <<>>
    BY DEF ViewFresh
  <2>1. alive \in BOOLEAN
    BY DEF IInv, TypeOK
  <2> QED  BY <2>1 DEF IInv, Heard
<1> QED  BY <1>1, Invariance, PTL
=============================================================================
