----------------------------- MODULE MirrorProofs -----------------------------
(***************************************************************************)
(* An attached client's mirror agrees with the session when nothing is on  *)
(* its way (remote.rs, unix.rs), for every size of the log, of a page and  *)
(* of the mirror, and for every number of writes and lost connections.     *)
(*                                                                         *)
(* MirrorFresh speaks of quiet states only, and says nothing of how they   *)
(* are reached.  What holds in between is, for each part of the mirror,    *)
(* that it agrees with the session or that the reason for which it will be *)
(* read again is still there (`Heard`): a change that is not handled yet, a*)
(* step of the task, or a connection to make.  For the log it also needs   *)
(* what a page adds to the lines that the mirror has (`Logs`), and for a   *)
(* restart of the client's own, how the generations of the session, of the *)
(* answer and of the mirror follow one another (`Own`).                    *)
(***************************************************************************)
EXTENDS Mirror, SequenceTheorems, WellFoundedInduction, TLAPS

\* The types of a line, the session's service, the mirror and the task's steps.
Lines == [seq : Nat \ {0}, text : Nat \X Nat]
Services ==
  [instance : Nat, alive : BOOLEAN, status : {0, 1}, gen : Nat \ {0}, health : {0, 1},
   log : Seq(Lines), next : Nat \ {0}, clear : BOOLEAN, starting : BOOLEAN]
Mirrors ==
  [instance : Nat, known : BOOLEAN, status : {0, 1}, gen : Nat, health : {0, 1},
   log : Seq(Lines), next : Nat, clearAfter : Nat]
Ops ==
  {"describe", "listAll", "subscribe", "list", "logs", "tail", "more", "health", "ack"}

TypeOK ==
  /\ srv \in Services /\ due \in SUBSET Kinds
  /\ sub \in {"none", "sent", "open"} /\ wire \in SUBSET Kinds
  /\ mirror \in Mirrors /\ todo \in Seq(Ops) /\ connected \in BOOLEAN /\ answer \in Nat
  /\ writes \in Nat /\ breaks \in Nat
  /\ excused \in SUBSET {"gap", "reuse", "pages"}
  /\ ownClear \in [asked : BOOLEAN, acked : BOOLEAN, seq : Nat]

\* The task will come to this step.
Ahead(op) == op \in ToSet(todo)

\* The lists of steps that occur: the handoff from its start, the subscription
\* with one sync after it, the acknowledgement alone, and the later reads of a
\* log at the front, of a service that the mirror knows.
Shaped ==
  /\ Ahead("describe") => todo = Handoff
  /\ \A i \in DOMAIN todo :
       todo[i] = "subscribe" =>
         sub = "none" /\ i + 1 = Len(todo) /\ todo[i + 1] = "listAll"
  /\ Ahead("ack") => todo = <<"ack">>
  /\ \A i \in DOMAIN todo : todo[i] \in {"tail", "more"} => i = 1 /\ mirror.known

\* Without a subscription the client is about to make one.
Unheard ==
  sub = "none" =>
    /\ ~connected
    /\ todo = <<>> \/ Ahead("subscribe")

\* The mirror of an earlier session is forgotten before anything else is done.
Elsewhere ==
  /\ mirror.instance <= srv.instance
  /\ mirror.instance # srv.instance => sub = "none" /\ (todo = <<>> \/ Ahead("describe"))

\* Nothing is left of a service that the mirror does not know.
Blank ==
  ~mirror.known =>
    mirror.log = <<>> /\ mirror.next = 0 /\ mirror.clearAfter = 0 /\ mirror.gen = 0

Control == Shaped /\ Unheard /\ Elsewhere /\ Blank

\* The log is numbered without gaps up to the next number.
Numbered(s) ==
  /\ Len(s.log) < s.next
  /\ \A i \in DOMAIN s.log : s.log[i].seq = s.next - Len(s.log) + i - 1
\* The mirror's cursor is the number of its last line.
EndsAtNext(m) ==
  /\ m.log = <<>> <=> m.next = 0
  /\ m.log # <<>> => Last(m.log).seq = m.next

\* The numbers that a session has kept, and the line with such a number.
Kept(s) == (s.next - Len(s.log)) .. (s.next - 1)
LineAt(s, q) == s.log[q - s.next + Len(s.log) + 1]
\* The mirror has this line, at the place its number gives it.
Holds(m, s, q) ==
  /\ m.next - q < Len(m.log)
  /\ m.log[Len(m.log) - (m.next - q)] = LineAt(s, q)
\* Every line that the session has kept and the mirror is past is the mirror's
\* own, but the last one, which may have been replaced since (`Fresh`).
Copied(m, s) ==
  \A q \in Kept(s) : (q < m.next /\ m.next - q < MirrorTail) => Holds(m, s, q)
Fresh(m, s) == m.next \in Kept(s) => Holds(m, s, m.next)

\* But for a frame replaced between two pages, or an id that was used again, the
\* mirror is a copy; and when a page follows, it starts where the last one ended.
Undisturbed == {"reuse", "pages"} \cap excused = {}
Mirrored ==
  Undisturbed =>
    /\ mirror.instance = srv.instance => mirror.next < srv.next /\ Copied(mirror, srv)
    /\ (Ahead("more") /\ srv.alive) => Fresh(mirror, srv)

Logs == Numbered(srv) /\ EndsAtNext(mirror) /\ Mirrored

\* Everything will be read; or a change of this kind is due.
AllPending == Ahead("listAll") \/ (todo = <<>> /\ ~connected /\ sub = "none")
Awaited(kind) == kind \in due \cup wire
Both == mirror.known /\ srv.alive

\* The roster, health and log agree, or will be read again.
RosterFresh ==
  \/ AllPending \/ Ahead("list") \/ Awaited("roster")
  \/ /\ mirror.known = srv.alive
     /\ srv.alive => mirror.status = srv.status /\ mirror.gen = srv.gen
HealthFresh ==
  Both => AllPending \/ Ahead("health") \/ Awaited("health") \/ mirror.health = srv.health
LogsFresh ==
  Both => \/ AllPending \/ Ahead("logs") \/ Awaited("logs") \/ Ahead("tail")
          \/ /\ Fresh(mirror, srv)
             /\ mirror.next = srv.next - 1 \/ srv.log = <<>> \/ Ahead("more")

Heard == excused = {} => RosterFresh /\ HealthFresh /\ LogsFresh

SameSession == mirror.instance = srv.instance
Above(log, n) == \A i \in DOMAIN log : log[i].seq > n
\* A restart of this client's own: the mirror's generation and the one it waits
\* for are none that the session has not had; the session has not started before
\* it has cleared its log; and from then on only what follows the clear is there,
\* or the mark that will have the mirror drop the rest.
Own ==
  /\ ownClear.seq # 0 => Above(srv.log, ownClear.seq) /\ srv.next > ownClear.seq
  /\ ~SameSession => ~ownClear.acked /\ ~ownClear.asked
  /\ "reuse" \notin excused =>
       /\ SameSession => mirror.gen <= srv.gen /\ mirror.clearAfter <= srv.gen
       /\ mirror.clearAfter <= answer
       /\ mirror.clearAfter # 0 => mirror.known /\ (SameSession => mirror.gen <= mirror.clearAfter)
       /\ Ahead("ack") => /\ mirror.known /\ SameSession /\ answer # 0
                          /\ mirror.gen <= answer /\ answer <= srv.gen
       /\ ownClear.asked => /\ srv.alive /\ srv.clear /\ ~srv.starting
                            /\ srv.gen = answer /\ ownClear.seq = 0
       /\ (ownClear.asked /\ ownClear.acked) => mirror.clearAfter = answer
       /\ (ownClear.acked /\ ownClear.seq # 0) =>
            mirror.clearAfter # 0 \/ Above(mirror.log, ownClear.seq)

IInv == TypeOK /\ Control /\ Logs /\ Heard /\ Own

-----------------------------------------------------------------------------
\* Induction over the numbers up to n, for a set instead of a predicate.
LEMMA Induction ==
  ASSUME NEW n \in Nat, NEW P, 0 \in P, \A k \in 0 .. n - 1 : k \in P => k + 1 \in P
  PROVE  \A k \in 0 .. n : k \in P
<1> DEFINE B == {k \in 0 .. n : k \notin P}
<1>1. CASE B = {}
  BY <1>1
<1>2. CASE B # {}
  <2>1. PICK x \in B : \A y \in B : ~(<<y, x>> \in OpToRel(<, Nat))
    <3>1. B \subseteq Nat
      OBVIOUS
    <3> HIDE DEF B
    <3> QED  BY <1>2, <3>1, WFMin, NatLessThanWellFounded, Zenon
  <2>2. x # 0 /\ x \in 0 .. n
    OBVIOUS
  <2>3. x - 1 \notin B
    <3>1. ASSUME NEW y \in Nat, y < x  PROVE <<y, x>> \in OpToRel(<, Nat)
      <4>1. <<y, x>> \in Nat \X Nat /\ <<y, x>>[1] < <<y, x>>[2]
        BY <2>2, <3>1
      <4> QED  BY <4>1, Zenon DEF OpToRel
    <3>2. x - 1 \in Nat /\ x - 1 < x
      BY <2>2
    <3> HIDE DEF B
    <3> QED  BY <2>1, <3>1, <3>2, Zenon
  <2> QED  BY <2>2, <2>3
<1> QED  BY <1>1, <1>2

\* The recursion of Appended, as the function that it defines.
LEMMA AppendedIs ==
  ASSUME NEW m, NEW lines \in Seq(Lines)
  PROVE  \E f : /\ f[0] = m
                /\ \A n \in 1 .. Len(lines) : f[n] = AppendLogLine(f[n - 1], lines[n])
                /\ Appended(m, lines) = f[Len(lines)]
<1> DEFINE N == Len(lines)
           IsAfter(f, k) ==
             f = [n \in 0 .. k |-> IF n = 0 THEN m ELSE AppendLogLine(f[n - 1], lines[n])]
           P == {k \in Nat : \E f : IsAfter(f, k)}
<1>1. N \in Nat
  BY LenProperties
<1>2. 0 \in P
  <2>1. IsAfter([n \in 0 .. 0 |-> m], 0)
    OBVIOUS
  <2> QED  BY <2>1
<1>3. ASSUME NEW k \in 0 .. N - 1, k \in P  PROVE k + 1 \in P
  <2>1. PICK f : IsAfter(f, k)
    BY <1>3
  <2> DEFINE g == [n \in 0 .. k + 1 |->
                    IF n \in 0 .. k THEN f[n] ELSE AppendLogLine(f[k], lines[k + 1])]
  <2>2. \A n \in 0 .. k : f[n] = IF n = 0 THEN m ELSE AppendLogLine(f[n - 1], lines[n])
    BY <2>1, Zenon
  <2>3. \A n \in 0 .. k + 1 : g[n] = IF n = 0 THEN m ELSE AppendLogLine(g[n - 1], lines[n])
    <3>1. \A n \in 0 .. k : g[n] = f[n]
      OBVIOUS
    <3>2. g[k + 1] = AppendLogLine(f[k], lines[k + 1])
      OBVIOUS
    <3>3. ASSUME NEW n \in 0 .. k + 1, n # 0  PROVE g[n] = AppendLogLine(g[n - 1], lines[n])
      <4>1. CASE n = k + 1
        <5>1. n - 1 = k
          BY <4>1
        <5>2. k \in 0 .. k
          OBVIOUS
        <5> QED  BY <3>1, <3>2, <4>1, <5>1, <5>2, Zenon
      <4>2. CASE n # k + 1
        <5>1. n \in 0 .. k /\ n - 1 \in 0 .. k
          BY <3>3, <4>2
        <5> HIDE DEF g
        <5> QED  BY <2>2, <3>1, <3>3, <5>1
      <4> QED  BY <4>1, <4>2
    <3>4. g[0] = m
      <4>1. 0 \in 0 .. k
        OBVIOUS
      <4> HIDE DEF g
      <4> QED  BY <2>2, <3>1, <4>1
    <3> HIDE DEF g
    <3> QED  BY <3>3, <3>4
  <2>4. IsAfter(g, k + 1)
    <3>1. DOMAIN g = 0 .. k + 1 /\ g = [n \in DOMAIN g |-> g[n]]
      OBVIOUS
    <3> HIDE DEF g
    <3> QED  BY <2>3, <3>1
  <2> HIDE DEF g, IsAfter
  <2>5. k + 1 \in Nat
    OBVIOUS
  <2> QED  BY <2>4, <2>5
<1>4. N \in P
  <2> HIDE DEF P
  <2>1. \A k \in 0 .. N : k \in P
    BY <1>1, <1>2, <1>3, Induction
  <2> QED  BY <1>1, <2>1
<1> DEFINE a == CHOOSE f : IsAfter(f, N)
<1>5. Appended(m, lines) = a[N]
  BY DEF Appended
<1>6. IsAfter(a, N)
  <2> HIDE DEF IsAfter
  <2> QED  BY <1>4
<1>7. \A n \in 0 .. N : a[n] = IF n = 0 THEN m ELSE AppendLogLine(a[n - 1], lines[n])
  <2> HIDE DEF a
  <2> QED  BY <1>6, Zenon
<1> HIDE DEF a
<1>8. a[0] = m
  BY <1>1, <1>7
<1>9. \A n \in 1 .. N : a[n] = AppendLogLine(a[n - 1], lines[n])
  BY <1>1, <1>7
<1> QED  BY <1>5, <1>8, <1>9

-----------------------------------------------------------------------------
\* The end of a sequence.
LEMMA NewestIs ==
  ASSUME NEW s \in Seq(Lines), NEW n \in Nat
  PROVE  /\ Newest(s, n) \in Seq(Lines)
         /\ Len(Newest(s, n)) = IF Len(s) > n THEN n ELSE Len(s)
         /\ \A i \in 1 .. Len(Newest(s, n)) :
              Newest(s, n)[i] = s[i + (Len(s) - Len(Newest(s, n)))]
<1> DEFINE from == (IF Len(s) > n THEN Len(s) - n ELSE 0) + 1
<1>1. Len(s) \in Nat /\ from \in 1 .. Len(s) + 1
  BY LenProperties
<1>2. \A i \in from .. Len(s) : s[i] \in Lines
  BY <1>1, ElementOfSeq
<1>3. Newest(s, n) = SubSeq(s, from, Len(s))
  BY DEF Newest
<1>4. /\ Newest(s, n) \in Seq(Lines)
      /\ Len(Newest(s, n)) = IF from <= Len(s) THEN Len(s) - from + 1 ELSE 0
      /\ \A i \in 1 .. Len(s) - from + 1 : Newest(s, n)[i] = s[from + i - 1]
  <2> HIDE DEF from
  <2>1. from \in Int /\ Len(s) \in Int
    BY <1>1
  <2> QED  BY <1>2, <1>3, <2>1, SubSeqProperties
<1>5. Len(Newest(s, n)) = IF Len(s) > n THEN n ELSE Len(s)
  BY <1>1, <1>4
<1>6. ASSUME NEW i \in 1 .. Len(Newest(s, n))
      PROVE  Newest(s, n)[i] = s[i + (Len(s) - Len(Newest(s, n)))]
  <2>1. i \in 1 .. Len(s) - from + 1
    BY <1>1, <1>5
  <2>2. from + i - 1 = i + (Len(s) - Len(Newest(s, n)))
    BY <1>1, <1>5
  <2> HIDE DEF from
  <2> QED  BY <1>4, <2>1, <2>2
<1> QED  BY <1>4, <1>5, <1>6

\* What is above holds of every element, wherever it is.
LEMMA NewestAbove ==
  ASSUME NEW s \in Seq(Lines), NEW n \in Nat, NEW c \in Nat, Above(s, c)
  PROVE  Above(Newest(s, n), c)
<1> DEFINE t == Newest(s, n)
<1>1. /\ t \in Seq(Lines) /\ Len(t) = IF Len(s) > n THEN n ELSE Len(s)
      /\ \A i \in 1 .. Len(t) : t[i] = s[i + (Len(s) - Len(t))]
  BY NewestIs
<1>2. Len(s) \in Nat /\ DOMAIN s = 1 .. Len(s) /\ DOMAIN t = 1 .. Len(t)
  BY <1>1, LenProperties
<1>3. \A i \in 1 .. Len(t) : i + (Len(s) - Len(t)) \in 1 .. Len(s)
  BY <1>1, <1>2
<1> HIDE DEF t
<1>4. Above(t, c)
  BY <1>1, <1>2, <1>3 DEF Above
<1> QED  BY <1>4 DEF t

\* The end of a log ends where the log does.
LEMMA NewestEnds ==
  ASSUME NEW m \in Mirrors, EndsAtNext(m), NEW n \in Nat \ {0}
  PROVE  EndsAtNext([m EXCEPT !.log = Newest(@, n)])
<1> DEFINE s == m.log
           t == Newest(s, n)
<1>1. s \in Seq(Lines) /\ m.next \in Nat
  BY DEF Mirrors
<1>2. /\ t \in Seq(Lines) /\ Len(t) = IF Len(s) > n THEN n ELSE Len(s)
      /\ \A i \in 1 .. Len(t) : t[i] = s[i + (Len(s) - Len(t))]
  BY <1>1, NewestIs
<1>3. Len(s) \in Nat
  BY <1>1, LenProperties
<1>4. (s = <<>> <=> Len(s) = 0) /\ (t = <<>> <=> Len(t) = 0)
  BY <1>1, <1>2, EmptySeq
<1>5. [m EXCEPT !.log = Newest(@, n)].log = t /\ [m EXCEPT !.log = Newest(@, n)].next = m.next
  BY DEF Mirrors
<1> HIDE DEF t
<1>6. ASSUME t # <<>>  PROVE Last(t) = Last(s)
  <2>1. Len(t) \in 1 .. Len(t) /\ Len(t) + (Len(s) - Len(t)) = Len(s)
    BY <1>2, <1>3, <1>4, <1>6
  <2> QED  BY <1>2, <2>1 DEF Last
<1>7. t = <<>> <=> s = <<>>
  BY <1>2, <1>3, <1>4
<1> QED  BY <1>5, <1>6, <1>7 DEF EndsAtNext

-----------------------------------------------------------------------------
(* One line more. *)

Same(m, n) == n = [m EXCEPT !.log = n.log, !.next = n.next]

\* What an appended line, or page, always leaves.
Follows(m, n) == n \in Mirrors /\ EndsAtNext(n) /\ Same(m, n)

\* A line replaces the last one, is added to the log, or is older and dropped.
LEMMA LineCases ==
  ASSUME NEW m \in Mirrors, NEW line \in Lines, EndsAtNext(m)
  PROVE  \/ /\ m.log # <<>> /\ line.seq = m.next
            /\ AppendLogLine(m, line) = [m EXCEPT !.log = [m.log EXCEPT ![Len(m.log)] = line]]
         \/ /\ line.seq > m.next
            /\ AppendLogLine(m, line) = [m EXCEPT !.log = Append(m.log, line), !.next = line.seq]
         \/ /\ line.seq < m.next
            /\ AppendLogLine(m, line) = m
<1>1. line.seq \in Nat \ {0} /\ m.next \in Nat
  BY DEF Lines, Mirrors
<1>2. CASE m.log # <<>> /\ Last(m.log).seq = line.seq
  BY <1>2 DEF AppendLogLine, EndsAtNext
<1>3. CASE ~(m.log # <<>> /\ Last(m.log).seq = line.seq)
  <2>1. m.log = <<>> \/ line.seq # m.next
    BY <1>3 DEF EndsAtNext
  <2>2. line.seq > m.next \/ (line.seq < m.next /\ ~(line.seq > m.next))
    BY <1>1, <2>1 DEF EndsAtNext
  <2> QED  BY <1>3, <2>2 DEF AppendLogLine
<1> QED  BY <1>2, <1>3

\* What a line leaves of the mirror, wherever it comes from.
LEMMA LineAppended ==
  ASSUME NEW m \in Mirrors, NEW line \in Lines, EndsAtNext(m), NEW n,
         n = AppendLogLine(m, line)
  PROVE  /\ Follows(m, n)
         /\ \A c \in Nat : (Above(m.log, c) /\ line.seq > c) => Above(n.log, c)
<1>1. m.log \in Seq(Lines) /\ m.next \in Nat /\ line.seq \in Nat \ {0}
  BY DEF Lines, Mirrors
<1>2. Len(m.log) \in Nat /\ DOMAIN m.log = 1 .. Len(m.log) /\ (m.log # <<>> => Len(m.log) # 0)
  BY <1>1, LenProperties, EmptySeq
<1>3. CASE m.log # <<>> /\ line.seq = m.next
           /\ n = [m EXCEPT !.log = [m.log EXCEPT ![Len(m.log)] = line]]
  <2> DEFINE log == [m.log EXCEPT ![Len(m.log)] = line]
  <2>1. Len(m.log) \in 1 .. Len(m.log)
    BY <1>2, <1>3
  <2>2. /\ log \in Seq(Lines) /\ Len(log) = Len(m.log)
        /\ \A j \in 1 .. Len(m.log) : log[j] = IF j = Len(m.log) THEN line ELSE m.log[j]
    BY <1>1, <2>1, ExceptSeq
  <2>3. log # <<>> /\ DOMAIN log = 1 .. Len(m.log)
    BY <1>2, <1>3, <2>2, LenProperties, EmptySeq
  <2>4. Last(log) = line
    BY <2>1, <2>2 DEF Last
  <2> HIDE DEF log
  <2>5. n = [m EXCEPT !.log = log]
    BY <1>3 DEF log
  <2>6. n.log = log /\ n.next = m.next /\ n \in Mirrors
    BY <2>2, <2>5 DEF Mirrors
  <2>7. Same(m, n)
    BY <2>5, <2>6 DEF Mirrors, Same
  <2>8. EndsAtNext(n)
    BY <1>1, <1>3, <2>3, <2>4, <2>6 DEF EndsAtNext
  <2>9. \A c \in Nat : (Above(m.log, c) /\ line.seq > c) => Above(n.log, c)
    BY <1>2, <2>2, <2>3, <2>6 DEF Above
  <2> QED  BY <2>6, <2>7, <2>8, <2>9 DEF Follows
<1>4. CASE line.seq > m.next /\ n = [m EXCEPT !.log = Append(m.log, line), !.next = line.seq]
  <2> DEFINE log == Append(m.log, line)
  <2>2. /\ log \in Seq(Lines) /\ log # <<>> /\ Len(log) = Len(m.log) + 1
        /\ \A j \in 1 .. Len(m.log) : log[j] = m.log[j]
        /\ log[Len(m.log) + 1] = line
    BY <1>1, AppendProperties
  <2>3. DOMAIN log = 1 .. Len(m.log) + 1
    BY <2>2, LenProperties
  <2>4. Last(log) = line
    BY <2>2 DEF Last
  <2> HIDE DEF log
  <2>5. n = [m EXCEPT !.log = log, !.next = line.seq]
    BY <1>4 DEF log
  <2>6. n.log = log /\ n.next = line.seq /\ n \in Mirrors
    BY <1>1, <2>2, <2>5 DEF Mirrors
  <2>7. Same(m, n)
    BY <2>5, <2>6 DEF Mirrors, Same
  <2>8. EndsAtNext(n)
    BY <1>1, <2>2, <2>4, <2>6 DEF EndsAtNext
  <2>9. \A c \in Nat : (Above(m.log, c) /\ line.seq > c) => Above(n.log, c)
    <3> SUFFICES ASSUME NEW c \in Nat, Above(m.log, c), line.seq > c, NEW j \in DOMAIN log
                 PROVE  log[j].seq > c
      BY <2>6 DEF Above
    <3>1. j \in 1 .. Len(m.log) \/ j = Len(m.log) + 1
      BY <1>2, <2>3
    <3> QED  BY <1>2, <2>2, <3>1 DEF Above
  <2> QED  BY <2>6, <2>7, <2>8, <2>9 DEF Follows
<1>5. CASE n = m
  BY <1>5 DEF Mirrors, Same, Follows
<1> QED  BY LineCases, <1>3, <1>4, <1>5

\* The lines of a numbered log, by their place and by their number.
LEMMA KeptLines ==
  ASSUME NEW s \in Services, Numbered(s)
  PROVE  /\ Len(s.log) \in Nat /\ s.next \in Nat \ {0} /\ DOMAIN s.log = 1 .. Len(s.log)
         /\ \A q \in Kept(s) : /\ q \in Nat \ {0} /\ LineAt(s, q) \in Lines
                               /\ LineAt(s, q).seq = q
<1>1. s.log \in Seq(Lines) /\ s.next \in Nat \ {0}
  BY DEF Services
<1>2. Len(s.log) \in Nat /\ DOMAIN s.log = 1 .. Len(s.log)
  BY <1>1, LenProperties
<1>3. ASSUME NEW q \in Kept(s)
      PROVE  q \in Nat \ {0} /\ LineAt(s, q) \in Lines /\ LineAt(s, q).seq = q
  <2> DEFINE i == q - s.next + Len(s.log) + 1
  <2>1. q \in Nat \ {0} /\ i \in 1 .. Len(s.log)
    BY <1>1, <1>2 DEF Kept, Numbered
  <2>2. s.log[i] \in Lines
    BY <1>1, <2>1, ElementOfSeq
  <2>3. s.log[i].seq = s.next - Len(s.log) + i - 1
    BY <1>2, <2>1 DEF Numbered
  <2>4. s.next - Len(s.log) + i - 1 = q
    BY <1>1, <1>2, <2>1
  <2>5. LineAt(s, q) = s.log[i]
    BY DEF LineAt
  <2> QED  BY <2>1, <2>2, <2>3, <2>4, <2>5
<1> QED  BY <1>1, <1>2, <1>3

\* The first line of a page is the mirror's last one, read again, or the next, or
\* nothing before it is kept.
Joins(m, s, q) ==
  \/ q = m.next /\ Copied(m, s)
  \/ q = m.next + 1 /\ Copied(m, s) /\ Fresh(m, s)
  \/ q > m.next /\ q = s.next - Len(s.log)

LEMMA OneBack ==
  ASSUME NEW len \in Nat, NEW next \in Nat, NEW p \in Nat, NEW q \in Nat,
         q = next + 1, p <= next, next - p < len
  PROVE  /\ len - (next - p) \in 1 .. len
         /\ (len + 1) - (q - p) = len - (next - p)
         /\ q - p < len + 1
OBVIOUS

\* A line that joins on to a mirror that holds the ones before is held too.
LEMMA LineHeld ==
  ASSUME NEW m \in Mirrors, EndsAtNext(m), NEW s \in Services, Numbered(s),
         MirrorTail \in Nat, NEW q \in Kept(s), Joins(m, s, q),
         NEW n, n = AppendLogLine(m, LineAt(s, q))
  PROVE  n.next = q /\ Copied(n, s) /\ Fresh(n, s)
<1> DEFINE line == LineAt(s, q)
<1>1. /\ m.log \in Seq(Lines) /\ m.next \in Nat
      /\ Len(s.log) \in Nat /\ s.next \in Nat \ {0}
      /\ q \in Nat \ {0} /\ line \in Lines /\ line.seq = q
      /\ \A p \in Kept(s) : p \in Nat /\ p >= s.next - Len(s.log)
  BY KeptLines DEF Mirrors, Kept
<1>2. Len(m.log) \in Nat /\ (m.log # <<>> => Len(m.log) # 0)
  BY <1>1, LenProperties, EmptySeq
<1> HIDE DEF line
<1>5. n = AppendLogLine(m, line)
  BY DEF line
<1>6. \/ /\ m.log # <<>> /\ q = m.next
         /\ n = [m EXCEPT !.log = [m.log EXCEPT ![Len(m.log)] = line]]
      \/ q > m.next /\ n = [m EXCEPT !.log = Append(m.log, line), !.next = q]
      \/ q < m.next
  BY <1>1, <1>5, LineCases
<1>3. CASE q = m.next
  <2> DEFINE log == [m.log EXCEPT ![Len(m.log)] = line]
  <2>1. m.log # <<>> /\ n = [m EXCEPT !.log = log]
    BY <1>1, <1>3, <1>6
  <2>2. Len(m.log) \in 1 .. Len(m.log)
    BY <1>2, <2>1
  <2>3. /\ Len(log) = Len(m.log)
        /\ \A j \in 1 .. Len(m.log) : log[j] = IF j = Len(m.log) THEN line ELSE m.log[j]
    BY <1>1, <2>2, ExceptSeq
  <2> HIDE DEF log
  <2>4. n.log = log /\ n.next = q /\ m.next = q
    BY <1>3, <2>1 DEF Mirrors
  <2>5. Copied(m, s)
    BY <1>1, <1>3 DEF Kept, Joins
  <2>6. ASSUME NEW p \in Kept(s), p < q, q - p < MirrorTail  PROVE Holds(n, s, p)
    <3>1. q - p < Len(m.log) /\ m.log[Len(m.log) - (q - p)] = LineAt(s, p)
      BY <2>4, <2>5, <2>6 DEF Copied, Holds
    <3>2. Len(m.log) - (q - p) \in 1 .. Len(m.log) /\ Len(m.log) - (q - p) # Len(m.log)
      BY <1>1, <1>2, <2>6, <3>1
    <3> QED  BY <2>3, <2>4, <3>1, <3>2 DEF Holds
  <2>7. Holds(n, s, q)
    <3>1. q - q = 0 /\ Len(log) - 0 = Len(m.log) /\ 0 < Len(log)
      BY <1>1, <2>2, <2>3
    <3> QED  BY <2>2, <2>3, <2>4, <3>1 DEF Holds, line
  <2> QED  BY <2>4, <2>6, <2>7 DEF Copied, Fresh
<1>4. CASE q # m.next
  <2> DEFINE log == Append(m.log, line)
  <2>1. q > m.next /\ n = [m EXCEPT !.log = log, !.next = q]
    <3>1. q > m.next
      BY <1>1, <1>4 DEF Joins
    <3> QED  BY <1>1, <1>6, <3>1
  <2>2. /\ Len(log) = Len(m.log) + 1
        /\ \A j \in 1 .. Len(m.log) : log[j] = m.log[j]
        /\ log[Len(m.log) + 1] = line
    BY <1>1, AppendProperties
  <2> HIDE DEF log
  <2>4. n.log = log /\ n.next = q
    BY <2>1 DEF Mirrors
  <2>6. ASSUME NEW p \in Kept(s), p < q, q - p < MirrorTail  PROVE Holds(n, s, p)
    <3>1. q = m.next + 1 /\ p <= m.next /\ m.next - p < MirrorTail
      BY <1>1, <1>4, <2>6 DEF Joins
    <3>2. m.next - p < Len(m.log) /\ m.log[Len(m.log) - (m.next - p)] = LineAt(s, p)
      <4>1. CASE p = m.next
        BY <1>1, <1>4, <3>1, <4>1 DEF Fresh, Holds, Joins
      <4>2. CASE p # m.next
        <5>1. p < m.next
          BY <1>1, <3>1, <4>2
        <5>2. Copied(m, s)
          BY <1>1, <1>4, <2>6 DEF Joins
        <5> QED  BY <3>1, <5>1, <5>2 DEF Copied, Holds
      <4> QED  BY <4>1, <4>2
    <3>3. /\ Len(m.log) - (m.next - p) \in 1 .. Len(m.log)
          /\ (Len(m.log) + 1) - (q - p) = Len(m.log) - (m.next - p)
          /\ q - p < Len(m.log) + 1
      <4> DEFINE x == m.next
                 l == Len(m.log)
      <4>1. p \in Nat /\ q \in Nat /\ x \in Nat /\ l \in Nat
        BY <1>1, <1>2
      <4>2. q = x + 1 /\ p <= x /\ x - p < l
        BY <3>1, <3>2
      <4> HIDE DEF x, l
      <4>3. l - (x - p) \in 1 .. l /\ (l + 1) - (q - p) = l - (x - p) /\ q - p < l + 1
        BY <4>1, <4>2, OneBack
      <4> QED  BY <4>3 DEF x, l
    <3>4. log[(Len(m.log) + 1) - (q - p)] = LineAt(s, p)
      BY <2>2, <3>2, <3>3
    <3>5. n.next - p < Len(n.log) /\ n.log[Len(n.log) - (n.next - p)] = LineAt(s, p)
      BY <2>2, <2>4, <3>3, <3>4, Zenon
    <3> QED  BY <3>5 DEF Holds
  <2>7. Holds(n, s, q)
    <3>1. q - q = 0 /\ Len(log) - 0 = Len(m.log) + 1 /\ 0 < Len(log)
      BY <1>1, <1>2, <2>2
    <3> QED  BY <2>2, <2>4, <3>1 DEF Holds, line
  <2> QED  BY <2>4, <2>6, <2>7 DEF Copied, Fresh
<1> QED  BY <1>3, <1>4

\* The lines that a mirror does not keep are further back than its tail.
LEMMA NewestHolds ==
  ASSUME NEW m \in Mirrors, NEW s \in Services, Numbered(s), MirrorTail \in Nat \ {0},
         NEW n, n = [m EXCEPT !.log = Newest(@, MirrorTail)]
  PROVE  /\ Copied(m, s) => Copied(n, s)
         /\ Fresh(m, s) => Fresh(n, s)
<1> DEFINE log == Newest(m.log, MirrorTail)
<1>1. /\ m.log \in Seq(Lines) /\ m.next \in Nat /\ n.log = log /\ n.next = m.next
      /\ \A p \in Kept(s) : p \in Nat
  BY KeptLines DEF Mirrors
<1>2. /\ Len(m.log) \in Nat /\ Len(log) = IF Len(m.log) > MirrorTail THEN MirrorTail ELSE Len(m.log)
      /\ \A i \in 1 .. Len(log) : log[i] = m.log[i + (Len(m.log) - Len(log))]
  BY <1>1, NewestIs, LenProperties
<1> HIDE DEF log
<1>3. ASSUME NEW p \in Kept(s), p <= m.next, m.next - p < MirrorTail, Holds(m, s, p)
      PROVE  Holds(n, s, p)
  <2>1. m.next - p < Len(m.log) /\ m.log[Len(m.log) - (m.next - p)] = LineAt(s, p)
    BY <1>3 DEF Holds
  <2> DEFINE i == Len(log) - (m.next - p)
  <2>2. m.next - p < Len(log) /\ i \in 1 .. Len(log)
        /\ i + (Len(m.log) - Len(log)) = Len(m.log) - (m.next - p)
    BY <1>1, <1>2, <1>3, <2>1
  <2>3. log[i] = LineAt(s, p)
    BY <1>2, <2>1, <2>2
  <2> QED  BY <1>1, <2>2, <2>3 DEF Holds
<1>4. Copied(m, s) => Copied(n, s)
  <2> SUFFICES ASSUME Copied(m, s), NEW p \in Kept(s), p < n.next, n.next - p < MirrorTail
               PROVE  Holds(n, s, p)
    BY DEF Copied
  <2>1. p <= m.next
    BY <1>1
  <2> QED  BY <1>1, <1>3, <2>1 DEF Copied
<1>5. Fresh(m, s) => Fresh(n, s)
  <2> SUFFICES ASSUME Fresh(m, s), m.next \in Kept(s)
               PROVE  Holds(n, s, m.next)
    BY <1>1 DEF Fresh
  <2>1. m.next <= m.next /\ m.next - m.next < MirrorTail
    BY <1>1
  <2> QED  BY <1>3, <2>1 DEF Fresh
<1> QED  BY <1>4, <1>5

-----------------------------------------------------------------------------
(* A page. *)

LEMMA SameTwice ==
  ASSUME NEW l \in Mirrors, NEW m \in Mirrors, NEW n \in Mirrors, Same(l, m), Same(m, n)
  PROVE  Same(l, n)
BY DEF Same, Mirrors

\* What any page leaves of the mirror.
LEMMA AllAppended ==
  ASSUME NEW m \in Mirrors, EndsAtNext(m), NEW lines \in Seq(Lines)
  PROVE  /\ Follows(m, Appended(m, lines))
         /\ \A c \in Nat : (Above(m.log, c) /\ Above(lines, c)) => Above(Appended(m, lines).log, c)
<1>1. PICK f : /\ f[0] = m
               /\ \A n \in 1 .. Len(lines) : f[n] = AppendLogLine(f[n - 1], lines[n])
               /\ Appended(m, lines) = f[Len(lines)]
  BY AppendedIs
<1>2. Len(lines) \in Nat /\ DOMAIN lines = 1 .. Len(lines)
  BY LenProperties
<1> DEFINE Good(n) ==
             /\ Follows(m, n)
             /\ \A c \in Nat : (Above(m.log, c) /\ Above(lines, c)) => Above(n.log, c)
           P == {k \in 0 .. Len(lines) : Good(f[k])}
<1>3. 0 \in P
  <2>1. Good(m)
    BY DEF Follows, Same, Mirrors
  <2> QED  BY <1>1, <1>2, <2>1
<1>4. ASSUME NEW k \in 0 .. Len(lines) - 1, k \in P  PROVE k + 1 \in P
  <2>1. k + 1 \in 1 .. Len(lines) /\ (k + 1) - 1 = k
    BY <1>2
  <2>2. Good(f[k]) /\ lines[k + 1] \in Lines /\ f[k + 1] = AppendLogLine(f[k], lines[k + 1])
    BY <1>1, <1>4, <2>1, ElementOfSeq
  <2>3. /\ Follows(f[k], f[k + 1])
        /\ \A c \in Nat : (Above(f[k].log, c) /\ lines[k + 1].seq > c) => Above(f[k + 1].log, c)
    <3>1. f[k] \in Mirrors /\ EndsAtNext(f[k])
      BY <2>2 DEF Follows
    <3> QED  BY <2>2, <3>1, LineAppended
  <2>4. \A c \in Nat : Above(lines, c) => lines[k + 1].seq > c
    BY <1>2, <2>1 DEF Above
  <2>5. Same(m, f[k + 1])
    BY <2>2, <2>3, SameTwice DEF Follows
  <2>6. Good(f[k + 1])
    BY <2>2, <2>3, <2>4, <2>5 DEF Follows
  <2> QED  BY <2>1, <2>6
<1> HIDE DEF P
<1>5. \A k \in 0 .. Len(lines) : k \in P
  BY <1>2, <1>3, <1>4, Induction
<1>6. Len(lines) \in P
  BY <1>2, <1>5
<1> QED  BY <1>1, <1>6 DEF P

LEMMA PageAppended ==
  ASSUME NEW m \in Mirrors, EndsAtNext(m), NEW lines \in Seq(Lines),
         MirrorTail \in Nat \ {0}
  PROVE  /\ Follows(m, AppendLogPage(m, lines))
         /\ \A c \in Nat :
              (Above(m.log, c) /\ Above(lines, c)) => Above(AppendLogPage(m, lines).log, c)
<1> DEFINE a == Appended(m, lines)
           n == [a EXCEPT !.log = Newest(@, MirrorTail)]
<1>1. Follows(m, a) /\ \A c \in Nat : (Above(m.log, c) /\ Above(lines, c)) => Above(a.log, c)
  BY AllAppended
<1>2. AppendLogPage(m, lines) = n
  BY DEF AppendLogPage
<1> HIDE DEF a
<1>3. a \in Mirrors /\ EndsAtNext(a) /\ a.log \in Seq(Lines)
  BY <1>1 DEF Follows, Mirrors
<1>4. Newest(a.log, MirrorTail) \in Seq(Lines)
  BY <1>3, NewestIs
<1>5. n \in Mirrors /\ n.log = Newest(a.log, MirrorTail) /\ Same(a, n)
  BY <1>3, <1>4 DEF Mirrors, Same
<1>6. EndsAtNext(n)
  BY <1>3, NewestEnds
<1>7. \A c \in Nat : Above(a.log, c) => Above(n.log, c)
  BY <1>3, <1>5, NewestAbove
<1> HIDE DEF n
<1>8. Follows(m, n)
  BY <1>1, <1>3, <1>5, <1>6, SameTwice DEF Follows
<1> QED  BY <1>1, <1>2, <1>7, <1>8

PageFrom(lines, s, q) ==
  \A i \in DOMAIN lines : q + (i - 1) \in Kept(s) /\ lines[i] = LineAt(s, q + (i - 1))

\* After a page that joins on, the mirror holds the session's log to its end.
LEMMA PageHeld ==
  ASSUME NEW m \in Mirrors, EndsAtNext(m), NEW s \in Services, Numbered(s),
         MirrorTail \in Nat \ {0}, NEW lines \in Seq(Lines), lines # <<>>,
         NEW q, PageFrom(lines, s, q), Joins(m, s, q),
         NEW n, n = AppendLogPage(m, lines)
  PROVE  n.next = q + (Len(lines) - 1) /\ Copied(n, s) /\ Fresh(n, s)
<1>1. PICK f : /\ f[0] = m
               /\ \A k \in 1 .. Len(lines) : f[k] = AppendLogLine(f[k - 1], lines[k])
               /\ Appended(m, lines) = f[Len(lines)]
  BY AppendedIs
<1>2. Len(lines) \in Nat \ {0} /\ DOMAIN lines = 1 .. Len(lines)
  BY LenProperties, EmptySeq
<1>3. q \in Nat /\ q + (1 - 1) = q
  <2>1. q + (1 - 1) \in Kept(s) /\ 1 - 1 = 0
    BY <1>2 DEF PageFrom
  <2> QED  BY <2>1, KeptLines DEF Joins, Mirrors
<1>4. \A k \in 1 .. Len(lines) : q + (k - 1) \in Kept(s) /\ lines[k] = LineAt(s, q + (k - 1))
  BY <1>2 DEF PageFrom
<1> DEFINE N == Len(lines) - 1
           Good(k, l) ==
             /\ l \in Mirrors /\ EndsAtNext(l)
             /\ l.next = q + k /\ Copied(l, s) /\ Fresh(l, s)
           P == {k \in 0 .. N : Good(k, f[k + 1])}
<1>5. 0 \in P
  <2>1. q \in Kept(s) /\ lines[1] = LineAt(s, q) /\ f[1] = AppendLogLine(m, LineAt(s, q))
    <3>1. 1 \in 1 .. Len(lines) /\ 1 - 1 = 0
      BY <1>2
    <3> QED  BY <1>1, <1>3, <1>4, <3>1
  <2>2. LineAt(s, q) \in Lines
    BY <2>1, KeptLines
  <2>3. f[1] \in Mirrors /\ EndsAtNext(f[1])
    BY <2>1, <2>2, LineAppended DEF Follows
  <2>4. f[1].next = q /\ Copied(f[1], s) /\ Fresh(f[1], s)
    BY <2>1, LineHeld
  <2>5. q + 0 = q /\ 0 + 1 = 1 /\ 0 \in 0 .. N
    BY <1>2, <1>3
  <2> QED  BY <2>3, <2>4, <2>5
<1>6. ASSUME NEW k \in 0 .. N - 1, k \in P  PROVE k + 1 \in P
  <2> DEFINE l == f[k + 1]
             p == q + (k + 1)
  <2>1. Good(k, l)
    BY <1>6
  <2>2. /\ (k + 1) + 1 \in 1 .. Len(lines) /\ ((k + 1) + 1) - 1 = k + 1 /\ k + 1 \in 0 .. N
        /\ p = (q + k) + 1
    BY <1>2, <1>3
  <2>3. /\ p \in Kept(s)
        /\ f[(k + 1) + 1] = AppendLogLine(l, LineAt(s, p))
    BY <1>1, <1>4, <2>2
  <2>4. LineAt(s, p) \in Lines
    BY <2>3, KeptLines
  <2>5. p = l.next + 1
    BY <2>1, <2>2
  <2> HIDE DEF p, l
  <2>6. f[(k + 1) + 1] \in Mirrors /\ EndsAtNext(f[(k + 1) + 1])
    BY <2>1, <2>3, <2>4, LineAppended DEF Follows
  <2>7. f[(k + 1) + 1].next = p /\ Copied(f[(k + 1) + 1], s) /\ Fresh(f[(k + 1) + 1], s)
    <3>1. Joins(l, s, p)
      BY <2>1, <2>5 DEF Joins
    <3> QED  BY <2>1, <2>3, <3>1, LineHeld
  <2>8. Good(k + 1, f[(k + 1) + 1])
    BY <2>6, <2>7 DEF p
  <2> QED  BY <2>2, <2>8
<1>7. \A k \in 0 .. N : k \in P
  <2>1. N \in Nat
    BY <1>2
  <2> HIDE DEF N, P
  <2> QED  BY <1>5, <1>6, <2>1, Induction
<1>8. Good(N, f[Len(lines)])
  <2>1. N \in 0 .. N /\ N + 1 = Len(lines)
    BY <1>2
  <2>2. N \in P
    BY <1>7, <2>1
  <2> QED  BY <2>1, <2>2
<1> DEFINE a == Appended(m, lines)
<1>9. a \in Mirrors /\ a.next = q + (Len(lines) - 1) /\ Copied(a, s) /\ Fresh(a, s)
  BY <1>1, <1>8
<1>10. n = [a EXCEPT !.log = Newest(@, MirrorTail)]
  BY DEF AppendLogPage
<1> HIDE DEF a
<1>11. n.next = a.next
  BY <1>9, <1>10 DEF Mirrors
<1>12. Copied(n, s) /\ Fresh(n, s)
  BY <1>9, <1>10, NewestHolds, Zenon
<1> QED  BY <1>9, <1>11, <1>12, Zenon

\* A page without lines changes nothing that matters.
LEMMA NoPage ==
  ASSUME NEW m \in Mirrors, NEW s \in Services, Numbered(s), MirrorTail \in Nat \ {0},
         NEW n, n = AppendLogPage(m, <<>>)
  PROVE  /\ n = [m EXCEPT !.log = Newest(@, MirrorTail)] /\ n.next = m.next
         /\ Copied(m, s) => Copied(n, s)
         /\ Fresh(m, s) => Fresh(n, s)
<1>1. <<>> \in Seq(Lines) /\ Len(<<>>) = 0
  BY EmptySeq
<1>2. Appended(m, <<>>) = m
  <2>1. PICK f : /\ f[0] = m
                 /\ \A k \in 1 .. Len(<<>>) : f[k] = AppendLogLine(f[k - 1], <<>>[k])
                 /\ Appended(m, <<>>) = f[Len(<<>>)]
    <3> DEFINE lines == <<>>
    <3>1. lines \in Seq(Lines)
      BY <1>1
    <3> HIDE DEF lines
    <3>2. \E f : /\ f[0] = m
                 /\ \A k \in 1 .. Len(lines) : f[k] = AppendLogLine(f[k - 1], lines[k])
                 /\ Appended(m, lines) = f[Len(lines)]
      BY <3>1, AppendedIs
    <3> QED  BY <3>2 DEF lines
  <2> QED  BY <1>1, <2>1
<1>3. n = [m EXCEPT !.log = Newest(@, MirrorTail)]
  BY <1>2 DEF AppendLogPage
<1>4. n.next = m.next
  BY <1>3 DEF Mirrors
<1> QED  BY <1>3, <1>4, NewestHolds

\* A page of lines that are above a number leaves the mirror above it.
LEMMA PageAbove ==
  ASSUME NEW s \in Services, Numbered(s), NEW lines \in Seq(Lines), NEW q,
         PageFrom(lines, s, q), NEW c \in Nat, Above(s.log, c)
  PROVE  Above(lines, c)
<1> SUFFICES ASSUME NEW i \in DOMAIN lines  PROVE lines[i].seq > c
  BY DEF Above
<1> DEFINE p == q + (i - 1)
<1>1. p \in Kept(s) /\ lines[i] = LineAt(s, p)
  BY DEF PageFrom
<1>2. Len(s.log) \in Nat /\ s.next \in Nat /\ DOMAIN s.log = 1 .. Len(s.log)
  BY KeptLines
<1> HIDE DEF p
<1>3. p - s.next + Len(s.log) + 1 \in DOMAIN s.log
  <2> DEFINE e == s.next
             k == Len(s.log)
  <2>1. p \in e - k .. e - 1 /\ e \in Nat /\ k \in Nat
    BY <1>1, <1>2 DEF Kept
  <2> HIDE DEF e, k
  <2>2. p - e + k + 1 \in 1 .. k
    BY <2>1
  <2> QED  BY <1>2, <2>2 DEF e, k
<1> QED  BY <1>1, <1>3 DEF Above, LineAt

-----------------------------------------------------------------------------
(* The session's answers. *)

Begin(n) == IF n + 1 < srv.next - Len(srv.log) THEN srv.next - Len(srv.log) ELSE n + 1

\* The lines after a cursor are the ones with a larger number: what
\* PartitionPoint chooses in a numbered log.
LEMMA AfterIs ==
  ASSUME srv \in Services, Numbered(srv), NEW n \in Nat
  PROVE  /\ LinesSince(n) \in Seq(Lines)
         /\ Len(LinesSince(n)) = IF Begin(n) < srv.next THEN srv.next - Begin(n) ELSE 0
         /\ \A i \in 1 .. Len(LinesSince(n)) :
              Begin(n) + (i - 1) \in Kept(srv) /\ LinesSince(n)[i] = LineAt(srv, Begin(n) + (i - 1))
<1> DEFINE len == Len(srv.log)
           next == srv.next
           first == next - len
<1>1. /\ len \in Nat /\ next \in Nat \ {0} /\ DOMAIN srv.log = 1 .. len /\ len < next
      /\ \A i \in 1 .. len : srv.log[i].seq = first + (i - 1) /\ srv.log[i] \in Lines
  <2>1. srv.log \in Seq(Lines)
    BY DEF Services
  <2>2. len \in Nat /\ next \in Nat \ {0} /\ DOMAIN srv.log = 1 .. len /\ len < next
    BY KeptLines DEF Numbered
  <2>3. ASSUME NEW i \in 1 .. len  PROVE srv.log[i].seq = first + (i - 1) /\ srv.log[i] \in Lines
    <3>1. srv.log[i].seq = next - len + i - 1
      BY <2>2 DEF Numbered
    <3>2. next - len + i - 1 = first + (i - 1)
      BY <2>2
    <3> QED  BY <2>1, <3>1, <3>2, ElementOfSeq
  <2> QED  BY <2>2, <2>3
<1> DEFINE Is(k) == \A i \in DOMAIN srv.log : i <= k <=> srv.log[i].seq <= n
           k0 == IF n < first THEN 0 ELSE IF n >= next THEN len ELSE (n - first) + 1
           k1 == PartitionPoint(n)
<1>2. k0 \in 0 .. len
  BY <1>1
<1>3. ASSUME NEW i \in 1 .. len  PROVE i <= k0 <=> first + (i - 1) <= n
  <2> HIDE DEF len, next
  <2> QED  BY <1>1
<1>4. Is(k0)
  <2> HIDE DEF k0, first, len
  <2> QED  BY <1>1, <1>3
<1>5. k1 \in 0 .. len /\ Is(k1)
  <2> HIDE DEF Is, k0
  <2>1. k1 = CHOOSE k \in 0 .. len : Is(k)
    BY DEF PartitionPoint, Is
  <2> HIDE DEF k1
  <2> QED  BY <1>2, <1>4, <2>1
<1>6. ASSUME k1 # k0  PROVE FALSE
  <2> HIDE DEF k0, k1, first, len
  <2>1. CASE k1 < k0
    <3>1. k0 \in DOMAIN srv.log /\ ~(k0 <= k1)
      BY <1>1, <1>2, <1>5, <2>1
    <3> QED  BY <1>2, <1>4, <1>5, <3>1
  <2>2. CASE k0 < k1
    <3>1. k1 \in DOMAIN srv.log /\ ~(k1 <= k0)
      BY <1>1, <1>2, <1>5, <2>2
    <3> QED  BY <1>5, <1>4, <3>1
  <2> QED  BY <1>1, <1>2, <1>5, <1>6, <2>1, <2>2
<1>7. LinesSince(n) = SubSeq(srv.log, k0 + 1, len)
  <2> HIDE DEF k0
  <2> QED  BY <1>6 DEF LinesSince
<1>8. /\ LinesSince(n) \in Seq(Lines)
      /\ Len(LinesSince(n)) = IF k0 + 1 <= len THEN len - (k0 + 1) + 1 ELSE 0
      /\ \A i \in 1 .. len - (k0 + 1) + 1 : LinesSince(n)[i] = srv.log[(k0 + 1) + i - 1]
  <2> HIDE DEF k0, len
  <2>1. \A i \in k0 + 1 .. len : srv.log[i] \in Lines
    BY <1>1, <1>2
  <2>2. k0 + 1 \in Int /\ len \in Int
    BY <1>1, <1>2
  <2> QED  BY <1>7, <2>1, <2>2, SubSeqProperties
<1>9. /\ Len(LinesSince(n)) = len - k0
      /\ len - k0 = IF Begin(n) < next THEN next - Begin(n) ELSE 0
      /\ k0 < len => Begin(n) = first + k0
  <2>1. Len(LinesSince(n)) = len - k0
    <3> HIDE DEF k0, len
    <3> QED  BY <1>1, <1>2, <1>8
  <2>2. Begin(n) = IF n + 1 < first THEN first ELSE n + 1
    BY DEF Begin
  <2> HIDE DEF len, next
  <2> QED  BY <1>1, <2>1, <2>2
<1>10. ASSUME NEW i \in 1 .. Len(LinesSince(n))
       PROVE  /\ Begin(n) + (i - 1) \in Kept(srv)
              /\ LinesSince(n)[i] = LineAt(srv, Begin(n) + (i - 1))
  <2> HIDE DEF k0
  <2>1. /\ i \in 1 .. len - (k0 + 1) + 1 /\ k0 < len
        /\ (k0 + 1) + i - 1 = k0 + i
    BY <1>1, <1>2, <1>9
  <2>2. LinesSince(n)[i] = srv.log[k0 + i]
    BY <1>8, <2>1
  <2>3. Begin(n) = first + k0
    BY <1>9, <2>1
  <2>4. /\ first + k0 + (i - 1) \in first .. next - 1
        /\ (first + k0 + (i - 1)) - next + len + 1 = k0 + i
    <3> HIDE DEF len, next
    <3> QED  BY <1>1, <1>2, <2>1
  <2>5. Kept(srv) = first .. next - 1
    BY DEF Kept
  <2>6. LineAt(srv, first + k0 + (i - 1)) = srv.log[k0 + i]
    BY <2>4 DEF LineAt
  <2> HIDE DEF first, len, next
  <2> QED  BY <2>2, <2>3, <2>4, <2>5, <2>6
<1> HIDE DEF k0
<1> QED  BY <1>8, <1>9, <1>10

\* One answer of follow_logs: the lines that follow the cursor, without a gap.
LEMMA FollowIs ==
  ASSUME srv \in Services, Numbered(srv), NEW n \in Nat, PageMax \in Nat \ {0}
  PROVE  /\ FollowLogs(n) \in Seq(Lines)
         /\ Len(FollowLogs(n)) = Least(PageMax, Len(LinesSince(n)))
         /\ PageFrom(FollowLogs(n), srv, Begin(n))
<1> DEFINE a == LinesSince(n)
           len == Least(PageMax, Len(a))
<1>1. /\ a \in Seq(Lines) /\ Len(a) \in Nat
      /\ \A i \in 1 .. Len(a) :
           Begin(n) + (i - 1) \in Kept(srv) /\ a[i] = LineAt(srv, Begin(n) + (i - 1))
  BY AfterIs, LenProperties
<1>2. FollowLogs(n) = SubSeq(a, 1, len)
  BY DEF FollowLogs, Oldest
<1> HIDE DEF a
<1>3. len \in Nat /\ len <= Len(a)
  BY <1>1 DEF Least
<1>4. \A i \in 1 .. len : a[i] \in Lines
  <2> HIDE DEF len
  <2> QED  BY <1>1, <1>3, ElementOfSeq
<1>5. /\ FollowLogs(n) \in Seq(Lines)
      /\ Len(FollowLogs(n)) = IF 1 <= len THEN len - 1 + 1 ELSE 0
      /\ \A i \in 1 .. len - 1 + 1 : FollowLogs(n)[i] = a[1 + i - 1]
  <2> HIDE DEF len
  <2>1. 1 \in Int /\ len \in Int
    BY <1>3
  <2> QED  BY <1>2, <1>4, <2>1, SubSeqProperties
<1>6. Len(FollowLogs(n)) = len /\ DOMAIN FollowLogs(n) = 1 .. len
  <2> HIDE DEF len
  <2>1. len - 1 + 1 = len
    BY <1>3
  <2> QED  BY <1>3, <1>5, <2>1, LenProperties
<1>7. ASSUME NEW i \in 1 .. len  PROVE FollowLogs(n)[i] = a[i] /\ i \in 1 .. Len(a)
  <2> HIDE DEF len
  <2>1. i \in 1 .. len - 1 + 1 /\ 1 + i - 1 = i /\ i \in 1 .. Len(a)
    BY <1>1, <1>3
  <2> QED  BY <1>5, <2>1
<1> HIDE DEF len
<1>8. PageFrom(FollowLogs(n), srv, Begin(n))
  BY <1>1, <1>6, <1>7 DEF PageFrom
<1> QED  BY <1>5, <1>6, <1>8 DEF a, len

LEMMA FromTheEnd ==
  ASSUME NEW next \in Nat, NEW len \in Nat, NEW k \in Nat, k <= len
  PROVE  /\ \A i \in 1 .. k : /\ i + (len - k) \in 1 .. len
                             /\ next - len + (i + (len - k)) - 1 = next - k + i - 1
         /\ \A q \in next - k .. next - 1 :
              /\ q \in next - len .. next - 1
              /\ q - next + k + 1 \in 1 .. k
              /\ (q - next + k + 1) + (len - k) = q - next + len + 1
OBVIOUS

\* The end of the log is the log of a session that retains less.
LEMMA Shortened ==
  ASSUME NEW u \in Services, Numbered(u), NEW n \in Nat \ {0},
         NEW s, s = [u EXCEPT !.log = Newest(u.log, n)]
  PROVE  /\ s.log \in Seq(Lines) /\ s \in Services /\ Numbered(s)
         /\ s.log = Newest(u.log, n) /\ s.next = u.next
         /\ s.log = <<>> <=> u.log = <<>>
         /\ Len(s.log) = IF Len(u.log) > n THEN n ELSE Len(u.log)
         /\ \A q \in Kept(s) : q \in Kept(u) /\ LineAt(s, q) = LineAt(u, q)
         /\ PageFrom(s.log, s, s.next - Len(s.log))
<1> DEFINE t == Newest(u.log, n)
<1>1. u.log \in Seq(Lines) /\ u.next \in Nat \ {0} /\ Len(u.log) \in Nat
  BY KeptLines DEF Services
<1>2. /\ t \in Seq(Lines) /\ Len(t) = IF Len(u.log) > n THEN n ELSE Len(u.log)
      /\ \A i \in 1 .. Len(t) : t[i] = u.log[i + (Len(u.log) - Len(t))]
  BY <1>1, NewestIs
<1>3. s.log = t /\ s.next = u.next /\ s \in Services
  BY <1>2 DEF Services
<1> HIDE DEF t
<1>4. Len(t) \in Nat /\ DOMAIN t = 1 .. Len(t) /\ DOMAIN u.log = 1 .. Len(u.log)
      /\ Len(t) <= Len(u.log)
  BY <1>1, <1>2, LenProperties
<1>5. t = <<>> <=> u.log = <<>>
  <2>1. (t = <<>> <=> Len(t) = 0) /\ (u.log = <<>> <=> Len(u.log) = 0)
    BY <1>1, <1>2, EmptySeq
  <2> QED  BY <1>1, <1>2, <2>1
<1>6. Numbered(s)
  <2>1. Len(t) < s.next
    BY <1>1, <1>3, <1>4 DEF Numbered
  <2>2. ASSUME NEW i \in 1 .. Len(t)  PROVE t[i].seq = s.next - Len(t) + i - 1
    <3> DEFINE j == i + (Len(u.log) - Len(t))
    <3>1. j \in 1 .. Len(u.log) /\ u.next - Len(u.log) + j - 1 = u.next - Len(t) + i - 1
      <4> DEFINE next == u.next
                 len == Len(u.log)
                 k == Len(t)
      <4>1. next \in Nat /\ len \in Nat /\ k \in Nat /\ k <= len
        BY <1>1, <1>4
      <4> HIDE DEF next, len, k
      <4>2. \A h \in 1 .. k : /\ h + (len - k) \in 1 .. len
                             /\ next - len + (h + (len - k)) - 1 = next - k + h - 1
        BY <4>1, FromTheEnd
      <4> QED  BY <4>2 DEF next, len, k
    <3>2. t[i] = u.log[j]
      BY <1>2
    <3> HIDE DEF j
    <3> QED  BY <1>3, <1>4, <3>1, <3>2 DEF Numbered
  <2> QED  BY <1>3, <1>4, <2>1, <2>2 DEF Numbered
<1>7. ASSUME NEW q \in Kept(s)  PROVE q \in Kept(u) /\ LineAt(s, q) = LineAt(u, q)
  <2>1. /\ q \in Kept(u)
        /\ q - u.next + Len(t) + 1 \in 1 .. Len(t)
        /\ (q - u.next + Len(t) + 1) + (Len(u.log) - Len(t)) = q - u.next + Len(u.log) + 1
    <3> DEFINE next == u.next
               len == Len(u.log)
               k == Len(t)
    <3>1. next \in Nat /\ len \in Nat /\ k \in Nat /\ k <= len
      BY <1>1, <1>4
    <3>2. q \in next - k .. next - 1
      BY <1>3 DEF Kept
    <3> HIDE DEF next, len, k
    <3>3. /\ q \in next - len .. next - 1
          /\ q - next + k + 1 \in 1 .. k
          /\ (q - next + k + 1) + (len - k) = q - next + len + 1
      BY <3>1, <3>2, FromTheEnd
    <3> QED  BY <3>3 DEF next, len, k, Kept
  <2> QED  BY <1>2, <1>3, <2>1 DEF LineAt
<1>8. PageFrom(t, s, s.next - Len(s.log))
  <2> SUFFICES ASSUME NEW i \in 1 .. Len(t)
               PROVE  /\ s.next - Len(s.log) + (i - 1) \in Kept(s)
                      /\ t[i] = LineAt(s, s.next - Len(s.log) + (i - 1))
    BY <1>4 DEF PageFrom
  <2>1. /\ s.next - Len(s.log) + (i - 1) \in Kept(s)
        /\ (s.next - Len(s.log) + (i - 1)) - s.next + Len(s.log) + 1 = i
    BY <1>1, <1>3, <1>4 DEF Kept
  <2> QED  BY <1>3, <2>1 DEF LineAt
<1> QED  BY <1>2, <1>3, <1>5, <1>6, <1>7, <1>8 DEF t

\* A mirror that starts again from the end of the log holds it.
LEMMA TailRead ==
  ASSUME srv \in Services, Numbered(srv), PageMax \in Nat \ {0},
         MirrorTail \in Nat \ {0}, MirrorTail <= PageMax,
         NEW m \in Mirrors, m.log = <<>>, m.next = 0,
         NEW n, n = AppendLogPage(m, VisibleTail)
  PROVE  /\ Follows(m, n) /\ Copied(n, srv) /\ Fresh(n, srv) /\ n.next < srv.next
         /\ srv.log = <<>> \/ n.next = srv.next - 1
         /\ \A c \in Nat : Above(srv.log, c) => Above(n.log, c)
<1> DEFINE s == [srv EXCEPT !.log = VisibleTail]
<1>1. /\ VisibleTail \in Seq(Lines) /\ s \in Services /\ Numbered(s)
      /\ s.log = VisibleTail /\ s.next = srv.next
      /\ VisibleTail = <<>> <=> srv.log = <<>>
      /\ Len(VisibleTail) = IF Len(srv.log) > PageMax THEN PageMax ELSE Len(srv.log)
      /\ \A q \in Kept(s) : q \in Kept(srv) /\ LineAt(s, q) = LineAt(srv, q)
      /\ PageFrom(VisibleTail, s, s.next - Len(s.log))
  <2>1. s = [srv EXCEPT !.log = Newest(srv.log, PageMax)]
    BY DEF VisibleTail
  <2>2. VisibleTail = Newest(srv.log, PageMax)
    BY DEF VisibleTail
  <2> HIDE DEF s
  <2> QED  BY <2>1, <2>2, Shortened
<1> HIDE DEF s
<1>2. /\ srv.log \in Seq(Lines) /\ srv.next \in Nat \ {0} /\ Len(srv.log) \in Nat
      /\ Len(srv.log) < srv.next /\ Len(VisibleTail) \in Nat
  BY <1>1, KeptLines, LenProperties DEF Services, Numbered
<1>3. EndsAtNext(m)
  BY DEF EndsAtNext
<1>4. /\ Follows(m, n)
      /\ \A c \in Nat : (Above(m.log, c) /\ Above(VisibleTail, c)) => Above(n.log, c)
  BY <1>1, <1>3, PageAppended
<1>5. ASSUME NEW c \in Nat, Above(srv.log, c)  PROVE Above(n.log, c)
  <2>1. Above(m.log, c)
    BY DEF Above
  <2>2. Above(VisibleTail, c)
    BY <1>2, <1>5, NewestAbove DEF VisibleTail
  <2> QED  BY <1>4, <2>1, <2>2
<1>6. CASE VisibleTail = <<>>
  <2>1. n.next = 0
    BY <1>1, <1>6, NoPage
  <2>2. Kept(srv) = {}
    <3>1. Len(srv.log) = 0
      BY <1>1, <1>6, EmptySeq
    <3> QED  BY <1>2, <3>1 DEF Kept
  <2> QED  BY <1>1, <1>2, <1>4, <1>5, <1>6, <2>1, <2>2 DEF Copied, Fresh
<1>7. CASE VisibleTail # <<>>
  <2> DEFINE q == s.next - Len(s.log)
  <2>1. q > m.next
    BY <1>1, <1>2
  <2>2. Joins(m, s, q)
    BY <2>1 DEF Joins
  <2>3. n.next = q + (Len(VisibleTail) - 1) /\ Copied(n, s) /\ Fresh(n, s)
    <3> HIDE DEF q
    <3>1. PageFrom(VisibleTail, s, q)
      BY <1>1 DEF q
    <3>2. VisibleTail \in Seq(Lines) /\ s \in Services /\ Numbered(s)
      BY <1>1
    <3> QED  BY <1>3, <1>7, <2>2, <3>1, <3>2, PageHeld
  <2>4. n.next = srv.next - 1
    BY <1>1, <1>2, <2>3
  <2>5. ASSUME NEW p \in Kept(srv), p <= n.next, n.next - p < MirrorTail
        PROVE  p \in Kept(s) /\ LineAt(s, p) = LineAt(srv, p) /\ Holds(n, s, p)
    <3>1. p \in Nat
      BY KeptLines
    <3>2. p \in Kept(s)
      BY <1>1, <1>2, <2>4, <2>5, <3>1 DEF Kept
    <3>3. Holds(n, s, p)
      <4>1. CASE p = n.next
        BY <2>3, <3>2, <4>1 DEF Fresh
      <4>2. CASE p # n.next
        <5>1. p < n.next
          BY <1>2, <2>4, <2>5, <3>1, <4>2
        <5> QED  BY <2>3, <2>5, <3>2, <5>1 DEF Copied
      <4> QED  BY <4>1, <4>2
    <3> QED  BY <1>1, <3>2, <3>3
  <2>6. Copied(n, srv)
    <3> SUFFICES ASSUME NEW p \in Kept(srv), p < n.next, n.next - p < MirrorTail
                 PROVE  Holds(n, srv, p)
      BY DEF Copied
    <3>1. p <= n.next
      BY <1>2, <2>4, KeptLines
    <3> QED  BY <2>5, <3>1 DEF Holds
  <2>7. Fresh(n, srv)
    <3> SUFFICES ASSUME n.next \in Kept(srv)  PROVE Holds(n, srv, n.next)
      BY DEF Fresh
    <3>1. n.next <= n.next /\ n.next - n.next < MirrorTail
      BY <1>2, <2>4
    <3> QED  BY <2>5, <3>1 DEF Holds
  <2>8. n.next < srv.next
    BY <1>2, <2>4
  <2> QED  BY <1>4, <1>5, <2>4, <2>6, <2>7, <2>8
<1> QED  BY <1>6, <1>7

\* A mirror that follows, from its cursor or the line before, holds one page more.
LEMMA PageRead ==
  ASSUME srv \in Services, Numbered(srv), PageMax \in Nat \ {0}, MirrorTail \in Nat \ {0},
         NEW m \in Mirrors, EndsAtNext(m), m.next < srv.next, Copied(m, srv),
         NEW after \in Nat, (after = m.next /\ Fresh(m, srv)) \/ after + 1 = m.next,
         NEW n, n = AppendLogPage(m, FollowLogs(after))
  PROVE  /\ Copied(n, srv) /\ Fresh(n, srv) /\ n.next < srv.next
         /\ srv.log = <<>> \/ n.next = srv.next - 1 \/ Truncated(after)
<1> DEFINE lines == FollowLogs(after)
           q == Begin(after)
           len == Len(LinesSince(after))
           first == srv.next - Len(srv.log)
<1>1. /\ Len(srv.log) \in Nat /\ srv.next \in Nat \ {0} /\ Len(srv.log) < srv.next
      /\ m.next \in Nat /\ srv.log \in Seq(Lines)
  BY KeptLines DEF Numbered, Mirrors, Services
<1>2. len = IF q < srv.next THEN srv.next - q ELSE 0
  BY AfterIs
<1>3. lines \in Seq(Lines) /\ Len(lines) = Least(PageMax, len) /\ PageFrom(lines, srv, q)
  BY FollowIs
<1>4. q = IF after + 1 < first THEN first ELSE after + 1
  BY DEF Begin
<1>5. first \in Nat /\ q \in Nat /\ len \in Nat
  <2> HIDE DEF q, len
  <2> QED  BY <1>1, <1>2, <1>4
<1>6. Truncated(after) <=> len > PageMax
  BY DEF Truncated
<1> HIDE DEF lines, q, len
<1>7. CASE q < srv.next
  <2>1. Joins(m, srv, q)
    BY <1>1, <1>4, <1>5 DEF Joins
  <2>2. Len(lines) \in Nat \ {0} /\ Len(lines) <= len /\ (len <= PageMax => Len(lines) = len)
    <3>1. Len(lines) = Least(PageMax, len)
      BY <1>3
    <3>2. len \in Nat \ {0}
      BY <1>1, <1>2, <1>5, <1>7
    <3> QED  BY <3>1, <3>2 DEF Least
  <2>3. lines # <<>>
    BY <2>2, EmptySeq
  <2>4. n.next = q + (Len(lines) - 1) /\ Copied(n, srv) /\ Fresh(n, srv)
    BY <1>3, <2>1, <2>3, PageHeld DEF lines
  <2>5. n.next < srv.next /\ (n.next = srv.next - 1 \/ len > PageMax)
    <3> DEFINE k == Len(lines)
               e == srv.next
    <3>1. e \in Nat /\ k \in Nat \ {0} /\ len = e - q /\ n.next = q + (k - 1)
      BY <1>1, <1>2, <1>7, <2>2, <2>4
    <3>2. k <= len /\ (len <= PageMax => k = len)
      BY <2>2
    <3> HIDE DEF k, e
    <3>3. n.next < e /\ (n.next = e - 1 \/ len > PageMax)
      BY <1>5, <3>1, <3>2
    <3> QED  BY <3>3 DEF e
  <2> QED  BY <1>6, <2>4, <2>5
<1>8. CASE ~(q < srv.next)
  <2>1. len = 0 /\ Len(lines) = 0
    BY <1>2, <1>3, <1>8 DEF Least
  <2>2. n = AppendLogPage(m, <<>>)
    <3>1. lines = <<>>
      BY <1>3, <2>1, EmptySeq
    <3> QED  BY <3>1 DEF lines
  <2>3. n.next = m.next /\ Copied(n, srv) /\ (Fresh(m, srv) => Fresh(n, srv))
    BY <2>2, NoPage
  <2>4. Len(srv.log) = 0 \/ (m.next = srv.next - 1 /\ Fresh(m, srv))
    BY <1>1, <1>4, <1>5, <1>8
  <2>5. Len(srv.log) = 0 => srv.log = <<>> /\ Kept(srv) = {}
    BY <1>1, EmptySeq DEF Kept
  <2>6. Fresh(m, srv)
    BY <2>4, <2>5 DEF Fresh
  <2> QED  BY <2>3, <2>4, <2>5, <2>6
<1> QED  BY <1>7, <1>8

-----------------------------------------------------------------------------
(* The session's steps. *)

\* What a write leaves to be published, or on its way.
LEMMA Changed ==
  ASSUME TypeOK, NEW kinds, kinds \subseteq Kinds, Changes(kinds)
  PROVE  /\ due' \in SUBSET Kinds /\ wire' \in SUBSET Kinds /\ writes' \in Nat
         /\ due' \cup wire' = due \cup wire \cup kinds
BY DEF TypeOK, Changes

\* What is changed is announced.
LEMMA HeardKept ==
  ASSUME Heard, UNCHANGED <<mirror, todo, connected, sub>>, excused \subseteq excused',
         NEW kinds, due' \cup wire' = due \cup wire \cup kinds,
         \/ "roster" \in kinds
         \/ srv.alive' = srv.alive /\ srv.status' = srv.status /\ srv.gen' = srv.gen,
         (excused' = {} /\ mirror.known /\ srv.alive') =>
           "health" \in kinds \/ (srv.alive /\ srv.health' = srv.health),
         (excused' = {} /\ mirror.known /\ srv.alive') =>
           "logs" \in kinds \/ (srv.alive /\ srv.log' = srv.log /\ srv.next' = srv.next)
  PROVE  Heard'
<1> SUFFICES ASSUME excused' = {}  PROVE RosterFresh' /\ HealthFresh' /\ LogsFresh'
  BY DEF Heard
<1>1. RosterFresh /\ HealthFresh /\ LogsFresh
  BY DEF Heard
<1>2. /\ AllPending' <=> AllPending
      /\ \A op : Ahead(op)' <=> Ahead(op)
      /\ \A kind : Awaited(kind)' <=> (Awaited(kind) \/ kind \in kinds)
  BY DEF AllPending, Ahead, Awaited
<1>3. RosterFresh'
  BY <1>1, <1>2 DEF RosterFresh
<1>4. HealthFresh'
  BY <1>1, <1>2 DEF HealthFresh, Both
<1>5. LogsFresh'
  BY <1>1, <1>2 DEF LogsFresh, Both, Fresh, Holds, Kept, LineAt
<1> QED  BY <1>3, <1>4, <1>5

\* What the task does next does not depend on what is written.
LEMMA ControlKept ==
  ASSUME Control, UNCHANGED <<mirror, todo, connected, sub>>, srv.instance' = srv.instance
  PROVE  Control'
BY DEF Control, Shaped, Unheard, Elsewhere, Blank, Ahead

\* A log that is left alone, or has lost or got other lines than the mirror's.
LEMMA LogsKept ==
  ASSUME TypeOK, Logs, UNCHANGED <<mirror, todo>>, srv.instance' = srv.instance,
         Numbered(srv'), excused \subseteq excused',
         Undisturbed' /\ Undisturbed =>
           /\ (mirror.instance = srv.instance /\ mirror.next < srv.next) =>
                  /\ mirror.next < srv.next'
                  /\ \A q \in Kept(srv') :
                       q < mirror.next => q \in Kept(srv) /\ LineAt(srv', q) = LineAt(srv, q)
           /\ (Ahead("more") /\ srv.alive') =>
                /\ srv.alive
                /\ mirror.next \in Kept(srv') =>
                     /\ mirror.next \in Kept(srv)
                     /\ LineAt(srv', mirror.next) = LineAt(srv, mirror.next)
  PROVE  Logs'
<1>1. EndsAtNext(mirror')
  BY DEF Logs
<1>2. Undisturbed' => Undisturbed
  BY DEF Undisturbed
<1>3. ASSUME Undisturbed'
      PROVE  /\ mirror'.instance = srv'.instance => mirror'.next < srv'.next /\ Copied(mirror', srv')
             /\ (Ahead("more")' /\ srv'.alive) => Fresh(mirror', srv')
  <2>1. /\ mirror.instance = srv.instance => mirror.next < srv.next /\ Copied(mirror, srv)
        /\ (Ahead("more") /\ srv.alive) => Fresh(mirror, srv)
    BY <1>2, <1>3 DEF Logs, Mirrored
  <2>2. ASSUME mirror.instance = srv.instance  PROVE mirror.next < srv'.next /\ Copied(mirror, srv')
    BY <1>2, <1>3, <2>1, <2>2 DEF Copied, Holds
  <2>3. ASSUME Ahead("more"), srv.alive'  PROVE Fresh(mirror, srv')
    BY <1>2, <1>3, <2>1, <2>3 DEF Fresh, Holds
  <2> QED  BY <2>2, <2>3 DEF Ahead
<1> QED  BY <1>1, <1>3 DEF Logs, Mirrored

LEMMA LogUntouched ==
  ASSUME TypeOK, Logs, UNCHANGED <<mirror, todo>>,
         UNCHANGED <<srv.instance, srv.log, srv.next>>, excused \subseteq excused',
         srv.alive' => srv.alive
  PROVE  Logs'
<1>1. Numbered(srv')
  BY DEF Logs, Numbered
<1>2. Kept(srv') = Kept(srv) /\ \A q : LineAt(srv', q) = LineAt(srv, q)
  BY DEF Kept, LineAt
<1> QED  BY <1>1, <1>2, LogsKept

LEMMA OwnKept ==
  ASSUME Own, UNCHANGED <<mirror, todo, answer, ownClear>>,
         UNCHANGED <<srv.instance, srv.gen, srv.alive, srv.clear, srv.starting>>,
         excused \subseteq excused',
         ownClear.seq # 0 /\ Above(srv.log, ownClear.seq) /\ srv.next > ownClear.seq =>
           Above(srv'.log, ownClear.seq) /\ srv'.next > ownClear.seq
  PROVE  Own'
<1>1. SameSession' <=> SameSession
  BY DEF SameSession
<1>2. "reuse" \notin excused' => "reuse" \notin excused
  OBVIOUS
<1> QED  BY <1>1, <1>2 DEF Own, Ahead, Above

\* A log is only read on in the session that the mirror is of.
LEMMA MoreHere ==
  ASSUME TypeOK, Control, Ahead("more") \/ Ahead("tail")
  PROVE  /\ mirror.instance = srv.instance /\ mirror.known
         /\ todo # <<>> /\ Head(todo) \in {"more", "tail"}
         /\ Ahead("more") => Head(todo) = "more"
<1>1. PICK i \in DOMAIN todo : todo[i] \in {"more", "tail"} /\ (Ahead("more") => todo[i] = "more")
  BY DEF Ahead, ToSet
<1>2. i = 1 /\ mirror.known
  BY <1>1 DEF Control, Shaped
<1>3. todo \in Seq(Ops) /\ todo # <<>>
  BY <1>1, EmptySeq, LenProperties DEF TypeOK
<1>4. todo # Handoff
  <2>1. Handoff[1] = "describe"
    BY DEF Handoff
  <2> QED  BY <1>1, <1>2, <2>1
<1>5. Head(todo) = todo[1]
  BY <1>3
<1> QED  BY <1>1, <1>2, <1>3, <1>4, <1>5 DEF Control, Elsewhere, Shaped

\* The log with one line more, and that of it which is retained.
Longer(u, l) == [u EXCEPT !.log = Append(u.log, l), !.next = u.next + 1]

\* A session's log with one line more.
LEMMA OneMore ==
  ASSUME NEW u \in Services, Numbered(u), NEW l \in Lines, l.seq = u.next,
         NEW s, s = Longer(u, l)
  PROVE  /\ s \in Services /\ Numbered(s)
         /\ \A q \in Kept(s) : q < u.next => q \in Kept(u) /\ LineAt(s, q) = LineAt(u, q)
         /\ \A c \in Nat : Above(u.log, c) /\ u.next > c => Above(s.log, c)
<1> DEFINE len == Len(u.log)
           next == u.next
           a == Append(u.log, l)
<1>1. u.log \in Seq(Lines) /\ next \in Nat \ {0} /\ len \in Nat /\ DOMAIN u.log = 1 .. len
      /\ len < next
  BY KeptLines DEF Services, Numbered
<1>2. /\ a \in Seq(Lines) /\ Len(a) = len + 1
      /\ \A i \in 1 .. len : a[i] = u.log[i]
      /\ a[len + 1] = l
  BY <1>1, AppendProperties
<1>3. DOMAIN a = 1 .. len + 1
  BY <1>2, LenProperties
<1> HIDE DEF a
<1>4. s.log = a /\ s.next = next + 1 /\ s \in Services
  <2>1. s = [u EXCEPT !.log = a, !.next = next + 1]
    BY DEF a, Longer
  <2>2. next + 1 \in Nat \ {0}
    BY <1>1
  <2> HIDE DEF next
  <2> QED  BY <1>2, <2>1, <2>2 DEF Services
<1>5. Numbered(s)
  <2>1. Len(a) < next + 1
    BY <1>1, <1>2
  <2>2. ASSUME NEW i \in 1 .. len + 1  PROVE a[i].seq = (next + 1) - (len + 1) + i - 1
    <3>1. CASE i \in 1 .. len
      <4>1. u.log[i].seq = next - len + i - 1
        BY <1>1, <3>1 DEF Numbered
      <4>2. next - len + i - 1 = (next + 1) - (len + 1) + i - 1
        BY <1>1
      <4> QED  BY <1>2, <3>1, <4>1, <4>2
    <3>2. CASE i = len + 1
      <4>1. next = (next + 1) - (len + 1) + i - 1
        BY <1>1, <3>2
      <4> QED  BY <1>2, <3>2, <4>1
    <3> QED  BY <1>1, <3>1, <3>2
  <2> QED  BY <1>2, <1>3, <1>4, <2>1, <2>2 DEF Numbered
<1>6. ASSUME NEW q \in Kept(s), q < next  PROVE q \in Kept(u) /\ LineAt(s, q) = LineAt(u, q)
  <2>1. q \in (next + 1) - (len + 1) .. (next + 1) - 1
    BY <1>2, <1>4 DEF Kept
  <2> HIDE DEF len, next
  <2>2. /\ q \in next - len .. next - 1
        /\ q - next + len + 1 \in 1 .. len
        /\ q - (next + 1) + (len + 1) + 1 = q - next + len + 1
    BY <1>1, <1>6, <2>1
  <2>3. LineAt(s, q) = a[q - (next + 1) + (len + 1) + 1]
    BY <1>2, <1>4 DEF LineAt
  <2>4. LineAt(u, q) = u.log[q - next + len + 1]
    BY DEF LineAt, next, len
  <2>5. q \in Kept(u)
    BY <2>2 DEF Kept, next, len
  <2> QED  BY <1>2, <2>2, <2>3, <2>4, <2>5
<1>7. ASSUME NEW c \in Nat, Above(u.log, c), next > c  PROVE Above(a, c)
  <2> SUFFICES ASSUME NEW i \in 1 .. len + 1  PROVE a[i].seq > c
    BY <1>3 DEF Above
  <2>1. i \in 1 .. len \/ i = len + 1
    BY <1>1
  <2> QED  BY <1>1, <1>2, <1>7, <2>1 DEF Above
<1> QED  BY <1>4, <1>5, <1>6, <1>7

\* The session's steps keep the invariant.
LEMMA AppendLineInv ==
  ASSUME MirrorAssumption, IInv, AppendLine
  PROVE  IInv'
<1> DEFINE l == Line(srv.next, srv.instance)
           u == Longer(srv, l)
<1>0. TypeOK /\ Control /\ Logs /\ Heard /\ Own
  BY DEF IInv
<1>1. /\ srv \in Services /\ srv.next \in Nat \ {0} /\ srv.instance \in Nat
      /\ mirror \in Mirrors /\ mirror.next \in Nat
  BY <1>0 DEF TypeOK, Services, Mirrors
<1>2. /\ Changes({"logs"})
      /\ srv' = [srv EXCEPT !.log = Newest(Append(@, l), LogMax), !.next = @ + 1]
      /\ UNCHANGED <<sub, taskVars, breaks, excused, ownClear>>
  BY DEF AppendLine, WriteModel
<1>3. l \in Lines /\ l.seq = srv.next
  BY <1>1 DEF Line, Lines
<1> HIDE DEF l
<1>4. /\ u \in Services /\ Numbered(u)
      /\ \A q \in Kept(u) : q < srv.next => q \in Kept(srv) /\ LineAt(u, q) = LineAt(srv, q)
      /\ \A c \in Nat : Above(srv.log, c) /\ srv.next > c => Above(u.log, c)
  <2>1. Numbered(srv)
    BY <1>0 DEF Logs
  <2> QED  BY <1>1, <1>3, <2>1, OneMore
<1>5. /\ u.next = srv.next + 1 /\ u.log = Append(srv.log, l)
      /\ u.instance = srv.instance /\ u.gen = srv.gen /\ u.alive = srv.alive
      /\ u.clear = srv.clear /\ u.starting = srv.starting /\ u.status = srv.status
      /\ u.health = srv.health
  BY <1>1 DEF Services, Longer
<1>6. srv' = [u EXCEPT !.log = Newest(u.log, LogMax)]
  BY <1>1, <1>2 DEF Services, Longer
<1> HIDE DEF u
<1>7. /\ srv' \in Services /\ Numbered(srv') /\ srv'.next = u.next
      /\ srv'.log = Newest(u.log, LogMax)
      /\ \A q \in Kept(srv') : q \in Kept(u) /\ LineAt(srv', q) = LineAt(u, q)
  BY <1>4, <1>6, Shortened DEF MirrorAssumption
<1>8. /\ srv'.instance = srv.instance /\ srv'.gen = srv.gen /\ srv'.alive = srv.alive
      /\ srv'.clear = srv.clear /\ srv'.starting = srv.starting /\ srv'.status = srv.status
  BY <1>4, <1>5, <1>6 DEF Services
<1>9. due' \in SUBSET Kinds /\ wire' \in SUBSET Kinds /\ writes' \in Nat
      /\ due' \cup wire' = due \cup wire \cup {"logs"}
  BY <1>0, <1>2, Changed DEF Kinds
<1>10. TypeOK'
  BY <1>0, <1>2, <1>7, <1>9 DEF TypeOK, taskVars
<1>11. Control'
  BY <1>0, <1>2, <1>8, ControlKept DEF taskVars
<1>12. Logs'
  <2>1. ASSUME NEW q \in Kept(srv'), q < srv.next
        PROVE  q \in Kept(srv) /\ LineAt(srv', q) = LineAt(srv, q)
    BY <1>4, <1>7, <2>1
  <2>2. mirror.next < srv.next => mirror.next < srv'.next
    BY <1>1, <1>5, <1>7
  <2>3. \A q \in Kept(srv') : (q < mirror.next /\ mirror.next < srv.next) => q < srv.next
    BY <1>1, <1>7, KeptLines
  <2>4. Ahead("more") => mirror.instance = srv.instance
    BY <1>0, MoreHere
  <2>5. Undisturbed /\ mirror.instance = srv.instance => mirror.next < srv.next
    BY <1>0 DEF Logs, Mirrored
  <2> QED  BY <1>0, <1>2, <1>7, <1>8, <2>1, <2>2, <2>3, <2>4, <2>5, LogsKept DEF taskVars
<1>13. Heard'
  <2>1. "logs" \in {"logs"}
    OBVIOUS
  <2>2. srv'.health = srv.health
    BY <1>4, <1>5, <1>6 DEF Services
  <2> QED  BY <1>0, <1>2, <1>8, <1>9, <2>1, <2>2, HeardKept DEF taskVars
<1>14. Own'
  <2>1. ownClear.seq \in Nat
    BY <1>0 DEF TypeOK
  <2>2. ASSUME Above(srv.log, ownClear.seq), srv.next > ownClear.seq
        PROVE  Above(srv'.log, ownClear.seq) /\ srv'.next > ownClear.seq
    <3>1. Above(u.log, ownClear.seq)
      BY <1>4, <2>1, <2>2
    <3>2. u.log \in Seq(Lines)
      BY <1>4 DEF Services
    <3>3. LogMax \in Nat
      BY DEF MirrorAssumption
    <3>4. Above(srv'.log, ownClear.seq)
      BY <1>7, <2>1, <3>1, <3>2, <3>3, NewestAbove
    <3>5. srv'.next > ownClear.seq
      BY <1>1, <1>5, <1>7, <2>1, <2>2
    <3> QED  BY <3>4, <3>5
  <2> QED  BY <1>0, <1>2, <1>8, <2>2, OwnKept DEF taskVars
<1> QED  BY <1>10, <1>11, <1>12, <1>13, <1>14 DEF IInv

LEMMA Written ==
  ASSUME TypeOK, NEW s \in Services, NEW kinds, kinds \subseteq Kinds, WriteModel(s, kinds),
         excused' \in SUBSET {"gap", "reuse", "pages"},
         ownClear' \in [asked : BOOLEAN, acked : BOOLEAN, seq : Nat]
  PROVE  /\ TypeOK' /\ srv' = s /\ UNCHANGED <<sub, mirror, todo, connected, answer>>
         /\ due' \cup wire' = due \cup wire \cup kinds
<1>1. Changes(kinds) /\ srv' = s /\ UNCHANGED <<sub, taskVars, breaks>>
  BY DEF WriteModel
<1>2. /\ due' \in SUBSET Kinds /\ wire' \in SUBSET Kinds /\ writes' \in Nat
      /\ due' \cup wire' = due \cup wire \cup kinds
  BY <1>1, Changed
<1>3. TypeOK'
  BY <1>1, <1>2 DEF TypeOK, taskVars
<1> QED  BY <1>1, <1>2, <1>3 DEF taskVars

\* The line that is replaced is the one the client reads again.
LEMMA ReplaceLineInv ==
  ASSUME MirrorAssumption, IInv, ReplaceLine
  PROVE  IInv'
<1> DEFINE len == Len(srv.log)
           frame == srv.log[len].text
           l == [seq |-> srv.log[len].seq, text |-> <<frame[1], frame[2] + 1>>]
           log == [srv.log EXCEPT ![len] = l]
           s == [srv EXCEPT !.log = log]
<1>0. TypeOK /\ Control /\ Logs /\ Heard /\ Own
  BY DEF IInv
<1>1. /\ srv \in Services /\ srv.log \in Seq(Lines) /\ srv.next \in Nat \ {0} /\ len \in Nat
      /\ DOMAIN srv.log = 1 .. len /\ Numbered(srv) /\ mirror.next \in Nat /\ len < srv.next
  BY <1>0, KeptLines DEF TypeOK, Services, Logs, Mirrors, Numbered
<1>2. /\ srv.alive /\ srv.log # <<>> /\ WriteModel(s, {"logs"}) /\ UNCHANGED ownClear
      /\ excused' = excused \cup
           (IF Performing("more") /\ mirror.next = srv.next - 1 THEN {"pages"} ELSE {})
  BY DEF ReplaceLine, Last
<1>3. len \in 1 .. len
  BY <1>1, <1>2, EmptySeq
<1>4. l \in Lines /\ l.seq = srv.log[len].seq
  <2>1. srv.log[len] \in Lines
    BY <1>1, <1>3, ElementOfSeq
  <2> QED  BY <2>1 DEF Lines
<1> HIDE DEF l, frame
<1>5. /\ log \in Seq(Lines) /\ Len(log) = len
      /\ \A i \in 1 .. len : log[i] = IF i = len THEN l ELSE srv.log[i]
  BY <1>1, <1>3, <1>4, ExceptSeq
<1>6. DOMAIN log = 1 .. len
  BY <1>5, LenProperties
<1> HIDE DEF log
<1>7. /\ s \in Services /\ s.log = log /\ s.next = srv.next
      /\ s.instance = srv.instance /\ s.gen = srv.gen /\ s.alive = srv.alive
      /\ s.clear = srv.clear /\ s.starting = srv.starting /\ s.status = srv.status
      /\ s.health = srv.health
  BY <1>1, <1>5 DEF Services
<1> HIDE DEF s
<1>8. /\ TypeOK' /\ srv' = s /\ UNCHANGED <<sub, mirror, todo, connected, answer>>
      /\ due' \cup wire' = due \cup wire \cup {"logs"}
  <2>1. excused' \in SUBSET {"gap", "reuse", "pages"} /\ {"logs"} \subseteq Kinds
    BY <1>0, <1>2 DEF TypeOK, Kinds
  <2>2. ownClear' \in [asked : BOOLEAN, acked : BOOLEAN, seq : Nat]
    BY <1>0, <1>2 DEF TypeOK
  <2> QED  BY <1>0, <1>2, <1>7, <2>1, <2>2, Written
<1>9. \A i \in 1 .. len : log[i].seq = srv.log[i].seq
  BY <1>4, <1>5
<1>10. Numbered(srv')
  BY <1>1, <1>5, <1>6, <1>7, <1>8, <1>9 DEF Numbered
<1>11. Control'
  BY <1>0, <1>7, <1>8, ControlKept
<1>12. Logs'
  <2>1. ASSUME NEW q \in Kept(srv'), q # srv.next - 1
        PROVE  q \in Kept(srv) /\ LineAt(srv', q) = LineAt(srv, q)
    <3>1. q \in srv.next - len .. srv.next - 1
      BY <1>5, <1>7, <1>8 DEF Kept
    <3>2. q - srv.next + len + 1 \in 1 .. len /\ q - srv.next + len + 1 # len
      <4> DEFINE next == srv.next
      <4>1. next \in Nat /\ len \in Nat /\ q \in next - len .. next - 1 /\ q # next - 1
        BY <1>1, <2>1, <3>1
      <4> HIDE DEF next, len
      <4>2. q - next + len + 1 \in 1 .. len /\ q - next + len + 1 # len
        BY <4>1
      <4> QED  BY <4>2 DEF next
    <3>3. log[q - srv.next + len + 1] = srv.log[q - srv.next + len + 1]
      BY <1>5, <3>2
    <3>4. srv'.log = log /\ srv'.next = srv.next /\ Len(log) = len
      BY <1>5, <1>7, <1>8
    <3>5. LineAt(srv', q) = LineAt(srv, q)
      BY <3>3, <3>4 DEF LineAt
    <3>6. q \in Kept(srv)
      BY <3>1 DEF Kept
    <3> QED  BY <3>5, <3>6
  <2>2. ASSUME NEW q \in Kept(srv'), q < mirror.next, mirror.next < srv.next
        PROVE  q # srv.next - 1
    <3>1. q \in srv.next - len .. srv.next - 1
      BY <1>5, <1>7, <1>8 DEF Kept
    <3> QED  BY <1>1, <2>2, <3>1
  <2>3. ASSUME Ahead("more"), Undisturbed'  PROVE mirror.next # srv.next - 1
    <3>1. Performing("more")
      BY <1>0, <2>3, MoreHere DEF Performing
    <3> QED  BY <1>2, <2>3, <3>1 DEF Undisturbed
  <2>4. Ahead("more") => mirror.instance = srv.instance
    BY <1>0, MoreHere
  <2> QED  BY <1>0, <1>2, <1>7, <1>8, <1>10, <2>1, <2>2, <2>3, <2>4, LogsKept
<1>13. Heard'
  <2>1. "logs" \in {"logs"}
    OBVIOUS
  <2> QED  BY <1>0, <1>2, <1>7, <1>8, <2>1, HeardKept
<1>14. Own'
  <2>1. Above(srv.log, ownClear.seq) => Above(srv'.log, ownClear.seq)
    BY <1>1, <1>6, <1>7, <1>8, <1>9 DEF Above
  <2> QED  BY <1>0, <1>2, <1>7, <1>8, <2>1, OwnKept
<1> QED  BY <1>8, <1>11, <1>12, <1>13, <1>14 DEF IInv

LEMMA ChangeStatusInv ==
  ASSUME MirrorAssumption, IInv, ChangeStatus
  PROVE  IInv'
<1> DEFINE s == [srv EXCEPT !.status = 1]
<1>0. TypeOK /\ Control /\ Logs /\ Heard /\ Own /\ srv \in Services
  BY DEF IInv, TypeOK
<1>1. srv.alive /\ WriteModel(s, {"roster"}) /\ UNCHANGED <<excused, ownClear>>
  BY DEF ChangeStatus
<1>2. /\ s \in Services
      /\ UNCHANGED <<srv.instance, srv.gen, srv.alive, srv.clear, srv.starting, srv.log,
                     srv.next, srv.health>>
  BY <1>0, <1>1 DEF Services, WriteModel
<1> HIDE DEF s
<1>3. /\ TypeOK' /\ UNCHANGED <<sub, mirror, todo, connected, answer>>
      /\ due' \cup wire' = due \cup wire \cup {"roster"}
  <2>1. {"roster"} \subseteq Kinds
    BY DEF Kinds
  <2>2. /\ excused' \in SUBSET {"gap", "reuse", "pages"}
        /\ ownClear' \in [asked : BOOLEAN, acked : BOOLEAN, seq : Nat]
    BY <1>0, <1>1 DEF TypeOK
  <2> QED  BY <1>0, <1>1, <1>2, <2>1, <2>2, Written
<1>4. Control'
  BY <1>0, <1>2, <1>3, ControlKept
<1>5. Logs'
  BY <1>0, <1>1, <1>2, <1>3, LogUntouched
<1>6. Heard'
  <2>1. "roster" \in {"roster"}
    OBVIOUS
  <2> QED  BY <1>0, <1>1, <1>2, <1>3, <2>1, HeardKept
<1>7. Own'
  BY <1>0, <1>1, <1>2, <1>3, OwnKept
<1> QED  BY <1>3, <1>4, <1>5, <1>6, <1>7 DEF IInv

LEMMA ChangeHealthInv ==
  ASSUME MirrorAssumption, IInv, ChangeHealth
  PROVE  IInv'
<1> DEFINE s == [srv EXCEPT !.health = 1]
<1>0. TypeOK /\ Control /\ Logs /\ Heard /\ Own /\ srv \in Services
  BY DEF IInv, TypeOK
<1>1. srv.alive /\ WriteModel(s, {"health"}) /\ UNCHANGED <<excused, ownClear>>
  BY DEF ChangeHealth
<1>2. /\ s \in Services
      /\ UNCHANGED <<srv.instance, srv.gen, srv.alive, srv.clear, srv.starting, srv.log,
                     srv.next, srv.status>>
  BY <1>0, <1>1 DEF Services, WriteModel
<1> HIDE DEF s
<1>3. /\ TypeOK' /\ UNCHANGED <<sub, mirror, todo, connected, answer>>
      /\ due' \cup wire' = due \cup wire \cup {"health"}
  <2>1. {"health"} \subseteq Kinds
    BY DEF Kinds
  <2>2. /\ excused' \in SUBSET {"gap", "reuse", "pages"}
        /\ ownClear' \in [asked : BOOLEAN, acked : BOOLEAN, seq : Nat]
    BY <1>0, <1>1 DEF TypeOK
  <2> QED  BY <1>0, <1>1, <1>2, <2>1, <2>2, Written
<1>4. Control'
  BY <1>0, <1>2, <1>3, ControlKept
<1>5. Logs'
  BY <1>0, <1>1, <1>2, <1>3, LogUntouched
<1>6. Heard'
  <2>1. "health" \in {"health"}
    OBVIOUS
  <2> QED  BY <1>0, <1>1, <1>2, <1>3, <2>1, HeardKept
<1>7. Own'
  BY <1>0, <1>1, <1>2, <1>3, OwnKept
<1> QED  BY <1>3, <1>4, <1>5, <1>6, <1>7 DEF IInv

LEMMA RestartByOtherInv ==
  ASSUME MirrorAssumption, IInv, RestartByOther
  PROVE  IInv'
<1> DEFINE s == [srv EXCEPT !.clear = TRUE]
<1>0. TypeOK /\ Control /\ Logs /\ Heard /\ Own /\ srv \in Services
  BY DEF IInv, TypeOK
<1>1. srv.alive /\ ~srv.clear /\ WriteModel(s, {"roster"}) /\ UNCHANGED <<excused, ownClear>>
  BY DEF RestartByOther
<1>2. /\ s \in Services
      /\ UNCHANGED <<srv.instance, srv.gen, srv.alive, srv.starting, srv.log,
                     srv.next, srv.status, srv.health>>
  BY <1>0, <1>1 DEF Services, WriteModel
<1> HIDE DEF s
<1>3. /\ TypeOK' /\ UNCHANGED <<sub, mirror, todo, connected, answer>>
      /\ due' \cup wire' = due \cup wire \cup {"roster"}
  <2>1. {"roster"} \subseteq Kinds
    BY DEF Kinds
  <2>2. /\ excused' \in SUBSET {"gap", "reuse", "pages"}
        /\ ownClear' \in [asked : BOOLEAN, acked : BOOLEAN, seq : Nat]
    BY <1>0, <1>1 DEF TypeOK
  <2> QED  BY <1>0, <1>1, <1>2, <2>1, <2>2, Written
<1>4. Control'
  BY <1>0, <1>2, <1>3, ControlKept
<1>5. Logs'
  BY <1>0, <1>1, <1>2, <1>3, LogUntouched
<1>6. Heard'
  <2>1. "roster" \in {"roster"}
    OBVIOUS
  <2> QED  BY <1>0, <1>1, <1>2, <1>3, <2>1, HeardKept
<1>7. Own'
  BY <1>0, <1>1, <1>2, <1>3 DEF Own, SameSession, Ahead, Above
<1> QED  BY <1>3, <1>4, <1>5, <1>6, <1>7 DEF IInv

\* From the clear on, a restart of the client's own waits for lines that are new.
LEMMA StartClearsInv ==
  ASSUME MirrorAssumption, IInv, StartClears
  PROVE  IInv'
<1> DEFINE s == [srv EXCEPT !.log = <<>>, !.clear = FALSE, !.starting = TRUE]
<1>0. TypeOK /\ Control /\ Logs /\ Heard /\ Own /\ srv \in Services /\ srv.next \in Nat \ {0}
  BY DEF IInv, TypeOK, Services
<1>1. /\ srv.alive /\ srv.clear /\ ~srv.starting /\ WriteModel(s, {"logs"}) /\ UNCHANGED excused
      /\ ownClear' = [ownClear EXCEPT !.seq = IF ownClear.asked THEN srv.next - 1 ELSE @,
                                      !.asked = FALSE]
  BY DEF StartClears
<1>2. <<>> \in Seq(Lines) /\ Len(<<>>) = 0 /\ DOMAIN <<>> = {}
  BY EmptySeq
<1>3. /\ s \in Services /\ srv'.log = <<>>
      /\ UNCHANGED <<srv.instance, srv.gen, srv.alive, srv.next, srv.status, srv.health>>
  BY <1>0, <1>1, <1>2 DEF Services, WriteModel
<1> HIDE DEF s
<1>4. ownClear' \in [asked : BOOLEAN, acked : BOOLEAN, seq : Nat]
  <2> DEFINE last == IF ownClear.asked THEN srv.next - 1 ELSE ownClear.seq
  <2>1. ownClear \in [asked : BOOLEAN, acked : BOOLEAN, seq : Nat]
    BY <1>0 DEF TypeOK
  <2>2. last \in Nat
    BY <1>0, <2>1
  <2>3. ownClear' = [ownClear EXCEPT !.seq = last, !.asked = FALSE]
    BY <1>1
  <2> HIDE DEF last
  <2> QED  BY <2>1, <2>2, <2>3
<1>5. /\ TypeOK' /\ UNCHANGED <<sub, mirror, todo, connected, answer>>
      /\ due' \cup wire' = due \cup wire \cup {"logs"}
  <2>1. {"logs"} \subseteq Kinds
    BY DEF Kinds
  <2>2. excused' \in SUBSET {"gap", "reuse", "pages"}
    BY <1>0, <1>1 DEF TypeOK
  <2> QED  BY <1>0, <1>1, <1>3, <1>4, <2>1, <2>2, Written
<1>6. Control'
  BY <1>0, <1>3, <1>5, ControlKept
<1>7. Logs'
  <2>1. Numbered(srv')
    BY <1>0, <1>2, <1>3 DEF Numbered
  <2>2. Kept(srv') = {}
    BY <1>0, <1>2, <1>3 DEF Kept
  <2> QED  BY <1>0, <1>1, <1>3, <1>5, <2>1, <2>2, LogsKept
<1>8. Heard'
  <2>1. "logs" \in {"logs"}
    OBVIOUS
  <2> QED  BY <1>0, <1>1, <1>3, <1>5, <2>1, HeardKept
<1>9. Own'
  <2>1. \A n : Above(srv'.log, n)
    BY <1>2, <1>3 DEF Above
  <2>2. ownClear'.seq # 0 => srv'.next > ownClear'.seq
    BY <1>0, <1>1, <1>3 DEF Own, TypeOK
  <2>3. ownClear.acked' = ownClear.acked /\ ~ownClear.asked'
        /\ ownClear.seq' = IF ownClear.asked THEN srv.next - 1 ELSE ownClear.seq
    BY <1>0, <1>1 DEF TypeOK
  <2>4. ASSUME ownClear.asked, ownClear.acked, "reuse" \notin excused
        PROVE  mirror.clearAfter # 0
    BY <1>0, <2>4 DEF Own, TypeOK, Services
  <2> QED  BY <1>0, <1>1, <1>3, <1>5, <2>1, <2>2, <2>3, <2>4 DEF Own, SameSession, Ahead
<1> QED  BY <1>5, <1>6, <1>7, <1>8, <1>9 DEF IInv

\* The generation is shown when the log has been cleared.
LEMMA StartShowsInv ==
  ASSUME MirrorAssumption, IInv, StartShows
  PROVE  IInv'
<1> DEFINE s == [srv EXCEPT !.gen = @ + 1, !.starting = FALSE]
<1>0. /\ TypeOK /\ Control /\ Logs /\ Heard /\ Own /\ srv \in Services /\ srv.gen \in Nat \ {0}
      /\ mirror.gen \in Nat /\ mirror.clearAfter \in Nat /\ answer \in Nat
  BY DEF IInv, TypeOK, Services, Mirrors
<1>1. srv.alive /\ srv.starting /\ WriteModel(s, {"roster"}) /\ UNCHANGED <<excused, ownClear>>
  BY DEF StartShows
<1>2. /\ s \in Services /\ srv'.gen = srv.gen + 1
      /\ UNCHANGED <<srv.instance, srv.alive, srv.clear, srv.log,
                     srv.next, srv.status, srv.health>>
  <2>1. srv.gen + 1 \in Nat \ {0}
    BY <1>0
  <2>2. s \in Services
    BY <1>0, <2>1 DEF Services
  <2>3. srv' = s
    BY <1>1 DEF WriteModel
  <2> QED  BY <1>0, <2>2, <2>3 DEF Services
<1> HIDE DEF s
<1>3. /\ TypeOK' /\ UNCHANGED <<sub, mirror, todo, connected, answer>>
      /\ due' \cup wire' = due \cup wire \cup {"roster"}
  <2>1. {"roster"} \subseteq Kinds
    BY DEF Kinds
  <2>2. /\ excused' \in SUBSET {"gap", "reuse", "pages"}
        /\ ownClear' \in [asked : BOOLEAN, acked : BOOLEAN, seq : Nat]
    BY <1>0, <1>1 DEF TypeOK
  <2> QED  BY <1>0, <1>1, <1>2, <2>1, <2>2, Written
<1>4. Control'
  BY <1>0, <1>2, <1>3, ControlKept
<1>5. Logs'
  BY <1>0, <1>1, <1>2, <1>3, LogUntouched
<1>6. Heard'
  <2>1. "roster" \in {"roster"}
    OBVIOUS
  <2> QED  BY <1>0, <1>1, <1>2, <1>3, <2>1, HeardKept
<1>7. Own'
  <2>1. \A n \in Nat : n <= srv.gen => n <= srv'.gen
    BY <1>0, <1>2
  <2>2. "reuse" \notin excused => ~ownClear.asked
    BY <1>0, <1>1 DEF Own
  <2> QED  BY <1>0, <1>1, <1>2, <1>3, <2>1, <2>2 DEF Own, SameSession, Ahead, Above
<1> QED  BY <1>3, <1>4, <1>5, <1>6, <1>7 DEF IInv

LEMMA RemoveServiceInv ==
  ASSUME MirrorAssumption, IInv, RemoveService
  PROVE  IInv'
<1> DEFINE s == [srv EXCEPT !.alive = FALSE]
<1>0. TypeOK /\ Control /\ Logs /\ Heard /\ Own /\ srv \in Services
  BY DEF IInv, TypeOK
<1>1. /\ srv.alive /\ ~srv.clear /\ ~srv.starting /\ WriteModel(s, {"roster"})
      /\ UNCHANGED <<excused, ownClear>>
  BY DEF RemoveService
<1>2. /\ s \in Services /\ ~srv'.alive
      /\ UNCHANGED <<srv.instance, srv.gen, srv.clear, srv.starting, srv.log,
                     srv.next, srv.status, srv.health>>
  BY <1>0, <1>1 DEF Services, WriteModel
<1> HIDE DEF s
<1>3. /\ TypeOK' /\ UNCHANGED <<sub, mirror, todo, connected, answer>>
      /\ due' \cup wire' = due \cup wire \cup {"roster"}
  <2>1. {"roster"} \subseteq Kinds
    BY DEF Kinds
  <2>2. /\ excused' \in SUBSET {"gap", "reuse", "pages"}
        /\ ownClear' \in [asked : BOOLEAN, acked : BOOLEAN, seq : Nat]
    BY <1>0, <1>1 DEF TypeOK
  <2> QED  BY <1>0, <1>1, <1>2, <2>1, <2>2, Written
<1>4. Control'
  BY <1>0, <1>2, <1>3, ControlKept
<1>5. Logs'
  BY <1>0, <1>1, <1>2, <1>3, LogUntouched
<1>6. Heard'
  <2>1. "roster" \in {"roster"}
    OBVIOUS
  <2> QED  BY <1>0, <1>1, <1>2, <1>3, <2>1, HeardKept
<1>7. Own'
  BY <1>0, <1>1, <1>2, <1>3 DEF Own, SameSession, Ahead, Above
<1> QED  BY <1>3, <1>4, <1>5, <1>6, <1>7 DEF IInv

\* A service with the same id starts its numbers again: excused if it was known.
LEMMA InsertServiceInv ==
  ASSUME MirrorAssumption, IInv, InsertService
  PROVE  IInv'
<1>0. /\ TypeOK /\ Control /\ Logs /\ Heard /\ Own /\ srv \in Services /\ srv.instance \in Nat
      /\ mirror.gen \in Nat /\ mirror.clearAfter \in Nat /\ mirror \in Mirrors
  BY DEF IInv, TypeOK, Services, Mirrors
<1>1. /\ ~srv.alive /\ WriteModel(NewService, {"roster"})
      /\ excused' = excused \cup (IF mirror.known THEN {"reuse"} ELSE {})
      /\ ownClear' = [asked |-> FALSE, acked |-> FALSE, seq |-> 0]
  BY DEF InsertService
<1>2. NewService = [instance |-> srv.instance, alive |-> TRUE, status |-> 0, gen |-> 1,
                    health |-> 0, log |-> <<>>, next |-> 1, clear |-> FALSE, starting |-> FALSE]
  <2> DEFINE log == [n \in 1 .. LogMax |-> Line(n, srv.instance)]
             r == [instance |-> srv.instance, alive |-> TRUE, status |-> 0, gen |-> 1,
                   health |-> 0, log |-> log, next |-> LogMax + 1, clear |-> FALSE,
                   starting |-> FALSE]
  <2>1. NewService = [r EXCEPT !.log = <<>>, !.next = 1]
    BY DEF NewService, RunningService
  <2> HIDE DEF log
  <2> QED  BY <2>1
<1>3. <<>> \in Seq(Lines) /\ Len(<<>>) = 0 /\ DOMAIN <<>> = {}
  BY EmptySeq
<1>4. NewService \in Services
  BY <1>0, <1>2, <1>3 DEF Services
<1>5. /\ TypeOK' /\ srv' = NewService /\ UNCHANGED <<sub, mirror, todo, connected, answer>>
      /\ due' \cup wire' = due \cup wire \cup {"roster"}
  <2>1. {"roster"} \subseteq Kinds
    BY DEF Kinds
  <2>2. /\ excused' \in SUBSET {"gap", "reuse", "pages"}
        /\ ownClear' \in [asked : BOOLEAN, acked : BOOLEAN, seq : Nat]
    BY <1>0, <1>1 DEF TypeOK
  <2> QED  BY <1>0, <1>1, <1>4, <2>1, <2>2, Written
<1>6. /\ srv'.instance = srv.instance /\ srv'.alive /\ srv'.gen = 1 /\ srv'.log = <<>>
      /\ srv'.next = 1 /\ ~srv'.clear /\ ~srv'.starting
  BY <1>2, <1>5
<1>7. Control'
  BY <1>0, <1>5, <1>6, ControlKept
<1>8. Logs'
  <2>1. Numbered(srv') /\ Kept(srv') = {}
    BY <1>3, <1>6 DEF Numbered, Kept
  <2>2. Undisturbed' => ~mirror.known
    BY <1>1 DEF Undisturbed
  <2>3. ~mirror.known => mirror.next = 0
    BY <1>0 DEF Control, Blank
  <2>4. EndsAtNext(mirror')
    BY <1>0, <1>5 DEF Logs
  <2>5. Copied(mirror', srv') /\ Fresh(mirror', srv')
    BY <2>1 DEF Copied, Fresh
  <2>6. ~mirror.known => mirror'.next < srv'.next
    BY <1>5, <1>6, <2>3
  <2> QED  BY <2>1, <2>2, <2>4, <2>5, <2>6 DEF Logs, Mirrored
<1>9. Heard'
  <2>1. "roster" \in {"roster"}
    OBVIOUS
  <2>2. excused' = {} => ~mirror.known
    BY <1>1
  <2>3. excused \subseteq excused'
    BY <1>1
  <2> QED  BY <1>0, <1>5, <2>1, <2>2, <2>3, HeardKept
<1>10. Own'
  <2>1. "reuse" \notin excused' => ~mirror.known /\ "reuse" \notin excused
    BY <1>1
  <2>2. ~mirror.known => mirror.clearAfter = 0
    BY <1>0 DEF Control, Blank
  <2>3. ~mirror.known => mirror.gen = 0
    BY <1>0 DEF Control, Blank
  <2> QED  BY <1>0, <1>1, <1>5, <1>6, <2>1, <2>2, <2>3 DEF Own, SameSession, Ahead
<1> QED  BY <1>5, <1>7, <1>8, <1>9, <1>10 DEF IInv

-----------------------------------------------------------------------------
(* The stream's steps. *)

\* A client that is not subscribed has everything still to read.
LEMMA NobodyHears ==
  ASSUME TypeOK, Control, sub = "none"
  PROVE  AllPending
<1>1. CASE todo = <<>>
  BY <1>1 DEF Control, Unheard, AllPending
<1>2. CASE todo # <<>>
  <2>1. PICK i \in DOMAIN todo : todo[i] = "subscribe"
    BY <1>2 DEF Control, Unheard, Ahead, ToSet
  <2>2. i + 1 = Len(todo) /\ todo[i + 1] = "listAll"
    BY <2>1 DEF Control, Shaped
  <2>3. i + 1 \in DOMAIN todo
    <3>1. todo \in Seq(Ops)
      BY DEF TypeOK
    <3>2. DOMAIN todo = 1 .. Len(todo) /\ Len(todo) \in Nat
      BY <3>1, LenProperties
    <3>3. i \in 1 .. Len(todo)
      BY <3>2
    <3>4. i + 1 \in 1 .. Len(todo)
      <4> DEFINE n == Len(todo)
      <4>1. n \in Nat /\ i \in 1 .. n /\ i + 1 = n
        BY <2>2, <3>2, <3>3
      <4> HIDE DEF n
      <4>2. i + 1 \in 1 .. n
        BY <4>1
      <4> QED  BY <4>2 DEF n
    <3> QED  BY <3>2, <3>4, Zenon
  <2> QED  BY <2>2, <2>3 DEF AllPending, Ahead, ToSet
<1> QED  BY <1>1, <1>2

LEMMA PendingHeard ==
  ASSUME AllPending
  PROVE  Heard
BY DEF Heard, RosterFresh, HealthFresh, LogsFresh

\* Nothing but the stream moves, and what it held it holds.
LEMMA StreamInv ==
  ASSUME IInv, UNCHANGED <<srv, mirror, todo, connected, answer, ownClear>>,
         excused \subseteq excused',
         sub' = "none" => sub = "none", sub = "none" => sub' = "none",
         TypeOK', Heard'
  PROVE  IInv'
<1>0. TypeOK /\ Control /\ Logs /\ Heard /\ Own
  BY DEF IInv
<1>1. Control'
  BY <1>0 DEF Control, Shaped, Unheard, Elsewhere, Blank, Ahead
<1>2. Logs'
  BY <1>0 DEF Logs, Mirrored, Undisturbed, Ahead
<1>3. Own'
  BY <1>0 DEF Own, SameSession, Ahead
<1> QED  BY <1>1, <1>2, <1>3 DEF IInv

\* A change that is published is on its way, read by a sync that follows, or it
\* fell into the gap of the handoff.
LEMMA PublishInv ==
  ASSUME IInv, NEW kind \in Kinds, Publish(kind)
  PROVE  IInv'
<1>0. TypeOK /\ Control /\ Logs /\ Heard /\ Own
  BY DEF IInv
<1>1. /\ due' = due \ {kind} /\ wire' = IF sub = "open" THEN wire \cup {kind} ELSE wire
      /\ excused' = excused \cup
           (IF sub = "sent" /\ (todo = <<>> \/ Head(todo) # "listAll") THEN {"gap"} ELSE {})
      /\ UNCHANGED <<srv, sub, mirror, todo, connected, answer, writes, breaks, ownClear>>
  BY DEF Publish, taskVars
<1>2. TypeOK'
  BY <1>0, <1>1 DEF TypeOK
<1>3. Heard'
  <2>1. CASE sub = "open"
    <3>1. \A k \in Kinds : Awaited(k) => Awaited(k)'
      BY <1>1, <2>1 DEF Awaited
    <3>2. AllPending' <=> AllPending
      BY <1>1 DEF AllPending, Ahead
    <3>3. excused' = {} => excused = {}
      BY <1>1
    <3> QED  BY <1>0, <1>1, <3>1, <3>2, <3>3
             DEF Heard, RosterFresh, HealthFresh, LogsFresh, Kinds, Ahead, Both
  <2>2. CASE sub = "none"
    <3>1. AllPending
      BY <1>0, <2>2, NobodyHears
    <3>2. AllPending'
      BY <1>1, <3>1 DEF AllPending, Ahead
    <3> QED  BY <3>2, PendingHeard DEF Heard, RosterFresh, HealthFresh, LogsFresh
  <2>3. CASE sub = "sent"
    <3>1. excused' = {} => todo # <<>> /\ Head(todo) = "listAll"
      BY <1>1, <2>3
    <3>2. todo # <<>> /\ Head(todo) = "listAll" => Ahead("listAll")
      <4>1. todo \in Seq(Ops)
        BY <1>0 DEF TypeOK
      <4>2. todo # <<>> => 1 \in DOMAIN todo /\ Head(todo) = todo[1]
        BY <4>1, EmptySeq, LenProperties
      <4> QED  BY <4>2 DEF Ahead, ToSet
    <3>3. excused' = {} => AllPending'
      BY <1>1, <3>1, <3>2 DEF AllPending, Ahead
    <3> QED  BY <3>3 DEF Heard, RosterFresh, HealthFresh, LogsFresh
  <2> QED  BY <1>0, <2>1, <2>2, <2>3 DEF TypeOK
<1> QED  BY <1>1, <1>2, <1>3, StreamInv

LEMMA TakeUpInv ==
  ASSUME IInv, TakeUp
  PROVE  IInv'
<1>0. TypeOK /\ Control /\ Logs /\ Heard /\ Own
  BY DEF IInv
<1>1. /\ sub = "sent" /\ sub' = "open"
      /\ UNCHANGED <<srv, due, wire, mirror, todo, connected, answer, writes, breaks, excused,
                     ownClear>>
  BY DEF TakeUp, taskVars, modelVars
<1>2. TypeOK'
  BY <1>0, <1>1 DEF TypeOK
<1>3. Heard'
  <2>1. AllPending' <=> AllPending
    BY <1>1 DEF AllPending, Ahead
  <2> QED  BY <1>0, <1>1, <2>1
           DEF Heard, RosterFresh, HealthFresh, LogsFresh, Ahead, Both, Awaited
<1> QED  BY <1>1, <1>2, <1>3, StreamInv

\* A queue that lagged says that everything may have changed.
LEMMA LaggedInv ==
  ASSUME IInv, NEW left \in SUBSET Kinds, Lagged(left)
  PROVE  IInv'
<1>0. TypeOK /\ Control /\ Logs /\ Heard /\ Own
  BY DEF IInv
<1>1. /\ sub = "open" /\ wire' = left \cup LagReplayChanges
      /\ UNCHANGED <<srv, due, sub, mirror, todo, connected, answer, writes, breaks, excused,
                     ownClear>>
  BY DEF Lagged, taskVars, modelVars
<1>2. TypeOK'
  BY <1>0, <1>1 DEF TypeOK, LagReplayChanges, Kinds
<1>3. Heard'
  <2>1. /\ Awaited("roster")'
        /\ srv.alive => Awaited("health")' /\ Awaited("logs")'
    BY <1>1 DEF Awaited, LagReplayChanges
  <2> QED  BY <1>1, <2>1 DEF Heard, RosterFresh, HealthFresh, LogsFresh, Both
<1> QED  BY <1>1, <1>2, <1>3, StreamInv

-----------------------------------------------------------------------------
(* What the mirror's task does. *)

\* The steps of establish.
LEMMA HandoffIs ==
  /\ Handoff \in Seq(Ops) /\ Handoff # <<>> /\ Len(Handoff) = 4 /\ DOMAIN Handoff = 1 .. 4
  /\ Handoff[1] = "describe" /\ Handoff[2] = "listAll"
  /\ Handoff[3] = "subscribe" /\ Handoff[4] = "listAll"
BY DEF Handoff, Ops

\* The task goes on after its next step, which may put others before the rest.
LEMMA Taken ==
  ASSUME NEW s \in Seq(Ops), s # <<>>, NEW p \in Seq(Ops), NEW t, t = p \o Tail(s)
  PROVE  /\ t \in Seq(Ops) /\ Len(t) = Len(p) + (Len(s) - 1)
         /\ \A i \in DOMAIN t :
              \/ i \in DOMAIN p /\ t[i] = p[i]
              \/ /\ (i - Len(p)) + 1 \in DOMAIN s /\ t[i] = s[(i - Len(p)) + 1]
                 /\ (i - Len(p)) + 1 # 1
         /\ ToSet(t) = ToSet(p) \cup ToSet(Tail(s))
         /\ ToSet(s) = {Head(s)} \cup ToSet(Tail(s)) /\ Head(s) = s[1]
<1> DEFINE r == Tail(s)
<1>1. /\ r \in Seq(Ops) /\ Len(r) = Len(s) - 1
      /\ \A i \in 1 .. Len(r) : r[i] = s[i + 1]
  BY HeadTailProperties
<1>2. /\ Len(s) \in Nat \ {0} /\ Len(p) \in Nat /\ Len(r) \in Nat
      /\ DOMAIN s = 1 .. Len(s) /\ DOMAIN p = 1 .. Len(p) /\ DOMAIN r = 1 .. Len(r)
  BY <1>1, LenProperties, EmptySeq
<1>3. Head(s) = s[1]
  OBVIOUS
<1> HIDE DEF r
<1>4. /\ t \in Seq(Ops) /\ Len(t) = Len(p) + Len(r)
      /\ \A i \in 1 .. Len(p) + Len(r) : t[i] = IF i <= Len(p) THEN p[i] ELSE r[i - Len(p)]
  BY <1>1, ConcatProperties DEF r
<1>5. DOMAIN t = 1 .. Len(p) + Len(r)
  BY <1>4, LenProperties
<1>6. ASSUME NEW i \in 1 .. Len(p) + Len(r)
      PROVE  \/ i \in DOMAIN p /\ t[i] = p[i]
             \/ i - Len(p) \in 1 .. Len(r) /\ t[i] = r[i - Len(p)]
  <2>1. CASE i <= Len(p)
    BY <1>2, <1>4, <2>1
  <2>2. CASE ~(i <= Len(p))
    BY <1>2, <1>4, <2>2
  <2> QED  BY <2>1, <2>2
<1>7. ASSUME NEW j \in 1 .. Len(r)  PROVE j + 1 \in 1 .. Len(s) /\ j + 1 # 1 /\ r[j] = s[j + 1]
  BY <1>1, <1>2
<1>8. \A i \in DOMAIN t :
        \/ i \in DOMAIN p /\ t[i] = p[i]
        \/ /\ (i - Len(p)) + 1 \in DOMAIN s /\ t[i] = s[(i - Len(p)) + 1]
           /\ (i - Len(p)) + 1 # 1
  BY <1>2, <1>5, <1>6, <1>7
<1>9. ToSet(t) = ToSet(p) \cup ToSet(r)
  <2>1. ASSUME NEW i \in 1 .. Len(p)  PROVE i \in DOMAIN t /\ t[i] = p[i]
    BY <1>2, <1>4, <1>5
  <2>2. ASSUME NEW i \in 1 .. Len(r)  PROVE i + Len(p) \in DOMAIN t /\ t[i + Len(p)] = r[i]
    <3>1. i + Len(p) \in 1 .. Len(p) + Len(r) /\ ~(i + Len(p) <= Len(p))
          /\ (i + Len(p)) - Len(p) = i
      BY <1>2
    <3> QED  BY <1>4, <1>5, <3>1
  <2>3. ToSet(p) \cup ToSet(r) \subseteq ToSet(t)
    <3>1. ToSet(p) \subseteq ToSet(t)
      BY <1>2, <2>1 DEF ToSet
    <3>2. ToSet(r) \subseteq ToSet(t)
      BY <1>2, <2>2 DEF ToSet
    <3> QED  BY <3>1, <3>2
  <2>4. ToSet(t) \subseteq ToSet(p) \cup ToSet(r)
    BY <1>2, <1>5, <1>6 DEF ToSet
  <2> QED  BY <2>3, <2>4
<1>10. ToSet(s) = {s[1]} \cup ToSet(r)
  <2>1. ASSUME NEW i \in 1 .. Len(s), i # 1  PROVE i - 1 \in 1 .. Len(r) /\ r[i - 1] = s[i]
    <3>1. i - 1 \in 1 .. Len(r) /\ (i - 1) + 1 = i
      BY <1>1, <1>2, <2>1
    <3> QED  BY <1>1, <3>1
  <2>2. 1 \in 1 .. Len(s)
    BY <1>2
  <2>3. ToSet(s) \subseteq {s[1]} \cup ToSet(r)
    <3>1. ASSUME NEW i \in 1 .. Len(s), i # 1  PROVE s[i] \in ToSet(r)
      BY <1>2, <2>1, <3>1 DEF ToSet
    <3> QED  BY <1>2, <3>1 DEF ToSet
  <2>4. {s[1]} \cup ToSet(r) \subseteq ToSet(s)
    BY <1>2, <1>7, <2>2 DEF ToSet
  <2> QED  BY <2>3, <2>4
<1> QED  BY <1>1, <1>3, <1>4, <1>8, <1>9, <1>10 DEF r

\* The steps that it then has before it.
LEMMA TakenSet ==
  ASSUME NEW s \in Seq(Ops), s # <<>>, NEW p \in Seq(Ops)
  PROVE  /\ ToSet(p \o Tail(s)) = ToSet(p) \cup ToSet(Tail(s))
         /\ ToSet(s) = {Head(s)} \cup ToSet(Tail(s)) /\ Head(s) = s[1]
<1>1. PICK t : t = p \o Tail(s)
  OBVIOUS
<1>2. /\ ToSet(t) = ToSet(p) \cup ToSet(Tail(s))
      /\ ToSet(s) = {Head(s)} \cup ToSet(Tail(s)) /\ Head(s) = s[1]
  BY <1>1, Taken, Zenon
<1> QED  BY <1>1, <1>2

LEMMA PlainStep ==
  ASSUME NEW m, todo \in Seq(Ops), todo # <<>>, TaskStep(m, Tail(todo))
  PROVE  TaskStep(m, <<>> \o Tail(todo))
<1>1. Tail(todo) \in Seq(Ops)
  BY HeadTailProperties
<1>2. <<>> \o Tail(todo) = Tail(todo)
  BY <1>1, ConcatEmptySeq
<1> QED  BY <1>2

Rest == ToSet(Tail(todo))

\* The steps that a refresh may put before what is left to do.
Refreshes(p, known) ==
  /\ p \in Seq(Ops) /\ ToSet(p) \subseteq {"logs", "health", "tail", "more"}
  /\ \A i \in DOMAIN p : p[i] \in {"tail", "more"} => i = 1 /\ known

\* The places of what is left to do.
LEMMA TakenAt ==
  ASSUME NEW s \in Seq(Ops), s # <<>>, NEW p \in Seq(Ops), NEW t, t = p \o Tail(s)
  PROVE  \A i \in DOMAIN t :
           \/ i \in DOMAIN p /\ t[i] = p[i]
           \/ /\ (i - Len(p)) + 1 \in DOMAIN s /\ t[i] = s[(i - Len(p)) + 1]
              /\ (i - Len(p)) + 1 # 1
  BY Taken

\* What a step of a refresh leaves of the task and of the mirror's knowledge.
LEMMA Worked ==
  ASSUME TypeOK, Control, todo # <<>>, Head(todo) \notin {"describe", "subscribe"},
         NEW p, NEW m \in Mirrors, Refreshes(p, m.known), TaskStep(m, p \o Tail(todo)),
         m.instance = mirror.instance,
         ~m.known => m.log = <<>> /\ m.next = 0 /\ m.clearAfter = 0 /\ m.gen = 0
  PROVE  /\ Control' /\ SameSession /\ todo' \in Seq(Ops)
         /\ ToSet(todo') = ToSet(p) \cup Rest /\ ToSet(todo) = {Head(todo)} \cup Rest
         /\ Rest \cap {"describe", "tail", "more", "ack"} = {}
<1> DEFINE r == Tail(todo)
           h == Head(todo)
<1>1. /\ mirror' = m /\ todo' = p \o r
      /\ UNCHANGED <<srv, due, sub, wire, connected, answer, writes, breaks, excused, ownClear>>
  BY DEF TaskStep, modelVars, streamVars
<1>2. todo \in Seq(Ops) /\ p \in Seq(Ops)
  BY DEF TypeOK, Refreshes
<1>3. /\ todo' \in Seq(Ops) /\ Len(todo') = Len(p) + (Len(todo) - 1)
      /\ \A i \in DOMAIN todo' :
           \/ i \in DOMAIN p /\ todo'[i] = p[i]
           \/ /\ (i - Len(p)) + 1 \in DOMAIN todo /\ todo'[i] = todo[(i - Len(p)) + 1]
              /\ (i - Len(p)) + 1 # 1
      /\ ToSet(todo') = ToSet(p) \cup ToSet(r)
      /\ ToSet(todo) = {h} \cup ToSet(r) /\ h = todo[1]
  <2>1. PICK t : t = todo'
    OBVIOUS
  <2>2. t = p \o Tail(todo)
    BY <1>1, <2>1
  <2>3. /\ t \in Seq(Ops) /\ Len(t) = Len(p) + (Len(todo) - 1)
        /\ \A i \in DOMAIN t :
             \/ i \in DOMAIN p /\ t[i] = p[i]
             \/ /\ (i - Len(p)) + 1 \in DOMAIN todo /\ t[i] = todo[(i - Len(p)) + 1]
                /\ (i - Len(p)) + 1 # 1
        /\ ToSet(t) = ToSet(p) \cup ToSet(Tail(todo))
        /\ ToSet(todo) = {Head(todo)} \cup ToSet(Tail(todo)) /\ Head(todo) = todo[1]
    <3> HIDE DEF h, r
    <3>1. todo \in Seq(Ops) /\ todo # <<>> /\ p \in Seq(Ops)
      BY <1>2
    <3>2. t \in Seq(Ops) /\ Len(t) = Len(p) + (Len(todo) - 1)
      BY <2>2, <3>1, Taken, Zenon
    <3>3. \A i \in DOMAIN t :
            \/ i \in DOMAIN p /\ t[i] = p[i]
            \/ /\ (i - Len(p)) + 1 \in DOMAIN todo /\ t[i] = todo[(i - Len(p)) + 1]
               /\ (i - Len(p)) + 1 # 1
      BY <2>2, <3>1, TakenAt
    <3>4. ToSet(t) = ToSet(p) \cup ToSet(Tail(todo))
      <4>1. ToSet(p \o Tail(todo)) = ToSet(p) \cup ToSet(Tail(todo))
        BY <3>1, TakenSet, Zenon
      <4> QED  BY <2>2, <4>1
    <3>5. ToSet(todo) = {Head(todo)} \cup ToSet(Tail(todo)) /\ Head(todo) = todo[1]
      BY <3>1, TakenSet, Zenon
    <3> QED  BY <3>2, <3>3, <3>4, <3>5
  <2> QED  BY <2>1, <2>3
<1> HIDE DEF r
<1>4. /\ \A i \in DOMAIN p : p[i] \in {"logs", "health", "tail", "more"}
      /\ ToSet(p) \subseteq {"logs", "health", "tail", "more"}
  BY DEF Refreshes, ToSet
<1>5. ~Ahead("describe") /\ SameSession
  BY HandoffIs, <1>3 DEF Control, Shaped, Elsewhere, SameSession
<1>6. \A op \in {"describe", "tail", "more", "ack"} : op \notin ToSet(r)
  <2> SUFFICES ASSUME NEW op \in {"describe", "tail", "more", "ack"}, op \in ToSet(r)  PROVE FALSE
    OBVIOUS
  <2>1. PICK i \in DOMAIN r : r[i] = op
    BY DEF ToSet
  <2>2. i + 1 \in DOMAIN todo /\ i + 1 # 1 /\ todo[i + 1] = op /\ Len(todo) # 1
    <3>1. /\ r \in Seq(Ops) /\ Len(r) = Len(todo) - 1
          /\ \A j \in 1 .. Len(r) : r[j] = todo[j + 1]
      BY <1>2, HeadTailProperties DEF r
    <3>2. Len(todo) \in Nat /\ DOMAIN todo = 1 .. Len(todo) /\ DOMAIN r = 1 .. Len(r)
      BY <1>2, <3>1, LenProperties
    <3> QED  BY <2>1, <3>1, <3>2
  <2>3. op \in {"tail", "more"} => FALSE
    BY <2>2 DEF Control, Shaped
  <2>4. op = "ack" => FALSE
    <3> SUFFICES ASSUME op = "ack"  PROVE FALSE
      OBVIOUS
    <3>1. Ahead("ack")
      BY <2>2 DEF Ahead, ToSet
    <3>2. todo = <<"ack">>
      BY <3>1 DEF Control, Shaped
    <3>3. Len(<<"ack">>) = 1
      OBVIOUS
    <3> QED  BY <2>2, <3>2, <3>3, Zenon
  <2>5. op = "describe" => FALSE
    BY <1>3, <1>5 DEF Ahead
  <2> QED  BY <2>3, <2>4, <2>5
<1>7. Shaped'
  <2>1. ~Ahead("describe")' /\ ~Ahead("ack")'
    BY <1>3, <1>4, <1>6 DEF Ahead
  <2>2. ASSUME NEW i \in DOMAIN todo', todo'[i] = "subscribe"
        PROVE  sub' = "none" /\ i + 1 = Len(todo') /\ todo'[i + 1] = "listAll"
    <3> DEFINE j == (i - Len(p)) + 1
    <3>1. j \in DOMAIN todo /\ todo[j] = "subscribe" /\ j # 1
      BY <1>3, <1>4, <2>2
    <3>2. sub = "none" /\ j + 1 = Len(todo) /\ todo[j + 1] = "listAll"
      BY <3>1 DEF Control, Shaped
    <3>3. /\ DOMAIN todo = 1 .. Len(todo) /\ DOMAIN todo' = 1 .. Len(todo')
          /\ DOMAIN p = 1 .. Len(p) /\ Len(p) \in Nat /\ Len(todo) \in Nat
      BY <1>2, <1>3, LenProperties
    <3>4. i + 1 = Len(todo') /\ i + 1 \in DOMAIN todo' /\ i + 1 \notin DOMAIN p
          /\ ((i + 1) - Len(p)) + 1 = j + 1
      <4> DEFINE a == Len(p)
                 b == Len(todo)
      <4>1. a \in Nat /\ b \in Nat /\ j = (i - a) + 1 /\ j + 1 = b /\ j \in 1 .. b /\ j # 1
            /\ Len(todo') = a + (b - 1) /\ i \in 1 .. Len(todo')
        BY <1>3, <3>1, <3>2, <3>3
      <4> HIDE DEF a, b, j
      <4>2. i + 1 = Len(todo') /\ i + 1 \in 1 .. Len(todo') /\ i + 1 \notin 1 .. a
            /\ ((i + 1) - a) + 1 = j + 1
        BY <4>1
      <4> QED  BY <3>3, <4>2 DEF a
    <3>5. todo'[i + 1] = todo[j + 1]
      BY <1>3, <3>4
    <3> QED  BY <1>1, <3>2, <3>4, <3>5
  <2>3. ASSUME NEW i \in DOMAIN todo', todo'[i] \in {"tail", "more"}
        PROVE  i = 1 /\ mirror'.known
    <3>1. CASE i \in DOMAIN p /\ todo'[i] = p[i]
      BY <1>1, <2>3, <3>1 DEF Refreshes
    <3>2. CASE /\ (i - Len(p)) + 1 \in DOMAIN todo /\ todo'[i] = todo[(i - Len(p)) + 1]
               /\ (i - Len(p)) + 1 # 1
      BY <2>3, <3>2 DEF Control, Shaped
    <3> QED  BY <1>3, <3>1, <3>2
  <2> QED  BY <2>1, <2>2, <2>3 DEF Shaped
<1>8. Unheard' /\ Elsewhere' /\ Blank'
  <2>1. sub = "none" => Ahead("subscribe")'
    BY <1>3 DEF Control, Unheard, Ahead
  <2> QED  BY <1>1, <1>5, <2>1 DEF Control, Unheard, Elsewhere, Blank, SameSession
<1> QED  BY <1>3, <1>5, <1>6, <1>7, <1>8 DEF Control, Rest, r

\* What a request that is answered leaves, but for what was heard.
LEMMA WorkedInv ==
  ASSUME IInv, todo # <<>>, Head(todo) \notin {"describe", "subscribe"},
         NEW p, NEW m \in Mirrors, Refreshes(p, m.known), TaskStep(m, p \o Tail(todo)),
         m.instance = mirror.instance, EndsAtNext(m),
         ~m.known => m.log = <<>> /\ m.next = 0 /\ m.clearAfter = 0 /\ m.gen = 0,
         Undisturbed =>
           /\ m.next < srv.next /\ Copied(m, srv)
           /\ ("more" \in ToSet(p) /\ srv.alive) => Fresh(m, srv),
         Heard', Own'
  PROVE  IInv'
<1>0. TypeOK /\ Control /\ Logs
  BY DEF IInv
<1>1. /\ mirror' = m
      /\ UNCHANGED <<srv, due, sub, wire, connected, answer, writes, breaks, excused, ownClear>>
  BY DEF TaskStep, modelVars, streamVars
<1>2. /\ Control' /\ SameSession /\ todo' \in Seq(Ops)
      /\ ToSet(todo') = ToSet(p) \cup Rest /\ "more" \notin Rest
  BY <1>0, Worked
<1>3. TypeOK'
  BY <1>0, <1>1, <1>2 DEF TypeOK
<1>4. Logs'
  BY <1>0, <1>1, <1>2 DEF Logs, Mirrored, Undisturbed, Ahead
<1> QED  BY <1>2, <1>3, <1>4 DEF IInv

\* Lines are appended, or the service is not there any more.
LEMMA OwnWorked ==
  ASSUME TypeOK, Own, SameSession, ~Ahead("ack")', UNCHANGED <<srv, answer, ownClear, excused>>,
         mirror'.instance = mirror.instance,
         \/ /\ mirror'.known = mirror.known /\ mirror'.gen = mirror.gen
            /\ mirror'.clearAfter = mirror.clearAfter
            /\ \A c \in Nat : (Above(srv.log, c) /\ Above(mirror.log, c)) => Above(mirror'.log, c)
         \/ /\ mirror'.clearAfter = 0 /\ mirror'.gen = 0 /\ mirror'.log = <<>> /\ ~srv.alive
  PROVE  Own'
<1>1. SameSession' /\ answer \in Nat /\ srv.gen \in Nat /\ ownClear.seq \in Nat
  BY DEF SameSession, TypeOK, Services
<1>2. CASE /\ mirror'.known = mirror.known /\ mirror'.gen = mirror.gen
           /\ mirror'.clearAfter = mirror.clearAfter
           /\ \A c \in Nat : (Above(srv.log, c) /\ Above(mirror.log, c)) => Above(mirror'.log, c)
  BY <1>1, <1>2 DEF Own
<1>3. CASE mirror'.clearAfter = 0 /\ mirror'.gen = 0 /\ mirror'.log = <<>> /\ ~srv.alive
  <2>1. \A c \in Nat : Above(mirror'.log, c)
    BY <1>3 DEF Above
  <2> QED  BY <1>1, <1>3, <2>1 DEF Own
<1> QED  BY <1>2, <1>3

LEMMA UnknownIs ==
  ASSUME NEW m \in Mirrors, NEW s \in Services, Numbered(s), NEW u, u = Unknown(m)
  PROVE  /\ u \in Mirrors /\ EndsAtNext(u) /\ u.instance = m.instance
         /\ ~u.known /\ u.log = <<>> /\ u.next = 0 /\ u.clearAfter = 0 /\ u.gen = 0
         /\ u.next < s.next /\ Copied(u, s)
<1>1. /\ u.instance = m.instance /\ u.known = FALSE /\ u.status = 0 /\ u.gen = 0
      /\ u.health = 0 /\ u.log = <<>> /\ u.next = 0 /\ u.clearAfter = 0 /\ u \in Mirrors
  <2>1. m = [instance |-> m.instance, known |-> m.known, status |-> m.status, gen |-> m.gen,
             health |-> m.health, log |-> m.log, next |-> m.next, clearAfter |-> m.clearAfter]
        /\ m.instance \in Nat
    BY DEF Mirrors
  <2>2. u = [instance |-> m.instance, known |-> FALSE, status |-> 0, gen |-> 0,
             health |-> 0, log |-> <<>>, next |-> 0, clearAfter |-> 0]
    BY <2>1, Zenon DEF Unknown
  <2>3. <<>> \in Seq(Lines)
    OBVIOUS
  <2> QED  BY <2>1, <2>2, <2>3 DEF Mirrors
<1>2. s.next \in Nat \ {0} /\ \A q \in Kept(s) : q \in Nat
  BY KeptLines
<1>3. Copied(u, s)
  BY <1>1, <1>2 DEF Copied
<1> QED  BY <1>1, <1>2, <1>3 DEF EndsAtNext

\* The service is not there any more: NotFound.
LEMMA GoneInv ==
  ASSUME IInv, todo # <<>>, Head(todo) \in {"logs", "tail", "more", "health"}, ~srv.alive,
         TaskStep(Unknown(mirror), Tail(todo))
  PROVE  IInv'
<1>0. TypeOK /\ Control /\ Logs /\ Heard /\ Own /\ todo \in Seq(Ops)
      /\ srv \in Services /\ Numbered(srv) /\ mirror \in Mirrors
  BY DEF IInv, TypeOK, Logs
<1> DEFINE u == Unknown(mirror)
<1>1. /\ u \in Mirrors /\ EndsAtNext(u) /\ u.instance = mirror.instance
      /\ ~u.known /\ u.log = <<>> /\ u.next = 0 /\ u.clearAfter = 0 /\ u.gen = 0
      /\ u.next < srv.next /\ Copied(u, srv)
  BY <1>0, UnknownIs
<1>2. TaskStep(u, <<>> \o Tail(todo))
  BY <1>0, PlainStep
<1>3. Refreshes(<<>>, u.known) /\ ToSet(<<>>) = {}
  BY DEF Refreshes, ToSet
<1>4. /\ mirror' = u
      /\ UNCHANGED <<srv, due, sub, wire, connected, answer, writes, breaks, excused, ownClear>>
  BY DEF TaskStep, modelVars, streamVars
<1> HIDE DEF u
<1>5. SameSession /\ ToSet(todo') = Rest /\ Rest \cap {"describe", "tail", "more", "ack"} = {}
  <2>1. Head(todo) \notin {"describe", "subscribe"}
    OBVIOUS
  <2>2. Refreshes(<<>>, u.known)
    BY <1>3
  <2>3. ToSet(todo') = ToSet(<<>>) \cup Rest
    BY <1>0, <1>1, <1>2, <2>1, <2>2, Worked
  <2>4. SameSession /\ Rest \cap {"describe", "tail", "more", "ack"} = {}
    BY <1>0, <1>1, <1>2, <2>1, <2>2, Worked
  <2> QED  BY <1>3, <2>3, <2>4
<1>6. Heard'
  <2>1. mirror'.known = srv'.alive
    <3>1. u.known = FALSE
      BY <1>1 DEF Mirrors
    <3>2. srv.alive = FALSE
      BY <1>0 DEF Services
    <3> QED  BY <1>4, <3>1, <3>2
  <2>2. ~srv'.alive
    BY <1>4
  <2> QED  BY <2>1, <2>2 DEF Heard, RosterFresh, HealthFresh, LogsFresh, Both
<1>7. Own'
  BY <1>0, <1>1, <1>4, <1>5, OwnWorked DEF Ahead
<1> QED  BY <1>1, <1>2, <1>3, <1>6, <1>7, WorkedInv

\* There is nothing to refresh.
LEMMA IdleInv ==
  ASSUME IInv, todo # <<>>, Head(todo) \in {"logs", "health"}, ~mirror.known,
         TaskStep(mirror, Tail(todo))
  PROVE  IInv'
<1>0. TypeOK /\ Control /\ Logs /\ Heard /\ Own /\ todo \in Seq(Ops) /\ mirror \in Mirrors
  BY DEF IInv, TypeOK
<1>1. /\ EndsAtNext(mirror)
      /\ mirror.log = <<>> /\ mirror.next = 0 /\ mirror.clearAfter = 0 /\ mirror.gen = 0
  BY <1>0 DEF Control, Blank, Logs
<1>2. TaskStep(mirror, <<>> \o Tail(todo))
  BY <1>0, PlainStep
<1>3. Refreshes(<<>>, mirror.known) /\ ToSet(<<>>) = {}
  BY DEF Refreshes, ToSet
<1>4. /\ mirror' = mirror
      /\ UNCHANGED <<srv, due, sub, wire, connected, answer, writes, breaks, excused, ownClear>>
  BY DEF TaskStep, modelVars, streamVars
<1>5. /\ SameSession /\ ToSet(todo') = Rest /\ Rest \cap {"describe", "tail", "more", "ack"} = {}
      /\ ToSet(todo) = {Head(todo)} \cup Rest
  BY <1>0, <1>1, <1>2, <1>3, Worked
<1>6. Heard'
  <2>1. AllPending => AllPending'
    BY <1>5 DEF AllPending, Ahead
  <2>2. Ahead("list") => Ahead("list")'
    BY <1>5 DEF Ahead
  <2> QED  BY <1>0, <1>4, <2>1, <2>2
           DEF Heard, RosterFresh, HealthFresh, LogsFresh, Both, Awaited
<1>7. Own'
  BY <1>0, <1>1, <1>4, <1>5, OwnWorked DEF Ahead
<1>8. Undisturbed => mirror.next < srv.next /\ Copied(mirror, srv)
  BY <1>0, <1>5 DEF Logs, Mirrored, SameSession
<1> QED  BY <1>0, <1>1, <1>2, <1>3, <1>6, <1>7, <1>8, WorkedInv

\* A page of the log has been read.
LEMMA ReadInv ==
  ASSUME IInv, todo # <<>>, Head(todo) \in {"logs", "tail", "more"}, srv.alive, mirror.known,
         NEW p \in {<<>>, <<"more">>}, NEW m, Follows(mirror, m), TaskStep(m, p \o Tail(todo)),
         \A c \in Nat : (Above(srv.log, c) /\ Above(mirror.log, c)) => Above(m.log, c),
         Undisturbed => /\ m.next < srv.next /\ Copied(m, srv) /\ Fresh(m, srv)
                        /\ srv.log = <<>> \/ m.next = srv.next - 1 \/ p = <<"more">>
  PROVE  IInv'
<1>0. TypeOK /\ Control /\ Logs /\ Heard /\ Own /\ todo \in Seq(Ops) /\ mirror \in Mirrors
  BY DEF IInv, TypeOK
<1>1. /\ m \in Mirrors /\ EndsAtNext(m) /\ m.instance = mirror.instance /\ m.known
      /\ m.status = mirror.status /\ m.gen = mirror.gen /\ m.health = mirror.health
      /\ m.clearAfter = mirror.clearAfter
  <2>1. m \in Mirrors /\ EndsAtNext(m) /\ m = [mirror EXCEPT !.log = m.log, !.next = m.next]
    BY DEF Follows, Same
  <2> DEFINE l == m.log
             n == m.next
  <2> HIDE DEF l, n
  <2>2. m = [mirror EXCEPT !.log = l, !.next = n]
    BY <2>1 DEF l, n
  <2>3. /\ m.instance = mirror.instance /\ m.known = mirror.known /\ m.status = mirror.status
        /\ m.gen = mirror.gen /\ m.health = mirror.health /\ m.clearAfter = mirror.clearAfter
    BY <1>0, <2>2 DEF Mirrors
  <2> QED  BY <2>1, <2>3
<1>2. Refreshes(p, m.known) /\ (p = <<"more">> => "more" \in ToSet(p))
  <2>1. CASE p = <<>>
    BY <2>1 DEF Refreshes, ToSet
  <2>2. CASE p = <<"more">>
    <3>1. p \in Seq(Ops) /\ Len(p) = 1 /\ p[1] = "more"
      BY <2>2 DEF Ops
    <3>2. DOMAIN p = {1}
      BY <3>1, LenProperties
    <3>3. ToSet(p) = {"more"}
      BY <3>1, <3>2 DEF ToSet
    <3> QED  BY <1>1, <3>1, <3>2, <3>3 DEF Refreshes
  <2>3. p = <<>> => p # <<"more">>
    OBVIOUS
  <2> QED  BY <2>1, <2>2, <2>3
<1>4. /\ mirror' = m
      /\ UNCHANGED <<srv, due, sub, wire, connected, answer, writes, breaks, excused, ownClear>>
  BY DEF TaskStep, modelVars, streamVars
<1>5. /\ SameSession /\ ToSet(todo') = ToSet(p) \cup Rest
      /\ Rest \cap {"describe", "tail", "more", "ack"} = {}
      /\ ToSet(todo) = {Head(todo)} \cup Rest
  <2>1. Head(todo) \notin {"describe", "subscribe"}
    OBVIOUS
  <2> QED  BY <1>0, <1>1, <1>2, <2>1, Worked
<1>6. Heard'
  <2> SUFFICES ASSUME excused = {}  PROVE RosterFresh' /\ HealthFresh' /\ LogsFresh'
    BY <1>4 DEF Heard
  <2>1. AllPending => AllPending'
    BY <1>5 DEF AllPending, Ahead
  <2>2. (Ahead("list") => Ahead("list")') /\ (Ahead("health") => Ahead("health")')
    BY <1>5 DEF Ahead
  <2>3. /\ Fresh(m, srv)
        /\ srv.log = <<>> \/ m.next = srv.next - 1 \/ Ahead("more")'
    BY <1>2, <1>5 DEF Undisturbed, Ahead
  <2>4. RosterFresh'
    BY <1>0, <1>1, <1>4, <2>1, <2>2 DEF Heard, RosterFresh, Awaited
  <2>5. HealthFresh'
    BY <1>0, <1>1, <1>4, <2>1, <2>2 DEF Heard, HealthFresh, Awaited, Both
  <2>6. LogsFresh'
    BY <1>4, <2>3 DEF LogsFresh
  <2> QED  BY <2>4, <2>5, <2>6
<1>7. Own'
  <2>1. ~Ahead("ack")'
    BY <1>2, <1>5 DEF Refreshes, Ahead
  <2> QED  BY <1>0, <1>1, <1>4, <1>5, <2>1, OwnWorked
<1> QED  BY <1>1, <1>2, <1>6, <1>7, WorkedInv

\* The task reads only in the session that the mirror is of.
LEMMA AtHome ==
  ASSUME TypeOK, Control, todo # <<>>, Head(todo) # "describe"
  PROVE  ~Ahead("describe") /\ SameSession
<1>1. Head(todo) = todo[1]
  BY DEF TypeOK
<1>2. ~Ahead("describe")
  BY <1>1, HandoffIs DEF Control, Shaped
<1> QED  BY <1>2 DEF Control, Elsewhere, SameSession

\* The end of the log is read again.
LEMMA RetailFirst ==
  ASSUME IInv, todo # <<>>, Head(todo) = "logs", mirror.known,
         Undisturbed => mirror.next < srv.next /\ Copied(mirror, srv),
         TaskStep(mirror, <<"tail">> \o Tail(todo))
  PROVE  IInv'
<1> DEFINE p == <<"tail">>
<1>0. TypeOK /\ Control /\ Logs /\ Heard /\ Own /\ todo \in Seq(Ops) /\ mirror \in Mirrors
      /\ EndsAtNext(mirror)
  BY DEF IInv, TypeOK, Logs
<1>1. Refreshes(p, mirror.known) /\ ToSet(p) = {"tail"}
  <2>1. p \in Seq(Ops) /\ Len(p) = 1 /\ p[1] = "tail"
    BY DEF Ops
  <2>2. DOMAIN p = {1}
    BY <2>1, LenProperties
  <2>3. ToSet(p) = {"tail"}
    BY <2>1, <2>2 DEF ToSet
  <2> QED  BY <2>1, <2>2, <2>3 DEF Refreshes
<1> HIDE DEF p
<1>2. TaskStep(mirror, p \o Tail(todo))
  BY DEF p
<1>3. /\ mirror' = mirror
      /\ UNCHANGED <<srv, due, sub, wire, connected, answer, writes, breaks, excused, ownClear>>
  BY DEF TaskStep, modelVars, streamVars
<1>4. /\ SameSession /\ ToSet(todo') = ToSet(p) \cup Rest
      /\ Rest \cap {"describe", "tail", "more", "ack"} = {}
      /\ ToSet(todo) = {Head(todo)} \cup Rest
  <2>1. Head(todo) \notin {"describe", "subscribe"}
    OBVIOUS
  <2> QED  BY <1>0, <1>1, <1>2, <2>1, Worked
<1>5. Heard'
  <2>1. AllPending => AllPending'
    BY <1>4 DEF AllPending, Ahead
  <2>2. (Ahead("list") => Ahead("list")') /\ (Ahead("health") => Ahead("health")')
        /\ Ahead("tail")'
    BY <1>1, <1>4 DEF Ahead
  <2> QED  BY <1>0, <1>3, <2>1, <2>2
           DEF Heard, RosterFresh, HealthFresh, LogsFresh, Both, Awaited
<1>6. Own'
  <2>1. ~Ahead("ack")'
    BY <1>1, <1>4 DEF Ahead
  <2> QED  BY <1>0, <1>3, <1>4, <2>1, OwnWorked
<1> QED  BY <1>0, <1>1, <1>2, <1>5, <1>6, WorkedInv

LEMMA HeadAhead ==
  ASSUME TypeOK, NEW op, Performing(op)
  PROVE  todo \in Seq(Ops) /\ todo # <<>> /\ Head(todo) = op /\ Ahead(op)
<1>1. todo \in Seq(Ops) /\ todo # <<>> /\ Head(todo) = op
  BY DEF TypeOK, Performing
<1>2. Len(todo) \in Nat \ {0} /\ DOMAIN todo = 1 .. Len(todo) /\ Head(todo) = todo[1]
  BY <1>1, EmptySeq, LenProperties
<1> QED  BY <1>1, <1>2 DEF Ahead, ToSet

\* The steps of a refresh, one lemma for each request.
LEMMA RefreshLogsInv ==
  ASSUME MirrorAssumption, IInv, RefreshLogs
  PROVE  IInv'
<1>0. TypeOK /\ Control /\ Logs /\ Heard /\ Own /\ srv \in Services /\ Numbered(srv)
      /\ mirror \in Mirrors /\ EndsAtNext(mirror)
  BY DEF IInv, TypeOK, Logs
<1>a. PageMax \in Nat \ {0} /\ MirrorTail \in Nat \ {0} /\ MirrorTail <= PageMax
  BY DEF MirrorAssumption
<1>1. todo \in Seq(Ops) /\ todo # <<>> /\ Head(todo) = "logs" /\ Performing("logs")
  BY <1>0, HeadAhead DEF RefreshLogs
<1>2. CASE ~mirror.known
  <2>1. TaskStep(mirror, Tail(todo))
    BY <1>2 DEF RefreshLogs
  <2> QED  BY <1>1, <1>2, <2>1, IdleInv
<1>3. CASE mirror.known /\ ~srv.alive
  <2>1. TaskStep(Unknown(mirror), Tail(todo))
    BY <1>3 DEF RefreshLogs
  <2> QED  BY <1>1, <1>3, <2>1, GoneInv
<1>4. CASE mirror.known /\ srv.alive
  <2> DEFINE after == RefetchFrom(mirror)
             whole == mirror.next = 0
             lines == IF whole THEN VisibleTail ELSE FollowLogs(after)
             more == IF whole THEN Len(srv.log) > PageMax ELSE Truncated(after)
             p == IF more THEN <<"more">> ELSE <<>>
  <2>1. SameSession
    BY <1>0, <1>1, AtHome
  <2>2. Undisturbed => mirror.next < srv.next /\ Copied(mirror, srv)
    BY <1>0, <2>1 DEF Logs, Mirrored, SameSession
  <2>3. CASE MustRetail(mirror, lines)
    <3>1. TaskStep(mirror, <<"tail">> \o Tail(todo))
      BY <1>4, <2>3 DEF RefreshLogs
    <3> QED  BY <1>1, <1>4, <2>2, <3>1, RetailFirst
  <2>4. CASE ~MustRetail(mirror, lines)
    <3> DEFINE m == AppendLogPage(mirror, lines)
    <3>1. TaskStep(m, p \o Tail(todo))
      BY <1>4, <2>4 DEF RefreshLogs
    <3>2. CASE whole
      <4>1. mirror.log = <<>> /\ m = AppendLogPage(mirror, VisibleTail)
        BY <1>0, <3>2 DEF EndsAtNext
      <4>2. /\ Follows(mirror, m) /\ Copied(m, srv) /\ Fresh(m, srv) /\ m.next < srv.next
            /\ srv.log = <<>> \/ m.next = srv.next - 1
            /\ \A c \in Nat : Above(srv.log, c) => Above(m.log, c)
        <5> HIDE DEF m
        <5> QED  BY <1>0, <1>a, <3>2, <4>1, TailRead
      <4>3. p \in {<<>>, <<"more">>}
        OBVIOUS
      <4> HIDE DEF m, p
      <4> QED  BY <1>1, <1>4, <3>1, <4>2, <4>3, ReadInv
    <3>3. CASE ~whole
      <4>1. m = AppendLogPage(mirror, FollowLogs(after))
        BY <3>3
      <4>2. after \in Nat /\ after + 1 = mirror.next
        BY <1>0, <3>3 DEF RefetchFrom, Mirrors
      <4>3. Undisturbed =>
              /\ Copied(m, srv) /\ Fresh(m, srv) /\ m.next < srv.next
              /\ srv.log = <<>> \/ m.next = srv.next - 1 \/ Truncated(after)
        <5> HIDE DEF m, after
        <5> QED  BY <1>0, <1>a, <2>2, <4>1, <4>2, PageRead
      <4>4. FollowLogs(after) \in Seq(Lines) /\ PageFrom(FollowLogs(after), srv, Begin(after))
        <5> HIDE DEF after
        <5> QED  BY <1>0, <1>a, <4>2, FollowIs
      <4>5. /\ Follows(mirror, m)
            /\ \A c \in Nat :
                 (Above(mirror.log, c) /\ Above(FollowLogs(after), c)) => Above(m.log, c)
        <5> HIDE DEF m, after
        <5> QED  BY <1>0, <1>a, <4>1, <4>4, PageAppended
      <4>6. \A c \in Nat : Above(srv.log, c) => Above(FollowLogs(after), c)
        <5> HIDE DEF after
        <5> QED  BY <1>0, <4>4, PageAbove
      <4>7. p \in {<<>>, <<"more">>} /\ (Truncated(after) => p = <<"more">>)
        BY <3>3
      <4> HIDE DEF m, p, after
      <4> QED  BY <1>1, <1>4, <3>1, <4>3, <4>5, <4>6, <4>7, ReadInv
    <3> QED  BY <3>2, <3>3
  <2> QED  BY <2>3, <2>4
<1> QED  BY <1>2, <1>3, <1>4

Cut(m) == [m EXCEPT !.log = <<>>, !.next = 0]

\* A log that is cut is a mirror's again.
LEMMA BlankLog ==
  ASSUME NEW m \in Mirrors, NEW b, b = Cut(m)
  PROVE  /\ b \in Mirrors /\ b.log = <<>> /\ b.next = 0 /\ Same(m, b)
         /\ b.instance = m.instance /\ b.known = m.known /\ b.status = m.status
         /\ b.gen = m.gen /\ b.health = m.health /\ b.clearAfter = m.clearAfter
<1>1. m = [instance |-> m.instance, known |-> m.known, status |-> m.status, gen |-> m.gen,
           health |-> m.health, log |-> m.log, next |-> m.next, clearAfter |-> m.clearAfter]
      /\ m.instance \in Nat /\ m.known \in BOOLEAN /\ m.status \in {0, 1} /\ m.gen \in Nat
      /\ m.health \in {0, 1} /\ m.clearAfter \in Nat
  BY DEF Mirrors
<1>2. b = [instance |-> m.instance, known |-> m.known, status |-> m.status, gen |-> m.gen,
           health |-> m.health, log |-> <<>>, next |-> 0, clearAfter |-> m.clearAfter]
  BY <1>1, Zenon DEF Cut
<1>3. <<>> \in Seq(Lines)
  OBVIOUS
<1>4. b.log = <<>> /\ b.next = 0
  BY <1>2
<1>5. Same(m, b)
  <2>1. b = [m EXCEPT !.log = <<>>, !.next = 0]
    BY DEF Cut
  <2> QED  BY <1>4, <2>1, Zenon DEF Same
<1>6. b \in Mirrors
  <2>1. m.log \in Seq(Lines)
    BY DEF Mirrors
  <2> DEFINE r(l, n) == [instance |-> m.instance, known |-> m.known, status |-> m.status,
                         gen |-> m.gen, health |-> m.health, log |-> l, next |-> n,
                         clearAfter |-> m.clearAfter]
  <2>2. ASSUME NEW l \in Seq(Lines), NEW n \in Nat  PROVE r(l, n) \in Mirrors
    BY <1>1 DEF Mirrors
  <2>3. b = r(<<>>, 0)
    BY <1>2
  <2> HIDE DEF r
  <2>4. 0 \in Nat
    OBVIOUS
  <2> QED  BY <1>3, <2>2, <2>3, <2>4
<1> QED  BY <1>2, <1>4, <1>5, <1>6

LEMMA RetailInv ==
  ASSUME MirrorAssumption, IInv, Retail
  PROVE  IInv'
<1>0. TypeOK /\ Control /\ srv \in Services /\ Numbered(srv) /\ mirror \in Mirrors
  BY DEF IInv, TypeOK, Logs
<1>a. PageMax \in Nat \ {0} /\ MirrorTail \in Nat \ {0} /\ MirrorTail <= PageMax
  BY DEF MirrorAssumption
<1>1. todo \in Seq(Ops) /\ todo # <<>> /\ Head(todo) = "tail" /\ Ahead("tail")
  BY <1>0, HeadAhead DEF Retail
<1>2. CASE ~srv.alive
  <2>1. TaskStep(Unknown(mirror), Tail(todo))
    BY <1>2 DEF Retail
  <2> QED  BY <1>1, <1>2, <2>1, GoneInv
<1>3. CASE srv.alive
  <2> DEFINE b == [mirror EXCEPT !.log = <<>>, !.next = 0]
             m == AppendLogPage(b, VisibleTail)
  <2>1. TaskStep(m, Tail(todo))
    BY <1>3 DEF Retail, ReplaceLogTail
  <2>2. TaskStep(m, <<>> \o Tail(todo))
    <3> HIDE DEF m
    <3> QED  BY <1>1, <2>1, PlainStep
  <2>3. mirror.known
    BY <1>0, <1>1, MoreHere
  <2>4. b \in Mirrors /\ b.log = <<>> /\ b.next = 0 /\ Same(mirror, b)
    BY <1>0, BlankLog DEF Cut
  <2>5. /\ Follows(b, m) /\ Copied(m, srv) /\ Fresh(m, srv) /\ m.next < srv.next
        /\ srv.log = <<>> \/ m.next = srv.next - 1
        /\ \A c \in Nat : Above(srv.log, c) => Above(m.log, c)
    <3>1. m = AppendLogPage(b, VisibleTail)
      OBVIOUS
    <3> HIDE DEF b, m
    <3> QED  BY <1>0, <1>a, <2>4, <3>1, TailRead
  <2> HIDE DEF b, m
  <2>6. Follows(mirror, m)
    BY <1>0, <2>4, <2>5, SameTwice DEF Follows
  <2>7. <<>> \in {<<>>, <<"more">>}
    OBVIOUS
  <2> QED  BY <1>1, <1>3, <2>2, <2>3, <2>5, <2>6, <2>7, ReadInv
<1> QED  BY <1>2, <1>3

LEMMA NextPageInv ==
  ASSUME MirrorAssumption, IInv, NextPage
  PROVE  IInv'
<1>0. TypeOK /\ Control /\ Logs /\ srv \in Services /\ Numbered(srv) /\ mirror \in Mirrors
      /\ EndsAtNext(mirror) /\ mirror.next \in Nat
  BY DEF IInv, TypeOK, Logs, Mirrors
<1>a. PageMax \in Nat \ {0} /\ MirrorTail \in Nat \ {0}
  BY DEF MirrorAssumption
<1>1. todo \in Seq(Ops) /\ todo # <<>> /\ Head(todo) = "more" /\ Ahead("more")
  BY <1>0, HeadAhead DEF NextPage
<1>2. CASE ~srv.alive
  <2>1. TaskStep(Unknown(mirror), Tail(todo))
    BY <1>2 DEF NextPage
  <2> QED  BY <1>1, <1>2, <2>1, GoneInv
<1>3. CASE srv.alive
  <2> DEFINE after == mirror.next
             m == AppendLogPage(mirror, FollowLogs(after))
             p == IF Truncated(after) THEN <<"more">> ELSE <<>>
  <2>1. TaskStep(m, p \o Tail(todo))
    BY <1>3 DEF NextPage
  <2>2. mirror.known /\ mirror.instance = srv.instance
    BY <1>0, <1>1, MoreHere
  <2>3. Undisturbed => mirror.next < srv.next /\ Copied(mirror, srv) /\ Fresh(mirror, srv)
    BY <1>0, <1>1, <1>3, <2>2 DEF Logs, Mirrored
  <2>4. p \in {<<>>, <<"more">>} /\ (Truncated(after) => p = <<"more">>)
    OBVIOUS
  <2>5. after = mirror.next /\ after \in Nat /\ m = AppendLogPage(mirror, FollowLogs(after))
    BY <1>0
  <2> HIDE DEF after, m, p
  <2>6. Undisturbed =>
          /\ Copied(m, srv) /\ Fresh(m, srv) /\ m.next < srv.next
          /\ srv.log = <<>> \/ m.next = srv.next - 1 \/ Truncated(after)
    BY <1>0, <1>a, <2>3, <2>5, PageRead
  <2>7. FollowLogs(after) \in Seq(Lines) /\ PageFrom(FollowLogs(after), srv, Begin(after))
    BY <1>0, <1>a, <2>5, FollowIs
  <2>8. /\ Follows(mirror, m)
        /\ \A c \in Nat :
             (Above(mirror.log, c) /\ Above(FollowLogs(after), c)) => Above(m.log, c)
    BY <1>0, <1>a, <2>5, <2>7, PageAppended
  <2>9. \A c \in Nat : Above(srv.log, c) => Above(FollowLogs(after), c)
    BY <1>0, <2>7, PageAbove
  <2> QED  BY <1>1, <1>3, <2>1, <2>2, <2>4, <2>6, <2>8, <2>9, ReadInv
<1> QED  BY <1>2, <1>3

LEMMA RefreshHealthInv ==
  ASSUME IInv, RefreshHealth
  PROVE  IInv'
<1>0. TypeOK /\ Control /\ Logs /\ Heard /\ Own /\ srv \in Services
      /\ mirror \in Mirrors /\ EndsAtNext(mirror)
  BY DEF IInv, TypeOK, Logs
<1>1. todo \in Seq(Ops) /\ todo # <<>> /\ Head(todo) = "health"
  BY <1>0, HeadAhead DEF RefreshHealth
<1>2. CASE ~mirror.known
  <2>1. TaskStep(mirror, Tail(todo))
    BY <1>2 DEF RefreshHealth
  <2> QED  BY <1>1, <1>2, <2>1, IdleInv
<1>3. CASE mirror.known /\ ~srv.alive
  <2>1. TaskStep(Unknown(mirror), Tail(todo))
    BY <1>3 DEF RefreshHealth
  <2> QED  BY <1>1, <1>3, <2>1, GoneInv
<1>4. CASE mirror.known /\ srv.alive
  <2> DEFINE m == [mirror EXCEPT !.health = srv.health]
  <2>1. TaskStep(m, Tail(todo))
    BY <1>4 DEF RefreshHealth
  <2>2. /\ m \in Mirrors /\ m.instance = mirror.instance /\ m.known = mirror.known
        /\ m.status = mirror.status /\ m.gen = mirror.gen /\ m.health = srv.health
        /\ m.log = mirror.log /\ m.next = mirror.next /\ m.clearAfter = mirror.clearAfter
    BY <1>0 DEF Mirrors, Services
  <2> HIDE DEF m
  <2>3. TaskStep(m, <<>> \o Tail(todo))
    BY <1>1, <2>1, PlainStep
  <2>4. Refreshes(<<>>, m.known) /\ ToSet(<<>>) = {}
    BY DEF Refreshes, ToSet
  <2>5. /\ mirror' = m
        /\ UNCHANGED <<srv, due, sub, wire, connected, answer, writes, breaks, excused, ownClear>>
    BY <2>1 DEF TaskStep, modelVars, streamVars
  <2>6. /\ SameSession /\ ToSet(todo') = ToSet(<<>>) \cup Rest
        /\ Rest \cap {"describe", "tail", "more", "ack"} = {}
        /\ ToSet(todo) = {Head(todo)} \cup Rest
    <3>1. Head(todo) \notin {"describe", "subscribe"}
      BY <1>1
    <3>2. Refreshes(<<>>, m.known)
      BY <2>4
    <3> QED  BY <1>0, <1>1, <1>4, <2>2, <2>3, <3>1, <3>2, Worked
  <2>7. EndsAtNext(m) /\ (Undisturbed => m.next < srv.next /\ Copied(m, srv))
    <3>1. EndsAtNext(m)
      BY <1>0, <2>2 DEF EndsAtNext
    <3>2. Undisturbed => mirror.next < srv.next /\ Copied(mirror, srv)
      BY <1>0, <2>6 DEF Logs, Mirrored, SameSession
    <3>3. Copied(mirror, srv) => Copied(m, srv)
      BY <2>2 DEF Copied, Holds
    <3> QED  BY <2>2, <3>1, <3>2, <3>3
  <2>8. Fresh(mirror, srv) => Fresh(m, srv)
    BY <2>2 DEF Fresh, Holds
  <2>9. Heard'
    <3>1. AllPending => AllPending'
      BY <1>1, <2>4, <2>6 DEF AllPending, Ahead
    <3>2. (Ahead("list") => Ahead("list")') /\ (Ahead("logs") => Ahead("logs")')
          /\ (Ahead("tail") => Ahead("tail")') /\ (Ahead("more") => Ahead("more")')
      BY <1>1, <2>4, <2>6 DEF Ahead
    <3> QED  BY <1>0, <2>2, <2>5, <2>8, <3>1, <3>2
             DEF Heard, RosterFresh, HealthFresh, LogsFresh, Both, Awaited
  <2>10. Own'
    <3>1. ~Ahead("ack")'
      BY <2>4, <2>6 DEF Ahead
    <3> QED  BY <1>0, <2>2, <2>5, <2>6, <3>1, OwnWorked
  <2>11. "more" \notin ToSet(<<>>)
    BY <2>4
  <2> QED  BY <1>1, <1>4, <2>2, <2>3, <2>4, <2>7, <2>9, <2>10, <2>11, WorkedInv
<1> QED  BY <1>2, <1>3, <1>4

LEMMA AppendedNone ==
  ASSUME NEW m
  PROVE  Appended(m, <<>>) = m
<1> DEFINE s == <<>>
<1>1. s \in Seq(Lines) /\ Len(s) = 0
  OBVIOUS
<1> HIDE DEF s
<1>2. PICK f : f[0] = m /\ Appended(m, s) = f[Len(s)]
  <2>1. \E f : /\ f[0] = m
               /\ \A n \in 1 .. Len(s) : f[n] = AppendLogLine(f[n - 1], s[n])
               /\ Appended(m, s) = f[Len(s)]
    BY <1>1, AppendedIs, Zenon
  <2> QED  BY <2>1, Zenon
<1>3. Appended(m, s) = m
  BY <1>1, <1>2, Zenon
<1> QED  BY <1>3 DEF s

LEMMA NewestNone ==
  ASSUME NEW n \in Nat
  PROVE  Newest(<<>>, n) = <<>>
<1> DEFINE s == <<>>
<1>1. s \in Seq(Lines) /\ Len(s) = 0
  OBVIOUS
<1> HIDE DEF s
<1>2. /\ Newest(s, n) \in Seq(Lines)
      /\ Len(Newest(s, n)) = IF Len(s) > n THEN n ELSE Len(s)
  BY <1>1, NewestIs, Zenon
<1>3. ~(0 > n)
  OBVIOUS
<1>4. Len(Newest(s, n)) = 0
  BY <1>1, <1>2, <1>3, Zenon
<1>5. Newest(s, n) = <<>>
  BY <1>2, <1>4, EmptySeq
<1> QED  BY <1>5 DEF s

\* What a list of services makes of the mirror.
LEMMA ReconciledIs ==
  ASSUME MirrorAssumption, NEW m \in Mirrors, srv \in Services, srv.alive,
         NEW n, n = ReconciledServices(m)
  PROVE  /\ n \in Mirrors /\ n.instance = m.instance /\ n.known /\ n.health = m.health
         /\ n.status = srv.status /\ n.gen = srv.gen
         /\ ~Clears(m) => n.log = m.log /\ n.next = m.next /\ n.clearAfter = m.clearAfter
         /\ Clears(m) => n.log = <<>> /\ n.next = 0 /\ n.clearAfter = 0
<1>1. srv.status \in {0, 1} /\ srv.gen \in Nat
  BY DEF Services
<1> DEFINE Shown(c) == [c EXCEPT !.known = TRUE, !.status = srv.status, !.gen = srv.gen]
<1>2. ASSUME NEW c \in Mirrors
      PROVE  /\ Shown(c) \in Mirrors /\ Shown(c).instance = c.instance /\ Shown(c).known
             /\ Shown(c).health = c.health /\ Shown(c).status = srv.status
             /\ Shown(c).gen = srv.gen /\ Shown(c).log = c.log /\ Shown(c).next = c.next
             /\ Shown(c).clearAfter = c.clearAfter
  BY <1>1 DEF Mirrors
<1>3. CASE ~Clears(m)
  <2>1. n = Shown(m)
    BY <1>3, Zenon DEF ReconciledServices
  <2> HIDE DEF Shown
  <2> QED  BY <1>2, <1>3, <2>1
<1>4. CASE Clears(m)
  <2> DEFINE b == [m EXCEPT !.log = <<>>, !.next = 0]
             a == AppendLogPage(b, <<>>)
             c == [a EXCEPT !.clearAfter = 0]
  <2>1. n = Shown(c)
    BY <1>4, Zenon DEF ReconciledServices, ReplaceLogTail
  <2>2. /\ b \in Mirrors /\ b.log = <<>> /\ b.next = 0
        /\ b.instance = m.instance /\ b.health = m.health
    BY BlankLog DEF Cut
  <2>3. a = [b EXCEPT !.log = Newest(b.log, MirrorTail)]
    <3>1. Len(<<>>) = 0
      OBVIOUS
    <3>2. Appended(b, <<>>) = b
      BY <3>1, AppendedNone
    <3> HIDE DEF b
    <3> QED  BY <3>2 DEF AppendLogPage
  <2>4. Newest(<<>>, MirrorTail) = <<>>
    BY NewestNone DEF MirrorAssumption
  <2> HIDE DEF b
  <2>5. /\ a \in Mirrors /\ a.log = <<>> /\ a.next = 0
        /\ a.instance = m.instance /\ a.health = m.health
    BY <2>2, <2>3, <2>4 DEF Mirrors
  <2> HIDE DEF a
  <2>6. /\ c \in Mirrors /\ c.log = <<>> /\ c.next = 0 /\ c.clearAfter = 0
        /\ c.instance = m.instance /\ c.health = m.health
    BY <2>5 DEF Mirrors
  <2> HIDE DEF c, Shown
  <2> QED  BY <1>2, <1>4, <2>1, <2>6
<1> QED  BY <1>3, <1>4

\* The list of services: the mirror's roster is the session's, and a restart that
\* shows has the old lines dropped.
LEMMA ListServicesInv ==
  ASSUME MirrorAssumption, IInv, NEW which \in {"listAll", "list"}, ListServices(which)
  PROVE  IInv'
<1>0. TypeOK /\ Control /\ Logs /\ Heard /\ Own /\ srv \in Services /\ Numbered(srv)
      /\ mirror \in Mirrors /\ EndsAtNext(mirror)
  BY DEF IInv, TypeOK, Logs
<1>1. todo \in Seq(Ops) /\ todo # <<>> /\ Head(todo) = which /\ Ahead(which)
  BY <1>0, HeadAhead DEF ListServices
<1> DEFINE m == ReconciledServices(mirror)
           hydrates == srv.alive /\ (which = "listAll" \/ ~mirror.known \/ Clears(mirror))
           p == IF hydrates THEN <<"logs", "health">> ELSE <<>>
<1>2. TaskStep(m, p \o Tail(todo))
  BY DEF ListServices
<1>3. /\ mirror' = m
      /\ UNCHANGED <<srv, due, sub, wire, connected, answer, writes, breaks, excused, ownClear>>
  BY <1>2 DEF TaskStep, modelVars, streamVars
<1>4. /\ ToSet(p) \subseteq {"logs", "health"} /\ \A known : Refreshes(p, known)
      /\ hydrates => "logs" \in ToSet(p) /\ "health" \in ToSet(p)
  <2>1. CASE ~hydrates
    <3>1. p = <<>>
      BY <2>1
    <3> HIDE DEF p
    <3> QED  BY <2>1, <3>1 DEF Refreshes, ToSet
  <2>2. CASE hydrates
    <3>1. p = <<"logs", "health">>
      BY <2>2
    <3> HIDE DEF p
    <3>2. p \in Seq(Ops) /\ Len(p) = 2 /\ p[1] = "logs" /\ p[2] = "health"
      BY <3>1 DEF Ops
    <3>3. DOMAIN p = {1, 2}
      BY <3>2, LenProperties
    <3>4. ToSet(p) = {"logs", "health"}
      BY <3>2, <3>3 DEF ToSet
    <3>5. \A i \in DOMAIN p : p[i] \notin {"tail", "more"}
      BY <3>2, <3>3
    <3> QED  BY <3>2, <3>4, <3>5 DEF Refreshes
  <2> QED  BY <2>1, <2>2
<1>5. SameSession
  BY <1>0, <1>1, AtHome
<1>6. Undisturbed => mirror.next < srv.next /\ Copied(mirror, srv)
  BY <1>0, <1>5 DEF Logs, Mirrored, SameSession
<1>7. CASE ~srv.alive
  <2>1. m = Unknown(mirror)
    BY <1>7 DEF ReconciledServices
  <2>2. /\ m \in Mirrors /\ EndsAtNext(m) /\ m.instance = mirror.instance
        /\ ~m.known /\ m.log = <<>> /\ m.next = 0 /\ m.clearAfter = 0 /\ m.gen = 0
        /\ m.next < srv.next /\ Copied(m, srv)
    BY <1>0, <2>1, UnknownIs
  <2> HIDE DEF m, p
  <2>3. /\ ToSet(todo') = ToSet(p) \cup Rest
        /\ Rest \cap {"describe", "tail", "more", "ack"} = {}
    BY <1>0, <1>1, <1>2, <1>4, <2>2, Worked
  <2>4. Heard'
    <3>1. mirror'.known = srv'.alive
      <4>1. m.known = FALSE
        BY <2>2 DEF Mirrors
      <4>2. srv.alive = FALSE
        BY <1>0, <1>7 DEF Services
      <4> QED  BY <1>3, <4>1, <4>2
    <3>2. ~srv'.alive
      BY <1>3, <1>7
    <3> QED  BY <3>1, <3>2 DEF Heard, RosterFresh, HealthFresh, LogsFresh, Both
  <2>5. Own'
    <3>1. ~Ahead("ack")'
      BY <1>4, <2>3 DEF Ahead
    <3> QED  BY <1>0, <1>3, <1>5, <1>7, <2>2, <3>1, OwnWorked
  <2>6. "more" \notin ToSet(p)
    BY <1>4
  <2> QED  BY <1>1, <1>2, <1>4, <2>2, <2>4, <2>5, <2>6, WorkedInv
<1>8. CASE srv.alive
  <2>1. /\ m \in Mirrors /\ m.instance = mirror.instance /\ m.known /\ m.health = mirror.health
        /\ m.status = srv.status /\ m.gen = srv.gen
        /\ ~Clears(mirror) =>
             m.log = mirror.log /\ m.next = mirror.next /\ m.clearAfter = mirror.clearAfter
        /\ Clears(mirror) => m.log = <<>> /\ m.next = 0 /\ m.clearAfter = 0
    BY <1>0, <1>8, ReconciledIs
  <2>2. ~hydrates => which = "list" /\ mirror.known /\ ~Clears(mirror)
    BY <1>8
  <2> HIDE DEF m, p, hydrates
  <2>3. /\ ToSet(todo') = ToSet(p) \cup Rest /\ ToSet(todo) = {which} \cup Rest
        /\ Rest \cap {"describe", "tail", "more", "ack"} = {}
    BY <1>0, <1>1, <1>2, <1>4, <2>1, Worked
  <2>4. EndsAtNext(m) /\ (Undisturbed => m.next < srv.next /\ Copied(m, srv))
    <3>1. CASE ~Clears(mirror)
      <4>1. EndsAtNext(m)
        BY <1>0, <2>1, <3>1 DEF EndsAtNext
      <4>2. Copied(mirror, srv) => Copied(m, srv)
        BY <2>1, <3>1 DEF Copied, Holds
      <4> QED  BY <1>6, <2>1, <3>1, <4>1, <4>2
    <3>2. CASE Clears(mirror)
      <4>1. srv.next \in Nat \ {0} /\ \A q \in Kept(srv) : q \in Nat
        BY <1>0, KeptLines
      <4>2. EndsAtNext(m) /\ m.next < srv.next
        BY <2>1, <3>2, <4>1 DEF EndsAtNext
      <4>3. Copied(m, srv)
        BY <2>1, <3>2, <4>1 DEF Copied
      <4> QED  BY <4>2, <4>3
    <3> QED  BY <3>1, <3>2
  <2>5. Heard'
    <3>1. RosterFresh'
      <4>1. mirror'.known = srv'.alive
        BY <1>0, <1>3, <1>8, <2>1 DEF Mirrors, Services
      <4> QED  BY <1>3, <2>1, <4>1 DEF RosterFresh
    <3>2. CASE hydrates
      <4>1. Ahead("logs")' /\ Ahead("health")'
        BY <1>4, <2>3, <3>2 DEF Ahead
      <4> QED  BY <3>1, <4>1 DEF Heard, HealthFresh, LogsFresh
    <3>3. CASE ~hydrates
      <4>1. AllPending => AllPending'
        BY <1>1, <2>2, <2>3, <3>3 DEF AllPending, Ahead
      <4>2. (Ahead("health") => Ahead("health")') /\ (Ahead("logs") => Ahead("logs")')
            /\ (Ahead("tail") => Ahead("tail")') /\ (Ahead("more") => Ahead("more")')
        BY <2>2, <2>3, <3>3 DEF Ahead
      <4>3. Fresh(mirror, srv) => Fresh(m, srv)
        BY <2>1, <2>2, <3>3 DEF Fresh, Holds
      <4>4. Both
        BY <1>8, <2>2, <3>3 DEF Both
      <4>5. HealthFresh => HealthFresh'
        BY <1>3, <2>1, <4>1, <4>2, <4>4 DEF HealthFresh, Awaited
      <4>6. LogsFresh => LogsFresh'
        BY <1>3, <2>1, <2>2, <3>3, <4>1, <4>2, <4>3, <4>4 DEF LogsFresh, Awaited
      <4> QED  BY <1>0, <1>3, <3>1, <4>5, <4>6 DEF Heard
    <3> QED  BY <3>2, <3>3
  <2>6. Own'
    <3>1. ~Ahead("ack")'
      BY <1>4, <2>3 DEF Ahead
    <3>2. SameSession' /\ answer \in Nat /\ srv.gen \in Nat /\ mirror.clearAfter \in Nat
          /\ mirror.gen \in Nat
      BY <1>0, <1>3, <1>5, <2>1 DEF SameSession, TypeOK, Services, Mirrors
    <3>3. CASE Clears(mirror)
      <4>1. Above(mirror'.log, ownClear.seq)
        BY <1>3, <2>1, <3>3 DEF Above
      <4>2. ASSUME "reuse" \notin excused  PROVE ~(ownClear.asked /\ ownClear.acked)
        BY <1>0, <3>2, <3>3, <4>2 DEF Own, Clears
      <4> QED  BY <1>0, <1>3, <1>5, <2>1, <3>1, <3>2, <3>3, <4>1, <4>2 DEF Own
    <3>4. CASE ~Clears(mirror)
      <4>1. ASSUME "reuse" \notin excused, mirror.clearAfter # 0
            PROVE  srv.gen <= mirror.clearAfter
        BY <1>0, <3>2, <3>4, <4>1 DEF Own, Clears
      <4> QED  BY <1>0, <1>3, <1>5, <2>1, <3>1, <3>2, <3>4, <4>1 DEF Own
    <3> QED  BY <3>3, <3>4
  <2>7. "more" \notin ToSet(p)
    BY <1>4
  <2> QED  BY <1>1, <1>2, <1>4, <2>1, <2>4, <2>5, <2>6, <2>7, WorkedInv
<1> QED  BY <1>7, <1>8

-----------------------------------------------------------------------------
(* Establishing the connection, and the other steps of the client. *)

\* The client's other steps, one lemma for each.
LEMMA EstablishInv ==
  ASSUME IInv, sub = "none", Establish
  PROVE  IInv'
<1>0. TypeOK /\ Control /\ Logs /\ Heard /\ Own
  BY DEF IInv
<1>1. /\ todo = <<>> /\ todo' = Handoff /\ ~connected
      /\ UNCHANGED <<srv, due, sub, wire, mirror, connected, answer, writes, breaks, excused,
                     ownClear>>
  BY DEF Establish, TaskStep, modelVars, streamVars
<1>2. \A o : ~Ahead(o)
  <2>1. DOMAIN <<>> = {}
    OBVIOUS
  <2> QED  BY <1>1, <2>1 DEF Ahead, ToSet
<1>3. TypeOK'
  BY <1>0, <1>1, HandoffIs DEF TypeOK
<1>4. /\ \A o : Ahead(o)' <=> o \in {"describe", "listAll", "subscribe"}
      /\ todo' = Handoff /\ Len(todo') = 4 /\ DOMAIN todo' = 1 .. 4
  BY <1>1, HandoffIs DEF Ahead, ToSet
<1>5. Shaped'
  <2>1. \A i \in DOMAIN todo' :
          /\ todo'[i] = "subscribe" => i = 3
          /\ todo'[i] \notin {"tail", "more"}
    BY <1>1, HandoffIs
  <2>2. todo'[3 + 1] = "listAll"
    BY <1>1, HandoffIs
  <2>3. ~Ahead("ack")'
    BY <1>4
  <2> QED  BY <1>1, <1>4, <2>1, <2>2, <2>3 DEF Shaped
<1>6. Unheard' /\ Elsewhere' /\ Blank'
  <2>1. Ahead("describe")' /\ Ahead("subscribe")'
    BY <1>4
  <2> QED  BY <1>0, <1>1, <2>1 DEF Control, Unheard, Elsewhere, Blank
<1>7. Logs'
  <2>1. ~Ahead("more")'
    BY <1>4
  <2> QED  BY <1>0, <1>1, <2>1 DEF Logs, Mirrored, Undisturbed
<1>8. Heard'
  <2>1. AllPending'
    BY <1>4 DEF AllPending
  <2> QED  BY <2>1 DEF Heard, RosterFresh, HealthFresh, LogsFresh
<1>9. Own'
  <2>1. ~Ahead("ack")'
    BY <1>4
  <2> QED  BY <1>0, <1>1, <2>1 DEF Own, SameSession
<1> QED  BY <1>3, <1>5, <1>6, <1>7, <1>8, <1>9 DEF IInv, Control

LEMMA EstablishedInv ==
  ASSUME IInv, Established
  PROVE  IInv'
<1>0. TypeOK /\ Control /\ Logs /\ Heard /\ Own
  BY DEF IInv
<1>1. /\ ~connected /\ sub # "none" /\ todo = <<>> /\ connected' = TRUE
      /\ UNCHANGED <<srv, due, sub, wire, mirror, todo, answer, writes, breaks, excused,
                     ownClear>>
  BY DEF Established, modelVars, streamVars
<1>2. TypeOK'
  BY <1>0, <1>1 DEF TypeOK
<1>3. Control'
  BY <1>0, <1>1 DEF Control, Shaped, Unheard, Elsewhere, Blank, Ahead
<1>4. Logs'
  BY <1>0, <1>1 DEF Logs, Mirrored, Undisturbed, Ahead
<1>5. Heard'
  BY <1>0, <1>1 DEF Heard, RosterFresh, HealthFresh, LogsFresh, Ahead, Both, Awaited, AllPending
<1>6. Own'
  BY <1>0, <1>1 DEF Own, SameSession, Ahead
<1> QED  BY <1>2, <1>3, <1>4, <1>5, <1>6 DEF IInv

LEMMA NothingAhead ==
  ASSUME todo = <<>>
  PROVE  DOMAIN todo = {} /\ ToSet(todo) = {} /\ \A o : ~Ahead(o)
<1>1. DOMAIN <<>> = {}
  OBVIOUS
<1> QED  BY <1>1 DEF Ahead, ToSet

LEMMA TailIs ==
  ASSUME NEW s \in Seq(Ops), NEW n \in Nat, Len(s) = n + 1
  PROVE  /\ Tail(s) \in Seq(Ops) /\ Len(Tail(s)) = n /\ DOMAIN Tail(s) = 1 .. n
         /\ \A i \in 1 .. n : Tail(s)[i] = s[i + 1]
<1>1. s # <<>>
  <2>1. Len(<<>>) = 0
    OBVIOUS
  <2> QED  BY <2>1
<1> DEFINE t == Tail(s)
<1>2. /\ t \in Seq(Ops) /\ Len(t) = Len(s) - 1
      /\ \A i \in 1 .. Len(t) : t[i] = s[i + 1]
  BY <1>1, HeadTailProperties
<1> HIDE DEF t
<1>3. Len(t) = n
  BY <1>2
<1>4. DOMAIN t = 1 .. n
  BY <1>2, <1>3, LenProperties
<1> QED  BY <1>2, <1>3, <1>4 DEF t

LEMMA HandoffTail ==
  ASSUME NEW t, t = Tail(Handoff)
  PROVE  /\ t \in Seq(Ops) /\ Len(t) = 3 /\ DOMAIN t = 1 .. 3
         /\ t[1] = "listAll" /\ t[2] = "subscribe" /\ t[3] = "listAll"
         /\ ToSet(t) = {"listAll", "subscribe"}
<1>1. 3 \in Nat /\ Handoff \in Seq(Ops) /\ Len(Handoff) = 3 + 1
  BY HandoffIs
<1>2. /\ t \in Seq(Ops) /\ Len(t) = 3 /\ DOMAIN t = 1 .. 3
      /\ \A i \in 1 .. 3 : t[i] = Handoff[i + 1]
  BY <1>1, TailIs, Zenon
<1>3. /\ t[1] = "listAll" /\ t[2] = "subscribe" /\ t[3] = "listAll"
  <2>1. t[1] = Handoff[1 + 1] /\ t[2] = Handoff[2 + 1] /\ t[3] = Handoff[3 + 1]
    <3> HIDE DEF Handoff
    <3> QED  BY <1>2
  <2>2. 1 + 1 = 2 /\ 2 + 1 = 3 /\ 3 + 1 = 4
    OBVIOUS
  <2> QED  BY <2>1, <2>2, HandoffIs, Zenon
<1>4. 1 .. 3 = {1, 2, 3}
  OBVIOUS
<1>5. ToSet(t) = {t[1], t[2], t[3]}
  <2>1. ToSet(t) = {t[i] : i \in {1, 2, 3}}
    BY <1>2, <1>4, Zenon DEF ToSet
  <2> QED  BY <2>1, Zenon
<1> QED  BY <1>2, <1>3, <1>5

\* An instance that is new has nothing of the old one's mirror.
LEMMA DescribeInv ==
  ASSUME IInv, Describe
  PROVE  IInv'
<1>0. TypeOK /\ Control /\ Logs /\ Heard /\ Own /\ srv \in Services /\ mirror \in Mirrors
      /\ Numbered(srv) /\ EndsAtNext(mirror)
  BY DEF IInv, TypeOK, Logs
<1>1. todo = Handoff
  <2>1. Ahead("describe")
    BY <1>0, HeadAhead DEF Describe
  <2> QED  BY <1>0, <2>1 DEF Control, Shaped
<1>2. sub = "none" /\ ~connected
  <2>1. 3 \in DOMAIN todo /\ todo[3] = "subscribe"
    BY <1>1, HandoffIs
  <2> QED  BY <1>0, <2>1 DEF Control, Shaped, Unheard
<1> DEFINE m == [(IF mirror.instance = srv.instance THEN mirror ELSE Unknown(mirror))
                   EXCEPT !.instance = srv.instance]
<1>3. TaskStep(m, Tail(todo))
  BY DEF Describe
<1>4. /\ mirror' = m /\ todo' = Tail(Handoff)
      /\ UNCHANGED <<srv, due, sub, wire, connected, answer, writes, breaks, excused, ownClear>>
  BY <1>1, <1>3 DEF TaskStep, modelVars, streamVars
<1>5. SameSession => m = mirror
  <2>1. SameSession => m = [mirror EXCEPT !.instance = mirror.instance]
    BY DEF SameSession
  <2>2. mirror = [mirror EXCEPT !.instance = mirror.instance]
    BY <1>0 DEF Mirrors
  <2> QED  BY <2>1, <2>2, Zenon
<1>6. ~SameSession =>
        /\ m \in Mirrors /\ EndsAtNext(m) /\ m.instance = srv.instance /\ m.log = <<>>
        /\ m.next = 0 /\ m.clearAfter = 0 /\ m.gen = 0
        /\ m.next < srv.next /\ Copied(m, srv)
  <2> SUFFICES ASSUME ~SameSession
               PROVE  /\ m \in Mirrors /\ EndsAtNext(m) /\ m.instance = srv.instance
                      /\ m.log = <<>> /\ m.next = 0 /\ m.clearAfter = 0 /\ m.gen = 0
                      /\ m.next < srv.next /\ Copied(m, srv)
    OBVIOUS
  <2> DEFINE u == Unknown(mirror)
  <2>1. /\ u \in Mirrors /\ u.log = <<>> /\ u.next = 0 /\ u.clearAfter = 0 /\ u.gen = 0
    BY <1>0, UnknownIs
  <2>2. m = [u EXCEPT !.instance = srv.instance]
    BY DEF SameSession
  <2> HIDE DEF u, m
  <2>3. /\ m \in Mirrors /\ m.instance = srv.instance /\ m.log = <<>>
        /\ m.next = 0 /\ m.clearAfter = 0 /\ m.gen = 0
    BY <1>0, <2>1, <2>2 DEF Mirrors, Services
  <2>4. srv.next \in Nat \ {0} /\ \A q \in Kept(srv) : q \in Nat
    BY <1>0, KeptLines
  <2>5. Copied(m, srv)
    BY <2>3, <2>4 DEF Copied
  <2> QED  BY <2>3, <2>4, <2>5 DEF EndsAtNext
<1> HIDE DEF m
<1>7. /\ todo' \in Seq(Ops) /\ Len(todo') = 3 /\ DOMAIN todo' = 1 .. 3
      /\ todo'[1] = "listAll" /\ todo'[2] = "subscribe" /\ todo'[3] = "listAll"
      /\ ToSet(todo') = {"listAll", "subscribe"}
  <2>1. PICK t : t = todo'
    OBVIOUS
  <2>2. t = Tail(Handoff)
    BY <1>4, <2>1
  <2> QED  BY <2>1, <2>2, HandoffTail
<1>8. \A o : Ahead(o)' <=> o \in {"listAll", "subscribe"}
  BY <1>7 DEF Ahead
<1>9. m \in Mirrors /\ EndsAtNext(m) /\ m.instance = srv.instance
  BY <1>0, <1>5, <1>6 DEF SameSession
<1>10. TypeOK'
  BY <1>0, <1>4, <1>7, <1>9 DEF TypeOK
<1>11. Shaped'
  <2>1. ~Ahead("describe")' /\ ~Ahead("ack")'
    BY <1>8
  <2>2. \A i \in DOMAIN todo' :
          /\ todo'[i] = "subscribe" => i = 2
          /\ todo'[i] \notin {"tail", "more"}
    BY <1>7
  <2>3. 2 + 1 = Len(todo') /\ todo'[2 + 1] = "listAll"
    BY <1>7
  <2> QED  BY <1>2, <1>4, <2>1, <2>2, <2>3 DEF Shaped
<1>12. Unheard' /\ Elsewhere' /\ Blank'
  <2>1. Unheard'
    BY <1>2, <1>4, <1>8 DEF Unheard
  <2>2. Elsewhere'
    BY <1>0, <1>4, <1>9 DEF Elsewhere, Services
  <2>3. Blank'
    BY <1>0, <1>4, <1>5, <1>6 DEF Blank, Control
  <2> QED  BY <2>1, <2>2, <2>3
<1>13. Logs'
  <2>1. ~Ahead("more")'
    BY <1>8
  <2>2. Undisturbed => m.next < srv.next /\ Copied(m, srv)
    BY <1>0, <1>5, <1>6 DEF Logs, Mirrored, SameSession
  <2> QED  BY <1>0, <1>4, <1>9, <2>1, <2>2 DEF Logs, Mirrored, Undisturbed
<1>14. Heard'
  <2>1. AllPending'
    BY <1>8 DEF AllPending
  <2> QED  BY <2>1 DEF Heard, RosterFresh, HealthFresh, LogsFresh
<1>15. Own'
  <2>1. ~Ahead("ack")' /\ SameSession'
    BY <1>4, <1>8, <1>9 DEF SameSession
  <2>2. CASE SameSession
    BY <1>0, <1>4, <1>5, <2>1, <2>2 DEF Own
  <2>3. CASE ~SameSession
    <3>1. srv.gen \in Nat /\ answer \in Nat
      BY <1>0 DEF TypeOK, Services
    <3> QED  BY <1>0, <1>4, <1>6, <2>1, <2>3, <3>1 DEF Own
  <2> QED  BY <2>2, <2>3
<1> QED  BY <1>10, <1>11, <1>12, <1>13, <1>14, <1>15 DEF IInv, Control

LEMMA SubscribeInv ==
  ASSUME IInv, Subscribe
  PROVE  IInv'
<1>0. TypeOK /\ Control /\ Logs /\ Heard /\ Own
  BY DEF IInv
<1>1. todo \in Seq(Ops) /\ todo # <<>> /\ Head(todo) = "subscribe"
  BY <1>0, HeadAhead DEF Subscribe
<1>2. /\ sub' = "sent" /\ todo' = Tail(todo)
      /\ UNCHANGED <<srv, due, wire, mirror, connected, answer, writes, breaks, excused, ownClear>>
  BY DEF Subscribe, modelVars
<1>3. Len(todo) = 2 /\ todo[2] = "listAll"
  <2>1. 1 \in DOMAIN todo /\ todo[1] = "subscribe"
    BY <1>1, LenProperties, EmptySeq
  <2>2. 1 + 1 = Len(todo) /\ todo[1 + 1] = "listAll"
    BY <1>0, <2>1 DEF Control, Shaped
  <2> QED  BY <2>2
<1>4. /\ todo' \in Seq(Ops) /\ DOMAIN todo' = {1} /\ todo'[1] = "listAll"
  <2>1. PICK t : t = todo'
    OBVIOUS
  <2>2. 1 \in Nat /\ Len(todo) = 1 + 1
    BY <1>3
  <2>3. t \in Seq(Ops) /\ DOMAIN t = 1 .. 1 /\ \A i \in 1 .. 1 : t[i] = todo[i + 1]
    BY <1>1, <1>2, <2>1, <2>2, TailIs, Zenon
  <2>4. DOMAIN t = {1} /\ t[1] = todo[2]
    BY <2>3
  <2> QED  BY <1>3, <2>1, <2>3, <2>4
<1>5. \A o : Ahead(o)' <=> o = "listAll"
  BY <1>4 DEF Ahead, ToSet
<1>6. SameSession
  BY <1>0, <1>1, AtHome
<1>7. TypeOK'
  BY <1>0, <1>2, <1>4 DEF TypeOK
<1>8. Control'
  <2>1. Shaped'
    BY <1>4, <1>5 DEF Shaped
  <2>2. Unheard' /\ Elsewhere' /\ Blank'
    BY <1>0, <1>2, <1>6 DEF Control, Unheard, Elsewhere, Blank, SameSession
  <2> QED  BY <2>1, <2>2 DEF Control
<1>9. Logs'
  <2>1. ~Ahead("more")'
    BY <1>5
  <2> QED  BY <1>0, <1>2, <2>1 DEF Logs, Mirrored, Undisturbed
<1>10. Heard'
  <2>1. AllPending'
    BY <1>5 DEF AllPending
  <2> QED  BY <2>1 DEF Heard, RosterFresh, HealthFresh, LogsFresh
<1>11. Own'
  <2>1. ~Ahead("ack")'
    BY <1>5
  <2> QED  BY <1>0, <1>2, <2>1 DEF Own, SameSession
<1> QED  BY <1>7, <1>8, <1>9, <1>10, <1>11 DEF IInv

LEMMA ToSetConcat ==
  ASSUME NEW s \in Seq(Ops), NEW t \in Seq(Ops)
  PROVE  s \o t \in Seq(Ops) /\ ToSet(s \o t) = ToSet(s) \cup ToSet(t)
<1> DEFINE u == s \o t
           a == Len(s)
           b == Len(t)
<1>1. a \in Nat /\ b \in Nat /\ DOMAIN s = 1 .. a /\ DOMAIN t = 1 .. b
  BY LenProperties
<1>2. /\ u \in Seq(Ops) /\ Len(u) = a + b
      /\ \A i \in 1 .. a + b : u[i] = IF i <= a THEN s[i] ELSE t[i - a]
  BY ConcatProperties
<1> HIDE DEF u, a, b
<1>3. DOMAIN u = 1 .. a + b
  BY <1>2, LenProperties
<1>4. ASSUME NEW i \in 1 .. a  PROVE i \in 1 .. a + b /\ u[i] = s[i]
  BY <1>1, <1>2
<1>5. ASSUME NEW i \in 1 .. b  PROVE i + a \in 1 .. a + b /\ u[i + a] = t[i]
  <2>1. i + a \in 1 .. a + b /\ ~(i + a <= a) /\ (i + a) - a = i
    BY <1>1
  <2> QED  BY <1>2, <2>1
<1>6. ASSUME NEW i \in 1 .. a + b
      PROVE  \/ i \in 1 .. a /\ u[i] = s[i]
             \/ i - a \in 1 .. b /\ u[i] = t[i - a]
  <2>1. CASE i <= a
    BY <1>1, <1>2, <2>1
  <2>2. CASE ~(i <= a)
    BY <1>1, <1>2, <2>2
  <2> QED  BY <2>1, <2>2
<1>7. ToSet(s) \cup ToSet(t) \subseteq ToSet(u)
  BY <1>1, <1>3, <1>4, <1>5 DEF ToSet
<1>8. ToSet(u) \subseteq ToSet(s) \cup ToSet(t)
  BY <1>1, <1>3, <1>6 DEF ToSet
<1> QED  BY <1>2, <1>7, <1>8 DEF u

LEMMA OneOp ==
  ASSUME NEW o \in Ops
  PROVE  /\ <<o>> \in Seq(Ops) /\ ToSet(<<o>>) = {o} /\ DOMAIN <<o>> = {1} /\ <<o>>[1] = o
         /\ <<>> \in Seq(Ops) /\ ToSet(<<>>) = {}
<1>1. <<o>> \in Seq(Ops) /\ Len(<<o>>) = 1 /\ <<o>>[1] = o
  OBVIOUS
<1>2. DOMAIN <<o>> = 1 .. 1
  BY <1>1, LenProperties
<1>3. DOMAIN <<o>> = {1}
  BY <1>2
<1>4. ToSet(<<o>>) = {o}
  BY <1>1, <1>3 DEF ToSet
<1>5. <<>> \in Seq(Ops) /\ DOMAIN <<>> = {}
  OBVIOUS
<1>6. ToSet(<<>>) = {}
  BY <1>5 DEF ToSet
<1> QED  BY <1>1, <1>3, <1>4, <1>5, <1>6

\* A batch puts the refresh of each of its kinds before the task.
LEMMA ReceiveBatchInv ==
  ASSUME IInv, NEW batch \in SUBSET Kinds, ReceiveBatch(batch)
  PROVE  IInv'
<1>0. TypeOK /\ Control /\ Logs /\ Heard /\ Own
  BY DEF IInv
<1> DEFINE first(kind, o) == IF kind \in batch THEN <<o>> ELSE <<>>
           l == first("roster", "list")
           g == first("logs", "logs")
           h == first("health", "health")
<1>1. /\ connected /\ todo = <<>> /\ wire' = wire \ batch /\ todo' = (l \o g) \o h
      /\ UNCHANGED <<srv, due, sub, mirror, connected, answer, writes, breaks, excused, ownClear>>
  BY DEF ReceiveBatch, modelVars
<1>2. /\ l \in Seq(Ops) /\ ToSet(l) = IF "roster" \in batch THEN {"list"} ELSE {}
      /\ g \in Seq(Ops) /\ ToSet(g) = IF "logs" \in batch THEN {"logs"} ELSE {}
      /\ h \in Seq(Ops) /\ ToSet(h) = IF "health" \in batch THEN {"health"} ELSE {}
  <2>1. ASSUME NEW kind \in Kinds, NEW o \in Ops
        PROVE  /\ first(kind, o) \in Seq(Ops)
               /\ ToSet(first(kind, o)) = IF kind \in batch THEN {o} ELSE {}
    BY OneOp
  <2> HIDE DEF first
  <2> QED  BY <2>1 DEF Kinds, Ops
<1> HIDE DEF l, g, h
<1>3. l \o g \in Seq(Ops) /\ ToSet(l \o g) = ToSet(l) \cup ToSet(g)
  BY <1>2, ToSetConcat
<1>4. todo' \in Seq(Ops) /\ ToSet(todo') = (ToSet(l) \cup ToSet(g)) \cup ToSet(h)
  <2> DEFINE k == l \o g
  <2>1. k \in Seq(Ops) /\ todo' = k \o h /\ ToSet(k) = ToSet(l) \cup ToSet(g)
    BY <1>1, <1>3
  <2> HIDE DEF k
  <2>2. k \o h \in Seq(Ops) /\ ToSet(k \o h) = ToSet(k) \cup ToSet(h)
    BY <1>2, <2>1, ToSetConcat
  <2> QED  BY <2>1, <2>2
<1>5. /\ \A o : Ahead(o)' => o \in {"list", "logs", "health"}
      /\ "roster" \in batch => Ahead("list")'
      /\ "logs" \in batch => Ahead("logs")'
      /\ "health" \in batch => Ahead("health")'
  BY <1>2, <1>4 DEF Ahead
<1>6. \A i \in DOMAIN todo' : todo'[i] \in {"list", "logs", "health"}
  BY <1>5 DEF Ahead, ToSet
<1>7. sub # "none" /\ SameSession /\ \A o : ~Ahead(o)
  BY <1>0, <1>1, NothingAhead DEF Control, Unheard, Elsewhere, SameSession
<1>8. TypeOK'
  BY <1>0, <1>1, <1>4 DEF TypeOK
<1>9. Control'
  <2>1. Shaped'
    BY <1>5, <1>6 DEF Shaped
  <2>2. Unheard' /\ Elsewhere' /\ Blank'
    BY <1>0, <1>1, <1>7 DEF Control, Unheard, Elsewhere, Blank, SameSession
  <2> QED  BY <2>1, <2>2 DEF Control
<1>10. Logs'
  <2>1. ~Ahead("more")'
    BY <1>5
  <2> QED  BY <1>0, <1>1, <2>1 DEF Logs, Mirrored, Undisturbed
<1>11. Heard'
  <2>1. ~AllPending
    BY <1>1, <1>7 DEF AllPending
  <2>2. \A kind : Awaited(kind) => Awaited(kind)' \/ kind \in batch
    BY <1>1 DEF Awaited
  <2> QED  BY <1>0, <1>1, <1>5, <1>7, <2>1, <2>2
           DEF Heard, RosterFresh, HealthFresh, LogsFresh, Both
<1>12. Own'
  <2>1. ~Ahead("ack")'
    BY <1>5
  <2> QED  BY <1>0, <1>1, <2>1 DEF Own, SameSession
<1> QED  BY <1>8, <1>9, <1>10, <1>11, <1>12 DEF IInv

\* A restart is only asked for when no other is under way.
LEMMA RestartOwnInv ==
  ASSUME IInv, RestartOwn
  PROVE  IInv'
<1>0. TypeOK /\ Control /\ Logs /\ Heard /\ Own /\ srv \in Services
  BY DEF IInv, TypeOK
<1>1. /\ connected /\ todo = <<>> /\ srv.alive /\ mirror.known /\ ~srv.clear /\ ~srv.starting
      /\ Changes({"roster"}) /\ srv' = [srv EXCEPT !.clear = TRUE]
      /\ answer' = srv.gen /\ todo' = <<"ack">>
      /\ ownClear' = [ownClear EXCEPT !.asked = TRUE, !.acked = FALSE, !.seq = 0]
      /\ UNCHANGED <<sub, mirror, connected, breaks, excused>>
  BY DEF RestartOwn
<1>2. /\ srv' \in Services /\ srv'.instance = srv.instance /\ srv'.alive = srv.alive
      /\ srv'.status = srv.status /\ srv'.gen = srv.gen /\ srv'.health = srv.health
      /\ srv'.log = srv.log /\ srv'.next = srv.next /\ srv'.clear /\ srv'.starting = srv.starting
      /\ srv.gen \in Nat \ {0}
  BY <1>0, <1>1 DEF Services
<1>3. /\ ownClear' \in [asked : BOOLEAN, acked : BOOLEAN, seq : Nat]
      /\ ownClear'.asked /\ ~ownClear'.acked /\ ownClear'.seq = 0
  BY <1>0, <1>1 DEF TypeOK
<1>4. /\ due' \in SUBSET Kinds /\ wire' \in SUBSET Kinds /\ writes' \in Nat
      /\ due' \cup wire' = due \cup wire \cup {"roster"}
  <2>1. {"roster"} \subseteq Kinds
    BY DEF Kinds
  <2> QED  BY <1>0, <1>1, <2>1, Changed
<1>5. /\ todo' \in Seq(Ops) /\ DOMAIN todo' = {1} /\ todo'[1] = "ack"
      /\ \A o : Ahead(o)' <=> o = "ack"
  <2>1. "ack" \in Ops
    BY DEF Ops
  <2>2. /\ todo' \in Seq(Ops) /\ DOMAIN todo' = {1} /\ todo'[1] = "ack" /\ ToSet(todo') = {"ack"}
    BY <1>1, <2>1, OneOp
  <2> QED  BY <2>2 DEF Ahead
<1>6. sub # "none" /\ SameSession /\ \A o : ~Ahead(o)
  BY <1>0, <1>1, NothingAhead DEF Control, Unheard, Elsewhere, SameSession
<1>7. TypeOK'
  BY <1>0, <1>1, <1>2, <1>3, <1>4, <1>5 DEF TypeOK
<1>8. Control'
  <2>1. Shaped'
    BY <1>1, <1>5 DEF Shaped
  <2>2. Unheard' /\ Elsewhere' /\ Blank'
    BY <1>0, <1>1, <1>2, <1>6 DEF Control, Unheard, Elsewhere, Blank, SameSession
  <2> QED  BY <2>1, <2>2 DEF Control
<1>9. Logs'
  <2>1. ~Ahead("more")'
    BY <1>5
  <2>2. Numbered(srv) => Numbered(srv')
    BY <1>2 DEF Numbered
  <2>3. Copied(mirror, srv) => Copied(mirror, srv')
    BY <1>2 DEF Copied, Kept, Holds, LineAt
  <2> QED  BY <1>0, <1>1, <1>2, <2>1, <2>2, <2>3 DEF Logs, Mirrored, Undisturbed
<1>10. Heard'
  <2>1. ~AllPending
    BY <1>1, <1>6 DEF AllPending
  <2>2. \A kind : Awaited(kind) => Awaited(kind)'
    BY <1>4 DEF Awaited
  <2>3. Awaited("roster")'
    BY <1>4 DEF Awaited
  <2>4. Fresh(mirror, srv) => Fresh(mirror, srv')
    BY <1>2 DEF Fresh, Kept, Holds, LineAt
  <2>5. RosterFresh'
    BY <2>3 DEF RosterFresh
  <2>6. HealthFresh => HealthFresh'
    BY <1>1, <1>2, <1>6, <2>1, <2>2 DEF HealthFresh, Both
  <2>7. LogsFresh => LogsFresh'
    BY <1>1, <1>2, <1>6, <2>1, <2>2, <2>4 DEF LogsFresh, Both
  <2> QED  BY <1>0, <1>1, <2>5, <2>6, <2>7 DEF Heard
<1>11. Own'
  <2>1. SameSession'
    BY <1>1, <1>2, <1>6 DEF SameSession
  <2> QED  BY <1>0, <1>1, <1>2, <1>3, <1>6, <2>1 DEF Own
<1> QED  BY <1>7, <1>8, <1>9, <1>10, <1>11 DEF IInv

\* The answer is marked before anything else is read.
LEMMA AcknowledgedInv ==
  ASSUME IInv, RestartAcknowledged
  PROVE  IInv'
<1>0. TypeOK /\ Control /\ Logs /\ Heard /\ Own /\ mirror \in Mirrors /\ answer \in Nat
  BY DEF IInv, TypeOK
<1>1. /\ mirror' = Marked(mirror, answer) /\ todo' = Tail(todo)
      /\ ownClear' = [ownClear EXCEPT !.acked = TRUE]
      /\ UNCHANGED <<srv, due, sub, wire, connected, answer, writes, breaks, excused>>
  BY DEF RestartAcknowledged, modelVars, streamVars
<1>2. Ahead("ack") /\ todo = <<"ack">>
  <2>1. Ahead("ack")
    BY <1>0, HeadAhead DEF RestartAcknowledged
  <2> QED  BY <1>0, <2>1 DEF Control, Shaped
<1>3. todo' = <<>> /\ \A o : Ahead(o) <=> o = "ack"
  <2>1. Tail(<<"ack">>) = <<>>
    OBVIOUS
  <2>2. ToSet(todo) = {"ack"}
    BY <1>2, OneOp DEF Ops
  <2> QED  BY <1>1, <1>2, <2>1, <2>2 DEF Ahead
<1>4. DOMAIN todo' = {} /\ (\A o : ~Ahead(o)') /\ todo' \in Seq(Ops)
  <2>1. DOMAIN <<>> = {} /\ <<>> \in Seq(Ops)
    OBVIOUS
  <2> QED  BY <1>3, <2>1 DEF Ahead, ToSet
<1>5. SameSession
  <2>1. Head(todo) # "describe" /\ todo # <<>>
    BY <1>2
  <2> QED  BY <1>0, <2>1, AtHome
<1> DEFINE m == Marked(mirror, answer)
<1>6. /\ m \in Mirrors /\ m.instance = mirror.instance /\ m.known = mirror.known
      /\ m.status = mirror.status /\ m.gen = mirror.gen /\ m.health = mirror.health
      /\ m.log = mirror.log /\ m.next = mirror.next
      /\ m.clearAfter =
           IF mirror.known /\ mirror.clearAfter < answer THEN answer ELSE mirror.clearAfter
  <2>1. CASE mirror.known /\ mirror.clearAfter < answer
    <3>1. m = [mirror EXCEPT !.clearAfter = answer]
      BY <2>1 DEF Marked
    <3> HIDE DEF m
    <3> QED  BY <1>0, <2>1, <3>1 DEF Mirrors
  <2>2. CASE ~(mirror.known /\ mirror.clearAfter < answer)
    <3>1. m = mirror
      BY <2>2 DEF Marked
    <3> HIDE DEF m
    <3> QED  BY <1>0, <2>2, <3>1
  <2> QED  BY <2>1, <2>2
<1> HIDE DEF m
<1>7. mirror' = m
  BY <1>1 DEF m
<1>8. /\ ownClear' \in [asked : BOOLEAN, acked : BOOLEAN, seq : Nat]
      /\ ownClear'.asked = ownClear.asked /\ ownClear'.acked /\ ownClear'.seq = ownClear.seq
  BY <1>0, <1>1 DEF TypeOK
<1>9. TypeOK'
  BY <1>0, <1>1, <1>4, <1>6, <1>7, <1>8 DEF TypeOK
<1>10. Control'
  <2>1. Shaped'
    BY <1>4 DEF Shaped
  <2>2. sub # "none"
    <3>1. ~Ahead("subscribe") /\ todo # <<>>
      BY <1>2, <1>3
    <3> QED  BY <1>0, <3>1 DEF Control, Unheard
  <2>3. Unheard' /\ Elsewhere' /\ Blank'
    BY <1>0, <1>1, <1>5, <1>6, <1>7, <2>2 DEF Control, Unheard, Elsewhere, Blank, SameSession
  <2> QED  BY <2>1, <2>3 DEF Control
<1>11. Logs'
  <2>1. ~Ahead("more")'
    BY <1>4
  <2>2. Copied(mirror, srv) => Copied(m, srv)
    BY <1>6 DEF Copied, Holds
  <2>3. EndsAtNext(mirror) => EndsAtNext(m)
    BY <1>6 DEF EndsAtNext
  <2> QED  BY <1>0, <1>1, <1>6, <1>7, <2>1, <2>2, <2>3 DEF Logs, Mirrored, Undisturbed
<1>12. Heard'
  <2>1. ~AllPending
    BY <1>2, <1>3 DEF AllPending
  <2>2. Fresh(mirror, srv) => Fresh(m, srv)
    BY <1>6 DEF Fresh, Holds
  <2>3. RosterFresh => RosterFresh'
    BY <1>1, <1>3, <1>6, <1>7, <2>1 DEF RosterFresh, Awaited
  <2>4. HealthFresh => HealthFresh'
    BY <1>1, <1>3, <1>6, <1>7, <2>1 DEF HealthFresh, Awaited, Both
  <2>5. LogsFresh => LogsFresh'
    BY <1>1, <1>3, <1>6, <1>7, <2>1, <2>2 DEF LogsFresh, Awaited, Both
  <2> QED  BY <1>0, <1>1, <2>3, <2>4, <2>5 DEF Heard
<1>13. Own'
  <2>1. SameSession' /\ mirror.clearAfter \in Nat /\ srv.gen \in Nat /\ mirror.gen \in Nat
    BY <1>0, <1>1, <1>5, <1>6, <1>7 DEF SameSession, Mirrors, TypeOK, Services
  <2>2. "reuse" \notin excused =>
          /\ mirror.known /\ answer # 0 /\ mirror.gen <= answer /\ answer <= srv.gen
          /\ m.clearAfter = answer
    BY <1>0, <1>2, <1>6, <2>1 DEF Own
  <2> QED  BY <1>0, <1>1, <1>4, <1>6, <1>7, <1>8, <2>1, <2>2 DEF Own
<1> QED  BY <1>9, <1>10, <1>11, <1>12, <1>13 DEF IInv

LEMMA RunningIs ==
  ASSUME MirrorAssumption, NEW n \in Nat, NEW s, s = RunningService(n)
  PROVE  /\ s \in Services /\ Numbered(s) /\ s.instance = n /\ s.alive /\ s.status = 0
         /\ s.gen = 1 /\ s.health = 0 /\ s.next = LogMax + 1 /\ Len(s.log) = LogMax
<1> DEFINE log == [k \in 1 .. LogMax |-> Line(k, n)]
<1>1. LogMax \in Nat \ {0}
  BY DEF MirrorAssumption
<1>2. \A k \in 1 .. LogMax : Line(k, n) \in Lines /\ Line(k, n).seq = k
  BY DEF Line, Lines
<1>3. /\ log \in Seq(Lines) /\ Len(log) = LogMax /\ DOMAIN log = 1 .. LogMax
      /\ \A k \in 1 .. LogMax : log[k].seq = k
  BY <1>1, <1>2
<1>4. /\ s.instance = n /\ s.alive = TRUE /\ s.status = 0 /\ s.gen = 1 /\ s.health = 0
      /\ s.log = log /\ s.next = LogMax + 1
  BY DEF RunningService
<1> HIDE DEF log
<1>5. s \in Services
  BY <1>1, <1>3 DEF RunningService, Services, log
<1>6. Numbered(s)
  <2>1. \A i \in 1 .. LogMax : ((LogMax + 1) - LogMax) + i - 1 = i
    BY <1>1
  <2> QED  BY <1>1, <1>3, <1>4, <2>1 DEF Numbered
<1> QED  BY <1>3, <1>4, <1>5, <1>6

\* A lost connection leaves everything to be read again, or another session.
LEMMA BreakInv ==
  ASSUME MirrorAssumption, IInv, NEW anew \in BOOLEAN, Break(anew)
  PROVE  IInv'
<1>0. TypeOK /\ Control /\ Logs /\ Heard /\ Own /\ srv \in Services /\ mirror \in Mirrors
  BY DEF IInv, TypeOK
<1>1. /\ breaks' = breaks + 1
      /\ srv' = IF anew THEN RunningService(srv.instance + 1) ELSE srv
      /\ due' = IF anew THEN {} ELSE due
      /\ sub' = "none" /\ wire' = {} /\ todo' = <<>> /\ connected' = FALSE
      /\ ownClear' = IF anew THEN [asked |-> FALSE, acked |-> FALSE, seq |-> 0] ELSE ownClear
      /\ excused' = excused \ {"gap"}
      /\ UNCHANGED <<mirror, answer, writes>>
  BY DEF Break
<1>2. /\ srv' \in Services /\ Numbered(srv')
      /\ anew => srv'.instance = srv.instance + 1
      /\ ~anew => srv' = srv /\ ownClear' = ownClear
      /\ anew => ownClear' = [asked |-> FALSE, acked |-> FALSE, seq |-> 0]
  <2>1. srv.instance + 1 \in Nat
    BY <1>0 DEF Services
  <2>2. CASE anew
    BY <1>1, <2>1, <2>2, RunningIs
  <2>3. CASE ~anew
    BY <1>0, <1>1, <2>3 DEF Logs
  <2> QED  BY <2>2, <2>3
<1>3. DOMAIN todo' = {} /\ (\A o : ~Ahead(o)') /\ todo' \in Seq(Ops)
  <2>1. DOMAIN <<>> = {} /\ <<>> \in Seq(Ops)
    OBVIOUS
  <2> QED  BY <1>1, <2>1 DEF Ahead, ToSet
<1>4. TypeOK'
  <2>1. ownClear' \in [asked : BOOLEAN, acked : BOOLEAN, seq : Nat]
    BY <1>0, <1>1 DEF TypeOK
  <2>2. due' \in SUBSET Kinds /\ breaks' \in Nat
    BY <1>0, <1>1 DEF TypeOK
  <2> QED  BY <1>0, <1>1, <1>2, <1>3, <2>1, <2>2 DEF TypeOK
<1>5. Control'
  <2>1. Shaped' /\ Unheard' /\ Blank'
    BY <1>0, <1>1, <1>3 DEF Control, Shaped, Unheard, Blank
  <2>2. Elsewhere'
    BY <1>0, <1>1, <1>2 DEF Control, Elsewhere, Services, Mirrors
  <2> QED  BY <2>1, <2>2 DEF Control
<1>6. SameSession' => ~anew /\ SameSession
  BY <1>0, <1>1, <1>2 DEF Control, Elsewhere, SameSession, Services, Mirrors
<1>7. Logs'
  <2>1. ~Ahead("more")'
    BY <1>3
  <2>2. EndsAtNext(mirror')
    BY <1>0, <1>1 DEF Logs
  <2> QED  BY <1>0, <1>1, <1>2, <1>6, <2>1, <2>2 DEF Logs, Mirrored, Undisturbed, SameSession
<1>8. Heard'
  <2>1. AllPending'
    BY <1>1 DEF AllPending
  <2> QED  BY <2>1 DEF Heard, RosterFresh, HealthFresh, LogsFresh
<1>9. Own'
  <2>1. ~Ahead("ack")'
    BY <1>3
  <2>2. CASE ~anew
    BY <1>0, <1>1, <1>2, <1>6, <2>1, <2>2 DEF Own, SameSession
  <2>3. CASE anew
    <3>1. ~SameSession'
      BY <1>6, <2>3
    <3>2. ~ownClear'.asked /\ ~ownClear'.acked /\ ownClear'.seq = 0
      BY <1>2, <2>3
    <3> QED  BY <1>0, <1>1, <2>1, <3>1, <3>2 DEF Own
  <2> QED  BY <2>2, <2>3
<1> QED  BY <1>4, <1>5, <1>7, <1>8, <1>9 DEF IInv

-----------------------------------------------------------------------------
\* The client that has just attached holds the end of the log.
LEMMA EndHeld ==
  ASSUME NEW u \in Services, Numbered(u), u.log # <<>>, MirrorTail \in Nat \ {0},
         NEW m \in Mirrors, m.log = Newest(u.log, MirrorTail), m.next = u.next - 1
  PROVE  EndsAtNext(m) /\ Copied(m, u) /\ Fresh(m, u)
<1> DEFINE s == [u EXCEPT !.log = Newest(u.log, MirrorTail)]
           k == Len(s.log)
<1>1. /\ s.log \in Seq(Lines) /\ s \in Services /\ Numbered(s)
      /\ s.log = Newest(u.log, MirrorTail) /\ s.next = u.next
      /\ s.log = <<>> <=> u.log = <<>>
      /\ Len(s.log) = IF Len(u.log) > MirrorTail THEN MirrorTail ELSE Len(u.log)
      /\ \A q \in Kept(s) : q \in Kept(u) /\ LineAt(s, q) = LineAt(u, q)
  BY Shortened
<1> HIDE DEF s
<1>2. /\ Len(u.log) \in Nat /\ u.next \in Nat \ {0}
      /\ \A q \in Kept(u) : q \in Nat \ {0}
  BY KeptLines
<1>3. k \in Nat \ {0} /\ Len(m.log) = k /\ m.log = s.log /\ k < s.next
  <2>1. k \in Nat /\ k # 0
    BY <1>1, LenProperties, EmptySeq
  <2>2. k < s.next
    BY <1>1 DEF Numbered
  <2> QED  BY <1>1, <2>1, <2>2
<1>4. ASSUME NEW q \in Kept(s)  PROVE q <= m.next /\ Holds(m, u, q)
  <2> DEFINE e == u.next
  <2>1. q \in e - k .. e - 1 /\ e \in Nat /\ m.next = e - 1
    BY <1>1, <1>2 DEF Kept
  <2> HIDE DEF e, k
  <2>2. q <= m.next /\ m.next - q < k /\ k - (m.next - q) = ((q - e) + k) + 1
    BY <1>3, <2>1
  <2>3. LineAt(s, q) = s.log[((q - e) + k) + 1]
    BY <1>1 DEF LineAt, e, k
  <2> QED  BY <1>1, <1>3, <2>2, <2>3 DEF Holds
<1>5. ASSUME NEW q \in Kept(u), q <= m.next, m.next - q < MirrorTail  PROVE q \in Kept(s)
  <2> DEFINE e == u.next
             n == Len(u.log)
  <2>1. q \in e - n .. e - 1 /\ e \in Nat /\ m.next = e - 1 /\ n \in Nat
        /\ k = IF n > MirrorTail THEN MirrorTail ELSE n
    BY <1>1, <1>2 DEF Kept
  <2> HIDE DEF e, k, n
  <2>2. q \in e - k .. e - 1
    BY <1>5, <2>1
  <2> QED  BY <1>1, <2>2 DEF Kept, e, k
<1>6. Copied(m, u)
  BY <1>2, <1>4, <1>5 DEF Copied
<1>7. Fresh(m, u)
  <2>1. m.next \in Nat /\ m.next - m.next < MirrorTail
    BY DEF Mirrors
  <2> QED  BY <1>4, <1>5, <2>1 DEF Fresh
<1>8. EndsAtNext(m)
  <2> DEFINE e == u.next
  <2>1. e \in Nat \ {0} /\ m.next = e - 1 /\ k < e /\ k \in Nat \ {0}
    BY <1>1, <1>2, <1>3
  <2>2. m.log[k].seq = (e - k) + k - 1
    <3>1. k \in DOMAIN s.log
      BY <1>1, <1>3, LenProperties
    <3>2. s.log[k].seq = s.next - k + k - 1
      BY <1>1, <3>1 DEF Numbered
    <3> QED  BY <1>1, <1>3, <3>2
  <2> HIDE DEF e, k
  <2>3. m.log[k].seq = m.next /\ m.next # 0
    BY <2>1, <2>2
  <2>4. m.log # <<>>
    BY <1>1
  <2> QED  BY <1>3, <2>3, <2>4 DEF EndsAtNext, Last
<1> QED  BY <1>6, <1>7, <1>8

LEMMA InitInv ==
  ASSUME MirrorAssumption, MirrorInit
  PROVE  IInv
<1>1. /\ srv = RunningService(1) /\ due = {} /\ sub = "open" /\ wire = {}
      /\ todo = <<>> /\ connected = TRUE /\ answer = 0
      /\ writes = 0 /\ breaks = 0 /\ excused = {}
      /\ mirror.instance = 1 /\ mirror.known = TRUE /\ mirror.status = 0 /\ mirror.gen = 1
      /\ mirror.health = 0 /\ mirror.log = Newest(srv.log, MirrorTail)
      /\ mirror.next = LogMax /\ mirror.clearAfter = 0
      /\ ownClear.asked = FALSE /\ ownClear.acked = FALSE /\ ownClear.seq = 0
  BY DEF MirrorInit
<1>2. LogMax \in Nat \ {0} /\ MirrorTail \in Nat \ {0}
  BY DEF MirrorAssumption
<1>3. /\ srv \in Services /\ Numbered(srv) /\ srv.instance = 1 /\ srv.alive /\ srv.status = 0
      /\ srv.gen = 1 /\ srv.health = 0 /\ srv.next = LogMax + 1 /\ Len(srv.log) = LogMax
  BY <1>1, RunningIs
<1>4. mirror \in Mirrors
  <2>1. srv.log \in Seq(Lines)
    BY <1>3 DEF Services
  <2>2. Newest(srv.log, MirrorTail) \in Seq(Lines)
    BY <1>2, <2>1, NewestIs
  <2> QED  BY <1>2, <2>2 DEF MirrorInit, Mirrors
<1>5. EndsAtNext(mirror) /\ Copied(mirror, srv) /\ Fresh(mirror, srv)
  <2>1. srv.log # <<>>
    <3>1. Len(<<>>) = 0
      OBVIOUS
    <3> QED  BY <1>2, <1>3, <3>1
  <2>2. mirror.next = srv.next - 1
    BY <1>1, <1>2, <1>3
  <2> QED  BY <1>1, <1>2, <1>3, <1>4, <2>1, <2>2, EndHeld
<1>6. DOMAIN todo = {} /\ \A o : ~Ahead(o)
  BY <1>1, NothingAhead
<1>7. TypeOK
  <2>1. ownClear \in [asked : BOOLEAN, acked : BOOLEAN, seq : Nat]
    BY DEF MirrorInit
  <2>2. todo \in Seq(Ops)
    BY <1>1
  <2> QED  BY <1>1, <1>3, <1>4, <2>1, <2>2 DEF TypeOK
<1>8. Control
  BY <1>1, <1>3, <1>6 DEF Control, Shaped, Unheard, Elsewhere, Blank
<1>9. Logs
  <2>1. mirror.next < srv.next
    BY <1>1, <1>2, <1>3
  <2> QED  BY <1>3, <1>5, <1>6, <2>1 DEF Logs, Mirrored
<1>10. Heard
  <2>1. mirror.next = srv.next - 1
    BY <1>1, <1>2, <1>3
  <2>2. mirror.known = srv.alive
    BY <1>1, <1>3 DEF Services
  <2> QED  BY <1>1, <1>3, <1>5, <2>1, <2>2 DEF Heard, RosterFresh, HealthFresh, LogsFresh
<1>11. Own
  BY <1>1, <1>3, <1>6 DEF Own, SameSession
<1> QED  BY <1>7, <1>8, <1>9, <1>10, <1>11 DEF IInv

LEMMA StutterInv ==
  ASSUME IInv, UNCHANGED mirrorVars
  PROVE  IInv'
<1>1. UNCHANGED <<srv, due, sub, wire, mirror, todo, connected, answer, writes, breaks, excused,
                  ownClear>>
  BY DEF mirrorVars, modelVars, streamVars, taskVars
<1>2. TypeOK' /\ Heard'
  BY <1>1 DEF IInv, TypeOK, Heard, RosterFresh, HealthFresh, LogsFresh, AllPending, Ahead, Awaited,
              Both
<1> QED  BY <1>1, <1>2, StreamInv

\* While the session writes, publishes and restarts its service and the client
\* follows it (remote.rs, unix.rs), each part of the mirror agrees with the
\* session or what will have it read again is still there.
THEOREM Invariance ==
  ASSUME MirrorAssumption
  PROVE  MirrorSpec => []IInv
<1>1. MirrorInit => IInv
  BY InitInv
<1>2. IInv /\ [MirrorNext]_mirrorVars => IInv'
  <2> SUFFICES ASSUME IInv, [MirrorNext]_mirrorVars  PROVE IInv'
    OBVIOUS
  <2>1. CASE Session
    BY <2>1, AppendLineInv, ReplaceLineInv, ChangeStatusInv, ChangeHealthInv, RestartByOtherInv,
       StartClearsInv, StartShowsInv, RemoveServiceInv, InsertServiceInv DEF Session
  <2>2. CASE Stream
    BY <2>2, TakeUpInv, PublishInv, LaggedInv DEF Stream
  <2>3. CASE Client
    BY <2>3, EstablishInv, EstablishedInv, DescribeInv, SubscribeInv, ListServicesInv,
       RefreshLogsInv, RetailInv, NextPageInv, RefreshHealthInv, RestartOwnInv, AcknowledgedInv,
       ReceiveBatchInv DEF Client
  <2>4. CASE \E anew \in BOOLEAN : Break(anew)
    BY <2>4, BreakInv
  <2>5. CASE UNCHANGED mirrorVars
    BY <2>5, StutterInv
  <2> QED  BY <2>1, <2>2, <2>3, <2>4, <2>5 DEF MirrorNext
<1> QED  BY <1>1, <1>2, PTL DEF MirrorSpec

\* A copy that is fresh and at the session's end ends with the end of its log.
LEMMA SharedEnd ==
  ASSUME NEW u \in Services, Numbered(u), MirrorTail \in Nat \ {0},
         NEW m \in Mirrors, Copied(m, u), Fresh(m, u), m.next = u.next - 1 \/ u.log = <<>>,
         NEW shared, shared = Newest(u.log, MirrorTail)
  PROVE  Newest(m.log, Len(shared)) = shared
<1> DEFINE s == [u EXCEPT !.log = Newest(u.log, MirrorTail)]
<1>1. /\ s.log \in Seq(Lines) /\ s \in Services /\ Numbered(s)
      /\ s.log = shared /\ s.next = u.next
      /\ s.log = <<>> <=> u.log = <<>>
      /\ Len(s.log) = IF Len(u.log) > MirrorTail THEN MirrorTail ELSE Len(u.log)
      /\ \A q \in Kept(s) : q \in Kept(u) /\ LineAt(s, q) = LineAt(u, q)
  BY Shortened
<1> HIDE DEF s
<1> DEFINE k == Len(shared)
           len == Len(m.log)
           t == Newest(m.log, k)
<1>2. m.log \in Seq(Lines) /\ len \in Nat /\ k \in Nat /\ k <= MirrorTail
  <2>1. m.log \in Seq(Lines)
    BY DEF Mirrors
  <2>2. Len(u.log) \in Nat
    BY KeptLines
  <2> QED  BY <1>1, <2>1, <2>2, LenProperties
<1>3. /\ t \in Seq(Lines) /\ Len(t) = IF len > k THEN k ELSE len
      /\ \A i \in 1 .. Len(t) : t[i] = m.log[i + (len - Len(t))]
  BY <1>2, NewestIs
<1>4. CASE u.log = <<>>
  <2>1. k = 0 /\ shared = <<>>
    BY <1>1, <1>4
  <2>2. Len(t) = 0
    BY <1>2, <1>3, <2>1
  <2> HIDE DEF t, k
  <2>3. t = <<>>
    BY <1>3, <2>2, EmptySeq
  <2> QED  BY <2>1, <2>3 DEF t, k
<1>5. CASE u.log # <<>>
  <2> DEFINE e == u.next
  <2>1. m.next = e - 1 /\ e \in Nat \ {0} /\ s.next = e /\ Len(s.log) = k
    BY <1>1, <1>5, KeptLines
  <2>2. k # 0 /\ k < e
    <3>1. s.log # <<>>
      BY <1>1, <1>5
    <3>2. Len(s.log) # 0 /\ Len(s.log) < s.next
      BY <1>1, <3>1, EmptySeq DEF Numbered
    <3> QED  BY <2>1, <3>2
  <2> HIDE DEF e, k, len, t
  <2>3. ASSUME NEW i \in 1 .. k
        PROVE  k - i < len /\ m.log[len - (k - i)] = shared[i]
    <3> DEFINE q == (e - k) + (i - 1)
    <3>1. /\ q \in e - k .. e - 1 /\ m.next - q = k - i /\ m.next - q < MirrorTail
          /\ q <= m.next /\ ((q - e) + k) + 1 = i /\ q \in Int
      BY <1>2, <2>1, <2>2
    <3> HIDE DEF q
    <3>2. q \in Kept(s)
      BY <2>1, <3>1 DEF Kept
    <3>3. q \in Kept(u) /\ LineAt(u, q) = LineAt(s, q)
      BY <1>1, <3>2
    <3>4. Holds(m, u, q)
      <4>1. CASE q = m.next
        BY <3>3, <4>1 DEF Fresh
      <4>2. CASE q # m.next
        <5>1. q < m.next
          BY <2>1, <3>1, <4>2
        <5> QED  BY <3>1, <3>3, <5>1 DEF Copied
      <4> QED  BY <4>1, <4>2
    <3>5. LineAt(s, q) = shared[i]
      BY <1>1, <2>1, <3>1 DEF LineAt
    <3> QED  BY <3>1, <3>3, <3>4, <3>5 DEF Holds, len
  <2>4. k <= len
    <3>1. 1 \in 1 .. k
      BY <1>2, <2>2
    <3>2. k - 1 < len
      BY <2>3, <3>1
    <3> QED  BY <1>2, <3>2
  <2>5. Len(t) = k
    BY <1>2, <1>3, <2>4
  <2>6. ASSUME NEW i \in 1 .. k  PROVE t[i] = shared[i]
    <3>1. i + (len - k) = len - (k - i)
      BY <1>2
    <3> QED  BY <1>3, <2>3, <2>5, <3>1
  <2>7. t = shared
    BY <1>1, <1>3, <2>1, <2>5, <2>6, SeqEqual
  <2> QED  BY <2>7 DEF t, k
<1> QED  BY <1>4, <1>5

\* In a quiet state nothing will be read again, so everything agrees.
LEMMA FreshFollows ==
  ASSUME MirrorAssumption, IInv
  PROVE  MirrorFresh
<1> SUFFICES ASSUME InSync, excused = {}  PROVE Agrees
  BY DEF MirrorFresh
<1>0. /\ TypeOK /\ Control /\ Logs /\ Heard /\ Own /\ srv \in Services /\ Numbered(srv)
      /\ mirror \in Mirrors /\ answer \in Nat /\ ownClear.seq \in Nat
  BY DEF IInv, TypeOK, Logs
<1>1. connected /\ todo = <<>> /\ sub = "open" /\ due = {} /\ wire = {}
  BY DEF InSync
<1>2. (\A o : ~Ahead(o)) /\ (\A kind : ~Awaited(kind)) /\ ~AllPending
  BY <1>1, NothingAhead DEF Awaited, AllPending
<1>3. SameSession
  BY <1>0, <1>1 DEF Control, Elsewhere, SameSession
<1>4. /\ mirror.known = srv.alive
      /\ srv.alive => mirror.status = srv.status /\ mirror.gen = srv.gen
  BY <1>0, <1>2 DEF Heard, RosterFresh
<1> SUFFICES ASSUME srv.alive
             PROVE  /\ mirror.health = srv.health
                    /\ Newest(mirror.log, Len(Newest(srv.log, MirrorTail)))
                         = Newest(srv.log, MirrorTail)
                    /\ (ownClear.acked /\ ownClear.seq # 0 /\ srv.gen > answer) =>
                         \A l \in ToSet(mirror.log) : l.seq > ownClear.seq
  BY <1>4 DEF Agrees
<1>5. Both
  BY <1>4 DEF Both
<1>6. mirror.health = srv.health
  BY <1>0, <1>2, <1>5 DEF Heard, HealthFresh
<1>7. Newest(mirror.log, Len(Newest(srv.log, MirrorTail))) = Newest(srv.log, MirrorTail)
  <2>1. Fresh(mirror, srv) /\ (mirror.next = srv.next - 1 \/ srv.log = <<>>)
    BY <1>0, <1>2, <1>5 DEF Heard, LogsFresh
  <2>2. Copied(mirror, srv)
    BY <1>0, <1>3 DEF Logs, Mirrored, Undisturbed, SameSession
  <2>3. MirrorTail \in Nat \ {0}
    BY DEF MirrorAssumption
  <2> QED  BY <1>0, <2>1, <2>2, <2>3, SharedEnd
<1>8. ASSUME ownClear.acked, ownClear.seq # 0, srv.gen > answer,
             NEW l \in ToSet(mirror.log)
      PROVE  l.seq > ownClear.seq
  <2>1. mirror.clearAfter = 0
    <3>1. mirror.clearAfter \in Nat /\ mirror.gen \in Nat /\ srv.gen \in Nat
      BY <1>0 DEF Mirrors, Services
    <3>2. mirror.clearAfter # 0 => mirror.gen <= mirror.clearAfter
      BY <1>0, <1>3 DEF Own
    <3>3. mirror.clearAfter <= answer
      BY <1>0 DEF Own
    <3> QED  BY <1>0, <1>4, <1>8, <3>1, <3>2, <3>3
  <2>2. Above(mirror.log, ownClear.seq)
    BY <1>0, <1>8, <2>1 DEF Own
  <2> QED  BY <1>8, <2>2 DEF Above, ToSet
<1> QED  BY <1>6, <1>7, <1>8

\* When every change was published, sent and handled, the mirror is the session's
\* state: status, generation, health, the end of the log up to its last frame,
\* and no line from before a restart that was acknowledged (remote.rs:421,
\* unix.rs:418).
THEOREM MirrorFreshHolds ==
  ASSUME MirrorAssumption
  PROVE  MirrorSpec => []MirrorFresh
<1>1. IInv => MirrorFresh
  BY FreshFollows
<1> QED  BY <1>1, Invariance, PTL
=============================================================================
