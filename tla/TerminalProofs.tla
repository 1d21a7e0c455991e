---------------------------- MODULE TerminalProofs ----------------------------
(***************************************************************************)
(* A process receives what was typed for its service in order and once,    *)
(* for every number of services, runs, places and payloads.                *)
(*                                                                         *)
(* Payloads are numbered as they are typed, so order is order of numbers.  *)
(* What waits is ordered as a whole: the channel before the backlog        *)
(* (`Waiting`), and what a terminal was ever given before both (`Ahead`).  *)
(* Only the latest terminal of a service is given anything (`Latest`),     *)
(* which is why an earlier one has no later payload (`Apart`).             *)
(*                                                                         *)
(* The byte budgets count what exists, for all of them as well: a sum is   *)
(* here the number of the pairs of a holder and one of its bytes, so that  *)
(* sums are compared by bijections and unions of sets.                     *)
(*                                                                         *)
(* And the TUI and the terminals agree about sizes, for every number of    *)
(* services, layout and capacity of the command channel.                   *)
(***************************************************************************)
EXTENDS InputPath, TerminalSize, SequenceTheorems, FiniteSetTheorems, TLAPS

TypeOK ==
  /\ typed \in Nat
  /\ backlog \in Seq(Batches) /\ channel \in Seq(Batches)
  /\ running \in [Services -> Nat] /\ started \in [Services -> Nat]
  /\ queue \in [Terminals -> Seq(Batches)]
  /\ writing \in [Terminals -> Seq(Batches)]
  /\ written \in [Terminals -> Seq(Nat)]

-----------------------------------------------------------------------------
(***************************************************************************)
(* Numbers and batches in order.                                           *)
(***************************************************************************)

Below(A, B) == \A a \in A, b \in B : a < b

Put(ids) == {ids[i] : i \in DOMAIN ids}
Carried(batches) == UNION {Put(batches[i].ids) : i \in DOMAIN batches}

Rising(ids) == \A i, j \in DOMAIN ids : i < j => ids[i] < ids[j]
Sorted(batches) ==
  /\ \A i \in DOMAIN batches : Rising(batches[i].ids)
  /\ \A i, j \in DOMAIN batches :
       i < j => Below(Put(batches[i].ids), Put(batches[j].ids))

\* Appended ids keep their order and come after what was there.
LEMMA IdsConcat ==
  ASSUME NEW a \in Seq(Nat), NEW b \in Seq(Nat)
  PROVE  /\ a \o b \in Seq(Nat)
         /\ Put(a \o b) = Put(a) \cup Put(b)
         /\ Rising(a) /\ Rising(b) /\ Below(Put(a), Put(b)) => Rising(a \o b)
<1>1. /\ a \o b \in Seq(Nat) /\ Len(a \o b) = Len(a) + Len(b)
      /\ \A i \in 1 .. Len(a) + Len(b) :
           (a \o b)[i] = IF i <= Len(a) THEN a[i] ELSE b[i - Len(a)]
  BY ConcatProperties
<1>2. /\ DOMAIN (a \o b) = 1 .. Len(a) + Len(b)
      /\ DOMAIN a = 1 .. Len(a) /\ DOMAIN b = 1 .. Len(b)
      /\ Len(a) \in Nat /\ Len(b) \in Nat
  BY <1>1
<1>3. Put(a \o b) \subseteq Put(a) \cup Put(b)
  <2> SUFFICES ASSUME NEW i \in 1 .. Len(a) + Len(b)
               PROVE  (a \o b)[i] \in Put(a) \cup Put(b)
    BY <1>2 DEF Put
  <2>1. CASE i <= Len(a)
    <3>1. i \in 1 .. Len(a)  BY <2>1, <1>2
    <3>2. (a \o b)[i] = a[i]  BY <2>1, <1>1
    <3> QED BY <1>2, <3>1, <3>2 DEF Put
  <2>2. CASE ~(i <= Len(a))
    <3>1. i - Len(a) \in DOMAIN b /\ (a \o b)[i] = b[i - Len(a)]  BY <2>2, <1>1, <1>2
    <3> QED BY <3>1 DEF Put
  <2> QED BY <2>1, <2>2
<1>4. Put(a) \subseteq Put(a \o b)
  <2> SUFFICES ASSUME NEW i \in 1 .. Len(a) PROVE a[i] \in Put(a \o b)
    BY <1>2 DEF Put
  <2>1. i \in DOMAIN (a \o b) /\ (a \o b)[i] = a[i]  BY <1>1, <1>2
  <2> QED BY <2>1 DEF Put
<1>5. Put(b) \subseteq Put(a \o b)
  <2> SUFFICES ASSUME NEW i \in 1 .. Len(b) PROVE b[i] \in Put(a \o b)
    BY <1>2 DEF Put
  <2>1. i + Len(a) \in DOMAIN (a \o b) /\ (a \o b)[i + Len(a)] = b[i]  BY <1>1, <1>2
  <2> QED BY <2>1 DEF Put
<1>6. ASSUME Rising(a), Rising(b), Below(Put(a), Put(b)),
             NEW i \in DOMAIN (a \o b), NEW j \in DOMAIN (a \o b), i < j
      PROVE  (a \o b)[i] < (a \o b)[j]
  <2>1. CASE j <= Len(a)  BY <2>1, <1>1, <1>2, <1>6 DEF Rising
  <2>2. CASE i > Len(a)
    <3>1. i - Len(a) \in DOMAIN b /\ j - Len(a) \in DOMAIN b /\ i - Len(a) < j - Len(a)
      BY <2>2, <1>2, <1>6
    <3>2. b[i - Len(a)] < b[j - Len(a)]  BY <3>1, <1>6 DEF Rising
    <3> QED BY <2>2, <3>1, <3>2, <1>1, <1>2, <1>6
  <2>3. CASE i <= Len(a) /\ j > Len(a)
    <3>1. i \in DOMAIN a /\ j - Len(a) \in DOMAIN b  BY <2>3, <1>2, <1>6
    <3>2. a[i] < b[j - Len(a)]  BY <3>1, <1>6 DEF Below, Put
    <3> QED BY <2>3, <3>2, <1>1, <1>2, <1>6
  <2> QED BY <2>1, <2>2, <2>3, <1>2, <1>6
<1> QED BY <1>1, <1>3, <1>4, <1>5, <1>6 DEF Rising

LEMMA CarriedNone == Carried(<<>>) = {} /\ Sorted(<<>>)
BY DEF Carried, Sorted

LEMMA CarriedOne ==
  ASSUME NEW b \in Batches
  PROVE  /\ Carried(<<b>>) = Put(b.ids)
         /\ Sorted(<<b>>) <=> Rising(b.ids)
BY DEF Carried, Sorted

\* Batches after batches.
LEMMA BatchesConcat ==
  ASSUME NEW a \in Seq(Batches), NEW b \in Seq(Batches)
  PROVE  /\ a \o b \in Seq(Batches)
         /\ Carried(a \o b) = Carried(a) \cup Carried(b)
         /\ Sorted(a) /\ Sorted(b) /\ Below(Carried(a), Carried(b)) => Sorted(a \o b)
<1>1. /\ a \o b \in Seq(Batches) /\ Len(a \o b) = Len(a) + Len(b)
      /\ \A i \in 1 .. Len(a) + Len(b) :
           (a \o b)[i] = IF i <= Len(a) THEN a[i] ELSE b[i - Len(a)]
  BY ConcatProperties
<1>2. /\ DOMAIN (a \o b) = 1 .. Len(a) + Len(b)
      /\ DOMAIN a = 1 .. Len(a) /\ DOMAIN b = 1 .. Len(b)
      /\ Len(a) \in Nat /\ Len(b) \in Nat
  BY <1>1
<1>3. Carried(a \o b) \subseteq Carried(a) \cup Carried(b)
  <2> SUFFICES ASSUME NEW i \in 1 .. Len(a) + Len(b), NEW n \in Put((a \o b)[i].ids)
               PROVE  n \in Carried(a) \cup Carried(b)
    BY <1>2 DEF Carried
  <2>1. CASE i <= Len(a)  BY <2>1, <1>1, <1>2 DEF Carried
  <2>2. CASE ~(i <= Len(a))
    <3>1. i - Len(a) \in DOMAIN b /\ (a \o b)[i] = b[i - Len(a)]  BY <2>2, <1>1, <1>2
    <3> QED BY <3>1 DEF Carried
  <2> QED BY <2>1, <2>2
<1>4. Carried(a) \subseteq Carried(a \o b)
  <2> SUFFICES ASSUME NEW i \in 1 .. Len(a), NEW n \in Put(a[i].ids)
               PROVE  n \in Carried(a \o b)
    BY <1>2 DEF Carried
  <2>1. i \in DOMAIN (a \o b) /\ (a \o b)[i] = a[i]  BY <1>1, <1>2
  <2> QED BY <2>1 DEF Carried
<1>5. Carried(b) \subseteq Carried(a \o b)
  <2> SUFFICES ASSUME NEW i \in 1 .. Len(b), NEW n \in Put(b[i].ids)
               PROVE  n \in Carried(a \o b)
    BY <1>2 DEF Carried
  <2>1. i + Len(a) \in DOMAIN (a \o b) /\ (a \o b)[i + Len(a)] = b[i]  BY <1>1, <1>2
  <2> QED BY <2>1 DEF Carried
<1>6. ASSUME Sorted(a), Sorted(b), Below(Carried(a), Carried(b))
      PROVE  Sorted(a \o b)
  <2>1. ASSUME NEW i \in DOMAIN (a \o b)
        PROVE  Rising((a \o b)[i].ids)
    <3>1. CASE i <= Len(a)  BY <3>1, <1>1, <1>2, <1>6 DEF Sorted
    <3>2. CASE ~(i <= Len(a))
      <4>1. i - Len(a) \in DOMAIN b /\ (a \o b)[i] = b[i - Len(a)]  BY <3>2, <1>1, <1>2
      <4> QED BY <4>1, <1>6 DEF Sorted
    <3> QED BY <3>1, <3>2
  <2>2. ASSUME NEW i \in DOMAIN (a \o b), NEW j \in DOMAIN (a \o b), i < j
        PROVE  Below(Put((a \o b)[i].ids), Put((a \o b)[j].ids))
    <3>1. CASE j <= Len(a)
      <4>1. i \in DOMAIN a /\ j \in DOMAIN a /\ (a \o b)[i] = a[i] /\ (a \o b)[j] = a[j]
        BY <3>1, <2>2, <1>1, <1>2
      <4> QED BY <4>1, <2>2, <1>6 DEF Sorted
    <3>2. CASE i > Len(a)
      <4>1. /\ i - Len(a) \in DOMAIN b /\ j - Len(a) \in DOMAIN b /\ i - Len(a) < j - Len(a)
            /\ (a \o b)[i] = b[i - Len(a)] /\ (a \o b)[j] = b[j - Len(a)]
        BY <3>2, <2>2, <1>1, <1>2
      <4> QED BY <4>1, <1>6 DEF Sorted
    <3>3. CASE i <= Len(a) /\ j > Len(a)
      <4>1. /\ i \in DOMAIN a /\ j - Len(a) \in DOMAIN b
            /\ (a \o b)[i] = a[i] /\ (a \o b)[j] = b[j - Len(a)]
        BY <3>3, <2>2, <1>1, <1>2
      <4>2. Put(a[i].ids) \subseteq Carried(a) /\ Put(b[j - Len(a)].ids) \subseteq Carried(b)
        BY <4>1 DEF Carried
      <4> QED BY <4>1, <4>2, <1>6 DEF Below
    <3> QED BY <3>1, <3>2, <3>3, <2>2, <1>2
  <2> QED BY <2>1, <2>2 DEF Sorted
<1> QED BY <1>1, <1>3, <1>4, <1>5, <1>6

LEMMA BatchAppend ==
  ASSUME NEW a \in Seq(Batches), NEW b \in Batches
  PROVE  /\ Append(a, b) \in Seq(Batches)
         /\ Carried(Append(a, b)) = Carried(a) \cup Put(b.ids)
         /\ Sorted(a) /\ Rising(b.ids) /\ Below(Carried(a), Put(b.ids)) => Sorted(Append(a, b))
<1>1. Append(a, b) = a \o <<b>> /\ <<b>> \in Seq(Batches)  BY AppendIsConcat
<1> QED BY <1>1, CarriedOne, BatchesConcat

\* A queue cut in two: nothing is lost, and the order stays.
LEMMA Cut ==
  ASSUME NEW a \in Seq(Batches), NEW n \in 0 .. Len(a)
  PROVE  LET front == SubSeq(a, 1, n)
             back == SubSeq(a, n + 1, Len(a))
         IN  /\ front \in Seq(Batches) /\ back \in Seq(Batches)
             /\ Carried(a) = Carried(front) \cup Carried(back)
             /\ Sorted(a) => /\ Sorted(front) /\ Sorted(back)
                             /\ Below(Carried(front), Carried(back))
<1> DEFINE front == SubSeq(a, 1, n)
           back == SubSeq(a, n + 1, Len(a))
<1>1. /\ front \in Seq(Batches) /\ Len(front) = n /\ DOMAIN front = 1 .. n
      /\ \A i \in 1 .. n : front[i] = a[i] /\ i \in DOMAIN a
  <2>1. Len(a) \in Nat /\ DOMAIN a = 1 .. Len(a)  OBVIOUS
  <2> QED BY <2>1, SubSeqProperties
<1>2. /\ back \in Seq(Batches) /\ DOMAIN back = 1 .. Len(a) - n
      /\ \A i \in 1 .. Len(a) - n : back[i] = a[i + n] /\ i + n \in DOMAIN a
  <2>1. Len(a) \in Nat /\ DOMAIN a = 1 .. Len(a)  OBVIOUS
  <2>2. n + 1 \in 1 .. Len(a) + 1  BY <2>1
  <2> QED BY <2>1, <2>2, SubSeqProperties
<1>3. Len(a) \in Nat /\ DOMAIN a = 1 .. Len(a)  OBVIOUS
<1> HIDE DEF front, back
<1>4. Carried(front) \subseteq Carried(a)  BY <1>1 DEF Carried
<1>5. Carried(back) \subseteq Carried(a)
  <2> SUFFICES ASSUME NEW i \in 1 .. Len(a) - n, NEW m \in Put(back[i].ids)
               PROVE  m \in Carried(a)
    BY <1>2 DEF Carried
  <2> QED BY <1>2 DEF Carried
<1>6. Carried(a) \subseteq Carried(front) \cup Carried(back)
  <2> SUFFICES ASSUME NEW i \in DOMAIN a, NEW m \in Put(a[i].ids)
               PROVE  m \in Carried(front) \cup Carried(back)
    BY DEF Carried
  <2>1. CASE i <= n  BY <2>1, <1>1, <1>3 DEF Carried
  <2>2. CASE i > n
    <3>1. i - n \in DOMAIN back /\ back[i - n] = a[i]  BY <2>2, <1>2, <1>3
    <3> QED BY <3>1 DEF Carried
  <2> QED BY <2>1, <2>2, <1>3
<1>7. ASSUME Sorted(a)
      PROVE  Sorted(front) /\ Sorted(back) /\ Below(Carried(front), Carried(back))
  <2>1. Sorted(front)  BY <1>1, <1>7 DEF Sorted
  <2>2. Sorted(back)
    <3>1. \A i \in DOMAIN back : Rising(back[i].ids)  BY <1>2, <1>7 DEF Sorted
    <3>2. ASSUME NEW i \in DOMAIN back, NEW j \in DOMAIN back, i < j
          PROVE  Below(Put(back[i].ids), Put(back[j].ids))
      <4>1. i + n \in DOMAIN a /\ j + n \in DOMAIN a /\ i + n < j + n
        BY <1>2, <1>3, <3>2
      <4> QED BY <4>1, <1>2, <1>7 DEF Sorted
    <3> QED BY <3>1, <3>2 DEF Sorted
  <2>3. ASSUME NEW i \in DOMAIN front, NEW j \in DOMAIN back,
               NEW x \in Put(front[i].ids), NEW y \in Put(back[j].ids)
        PROVE  x < y
    <3>1. /\ i \in DOMAIN a /\ j + n \in DOMAIN a /\ i < j + n
          /\ front[i] = a[i] /\ back[j] = a[j + n]
      BY <1>1, <1>2, <1>3
    <3> QED BY <3>1, <1>7, <2>3 DEF Sorted, Below
  <2> QED BY <2>1, <2>2, <2>3 DEF Below, Carried
<1> QED BY <1>1, <1>2, <1>4, <1>5, <1>6, <1>7 DEF front, back

LEMMA First ==
  ASSUME NEW a \in Seq(Batches), a # <<>>
  PROVE  /\ Head(a) \in Batches /\ Tail(a) \in Seq(Batches)
         /\ Carried(a) = Put(Head(a).ids) \cup Carried(Tail(a))
         /\ Sorted(a) => /\ Rising(Head(a).ids) /\ Sorted(Tail(a))
                         /\ Below(Put(Head(a).ids), Carried(Tail(a)))
<1>1. /\ Len(a) \in Nat \ {0} /\ 1 \in 0 .. Len(a)
      /\ Head(a) = a[1] /\ Head(a) \in Batches
      /\ Tail(a) = SubSeq(a, 1 + 1, Len(a))
  BY EmptySeq, HeadTailProperties, TailIsSubSeq
<1>2. SubSeq(a, 1, 1) = <<Head(a)>>
  <2>1. SubSeq(a, 1, 1) = <<a[1]>> \o SubSeq(a, 1 + 1, 1)  BY <1>1, SubSeqRecursiveFirst
  <2>2. SubSeq(a, 1 + 1, 1) = <<>>  BY SubSeqEmpty
  <2>3. <<a[1]>> \in Seq(Batches)  BY <1>1
  <2> QED BY <1>1, <2>1, <2>2, <2>3, ConcatEmptySeq
<1> DEFINE front == SubSeq(a, 1, 1)
           back == SubSeq(a, 1 + 1, Len(a))
<1>3. /\ front \in Seq(Batches) /\ back \in Seq(Batches)
      /\ Carried(a) = Carried(front) \cup Carried(back)
      /\ Sorted(a) => /\ Sorted(front) /\ Sorted(back)
                      /\ Below(Carried(front), Carried(back))
  BY <1>1, Cut
<1>4. front = <<Head(a)>> /\ back = Tail(a)  BY <1>1, <1>2
<1> HIDE DEF front, back
<1> QED BY <1>1, <1>3, <1>4, CarriedOne

LEMMA Numbers ==
  /\ \A ids \in Seq(Nat) : Put(ids) \subseteq Nat
  /\ \A batches \in Seq(Batches) : Carried(batches) \subseteq Nat
<1>1. \A ids \in Seq(Nat) : Put(ids) \subseteq Nat  BY DEF Put
<1>2. ASSUME NEW batches \in Seq(Batches), NEW i \in DOMAIN batches
      PROVE  batches[i].ids \in Seq(Nat)
  <2>1. batches[i] \in Batches  OBVIOUS
  <2> QED BY <2>1 DEF Batches
<1> QED BY <1>1, <1>2 DEF Carried

\* What joins the backlog, merged or not, is its new end.
LEMMA PushPendingOrder ==
  ASSUME backlog \in Seq(Batches), NEW b \in Batches
  PROVE  /\ PushPending(b) \in Seq(Batches)
         /\ Carried(PushPending(b)) = Carried(backlog) \cup Put(b.ids)
         /\ Sorted(backlog) /\ Rising(b.ids) /\ Below(Carried(backlog), Put(b.ids))
              => Sorted(PushPending(b))
<1>1. CASE PushPending(b) = Append(backlog, b)  BY <1>1, BatchAppend
<1>2. CASE /\ b.kind = "input" /\ backlog # <<>> /\ Mergeable(Last(backlog), b)
           /\ PushPending(b) = Append(Front(backlog), Merge(Last(backlog), b))
  <2> DEFINE front == Front(backlog)
             newest == Last(backlog)
             both == Merge(newest, b)
  <2>1. /\ Len(backlog) \in Nat \ {0}
        /\ Len(backlog) - 1 \in 0 .. Len(backlog)
        /\ Len(backlog) \in 1 .. Len(backlog)
        /\ front = SubSeq(backlog, 1, Len(backlog) - 1)
        /\ newest = backlog[Len(backlog)] /\ newest \in Batches
    BY <1>2, EmptySeq DEF Front, Last
  <2>2. SubSeq(backlog, (Len(backlog) - 1) + 1, Len(backlog)) = <<newest>>
    <3>1. SubSeq(backlog, Len(backlog), Len(backlog))
            = <<newest>> \o SubSeq(backlog, Len(backlog) + 1, Len(backlog))
      BY <2>1, SubSeqRecursiveFirst
    <3>2. SubSeq(backlog, Len(backlog) + 1, Len(backlog)) = <<>>  BY <2>1, SubSeqEmpty
    <3>3. <<newest>> \in Seq(Batches) /\ (Len(backlog) - 1) + 1 = Len(backlog)  BY <2>1
    <3> QED BY <3>1, <3>2, <3>3, ConcatEmptySeq
  <2>3. /\ front \in Seq(Batches)
        /\ Carried(backlog) = Carried(front) \cup Put(newest.ids)
        /\ Sorted(backlog) => /\ Sorted(front) /\ Rising(newest.ids)
                              /\ Below(Carried(front), Put(newest.ids))
    <3> DEFINE n == Len(backlog) - 1
    <3>1. n \in 0 .. Len(backlog)  BY <2>1
    <3> HIDE DEF n
    <3>2. LET head == SubSeq(backlog, 1, n)
              end == SubSeq(backlog, n + 1, Len(backlog))
          IN  /\ head \in Seq(Batches) /\ end \in Seq(Batches)
              /\ Carried(backlog) = Carried(head) \cup Carried(end)
              /\ Sorted(backlog) => /\ Sorted(head) /\ Sorted(end)
                                    /\ Below(Carried(head), Carried(end))
      BY <3>1, Cut
    <3>3. SubSeq(backlog, 1, n) = front /\ SubSeq(backlog, n + 1, Len(backlog)) = <<newest>>
      BY <2>1, <2>2 DEF n
    <3>4. newest \in Batches  BY <2>1
    <3> HIDE DEF front, newest
    <3> QED BY <3>2, <3>3, <3>4, CarriedOne
  <2>4. both \in Batches /\ both.ids = newest.ids \o b.ids
    <3>1. newest.ids \o b.ids \in Seq(Nat)  BY <2>1, IdsConcat DEF Batches
    <3>2. newest.bytes + b.bytes \in Nat  BY <2>1 DEF Batches
    <3>3. newest \in [service : Services, kind : {"input", "paste"}, bytes : Nat, ids : Seq(Nat)]
      BY <2>1 DEF Batches
    <3> HIDE DEF newest
    <3> QED BY <3>1, <3>2, <3>3 DEF Batches, Merge
  <2>5. newest.ids \in Seq(Nat) /\ b.ids \in Seq(Nat)  BY <2>1 DEF Batches
  <2> HIDE DEF front, newest, both
  <2>6. PushPending(b) = Append(front, both)  BY <1>2 DEF front, newest, both
  <2>7. Put(both.ids) = Put(newest.ids) \cup Put(b.ids)  BY <2>4, <2>5, IdsConcat
  <2>8. ASSUME Sorted(backlog), Rising(b.ids), Below(Carried(backlog), Put(b.ids))
        PROVE  Sorted(PushPending(b))
    <3>1. Rising(both.ids)
      <4>1. Below(Put(newest.ids), Put(b.ids))  BY <2>3, <2>8 DEF Below
      <4> QED BY <4>1, <2>3, <2>4, <2>5, <2>8, IdsConcat
    <3>2. Below(Carried(front), Put(both.ids))  BY <2>3, <2>7, <2>8 DEF Below
    <3> QED BY <2>3, <2>4, <2>6, <2>8, <3>1, <3>2, BatchAppend
  <2>9. /\ Append(front, both) \in Seq(Batches)
        /\ Carried(Append(front, both)) = Carried(front) \cup Put(both.ids)
    BY <2>3, <2>4, BatchAppend
  <2> QED BY <2>3, <2>6, <2>7, <2>8, <2>9
<1> QED BY <1>1, <1>2 DEF PushPending

-----------------------------------------------------------------------------
(***************************************************************************)
(* The invariant.                                                          *)
(***************************************************************************)

\* Whatever the terminal t was ever given and did not lose.
Past(t) == Put(written[t]) \cup Carried(writing[t]) \cup Carried(queue[t])

Ordered(t) ==
  /\ Rising(written[t]) /\ Sorted(writing[t]) /\ Sorted(queue[t])
  /\ Below(Put(written[t]), Carried(writing[t]) \cup Carried(queue[t]))
  /\ Below(Carried(writing[t]), Carried(queue[t]))

Waiting ==
  /\ Sorted(channel) /\ Sorted(backlog)
  /\ Below(Carried(channel), Carried(backlog))
  /\ \A n \in Carried(channel) \cup Carried(backlog) : n <= typed

Ahead ==
  \A t \in Terminals :
    /\ Below(Past(t), Carried(channel) \cup Carried(backlog))
    /\ \A n \in Past(t) : n <= typed

Latest ==
  \A s \in Services :
    /\ running[s] \in {0, started[s]} /\ started[s] <= MaxRuns
    /\ \A n \in 1 .. MaxRuns : n > started[s] => Past(<<s, n>>) = {}

Apart ==
  \A s \in Services : \A n, m \in 1 .. MaxRuns :
    n < m => Below(Past(<<s, n>>), Past(<<s, m>>))

IInv ==
  /\ TypeOK /\ Waiting /\ Ahead /\ Latest /\ Apart
  /\ \A t \in Terminals : Ordered(t)

LEMMA Initially == InputPathAssumption /\ InputInit => IInv
<1> SUFFICES ASSUME InputPathAssumption, InputInit PROVE IInv
  OBVIOUS
<1>1. TypeOK  BY DEF InputInit, TypeOK
<1>2. Put(<<>>) = {} /\ Rising(<<>>)  BY DEF Put, Rising
<1>3. \A t \in Terminals : Past(t) = {}  BY <1>2, CarriedNone DEF InputInit, Past
<1>4. \A s \in Services, n \in 1 .. MaxRuns : <<s, n>> \in Terminals  BY DEF Terminals
<1>5. Waiting  BY CarriedNone DEF InputInit, Waiting, Below
<1>6. Ahead /\ Apart  BY <1>3, <1>4 DEF Ahead, Apart, Below
<1>7. Latest  BY <1>3, <1>4 DEF InputInit, Latest, InputPathAssumption
<1>8. \A t \in Terminals : Ordered(t)
  BY <1>2, CarriedNone DEF InputInit, Ordered, Below
<1> QED BY <1>1, <1>5, <1>6, <1>7, <1>8 DEF IInv

-----------------------------------------------------------------------------
(***************************************************************************)
(* Steps.                                                                  *)
(***************************************************************************)

terminalVars == <<queue, writing, written>>

\* What waits stays in order and nothing in it is older than what waited.
LEMMA WaitingStep ==
  ASSUME IInv, UNCHANGED <<runVars, terminalVars>>,
         typed' \in Nat, typed' >= typed,
         backlog' \in Seq(Batches), channel' \in Seq(Batches), Waiting',
         \A x \in Carried(channel') \cup Carried(backlog') :
           x \in Carried(channel) \cup Carried(backlog) \/ x > typed
  PROVE  IInv'
<1>1. TypeOK'  BY DEF IInv, TypeOK, runVars, terminalVars
<1>2. /\ \A t \in Terminals : Past(t)' = Past(t) /\ (Ordered(t) => Ordered(t)')
      /\ \A t \in Terminals : Past(t) \subseteq Nat
  <2>1. \A t \in Terminals : Past(t)' = Past(t)  BY DEF terminalVars, Past
  <2>2. \A t \in Terminals : Ordered(t)' <=> Ordered(t)  BY DEF terminalVars, Ordered
  <2>3. \A t \in Terminals : Past(t) \subseteq Nat
    BY Numbers DEF IInv, TypeOK, Past
  <2> QED BY <2>1, <2>2, <2>3
<1>3. Ahead'
  <2> SUFFICES ASSUME NEW t \in Terminals, NEW a \in Past(t)
               PROVE  /\ \A x \in Carried(channel') \cup Carried(backlog') : a < x
                      /\ a <= typed'
    BY <1>2 DEF Ahead, Below
  <2>1. a \in Nat /\ a <= typed /\ \A x \in Carried(channel) \cup Carried(backlog) : a < x
    BY <1>2 DEF IInv, Ahead, Below
  <2>2. Carried(channel') \cup Carried(backlog') \subseteq Nat  BY Numbers
  <2> QED BY <2>1, <2>2 DEF IInv, TypeOK
<1>4. Latest' /\ Apart'
  <2>1. \A s \in Services, n \in 1 .. MaxRuns : <<s, n>> \in Terminals  BY DEF Terminals
  <2> QED BY <2>1, <1>2 DEF IInv, Latest, Apart, runVars
<1> QED BY <1>1, <1>2, <1>3, <1>4 DEF IInv

LEMMA TypeStep ==
  ASSUME InputPathAssumption, IInv,
         NEW s \in Services, NEW kind \in DOMAIN Sizes, NEW bytes \in Sizes[kind],
         Type(s, kind, bytes)
  PROVE  IInv'
<1> DEFINE b == [service |-> s, kind |-> kind, bytes |-> bytes, ids |-> <<typed + 1>>]
<1>1. typed \in Nat /\ typed' = typed + 1 /\ backlog \in Seq(Batches) /\ channel \in Seq(Batches)
  BY DEF IInv, TypeOK, Type
<1>2. b \in Batches /\ b.ids \in Seq(Nat) /\ Put(b.ids) = {typed + 1} /\ Rising(b.ids)
  <2>1. kind \in {"input", "paste"} /\ bytes \in Nat  BY DEF InputPathAssumption
  <2>2. <<typed + 1>> \in Seq(Nat)  BY <1>1
  <2>3. Put(<<typed + 1>>) = {typed + 1} /\ Rising(<<typed + 1>>)  BY <1>1 DEF Put, Rising
  <2> QED BY <2>1, <2>2, <2>3 DEF Batches
<1>3. UNCHANGED <<runVars, terminalVars>>
  BY DEF Type, writerVars, runVars, terminalVars
<1>4. Carried(channel) \subseteq Nat /\ Carried(backlog) \subseteq Nat  BY <1>1, Numbers
<1>5. \A n \in Carried(channel) \cup Carried(backlog) : n <= typed /\ n < typed + 1
  BY <1>1, <1>4 DEF IInv, Waiting
<1> HIDE DEF b
<1>6. CASE UNCHANGED <<channel, backlog>>
  <2>1. Waiting'  BY <1>1, <1>4, <1>5, <1>6 DEF IInv, Waiting
  <2> QED BY <1>1, <1>3, <1>6, <2>1, WaitingStep
<1>7. CASE channel' = Append(channel, b) /\ backlog = <<>> /\ backlog' = backlog
  <2>1. /\ channel' \in Seq(Batches) /\ Carried(channel') = Carried(channel) \cup {typed + 1}
        /\ Sorted(channel')
    <3>1. Below(Carried(channel), Put(b.ids))  BY <1>2, <1>5 DEF Below
    <3> QED BY <3>1, <1>1, <1>2, <1>7, BatchAppend DEF IInv, Waiting
  <2>2. Carried(backlog') = {} /\ Sorted(backlog')  BY <1>7, CarriedNone
  <2>3. Waiting'  BY <2>1, <2>2, <1>1, <1>4, <1>5 DEF Waiting, Below
  <2> QED BY <1>1, <1>3, <1>7, <2>1, <2>2, <2>3, WaitingStep
<1>8. CASE channel' = channel /\ backlog' = PushPending(b)
  <2>1. /\ backlog' \in Seq(Batches) /\ Carried(backlog') = Carried(backlog) \cup {typed + 1}
        /\ Sorted(backlog')
    <3>1. Below(Carried(backlog), Put(b.ids))  BY <1>2, <1>5 DEF Below
    <3> QED BY <3>1, <1>1, <1>2, <1>8, PushPendingOrder DEF IInv, Waiting
  <2>2. Waiting'  BY <2>1, <1>1, <1>4, <1>5, <1>8 DEF IInv, Waiting, Below
  <2> QED BY <1>1, <1>3, <1>8, <2>1, <2>2, WaitingStep
<1> QED BY <1>6, <1>7, <1>8 DEF Type, SendsNow, b

LEMMA TuiStep ==
  ASSUME InputPathAssumption, IInv, Tui \/ StopListening
  PROVE  IInv'
<1>1. /\ typed \in Nat /\ backlog \in Seq(Batches) /\ channel \in Seq(Batches)
      /\ Carried(channel) \subseteq Nat /\ Carried(backlog) \subseteq Nat
  BY Numbers DEF IInv, TypeOK
<1>2. CASE \E s \in Services, kind \in DOMAIN Sizes : \E bytes \in Sizes[kind] :
             Type(s, kind, bytes)
  BY <1>2, TypeStep
<1>3. CASE \E s \in Services, kind \in DOMAIN Sizes : \E bytes \in Sizes[kind] :
             Refuse(s, bytes)
  <2>1. typed' = typed + 1 /\ UNCHANGED <<channel, backlog, runVars, terminalVars>>
    BY <1>3 DEF Refuse, writerVars, runVars, terminalVars
  <2>2. Waiting'  BY <1>1, <2>1 DEF IInv, Waiting
  <2> QED BY <1>1, <2>1, <2>2, WaitingStep
<1>4. CASE Flush
  <2> DEFINE free == ChannelCapacity - Len(channel)
             n == IF Len(backlog) < free THEN Len(backlog) ELSE free
             front == SubSeq(backlog, 1, n)
             back == SubSeq(backlog, n + 1, Len(backlog))
  <2>1. /\ channel' = channel \o front /\ backlog' = back
        /\ typed' = typed /\ UNCHANGED <<runVars, terminalVars>>
    BY <1>4 DEF Flush, writerVars, runVars, terminalVars
  <2>2. n \in 0 .. Len(backlog)
    <3>1. ChannelCapacity \in Nat  BY DEF InputPathAssumption
    <3>2. Len(channel) \in Nat /\ Len(backlog) \in Nat  BY <1>1
    <3>3. Len(channel) < ChannelCapacity  BY <1>4 DEF Flush, Room
    <3> QED BY <3>1, <3>2, <3>3
  <2> HIDE DEF n
  <2>3. /\ front \in Seq(Batches) /\ back \in Seq(Batches)
        /\ Carried(backlog) = Carried(front) \cup Carried(back)
        /\ Sorted(front) /\ Sorted(back) /\ Below(Carried(front), Carried(back))
    BY <1>1, <2>2, Cut DEF IInv, Waiting
  <2> HIDE DEF front, back
  <2>4. Below(Carried(channel), Carried(front))  BY <2>3 DEF IInv, Waiting, Below
  <2>5. /\ channel' \in Seq(Batches) /\ Sorted(channel')
        /\ Carried(channel') = Carried(channel) \cup Carried(front)
    BY <1>1, <2>1, <2>3, <2>4, BatchesConcat DEF IInv, Waiting
  <2>6. Waiting'  BY <2>1, <2>3, <2>5 DEF IInv, Waiting, Below
  <2> QED BY <1>1, <2>1, <2>3, <2>5, <2>6, WaitingStep
<1>5. CASE Discard \/ StopListening
  <2>1. /\ typed' = typed /\ UNCHANGED <<runVars, terminalVars>>
        /\ \/ channel' = <<>> /\ backlog' = backlog
           \/ channel' = channel /\ backlog' = <<>>
    BY <1>5 DEF Discard, StopListening, writerVars, runVars, terminalVars
  <2>2. Waiting'  BY <2>1, CarriedNone DEF IInv, Waiting, Below
  <2>3. backlog' \in Seq(Batches) /\ channel' \in Seq(Batches)
    <3>1. <<>> \in Seq(Batches)  OBVIOUS
    <3> QED BY <1>1, <2>1, <3>1
  <2>4. Carried(channel') \cup Carried(backlog') \subseteq Carried(channel) \cup Carried(backlog)
    BY <2>1, CarriedNone
  <2> QED BY <1>1, <2>1, <2>2, <2>3, <2>4, WaitingStep
<1> QED BY <1>2, <1>3, <1>4, <1>5 DEF Tui

\* One terminal's own steps: it only loses or moves what it was given.
LEMMA WriterStep ==
  ASSUME IInv, NEW t \in Terminals, Writer(t)
  PROVE  IInv'
<1> DEFINE q == queue[t]
           w == writing[t]
           d == written[t]
<1>1. /\ q \in Seq(Batches) /\ w \in Seq(Batches) /\ d \in Seq(Nat)
      /\ queue \in [Terminals -> Seq(Batches)] /\ writing \in [Terminals -> Seq(Batches)]
      /\ written \in [Terminals -> Seq(Nat)]
      /\ <<>> \in Seq(Batches)
  BY DEF IInv, TypeOK
<1>2. /\ Rising(d) /\ Sorted(w) /\ Sorted(q)
      /\ Below(Put(d), Carried(w) \cup Carried(q)) /\ Below(Carried(w), Carried(q))
      /\ Past(t) = Put(d) \cup Carried(w) \cup Carried(q)
  BY DEF IInv, Ordered, Past
<1> DEFINE Moves(nq, nw, nd) ==
             /\ queue' = [queue EXCEPT ![t] = nq]
             /\ writing' = [writing EXCEPT ![t] = nw]
             /\ written' = [written EXCEPT ![t] = nd]
<1>3. UNCHANGED <<typed, backlog, channel, runVars>>
  BY DEF Writer, Take, Disconnected, Wrote, GaveUp, runVars
<1>4. ASSUME NEW nq \in Seq(Batches), NEW nw \in Seq(Batches), NEW nd \in Seq(Nat),
             Moves(nq, nw, nd),
             Rising(nd), Sorted(nw), Sorted(nq),
             Below(Put(nd), Carried(nw) \cup Carried(nq)), Below(Carried(nw), Carried(nq)),
             Put(nd) \cup Carried(nw) \cup Carried(nq) \subseteq Past(t)
      PROVE  IInv'
  <2>1. TypeOK'  BY <1>1, <1>3, <1>4 DEF IInv, TypeOK, runVars
  <2>2. /\ queue'[t] = nq /\ writing'[t] = nw /\ written'[t] = nd
        /\ \A u \in Terminals : u # t => /\ queue'[u] = queue[u] /\ writing'[u] = writing[u]
                                         /\ written'[u] = written[u]
    BY <1>1, <1>4
  <2>3. \A u \in Terminals : Past(u)' \subseteq Past(u)
    <3>1. Past(t)' \subseteq Past(t)  BY <2>2, <1>4 DEF Past
    <3>2. \A u \in Terminals : u # t => Past(u)' = Past(u)  BY <2>2 DEF Past
    <3> QED BY <3>1, <3>2
  <2>4. \A u \in Terminals : Ordered(u)'
    <3>1. Ordered(t)'  BY <2>2, <1>4 DEF Ordered
    <3>2. \A u \in Terminals : u # t => Ordered(u)'  BY <2>2 DEF IInv, Ordered
    <3> QED BY <3>1, <3>2
  <2>5. Waiting'  BY <1>3 DEF IInv, Waiting
  <2>6. Ahead'  BY <1>3, <2>3 DEF IInv, Ahead, Below
  <2>7. \A s \in Services, n \in 1 .. MaxRuns : <<s, n>> \in Terminals  BY DEF Terminals
  <2>8. Latest'
    <3>1. ASSUME NEW s \in Services, NEW n \in 1 .. MaxRuns, n > started[s]
          PROVE  Past(<<s, n>>)' = {}
      BY <3>1, <2>3, <2>7 DEF IInv, Latest
    <3> QED BY <3>1, <1>3 DEF IInv, Latest, runVars
  <2>9. Apart'  BY <2>3, <2>7 DEF IInv, Apart, Below
  <2> QED BY <2>1, <2>4, <2>5, <2>6, <2>8, <2>9 DEF IInv
<1>5. ASSUME NEW nd \in Seq(Nat), NEW nq \in {q, <<>>}, Moves(nq, <<>>, nd),
             nd = d \/ (w # <<>> /\ nd = d \o Head(w).ids)
      PROVE  IInv'
  <2>1. /\ Sorted(nq) /\ nq \in Seq(Batches) /\ Carried(nq) \subseteq Carried(q)
        /\ Sorted(<<>>) /\ Carried(<<>>) = {}
    BY <1>1, <1>2, <1>5, CarriedNone
  <2>2. /\ Rising(nd) /\ Put(nd) \subseteq Put(d) \cup Carried(w)
    <3>1. CASE nd = d  BY <3>1, <1>2
    <3>2. CASE w # <<>> /\ nd = d \o Head(w).ids
      <4>1. Head(w).ids \in Seq(Nat) /\ Rising(Head(w).ids) /\ Put(Head(w).ids) \subseteq Carried(w)
        BY <3>2, <1>1, <1>2, First DEF Batches
      <4>2. Below(Put(d), Put(Head(w).ids))  BY <4>1, <1>2 DEF Below
      <4> HIDE DEF d, w
      <4> QED BY <4>1, <4>2, <3>2, <1>1, <1>2, IdsConcat
    <3> QED BY <3>1, <3>2, <1>5
  <2>3. Below(Put(nd), Carried(nq))  BY <2>1, <2>2, <1>2 DEF Below
  <2>4. Below(Carried(<<>>), Carried(nq)) /\ Put(nd) \cup Carried(<<>>) \cup Carried(nq) \subseteq Past(t)
    BY <2>1, <2>2, <1>2 DEF Below
  <2>5. Below(Put(nd), Carried(<<>>) \cup Carried(nq))  BY <2>1, <2>3
  <2> HIDE DEF Moves, q, w, d
  <2> QED BY <1>1, <1>4, <1>5, <2>1, <2>2, <2>4, <2>5
<1>6. CASE Take(t) /\ t \notin cancelled
  <2>1. q # <<>> /\ w = <<>> /\ Moves(Tail(q), <<Head(q)>>, d)
    BY <1>1, <1>6 DEF Take
  <2>2. /\ Head(q) \in Batches /\ Tail(q) \in Seq(Batches) /\ <<Head(q)>> \in Seq(Batches)
        /\ Carried(q) = Carried(<<Head(q)>>) \cup Carried(Tail(q))
        /\ Sorted(<<Head(q)>>) /\ Sorted(Tail(q))
        /\ Below(Carried(<<Head(q)>>), Carried(Tail(q)))
    <3> HIDE DEF q
    <3>1. Head(q) \in Batches /\ Tail(q) \in Seq(Batches)  BY <2>1, <1>1, First
    <3>2. <<Head(q)>> \in Seq(Batches)  BY <3>1
    <3> QED BY <2>1, <3>1, <3>2, <1>1, <1>2, First, CarriedOne
  <2>3. /\ Below(Put(d), Carried(<<Head(q)>>) \cup Carried(Tail(q)))
        /\ Put(d) \cup Carried(<<Head(q)>>) \cup Carried(Tail(q)) \subseteq Past(t)
    BY <2>2, <1>2 DEF Below
  <2> HIDE DEF Moves, q, w, d
  <2> QED BY <1>1, <1>2, <1>4, <2>1, <2>2, <2>3
<1>7. CASE Take(t) /\ t \in cancelled
  <2>1. w = <<>> /\ Moves(<<>>, <<>>, d)  BY <1>1, <1>7 DEF Take, Leave
  <2> HIDE DEF Moves, q, w, d
  <2> QED BY <2>1, <1>1, <1>5
<1>8. CASE Disconnected(t)
  <2>1. w = <<>> /\ Moves(<<>>, <<>>, d)  BY <1>1, <1>8 DEF Disconnected, Leave
  <2> HIDE DEF Moves, q, w, d
  <2> QED BY <2>1, <1>1, <1>5
<1>9. CASE Wrote(t)
  <2>1. w # <<>> /\ \E nq \in {q, <<>>} : Moves(nq, <<>>, d \o Head(w).ids)
    BY <1>1, <1>9 DEF Wrote, Finish, Leave
  <2>2. d \o Head(w).ids \in Seq(Nat)
    <3>1. Head(w).ids \in Seq(Nat)  BY <2>1, <1>1, First DEF Batches
    <3> QED BY <3>1, <1>1, IdsConcat
  <2> HIDE DEF Moves, q, w, d
  <2> QED BY <2>1, <2>2, <1>5
<1>10. CASE GaveUp(t)
  <2>1. \E nq \in {q, <<>>} : Moves(nq, <<>>, d)
    BY <1>1, <1>10 DEF GaveUp, Finish, Leave
  <2> HIDE DEF Moves, q, w, d
  <2> QED BY <2>1, <1>1, <1>5
<1> QED BY <1>6, <1>7, <1>8, <1>9, <1>10 DEF Writer

\* The oldest payload goes to the latest terminal of its service or nowhere.
LEMMA DispatchStep ==
  ASSUME InputPathAssumption, IInv, Dispatch
  PROVE  IInv'
<1>0. PICK b, s, t : b = Head(channel) /\ s = b.service /\ t = <<s, running[s]>>
  OBVIOUS
<1>1. /\ channel \in Seq(Batches) /\ channel # <<>> /\ backlog \in Seq(Batches)
      /\ typed \in Nat /\ queue \in [Terminals -> Seq(Batches)]
      /\ channel' = Tail(channel)
      /\ UNCHANGED <<typed, backlog, runVars, writing, written>>
  BY DEF IInv, TypeOK, Dispatch, runVars
<1>2. /\ b \in Batches /\ s \in Services /\ channel' \in Seq(Batches)
      /\ Carried(channel) = Put(b.ids) \cup Carried(channel')
      /\ Rising(b.ids) /\ Sorted(channel') /\ Below(Put(b.ids), Carried(channel'))
  <2>1. b \in Batches /\ s \in Services  BY <1>0, <1>1, First DEF Batches
  <2> QED BY <2>1, <1>0, <1>1, First DEF IInv, Waiting
<1>3. Waiting'  BY <1>1, <1>2 DEF IInv, Waiting, Below
<1>4. CASE UNCHANGED queue
  <2>1. UNCHANGED terminalVars  BY <1>1, <1>4 DEF terminalVars
  <2> QED BY <1>1, <1>2, <1>3, <2>1, WaitingStep
<1>5. CASE Accepts(s) /\ queue' = [queue EXCEPT ![t] = Append(@, b)]
  <2>1. running[s] = started[s] /\ running[s] \in 1 .. MaxRuns /\ t \in Terminals
    <3>1. running[s] # 0  BY <1>5 DEF Accepts
    <3>2. running[s] = started[s] /\ started[s] <= MaxRuns /\ running[s] \in Nat
      BY <3>1, <1>2 DEF IInv, Latest, TypeOK
    <3>3. MaxRuns \in Nat  BY DEF InputPathAssumption
    <3> QED BY <3>1, <3>2, <3>3, <1>0, <1>2 DEF Terminals
  <2>2. /\ queue'[t] = Append(queue[t], b) /\ queue[t] \in Seq(Batches)
        /\ \A u \in Terminals : u # t => queue'[u] = queue[u]
        /\ queue' \in [Terminals -> Seq(Batches)]
    <3>1. Append(queue[t], b) \in Seq(Batches)  BY <1>1, <1>2, <2>1, BatchAppend
    <3> QED BY <3>1, <1>1, <1>5, <2>1
  <2>3. Carried(queue'[t]) = Carried(queue[t]) \cup Put(b.ids)
    BY <1>2, <2>2, BatchAppend
  <2>4. /\ Past(t)' = Past(t) \cup Put(b.ids)
        /\ \A u \in Terminals : u # t => Past(u)' = Past(u)
    BY <1>1, <2>2, <2>3 DEF Past
  <2>5. \A u \in Terminals : Below(Past(u), Put(b.ids))
    BY <1>2 DEF IInv, Ahead, Below
  <2>6. TypeOK'  BY <1>1, <1>2, <2>2 DEF IInv, TypeOK, runVars
  <2>7. \A u \in Terminals : Ordered(u)'
    <3>1. /\ Rising(written[t]) /\ Sorted(writing[t]) /\ Sorted(queue[t])
          /\ Below(Put(written[t]), Carried(writing[t]) \cup Carried(queue[t]))
          /\ Below(Carried(writing[t]), Carried(queue[t]))
      BY <2>1 DEF IInv, Ordered
    <3>2. /\ Below(Put(written[t]), Put(b.ids)) /\ Below(Carried(writing[t]), Put(b.ids))
          /\ Below(Carried(queue[t]), Put(b.ids))
      BY <2>1, <2>5 DEF Past, Below
    <3>3. Sorted(queue'[t])  BY <1>2, <2>2, <3>1, <3>2, BatchAppend
    <3>4. /\ Below(Put(written[t]), Carried(writing[t]) \cup Carried(queue'[t]))
          /\ Below(Carried(writing[t]), Carried(queue'[t]))
      BY <2>3, <3>1, <3>2 DEF Below
    <3>5. Ordered(t)'  BY <1>1, <3>1, <3>3, <3>4 DEF Ordered
    <3>6. \A u \in Terminals : u # t => Ordered(u)'  BY <1>1, <2>2 DEF IInv, Ordered
    <3> QED BY <3>5, <3>6
  <2>8. Ahead'
    <3> SUFFICES ASSUME NEW u \in Terminals, NEW a \in Past(u)'
                 PROVE  /\ \A x \in Carried(channel') \cup Carried(backlog') : a < x
                        /\ a <= typed'
      BY DEF Ahead, Below
    <3>1. CASE a \in Past(u)  BY <3>1, <1>1, <1>2 DEF IInv, Ahead, Below
    <3>2. CASE a \in Put(b.ids)  BY <3>2, <1>1, <1>2 DEF IInv, Waiting, Below
    <3> QED BY <3>1, <3>2, <2>4
  <2>9. \A v \in Services, n \in 1 .. MaxRuns : <<v, n>> \in Terminals  BY DEF Terminals
  <2>10. Latest'
    <3>1. ASSUME NEW v \in Services, NEW n \in 1 .. MaxRuns, n > started[v]
          PROVE  Past(<<v, n>>)' = {}
      <4>1. <<v, n>> # t
        <5>1. CASE v = s  BY <5>1, <3>1, <2>1, <1>0, <1>2
        <5>2. CASE v # s  BY <5>2, <1>0
        <5> QED BY <5>1, <5>2
      <4> QED BY <4>1, <3>1, <2>4, <2>9 DEF IInv, Latest
    <3> QED BY <3>1, <1>1 DEF IInv, Latest, runVars
  <2>11. Apart'
    <3> SUFFICES ASSUME NEW v \in Services, NEW n \in 1 .. MaxRuns, NEW m \in 1 .. MaxRuns, n < m
                 PROVE  Below(Past(<<v, n>>)', Past(<<v, m>>)')
      BY DEF Apart
    <3>1. Below(Past(<<v, n>>), Past(<<v, m>>))  BY DEF IInv, Apart
    <3>2. CASE t = <<v, m>>
      <4>1. <<v, n>> # t /\ Past(<<v, n>>)' = Past(<<v, n>>)  BY <3>2, <2>4, <2>9
      <4> QED BY <4>1, <3>1, <3>2, <2>4, <2>5, <2>9 DEF Below
    <3>3. CASE t = <<v, n>>
      <4>1. v = s /\ n = started[v]  BY <3>3, <2>1, <1>0
      <4>2. Past(<<v, m>>)' = {}  BY <4>1, <2>10, <1>1 DEF Latest, runVars
      <4> QED BY <4>2 DEF Below
    <3> QED BY <3>1, <3>2, <3>3, <2>4, <2>9
  <2> QED BY <1>3, <2>6, <2>7, <2>8, <2>10, <2>11 DEF IInv
<1> QED BY <1>0, <1>4, <1>5 DEF Dispatch

\* A run that starts or ends; reports and cancellations touch no payload.
LEMMA RunsStep ==
  ASSUME InputPathAssumption, IInv, Runs
  PROVE  IInv'
<1>1. UNCHANGED <<typed, backlog, channel, terminalVars>>
  BY DEF Runs, Start, Exited, ReportDrops, Cancel, writerVars, terminalVars
<1>2. /\ Waiting' /\ Ahead' /\ Apart'
      /\ \A t \in Terminals : Past(t)' = Past(t) /\ Ordered(t)'
  <2>1. Waiting'  BY <1>1 DEF IInv, Waiting
  <2>2. \A t \in Terminals : Past(t)' = Past(t)  BY <1>1 DEF Past, terminalVars
  <2>3. \A t \in Terminals : Ordered(t)'  BY <1>1 DEF IInv, Ordered, terminalVars
  <2>4. Ahead'  BY <1>1, <2>2 DEF IInv, Ahead
  <2>5. \A s \in Services, n \in 1 .. MaxRuns : <<s, n>> \in Terminals  BY DEF Terminals
  <2>6. Apart'  BY <2>2, <2>5 DEF IInv, Apart
  <2> QED BY <2>1, <2>2, <2>3, <2>4, <2>6
<1> DEFINE Kept == /\ running' \in [Services -> Nat] /\ started' \in [Services -> Nat]
                   /\ \A s \in Services : /\ running'[s] \in {0, started'[s]}
                                          /\ started[s] <= started'[s] /\ started'[s] <= MaxRuns
<1>3. Kept
  <2>1. /\ running \in [Services -> Nat] /\ started \in [Services -> Nat] /\ MaxRuns \in Nat
        /\ \A s \in Services : running[s] \in {0, started[s]} /\ started[s] <= MaxRuns
    BY DEF IInv, TypeOK, Latest, InputPathAssumption
  <2>2. CASE UNCHANGED runVars  BY <2>1, <2>2 DEF runVars
  <2>3. ASSUME NEW s \in Services, Start(s)
        PROVE  Kept
    BY <2>1, <2>3 DEF Start
  <2>4. ASSUME NEW s \in Services, Exited(s)
        PROVE  Kept
    BY <2>1, <2>4 DEF Exited
  <2> QED BY <2>2, <2>3, <2>4 DEF Runs, ReportDrops, Cancel
<1>4. TypeOK'  BY <1>1, <1>3 DEF IInv, TypeOK, terminalVars
<1>5. Latest'
  <2>1. \A s \in Services, n \in 1 .. MaxRuns : <<s, n>> \in Terminals  BY DEF Terminals
  <2>2. ASSUME NEW s \in Services, NEW n \in 1 .. MaxRuns, n > started'[s]
        PROVE  Past(<<s, n>>)' = {}
    <3>1. n > started[s]  BY <1>3, <2>2 DEF IInv, TypeOK
    <3> QED BY <3>1, <1>2, <2>1 DEF IInv, Latest
  <2> QED BY <2>2, <1>3 DEF Latest
<1> QED BY <1>2, <1>4, <1>5 DEF IInv

LEMMA Inductive == InputPathAssumption /\ IInv /\ [InputNext]_inputVars => IInv'
<1> SUFFICES ASSUME InputPathAssumption, IInv, [InputNext]_inputVars PROVE IInv'
  OBVIOUS
<1>1. CASE UNCHANGED inputVars
  <2>1. /\ UNCHANGED <<runVars, terminalVars>> /\ typed' = typed
        /\ channel' = channel /\ backlog' = backlog
    BY <1>1 DEF inputVars, runVars, writerVars, terminalVars
  <2>2. Waiting'  BY <2>1 DEF IInv, Waiting
  <2>3. typed \in Nat /\ channel \in Seq(Batches) /\ backlog \in Seq(Batches)
    BY DEF IInv, TypeOK
  <2> QED BY <2>1, <2>2, <2>3, WaitingStep
<1> QED BY <1>1, TuiStep, DispatchStep, RunsStep, WriterStep DEF InputNext

-----------------------------------------------------------------------------
(***************************************************************************)
(* Theorems.                                                               *)
(***************************************************************************)

\* Everything typed that still exists is in order along its way, and a terminal
\* that is not its service's latest gets nothing new.
THEOREM Invariance ==
  ASSUME InputPathAssumption
  PROVE  InputSpec => []IInv
BY Initially, Inductive, PTL DEF InputSpec

\* What a service's processes read, one run after the other, is a subsequence of
\* what was typed for it, each payload once (lib.rs, scheduler.rs, pty.rs).
THEOREM InputInOrderHolds ==
  ASSUME InputPathAssumption
  PROVE  InputSpec => []InputInOrder
<1>1. IInv => InputInOrder
  <2> SUFFICES ASSUME IInv, NEW s \in Services, NEW n \in 1 .. MaxRuns, NEW m \in 1 .. MaxRuns,
                      NEW i \in DOMAIN written[<<s, n>>], NEW j \in DOMAIN written[<<s, m>>],
                      n < m \/ (n = m /\ i < j)
               PROVE  written[<<s, n>>][i] < written[<<s, m>>][j]
    BY DEF InputInOrder
  <2>1. <<s, n>> \in Terminals /\ <<s, m>> \in Terminals  BY DEF Terminals
  <2>2. CASE n = m /\ i < j  BY <2>1, <2>2 DEF IInv, Ordered, Rising
  <2>3. CASE n < m
    <3>1. Below(Past(<<s, n>>), Past(<<s, m>>))  BY <2>3 DEF IInv, Apart
    <3>2. written[<<s, n>>][i] \in Past(<<s, n>>) /\ written[<<s, m>>][j] \in Past(<<s, m>>)
      BY DEF Past, Put
    <3> QED BY <3>1, <3>2 DEF Below
  <2> QED BY <2>2, <2>3
<1> QED BY <1>1, Invariance, PTL

-----------------------------------------------------------------------------
(***************************************************************************)
(* Sums, as numbers of pairs.                                              *)
(***************************************************************************)

\* Who the pairs are.
LEMMA InPairs ==
  ASSUME NEW D, NEW f \in [D -> Nat]
  PROVE  \A p : p \in Pairs(f) <=> \E x \in D : \E n \in 1 .. f[x] : p = <<x, n>>
BY DEF Pairs

\* There are finitely many, and a sum is a number.
LEMMA PairsFinite ==
  ASSUME NEW D, NEW f \in [D -> Nat], IsFiniteSet(D)
  PROVE  IsFiniteSet(Pairs(f)) /\ Total(f) \in Nat
<1> DEFINE at == [x \in D |-> {x} \X (1 .. f[x])]
           T == {{x} \X (1 .. f[x]) : x \in DOMAIN f}
<1>1. at \in Surjection(D, T)
  BY DEF Surjection
<1>2. IsFiniteSet(T)  BY <1>1, FS_Surjection
<1>3. \A t \in T : IsFiniteSet(t)
  <2> SUFFICES ASSUME NEW x \in D  PROVE IsFiniteSet({x} \X (1 .. f[x]))
    OBVIOUS
  <2>1. IsFiniteSet({x})  BY FS_Singleton
  <2>2. IsFiniteSet(1 .. f[x])  BY FS_Interval
  <2> QED BY <2>1, <2>2, FS_Product
<1>4. IsFiniteSet(UNION T)  BY <1>2, <1>3, FS_UNION
<1> QED BY <1>4, FS_CardinalityType DEF Pairs, Total

\* The pairs of one argument are as many as its value.
LEMMA OnePair ==
  ASSUME NEW x, NEW v \in Nat
  PROVE  IsFiniteSet({x} \X (1 .. v)) /\ Cardinality({x} \X (1 .. v)) = v
<1>1. IsFiniteSet({x}) /\ Cardinality({x}) = 1  BY FS_Singleton
<1>2. IsFiniteSet(1 .. v) /\ Cardinality(1 .. v) = v  BY FS_Interval
<1>3. /\ IsFiniteSet({x} \X (1 .. v))
      /\ Cardinality({x} \X (1 .. v)) = Cardinality({x}) * Cardinality(1 .. v)
  BY <1>1, <1>2, FS_Product
<1> QED BY <1>1, <1>2, <1>3

\* g and h are the two parts of f.
Parted(f, g, h, D, E) ==
  /\ D \cap E = {} /\ f \in [D \cup E -> Nat]
  /\ g \in [D -> Nat] /\ \A x \in D : g[x] = f[x]
  /\ h \in [E -> Nat] /\ \A x \in E : h[x] = f[x]

\* The total over two parts of a domain.
LEMMA TotalOfParts ==
  ASSUME NEW D, NEW E, IsFiniteSet(D), IsFiniteSet(E),
         NEW f, NEW g, NEW h, Parted(f, g, h, D, E)
  PROVE  Total(f) = Total(g) + Total(h)
<1> USE DEF Parted
<1>1. Pairs(f) = Pairs(g) \cup Pairs(h)
  <2>1. Pairs(f) = UNION {{x} \X (1 .. f[x]) : x \in D \cup E}  BY DEF Pairs
  <2>2. Pairs(g) = UNION {{x} \X (1 .. f[x]) : x \in D}  BY DEF Pairs
  <2>3. Pairs(h) = UNION {{x} \X (1 .. f[x]) : x \in E}  BY DEF Pairs
  <2> QED BY <2>1, <2>2, <2>3
<1>2. Pairs(g) \cap Pairs(h) = {}  BY DEF Pairs
<1>3. IsFiniteSet(Pairs(g)) /\ IsFiniteSet(Pairs(h))  BY PairsFinite
<1>4. Cardinality(Pairs(g) \cup Pairs(h))
        = Cardinality(Pairs(g)) + Cardinality(Pairs(h)) - Cardinality({})
  BY <1>2, <1>3, FS_Union
<1>5. Cardinality({}) = 0  BY FS_EmptySet
<1>6. Total(g) \in Nat /\ Total(h) \in Nat  BY PairsFinite
<1> QED BY <1>1, <1>4, <1>5, <1>6 DEF Total

\* The total over one argument.
LEMMA TotalOfOne ==
  ASSUME NEW x, NEW f \in [{x} -> Nat]
  PROVE  Total(f) = f[x]
<1>1. Pairs(f) = {x} \X (1 .. f[x])  BY DEF Pairs
<1> QED BY <1>1, OnePair DEF Total

\* Renamed arguments.
LEMMA TotalRenamed ==
  ASSUME NEW D, NEW E, IsFiniteSet(D), NEW f \in [D -> Nat], NEW g \in [E -> Nat],
         NEW r \in Bijection(D, E), \A x \in D : g[r[x]] = f[x]
  PROVE  Total(g) = Total(f)
<1> DEFINE m == [p \in Pairs(f) |-> <<r[p[1]], p[2]>>]
<1>0. /\ r \in [D -> E] /\ \A x, y \in D : r[x] = r[y] => x = y
      /\ \A e \in E : \E x \in D : r[x] = e
  BY DEF Bijection, Injection, Surjection, IsInjective
<1>1. ASSUME NEW p \in Pairs(f)
      PROVE  /\ p[1] \in D /\ p[2] \in 1 .. f[p[1]] /\ p = <<p[1], p[2]>>
             /\ m[p] = <<r[p[1]], p[2]>> /\ m[p] \in Pairs(g)
  <2>1. PICK x \in D : \E n \in 1 .. f[x] : p = <<x, n>>  BY InPairs
  <2>0. PICK n \in 1 .. f[x] : p = <<x, n>>  BY <2>1
  <2>2. r[x] \in E /\ n \in 1 .. g[r[x]]  BY <1>0
  <2>3. <<r[x], n>> \in Pairs(g)  BY <2>2, InPairs
  <2> QED BY <2>0, <2>3
<1>2. ASSUME NEW p \in Pairs(f), NEW q \in Pairs(f), m[p] = m[q]
      PROVE  p = q
  <2>1. r[p[1]] = r[q[1]] /\ p[2] = q[2]  BY <1>1, <1>2
  <2>2. p[1] = q[1]  BY <2>1, <1>0, <1>1
  <2> QED BY <1>1, <2>1, <2>2
<1>3. ASSUME NEW q \in Pairs(g)
      PROVE  \E p \in Pairs(f) : m[p] = q
  <2>1. PICK e \in E : \E n \in 1 .. g[e] : q = <<e, n>>
    <3>1. g \in [E -> Nat]  OBVIOUS
    <3> QED BY <3>1, InPairs
  <2>0. PICK n \in 1 .. g[e] : q = <<e, n>>  BY <2>1
  <2>2. PICK x \in D : r[x] = e  BY <1>0
  <2>3. <<x, n>> \in Pairs(f)  BY <2>0, <2>2, InPairs
  <2>4. m[<<x, n>>] = <<r[x], n>>  BY <2>3
  <2> QED BY <2>0, <2>2, <2>3, <2>4
<1>4. m \in Bijection(Pairs(f), Pairs(g))
  <2>1. m \in [Pairs(f) -> Pairs(g)]  BY <1>1
  <2> HIDE DEF m
  <2> QED BY <2>1, <1>2, <1>3 DEF Bijection, Injection, Surjection, IsInjective
<1>5. IsFiniteSet(Pairs(f))  BY PairsFinite
<1> HIDE DEF m
<1>6. ExistsBijection(Pairs(f), Pairs(g))  BY <1>4 DEF ExistsBijection
<1> QED BY <1>5, <1>6, FS_Bijection DEF Total

\* f and g differ at x at most.
Changed(f, g, x, D) ==
  f \in [D -> Nat] /\ g \in [D -> Nat] /\ \A y \in D \ {x} : g[y] = f[y]

\* One value changes.
LEMMA TotalChanged ==
  ASSUME NEW D, IsFiniteSet(D), NEW x \in D, NEW f, NEW g, Changed(f, g, x, D)
  PROVE  Total(g) + f[x] = Total(f) + g[x]
<1> USE DEF Changed
<1> DEFINE C == D \ {x}
           rest == [y \in C |-> f[y]]
           old == [y \in {x} |-> f[x]]
           new == [y \in {x} |-> g[x]]
<1>1. IsFiniteSet(C) /\ IsFiniteSet({x})  BY FS_RemoveElement, FS_Singleton, Zenon
<1>2. C \cap {x} = {} /\ D = C \cup {x}  OBVIOUS
<1>3. rest \in [C -> Nat] /\ \A y \in C : rest[y] = f[y] /\ rest[y] = g[y]  OBVIOUS
<1>4. old \in [{x} -> Nat] /\ old[x] = f[x] /\ \A y \in {x} : old[y] = f[y]  OBVIOUS
<1>5. new \in [{x} -> Nat] /\ new[x] = g[x] /\ \A y \in {x} : new[y] = g[y]  OBVIOUS
<1> HIDE DEF C, rest, old, new
<1>6. Total(f) = Total(rest) + Total(old)
  <2>1. Parted(f, rest, old, C, {x})  BY <1>2, <1>3, <1>4 DEF Parted
  <2> QED BY <1>1, <2>1, TotalOfParts
<1>7. Total(g) = Total(rest) + Total(new)
  <2>1. Parted(g, rest, new, C, {x})  BY <1>2, <1>3, <1>5 DEF Parted
  <2> QED BY <1>1, <2>1, TotalOfParts
<1>8. Total(old) = f[x] /\ Total(new) = g[x]  BY <1>4, <1>5, TotalOfOne
<1>9. Total(rest) \in Nat  BY <1>1, <1>3, PairsFinite
<1> QED BY <1>6, <1>7, <1>8, <1>9

\* f is g and then h.
Follows(f, g, h, n, m) ==
  /\ f \in [1 .. n + m -> Nat] /\ g \in [1 .. n -> Nat] /\ h \in [1 .. m -> Nat]
  /\ \A i \in 1 .. n : f[i] = g[i]
  /\ \A i \in 1 .. m : f[i + n] = h[i]

\* The total over two stretches of numbers.
LEMMA TotalOfRuns ==
  ASSUME NEW n \in Nat, NEW m \in Nat, NEW f, NEW g, NEW h, Follows(f, g, h, n, m)
  PROVE  Total(f) = Total(g) + Total(h)
<1> DEFINE C == 1 .. m
           D == 1 .. n
           E == n + 1 .. n + m
           F == 1 .. n + m
           late == [x \in E |-> f[x]]
           shift == [i \in C |-> i + n]
<1>1. IsFiniteSet(C) /\ IsFiniteSet(D) /\ IsFiniteSet(E)
  <2>1. n + 1 \in Int /\ n + m \in Int  OBVIOUS
  <2> QED BY <2>1, FS_Interval
<1>2. F = D \cup E /\ D \cap E = {}  OBVIOUS
<1>3. f \in [F -> Nat] /\ g \in [D -> Nat] /\ \A x \in D : g[x] = f[x]
  BY DEF Follows
<1>4. late \in [E -> Nat] /\ \A x \in E : late[x] = f[x]  BY <1>2, <1>3
<1>5. shift \in Bijection(C, E)
  <2>1. shift \in [C -> E]  OBVIOUS
  <2>2. \A i, j \in C : shift[i] = shift[j] => i = j  OBVIOUS
  <2>3. \A e \in E : e - n \in C /\ shift[e - n] = e  OBVIOUS
  <2> HIDE DEF shift
  <2> QED BY <2>1, <2>2, <2>3 DEF Bijection, Injection, Surjection, IsInjective
<1>6. h \in [C -> Nat] /\ \A i \in C : late[shift[i]] = h[i]
  <2>1. h \in [C -> Nat]  BY DEF Follows
  <2> SUFFICES ASSUME NEW i \in C  PROVE late[shift[i]] = h[i]
    BY <2>1
  <2>2. shift[i] = i + n /\ i + n \in E  OBVIOUS
  <2> QED BY <2>2 DEF Follows
<1> HIDE DEF C, D, E, F, shift, late
<1>8. Total(f) = Total(g) + Total(late)
  <2>1. Parted(f, g, late, D, E)  BY <1>2, <1>3, <1>4 DEF Parted
  <2> QED BY <1>1, <2>1, TotalOfParts
<1>9. late \in [E -> Nat]  BY <1>4
<1>10. Total(late) = Total(h)
  BY <1>1, <1>9, <1>5, <1>6, TotalRenamed
<1> QED BY <1>8, <1>10

-----------------------------------------------------------------------------
(***************************************************************************)
(* Bytes of batches.                                                       *)
(***************************************************************************)

Weight(for, b) == IF b.service \in for THEN b.bytes ELSE 0

\* Each batch counts once.
LEMMA BytesType ==
  ASSUME NEW for, NEW batches \in Seq(Batches)
  PROVE  /\ Weights(for, batches) \in [1 .. Len(batches) -> Nat]
         /\ \A i \in 1 .. Len(batches) : Weights(for, batches)[i] = Weight(for, batches[i])
         /\ IsFiniteSet(1 .. Len(batches)) /\ Bytes(for, batches) \in Nat
<1>1. DOMAIN batches = 1 .. Len(batches) /\ Len(batches) \in Nat  OBVIOUS
<1>2. \A i \in 1 .. Len(batches) : batches[i].bytes \in Nat
  <2>1. \A i \in 1 .. Len(batches) : batches[i] \in Batches  BY <1>1
  <2> QED BY <2>1 DEF Batches
<1>3. Weights(for, batches) \in [1 .. Len(batches) -> Nat]  BY <1>1, <1>2 DEF Weights
<1>4. \A i \in 1 .. Len(batches) : Weights(for, batches)[i] = Weight(for, batches[i])
  BY <1>1 DEF Weights, Weight
<1>5. IsFiniteSet(1 .. Len(batches))  BY <1>1, FS_Interval
<1> QED BY <1>3, <1>4, <1>5, PairsFinite DEF Bytes

LEMMA BytesNone == ASSUME NEW for PROVE Bytes(for, <<>>) = 0
<1>1. Pairs(Weights(for, <<>>)) = {}  BY DEF Pairs, Weights
<1> QED BY <1>1, FS_EmptySet DEF Bytes, Total

LEMMA BytesOne ==
  ASSUME NEW for, NEW b \in Batches
  PROVE  Bytes(for, <<b>>) = Weight(for, b) /\ Weight(for, b) \in Nat
<1> DEFINE one == <<b>>
<1>1. one \in Seq(Batches) /\ 1 .. Len(one) = {1} /\ one[1] = b  OBVIOUS
<1> HIDE DEF one
<1>2. /\ Weights(for, one) \in [1 .. Len(one) -> Nat]
      /\ \A i \in 1 .. Len(one) : Weights(for, one)[i] = Weight(for, one[i])
  BY <1>1, BytesType
<1>3. Weights(for, one) \in [{1} -> Nat] /\ Weights(for, one)[1] = Weight(for, b)
  BY <1>1, <1>2
<1>4. Total(Weights(for, one)) = Weights(for, one)[1]  BY <1>3, TotalOfOne
<1> QED BY <1>3, <1>4 DEF Bytes, one

\* Batches after batches.
LEMMA BytesConcat ==
  ASSUME NEW for, NEW a \in Seq(Batches), NEW b \in Seq(Batches)
  PROVE  Bytes(for, a \o b) = Bytes(for, a) + Bytes(for, b)
<1> DEFINE w == Weights(for, a \o b)
           u == Weights(for, a)
           v == Weights(for, b)
<1>0. PICK n, m \in Nat : n = Len(a) /\ m = Len(b)  OBVIOUS
<1>1. /\ a \o b \in Seq(Batches) /\ Len(a \o b) = n + m
      /\ \A i \in 1 .. n + m : (a \o b)[i] = IF i <= n THEN a[i] ELSE b[i - n]
  BY <1>0, ConcatProperties
<1> HIDE DEF w, u, v
<1>2. /\ w \in [1 .. n + m -> Nat]
      /\ \A i \in 1 .. n + m : w[i] = Weight(for, (a \o b)[i])
  BY <1>1, BytesType DEF w
<1>3. u \in [1 .. n -> Nat] /\ \A i \in 1 .. n : u[i] = Weight(for, a[i])
  BY <1>0, BytesType DEF u
<1>4. v \in [1 .. m -> Nat] /\ \A i \in 1 .. m : v[i] = Weight(for, b[i])
  BY <1>0, BytesType DEF v
<1>5. ASSUME NEW i \in 1 .. n  PROVE w[i] = u[i]
  <2>1. i \in 1 .. n + m /\ (a \o b)[i] = a[i]  BY <1>1
  <2> QED BY <2>1, <1>2, <1>3
<1>6. ASSUME NEW i \in 1 .. m  PROVE w[i + n] = v[i]
  <2>1. i + n \in 1 .. n + m /\ ~(i + n <= n) /\ (i + n) - n = i  OBVIOUS
  <2>2. (a \o b)[i + n] = b[i]  BY <2>1, <1>1
  <2> QED BY <2>1, <2>2, <1>2, <1>4
<1>7. Follows(w, u, v, n, m)  BY <1>2, <1>3, <1>4, <1>5, <1>6 DEF Follows
<1> QED BY <1>7, TotalOfRuns DEF Bytes, w, u, v

LEMMA BytesAppend ==
  ASSUME NEW for, NEW a \in Seq(Batches), NEW b \in Batches
  PROVE  Bytes(for, Append(a, b)) = Bytes(for, a) + Weight(for, b)
<1>1. Append(a, b) = a \o <<b>> /\ <<b>> \in Seq(Batches)  BY AppendIsConcat
<1> QED BY <1>1, BytesOne, BytesConcat

\* A queue cut in two.
LEMMA BytesCut ==
  ASSUME NEW for, NEW a \in Seq(Batches), NEW n \in 0 .. Len(a)
  PROVE  Bytes(for, a) = Bytes(for, SubSeq(a, 1, n)) + Bytes(for, SubSeq(a, n + 1, Len(a)))
<1>1. SubSeq(a, 1, n) \in Seq(Batches) /\ SubSeq(a, n + 1, Len(a)) \in Seq(Batches)
  BY Cut
<1>2. a = SubSeq(a, 1, n) \o SubSeq(a, n + 1, Len(a))
  <2>1. Len(a) \in Nat /\ 1 \in 1 .. Len(a) + 1 /\ n \in 1 - 1 .. Len(a) /\ Len(a) \in n .. Len(a)
    OBVIOUS
  <2>2. SubSeq(a, 1, n) \o SubSeq(a, n + 1, Len(a)) = SubSeq(a, 1, Len(a))
    BY <2>1, ConcatAdjacentSubSeq
  <2>3. SubSeq(a, 1, Len(a)) = a  OBVIOUS
  <2> QED BY <2>2, <2>3
<1> QED BY <1>1, <1>2, BytesConcat

LEMMA BytesFirst ==
  ASSUME NEW for, NEW a \in Seq(Batches), a # <<>>
  PROVE  Bytes(for, a) = Weight(for, Head(a)) + Bytes(for, Tail(a))
<1>1. Head(a) \in Batches /\ Tail(a) \in Seq(Batches) /\ <<Head(a)>> \in Seq(Batches)
      /\ a = <<Head(a)>> \o Tail(a)
  <2>1. Head(a) \in Batches /\ Tail(a) \in Seq(Batches)  BY First
  <2>2. <<Head(a)>> \in Seq(Batches)  BY <2>1
  <2> QED BY <2>1, <2>2
<1> QED BY <1>1, BytesOne, BytesConcat

\* The end of a queue.
LEMMA LastAfterFront ==
  ASSUME NEW a \in Seq(Batches), a # <<>>
  PROVE  /\ Front(a) \in Seq(Batches) /\ Last(a) \in Batches
         /\ a = Append(Front(a), Last(a))
<1> DEFINE n == Len(a) - 1
<1>1. n \in Nat /\ n = Len(a) - 1 /\ n + 1 = Len(a) /\ n \in 0 .. Len(a)
  <2>1. Len(a) \in Nat /\ Len(a) # 0  BY EmptySeq
  <2> QED BY <2>1
<1> HIDE DEF n
<1>2. Front(a) = SubSeq(a, 1, n) /\ Front(a) \in Seq(Batches)  BY <1>1, Cut DEF Front
<1>3. Last(a) = a[n + 1] /\ Last(a) \in Batches  BY <1>1 DEF Last
<1>4. a = Append(Front(a), Last(a))
  <2> DEFINE front == SubSeq(a, 1, n)
             whole == Append(front, a[n + 1])
  <2>1. Len(front) = n /\ front \in Seq(Batches) /\ \A i \in 1 .. n : front[i] = a[i]
    BY <1>1, <1>2
  <2>2. /\ whole \in Seq(Batches) /\ Len(whole) = n + 1
        /\ \A i \in 1 .. n + 1 : whole[i] = a[i]
    BY <1>3, <2>1
  <2> HIDE DEF front, whole
  <2>3. whole = a  BY <1>1, <2>2, SeqEqual
  <2> QED BY <2>3, <1>2, <1>3 DEF front, whole
<1> QED BY <1>2, <1>3, <1>4

\* A payload that joins the backlog adds its bytes, merged or not.
LEMMA BytesPush ==
  ASSUME NEW for, backlog \in Seq(Batches), NEW b \in Batches
  PROVE  Bytes(for, PushPending(b)) = Bytes(for, backlog) + Weight(for, b)
<1>1. CASE PushPending(b) = Append(backlog, b)  BY <1>1, BytesAppend
<1>2. CASE /\ b.kind = "input" /\ backlog # <<>> /\ Mergeable(Last(backlog), b)
           /\ PushPending(b) = Append(Front(backlog), Merge(Last(backlog), b))
  <2> DEFINE front == Front(backlog)
             newest == Last(backlog)
             both == Merge(newest, b)
  <2>1. /\ front \in Seq(Batches) /\ newest \in Batches
        /\ backlog = Append(front, newest)
    BY <1>2, LastAfterFront
  <2>2. newest.service = b.service  BY <1>2 DEF Mergeable
  <2> HIDE DEF front, newest
  <2>3. /\ both \in Batches /\ both.service = newest.service
        /\ both.bytes = newest.bytes + b.bytes
    <3>1. newest.ids \o b.ids \in Seq(Nat)  BY <2>1, IdsConcat DEF Batches
    <3>2. newest.bytes + b.bytes \in Nat  BY <2>1 DEF Batches
    <3>3. newest \in [service : Services, kind : {"input", "paste"}, bytes : Nat, ids : Seq(Nat)]
      BY <2>1 DEF Batches
    <3> QED BY <3>1, <3>2, <3>3 DEF Batches, Merge
  <2> HIDE DEF both
  <2>4. Weight(for, both) = Weight(for, newest) + Weight(for, b)
    BY <2>1, <2>2, <2>3 DEF Weight, Batches
  <2>5. Bytes(for, Append(front, both)) = Bytes(for, front) + Weight(for, both)
    BY <2>1, <2>3, BytesAppend
  <2>6. Bytes(for, backlog) = Bytes(for, front) + Weight(for, newest)
    BY <2>1, BytesAppend
  <2>7. Weight(for, newest) \in Nat /\ Weight(for, b) \in Nat /\ Bytes(for, front) \in Nat
    BY <2>1, BytesOne, BytesType
  <2> QED BY <1>2, <2>4, <2>5, <2>6, <2>7 DEF front, newest, both
<1> QED BY <1>1, <1>2 DEF PushPending

\* What one terminal holds changes the sum by as much.
LEMMA HeldType ==
  ASSUME InputPathAssumption, NEW for,
         queue \in [Terminals -> Seq(Batches)], writing \in [Terminals -> Seq(Batches)]
  PROVE  /\ IsFiniteSet(Terminals)
         /\ Held(for) \in [Terminals -> Nat] /\ Total(Held(for)) \in Nat
<1>1. IsFiniteSet(Terminals)
  <2>1. IsFiniteSet(Services) /\ MaxRuns \in Nat  BY DEF InputPathAssumption
  <2>2. IsFiniteSet(1 .. MaxRuns)  BY <2>1, FS_Interval
  <2> QED BY <2>1, <2>2, FS_Product DEF Terminals
<1>2. \A t \in Terminals : Bytes(for, queue[t]) \in Nat /\ Bytes(for, writing[t]) \in Nat
  BY BytesType
<1>3. Held(for) \in [Terminals -> Nat]  BY <1>2 DEF Held
<1> QED BY <1>1, <1>3, PairsFinite

LEMMA HeldChanged ==
  ASSUME InputPathAssumption, NEW for,
         queue \in [Terminals -> Seq(Batches)], writing \in [Terminals -> Seq(Batches)],
         NEW t \in Terminals, NEW nq \in Seq(Batches), NEW nw \in Seq(Batches),
         queue' = [queue EXCEPT ![t] = nq], writing' = [writing EXCEPT ![t] = nw]
  PROVE  /\ Total(Held(for)') \in Nat
         /\ Total(Held(for)') + (Bytes(for, queue[t]) + Bytes(for, writing[t]))
              = Total(Held(for)) + (Bytes(for, nq) + Bytes(for, nw))
<1>0. PICK before, after : before = Held(for) /\ after = Held(for)'
  OBVIOUS
<1>1. IsFiniteSet(Terminals) /\ before \in [Terminals -> Nat] /\ Total(before) \in Nat
  BY <1>0, HeldType
<1>2. \A q \in Seq(Batches) : Bytes(for, q) \in Nat  BY BytesType
<1>3. \A u \in Terminals : queue'[u] = IF u = t THEN nq ELSE queue[u]  OBVIOUS
<1>4. \A u \in Terminals : writing'[u] = IF u = t THEN nw ELSE writing[u]  OBVIOUS
<1>5. \A u \in Terminals : before[u] = Bytes(for, queue[u]) + Bytes(for, writing[u])
  BY <1>0 DEF Held
<1>6. after = [u \in Terminals |-> Bytes(for, queue'[u]) + Bytes(for, writing'[u])]
  BY <1>0 DEF Held
<1>7. after \in [Terminals -> Nat]  BY <1>2, <1>3, <1>4, <1>6
<1>8. after[t] = Bytes(for, nq) + Bytes(for, nw)  BY <1>3, <1>4, <1>6
<1>9. \A u \in Terminals \ {t} : after[u] = before[u]  BY <1>3, <1>4, <1>5, <1>6
<1>10. Total(after) \in Nat  BY <1>1, <1>7, PairsFinite
<1>11. Total(after) + before[t] = Total(before) + after[t]
  <2>1. Changed(before, after, t, Terminals)  BY <1>1, <1>7, <1>9 DEF Changed
  <2>2. IsFiniteSet(Terminals)  BY <1>1
  <2> QED BY <2>1, <2>2, TotalChanged
<1> QED BY <1>0, <1>5, <1>8, <1>10, <1>11

-----------------------------------------------------------------------------
(***************************************************************************)
(* The budgets and the drops.                                              *)
(***************************************************************************)

\* The budgets count what exists.
Budgets ==
  /\ used \in Nat /\ share \in [Services -> Nat]
  /\ used = Existing(Services)
  /\ \A s \in Services : share[s] = Existing({s})

\* Every drop was told or waits for a summary that has a deadline.
Drops ==
  /\ throttle \in [Services -> [armed : BOOLEAN, suppressed : Nat]]
  /\ dropped \in [Services -> Nat] /\ told \in [Services -> Nat]
  /\ \A s \in Services :
       /\ dropped[s] = told[s] + throttle[s].suppressed
       /\ throttle[s].suppressed > 0 => throttle[s].armed

LEMMA AccountsInit ==
  ASSUME InputPathAssumption, InputInit  PROVE Budgets /\ Drops
<1>1. TypeOK  BY Initially DEF IInv
<1>2. \A for : Existing(for) = 0
  <2> SUFFICES ASSUME NEW for  PROVE Existing(for) = 0
    OBVIOUS
  <2>1. /\ IsFiniteSet(Terminals) /\ Held(for) \in [Terminals -> Nat]
    BY <1>1, HeldType DEF TypeOK
  <2>2. \A t \in Terminals : Held(for)[t] = 0
    BY BytesNone DEF InputInit, Held
  <2>3. Pairs(Held(for)) = {}
    <3>1. \A p \in Pairs(Held(for)) : FALSE
      BY <2>1, <2>2, InPairs
    <3> QED BY <3>1
  <2>4. Total(Held(for)) = 0  BY <2>3, FS_EmptySet DEF Total
  <2> QED BY <2>4, BytesNone DEF InputInit, Existing
<1>3. Budgets  BY <1>2 DEF InputInit, Budgets
<1>4. Drops  BY DEF InputInit, Drops
<1> QED BY <1>3, <1>4

\* A step that moves payloads and ends none.
LEMMA BudgetsKept ==
  ASSUME Budgets, UNCHANGED budgetVars,
         \A for \in SUBSET Services : Existing(for)' = Existing(for)
  PROVE  Budgets'
<1>1. /\ Existing(Services)' = Existing(Services)
      /\ \A s \in Services : Existing({s})' = Existing({s})
  OBVIOUS
<1> QED BY <1>1 DEF Budgets, budgetVars

\* A payload that is accepted.
LEMMA BudgetsReserved ==
  ASSUME Budgets, NEW b \in Batches, Reserve(b.service, b.bytes),
         \A for \in SUBSET Services : Existing(for)' = Existing(for) + Weight(for, b)
  PROVE  Budgets'
<1>1. /\ Existing(Services)' = Existing(Services) + Weight(Services, b)
      /\ \A s \in Services : Existing({s})' = Existing({s}) + Weight({s}, b)
  OBVIOUS
<1>2. b.service \in Services /\ b.bytes \in Nat  BY DEF Batches
<1>3. /\ Weight(Services, b) = b.bytes
      /\ \A s \in Services : Weight({s}, b) = IF s = b.service THEN b.bytes ELSE 0
  BY <1>2 DEF Weight
<1>4. used' = Existing(Services)' /\ used' \in Nat
  BY <1>1, <1>2, <1>3 DEF Budgets, Reserve
<1>5. share' \in [Services -> Nat]  BY <1>2 DEF Budgets, Reserve
<1>6. ASSUME NEW s \in Services  PROVE share'[s] = Existing({s})'
  <2>1. share'[s] = share[s] + Weight({s}, b)  BY <1>2, <1>3 DEF Budgets, Reserve
  <2> QED BY <2>1, <1>1 DEF Budgets
<1> QED BY <1>4, <1>5, <1>6 DEF Budgets

\* Payloads that end.
LEMMA BudgetsReleased ==
  ASSUME Budgets, NEW gone \in Seq(Batches), Release(gone),
         \A for \in SUBSET Services :
           Existing(for)' \in Nat /\ Existing(for)' + Bytes(for, gone) = Existing(for)
  PROVE  Budgets'
<1>1. /\ Existing(Services)' \in Nat
      /\ Existing(Services)' + Bytes(Services, gone) = Existing(Services)
  OBVIOUS
<1>2. \A s \in Services : /\ Existing({s})' \in Nat
                          /\ Existing({s})' + Bytes({s}, gone) = Existing({s})
  OBVIOUS
<1>3. \A for : Bytes(for, gone) \in Nat  BY BytesType
<1>4. used' = Existing(Services)'
  <2>1. used' = IF used > Bytes(Services, gone) THEN used - Bytes(Services, gone) ELSE 0
    BY DEF Release
  <2>2. Bytes(Services, gone) \in Nat  BY <1>3
  <2> QED BY <2>1, <2>2, <1>1 DEF Budgets
<1>5. ASSUME NEW s \in Services  PROVE share'[s] = Existing({s})'
  <2>1. share'[s] = IF share[s] > Bytes({s}, gone) THEN share[s] - Bytes({s}, gone) ELSE 0
    BY DEF Release
  <2>2. Bytes({s}, gone) \in Nat  BY <1>3
  <2> QED BY <2>1, <2>2, <1>2 DEF Budgets
<1>6. share' \in [Services -> Nat]
  <2>1. DOMAIN share' = Services /\ share' = [s \in Services |-> share'[s]]
    BY DEF Release
  <2> QED BY <2>1, <1>2, <1>5
<1> QED BY <1>1, <1>4, <1>5, <1>6 DEF Budgets

LEMMA DropsStep ==
  ASSUME Drops,
         \/ UNCHANGED dropVars
         \/ \E s \in Services : RecordDrop(s) \/ ReportDrops(s) \/ Start(s)
  PROVE  Drops'
<1>1. CASE UNCHANGED dropVars  BY <1>1 DEF Drops, dropVars
<1>2. ASSUME NEW s \in Services, RecordDrop(s)  PROVE Drops'
  <2> DEFINE more == IF throttle[s].armed THEN throttle[s].suppressed + 1 ELSE throttle[s].suppressed
             said == IF throttle[s].armed THEN told[s] ELSE told[s] + 1
  <2>1. /\ throttle[s].suppressed \in Nat /\ dropped[s] \in Nat /\ told[s] \in Nat
        /\ dropped[s] = told[s] + throttle[s].suppressed
    BY DEF Drops
  <2>2. more \in Nat /\ said \in Nat /\ dropped[s] + 1 = said + more
    <3>1. CASE throttle[s].armed  BY <3>1, <2>1
    <3>2. CASE ~throttle[s].armed  BY <3>2, <2>1
    <3> QED BY <3>1, <3>2
  <2>3. /\ throttle' = [throttle EXCEPT ![s] = [armed |-> TRUE, suppressed |-> more]]
        /\ dropped' = [dropped EXCEPT ![s] = dropped[s] + 1]
        /\ told' = [told EXCEPT ![s] = said]
    BY <1>2 DEF RecordDrop
  <2> HIDE DEF more, said
  <2>4. [armed |-> TRUE, suppressed |-> more] \in [armed : BOOLEAN, suppressed : Nat]
    BY <2>2
  <2> QED BY <2>1, <2>2, <2>3, <2>4 DEF Drops
<1>3. ASSUME NEW s \in Services, ReportDrops(s)  PROVE Drops'
  BY <1>3 DEF Drops, ReportDrops
<1>4. ASSUME NEW s \in Services, Start(s)  PROVE Drops'
  BY <1>4 DEF Drops, Start
<1> QED BY <1>1, <1>2, <1>3, <1>4

\* What exists, when no terminal holds anything else.
LEMMA ExistingParts ==
  ASSUME InputPathAssumption, TypeOK, UNCHANGED <<queue, writing>>,
         backlog' \in Seq(Batches), channel' \in Seq(Batches), NEW for
  PROVE  \E rest \in Nat :
           /\ Existing(for) = Bytes(for, backlog) + Bytes(for, channel) + rest
           /\ Existing(for)' = Bytes(for, backlog') + Bytes(for, channel') + rest
           /\ Bytes(for, backlog) \in Nat /\ Bytes(for, channel) \in Nat
           /\ Bytes(for, backlog') \in Nat /\ Bytes(for, channel') \in Nat
<1>1. Total(Held(for)) \in Nat  BY HeldType DEF TypeOK
<1>2. Held(for)' = Held(for)  BY DEF Held
<1>3. /\ Bytes(for, backlog) \in Nat /\ Bytes(for, channel) \in Nat
      /\ Bytes(for, backlog') \in Nat /\ Bytes(for, channel') \in Nat
  BY BytesType DEF TypeOK
<1> QED BY <1>1, <1>2, <1>3 DEF Existing

LEMMA TuiAccounts ==
  ASSUME InputPathAssumption, TypeOK, TypeOK', Budgets, Tui \/ StopListening
  PROVE  Budgets'
<1>1. /\ backlog \in Seq(Batches) /\ channel \in Seq(Batches)
      /\ backlog' \in Seq(Batches) /\ channel' \in Seq(Batches)
  BY DEF TypeOK
<1>2. UNCHANGED <<queue, writing>>
  BY DEF Tui, Type, Refuse, Flush, Discard, StopListening, writerVars
<1>3. ASSUME NEW s \in Services, NEW kind \in DOMAIN Sizes, NEW bytes \in Sizes[kind],
             Type(s, kind, bytes)
      PROVE  Budgets'
  <2> DEFINE b == [service |-> s, kind |-> kind, bytes |-> bytes, ids |-> <<typed + 1>>]
  <2>1. b \in Batches /\ b.service = s /\ b.bytes = bytes
    <3>1. kind \in {"input", "paste"} /\ bytes \in Nat  BY DEF InputPathAssumption
    <3>2. <<typed + 1>> \in Seq(Nat)  BY DEF TypeOK
    <3> QED BY <3>1, <3>2 DEF Batches
  <2>2. \/ UNCHANGED <<channel, backlog, budgetVars>>
        \/ /\ Reserve(s, bytes)
           /\ \/ channel' = Append(channel, b) /\ backlog' = backlog
              \/ channel' = channel /\ backlog' = PushPending(b)
    BY <1>3 DEF Type
  <2> HIDE DEF b
  <2>3. CASE UNCHANGED <<channel, backlog, budgetVars>>
    <3>1. \A for \in SUBSET Services : Existing(for)' = Existing(for)
      BY <2>3, <1>2 DEF Existing, Held
    <3> QED BY <2>3, <3>1, BudgetsKept
  <2>4. CASE /\ Reserve(s, bytes)
             /\ \/ channel' = Append(channel, b) /\ backlog' = backlog
                \/ channel' = channel /\ backlog' = PushPending(b)
    <3>1. ASSUME NEW for \in SUBSET Services
          PROVE  Existing(for)' = Existing(for) + Weight(for, b)
      <4>1. PICK rest \in Nat :
              /\ Existing(for) = Bytes(for, backlog) + Bytes(for, channel) + rest
              /\ Existing(for)' = Bytes(for, backlog') + Bytes(for, channel') + rest
              /\ Bytes(for, backlog) \in Nat /\ Bytes(for, channel) \in Nat
              /\ Bytes(for, backlog') \in Nat /\ Bytes(for, channel') \in Nat
        BY <1>1, <1>2, ExistingParts
      <4>2. Bytes(for, Append(channel, b)) = Bytes(for, channel) + Weight(for, b)
        BY <1>1, <2>1, BytesAppend
      <4>3. Bytes(for, PushPending(b)) = Bytes(for, backlog) + Weight(for, b)
        BY <1>1, <2>1, BytesPush
      <4>4. Weight(for, b) \in Nat  BY <2>1, BytesOne
      <4>5. CASE channel' = Append(channel, b) /\ backlog' = backlog
        <5>1. Bytes(for, channel') = Bytes(for, channel) + Weight(for, b)  BY <4>2, <4>5
        <5>2. Bytes(for, backlog') = Bytes(for, backlog)  BY <4>5
        <5> QED BY <4>1, <4>4, <5>1, <5>2
      <4>6. CASE channel' = channel /\ backlog' = PushPending(b)
        <5>1. Bytes(for, backlog') = Bytes(for, backlog) + Weight(for, b)  BY <4>3, <4>6
        <5>2. Bytes(for, channel') = Bytes(for, channel)  BY <4>6
        <5> QED BY <4>1, <4>4, <5>1, <5>2
      <4> QED BY <2>4, <4>5, <4>6
    <3> QED BY <2>1, <2>4, <3>1, BudgetsReserved
  <2> QED BY <2>2, <2>3, <2>4
<1>4. ASSUME NEW s \in Services, NEW bytes, Refuse(s, bytes)  PROVE Budgets'
  <2>1. UNCHANGED <<backlog, channel, budgetVars>>  BY <1>4 DEF Refuse
  <2>2. \A for \in SUBSET Services : Existing(for)' = Existing(for)
    BY <2>1, <1>2 DEF Existing, Held
  <2> QED BY <2>1, <2>2, BudgetsKept
<1>5. CASE Flush
  <2>1. PICK n : /\ n = IF Len(backlog) < ChannelCapacity - Len(channel)
                          THEN Len(backlog) ELSE ChannelCapacity - Len(channel)
                 /\ channel' = channel \o SubSeq(backlog, 1, n)
                 /\ backlog' = SubSeq(backlog, n + 1, Len(backlog))
    BY <1>5 DEF Flush
  <2>2. n \in 0 .. Len(backlog)
    <3>1. ChannelCapacity \in Nat  BY DEF InputPathAssumption
    <3>2. Len(channel) \in Nat /\ Len(backlog) \in Nat  BY <1>1
    <3>3. Len(channel) < ChannelCapacity  BY <1>5 DEF Flush, Room
    <3> QED BY <2>1, <3>1, <3>2, <3>3
  <2>3. ASSUME NEW for \in SUBSET Services  PROVE Existing(for)' = Existing(for)
    <3>1. PICK rest \in Nat :
            /\ Existing(for) = Bytes(for, backlog) + Bytes(for, channel) + rest
            /\ Existing(for)' = Bytes(for, backlog') + Bytes(for, channel') + rest
            /\ Bytes(for, backlog) \in Nat /\ Bytes(for, channel) \in Nat
            /\ Bytes(for, backlog') \in Nat /\ Bytes(for, channel') \in Nat
      BY <1>1, <1>2, ExistingParts
    <3>2. SubSeq(backlog, 1, n) \in Seq(Batches)  BY <1>1, <2>2, Cut
    <3>3. Bytes(for, backlog) = Bytes(for, SubSeq(backlog, 1, n)) + Bytes(for, backlog')
      BY <1>1, <2>1, <2>2, BytesCut
    <3>4. Bytes(for, channel') = Bytes(for, channel) + Bytes(for, SubSeq(backlog, 1, n))
      <4> DEFINE moved == SubSeq(backlog, 1, n)
      <4>1. channel' = channel \o moved  BY <2>1
      <4>2. moved \in Seq(Batches) /\ channel \in Seq(Batches)  BY <1>1, <3>2
      <4> HIDE DEF moved
      <4>3. Bytes(for, channel \o moved) = Bytes(for, channel) + Bytes(for, moved)
        BY <4>2, BytesConcat
      <4>4. Bytes(for, channel') = Bytes(for, channel) + Bytes(for, moved)  BY <4>1, <4>3
      <4> QED BY <4>4 DEF moved
    <3>5. Bytes(for, SubSeq(backlog, 1, n)) \in Nat  BY <3>2, BytesType
    <3> QED BY <3>1, <3>3, <3>4, <3>5
  <2>4. UNCHANGED budgetVars  BY <1>5 DEF Flush
  <2> QED BY <2>3, <2>4, BudgetsKept
<1>6. CASE Discard \/ StopListening
  <2>1. PICK gone \in Seq(Batches) :
          /\ Release(gone)
          /\ \/ gone = backlog /\ backlog' = <<>> /\ channel' = channel
             \/ gone = channel /\ channel' = <<>> /\ backlog' = backlog
    BY <1>1, <1>6 DEF Discard, StopListening
  <2>2. ASSUME NEW for \in SUBSET Services
        PROVE  Existing(for)' \in Nat /\ Existing(for)' + Bytes(for, gone) = Existing(for)
    <3>1. PICK rest \in Nat :
            /\ Existing(for) = Bytes(for, backlog) + Bytes(for, channel) + rest
            /\ Existing(for)' = Bytes(for, backlog') + Bytes(for, channel') + rest
            /\ Bytes(for, backlog) \in Nat /\ Bytes(for, channel) \in Nat
            /\ Bytes(for, backlog') \in Nat /\ Bytes(for, channel') \in Nat
      BY <1>1, <1>2, ExistingParts
    <3>2. Bytes(for, <<>>) = 0  BY BytesNone
    <3>3. CASE gone = backlog /\ backlog' = <<>> /\ channel' = channel
      <4>1. Bytes(for, backlog') = 0 /\ Bytes(for, channel') = Bytes(for, channel)
        BY <3>2, <3>3
      <4>2. Bytes(for, gone) = Bytes(for, backlog)  BY <3>3
      <4> QED BY <3>1, <4>1, <4>2
    <3>4. CASE gone = channel /\ channel' = <<>> /\ backlog' = backlog
      <4>1. Bytes(for, channel') = 0 /\ Bytes(for, backlog') = Bytes(for, backlog)
        BY <3>2, <3>4
      <4>2. Bytes(for, gone) = Bytes(for, channel)  BY <3>4
      <4> QED BY <3>1, <4>1, <4>2
    <3> QED BY <2>1, <3>3, <3>4
  <2> QED BY <2>1, <2>2, BudgetsReleased
<1> QED BY <1>3, <1>4, <1>5, <1>6 DEF Tui


\* What stays on both sides does not count.
LEMMA WhatLeft ==
  ASSUME NEW e \in Nat, NEW f \in Nat, NEW stay \in Nat, NEW freed \in Nat,
         e + (stay + freed) = f + (stay + 0)
  PROVE  e + freed = f
OBVIOUS

\* One terminal's own steps.
LEMMA WriterAccounts ==
  ASSUME InputPathAssumption, TypeOK, TypeOK', Budgets, NEW t \in Terminals, Writer(t)
  PROVE  Budgets'
<1> DEFINE q == queue[t]
           w == writing[t]
<1>1. /\ queue \in [Terminals -> Seq(Batches)] /\ writing \in [Terminals -> Seq(Batches)]
      /\ q \in Seq(Batches) /\ w \in Seq(Batches) /\ <<>> \in Seq(Batches)
      /\ backlog \in Seq(Batches) /\ channel \in Seq(Batches)
  BY DEF TypeOK
<1>2. UNCHANGED <<backlog, channel>>  BY DEF Writer, Take, Disconnected, Wrote, GaveUp
<1> DEFINE Moves(nq, nw) == queue' = [queue EXCEPT ![t] = nq] /\ writing' = [writing EXCEPT ![t] = nw]
<1>3. ASSUME NEW nq \in Seq(Batches), NEW nw \in Seq(Batches), Moves(nq, nw), NEW for
      PROVE  /\ Existing(for) \in Nat /\ Existing(for)' \in Nat
             /\ Existing(for)' + (Bytes(for, q) + Bytes(for, w))
                  = Existing(for) + (Bytes(for, nq) + Bytes(for, nw))
  <2>1. /\ Total(Held(for)') \in Nat
        /\ Total(Held(for)') + (Bytes(for, q) + Bytes(for, w))
             = Total(Held(for)) + (Bytes(for, nq) + Bytes(for, nw))
    BY <1>1, <1>3, HeldChanged
  <2>2. Total(Held(for)) \in Nat  BY <1>1, HeldType
  <2>3. /\ Bytes(for, backlog) \in Nat /\ Bytes(for, channel) \in Nat
        /\ Bytes(for, q) \in Nat /\ Bytes(for, w) \in Nat
        /\ Bytes(for, nq) \in Nat /\ Bytes(for, nw) \in Nat
    BY <1>1, <1>3, BytesType
  <2>4. PICK x, y, old, new \in Nat :
          /\ x = Bytes(for, q) + Bytes(for, w) /\ y = Bytes(for, nq) + Bytes(for, nw)
          /\ old = Total(Held(for)) /\ new = Total(Held(for)')
    BY <2>1, <2>2, <2>3
  <2>5. new + x = old + y  BY <2>1, <2>4
  <2>6. PICK waiting \in Nat : waiting = Bytes(for, backlog) + Bytes(for, channel)
    BY <2>3
  <2>7. Existing(for) = waiting + old /\ Existing(for)' = waiting + new
    BY <1>2, <2>4, <2>6 DEF Existing
  <2> HIDE DEF q, w
  <2>8. Existing(for) \in Nat /\ Existing(for)' \in Nat  BY <2>7
  <2>9. (waiting + new) + x = (waiting + old) + y  BY <2>5
  <2>10. Existing(for)' + x = Existing(for) + y  BY <2>7, <2>9
  <2> QED BY <2>4, <2>8, <2>10
<1>4. \A for : Bytes(for, <<>>) = 0 /\ Bytes(for, q) \in Nat /\ Bytes(for, w) \in Nat
  BY <1>1, BytesNone, BytesType
\* Nothing is left of what ended.
<1>5. ASSUME NEW nq \in {q, <<>>}, Moves(nq, <<>>),
             NEW gone \in Seq(Batches), Release(gone),
             \A for : Bytes(for, nq) + Bytes(for, gone) = Bytes(for, q) + Bytes(for, w)
      PROVE  Budgets'
  <2>1. ASSUME NEW for \in SUBSET Services
        PROVE  Existing(for)' \in Nat /\ Existing(for)' + Bytes(for, gone) = Existing(for)
    <3>1. nq \in Seq(Batches)  BY <1>1
    <3> HIDE DEF Moves, q, w
    <3>2. /\ Existing(for) \in Nat /\ Existing(for)' \in Nat
          /\ Existing(for)' + (Bytes(for, q) + Bytes(for, w))
               = Existing(for) + (Bytes(for, nq) + Bytes(for, <<>>))
      BY <1>1, <1>3, <1>5, <3>1
    <3>3. Bytes(for, nq) + Bytes(for, gone) = Bytes(for, q) + Bytes(for, w)  BY <1>5
    <3>4. Bytes(for, nq) \in Nat /\ Bytes(for, gone) \in Nat  BY <3>1, BytesType
    <3>5. /\ Bytes(for, <<>>) = 0 /\ Bytes(for, q) \in Nat /\ Bytes(for, w) \in Nat
      BY <1>4
    <3>6. Existing(for)' + (Bytes(for, nq) + Bytes(for, gone)) = Existing(for) + (Bytes(for, nq) + 0)
      BY <3>2, <3>3, <3>5
    <3>7. Existing(for)' + Bytes(for, gone) = Existing(for)
      BY <3>2, <3>4, <3>6, WhatLeft
    <3> QED BY <3>2, <3>7
  <2> QED BY <1>5, <2>1, BudgetsReleased
<1>6. CASE Take(t) /\ t \notin cancelled
  <2>1. q # <<>> /\ w = <<>> /\ Moves(Tail(q), <<Head(q)>>) /\ UNCHANGED budgetVars
    BY <1>1, <1>6 DEF Take
  <2>2. Head(q) \in Batches /\ Tail(q) \in Seq(Batches) /\ <<Head(q)>> \in Seq(Batches)
    <3> HIDE DEF q
    <3>1. Head(q) \in Batches /\ Tail(q) \in Seq(Batches)  BY <2>1, <1>1, First
    <3> QED BY <3>1
  <2> HIDE DEF Moves, q, w
  <2>3. ASSUME NEW for \in SUBSET Services  PROVE Existing(for)' = Existing(for)
    <3>1. /\ Existing(for) \in Nat /\ Existing(for)' \in Nat
          /\ Existing(for)' + (Bytes(for, q) + Bytes(for, w))
               = Existing(for) + (Bytes(for, Tail(q)) + Bytes(for, <<Head(q)>>))
      BY <1>3, <2>1, <2>2
    <3>2. Bytes(for, q) = Weight(for, Head(q)) + Bytes(for, Tail(q))
      BY <1>1, <2>1, BytesFirst
    <3>3. Bytes(for, <<Head(q)>>) = Weight(for, Head(q)) /\ Weight(for, Head(q)) \in Nat
      BY <2>2, BytesOne
    <3>4. Bytes(for, w) = 0 /\ Bytes(for, Tail(q)) \in Nat  BY <2>1, <2>2, <1>4, BytesType
    <3> QED BY <3>1, <3>2, <3>3, <3>4
  <2> QED BY <2>1, <2>3, BudgetsKept
\* A thread that returns with nothing in hand.
<1>7. ASSUME w = <<>>, Moves(<<>>, <<>>), Release(<<>> \o q)
      PROVE  Budgets'
  <2> HIDE DEF Moves, q, w
  <2>1. <<>> \o q = q  BY <1>1, ConcatEmptySeq
  <2>2. \A for : Bytes(for, <<>>) + Bytes(for, q) = Bytes(for, q) + Bytes(for, w)
    BY <1>4, <1>7
  <2> QED BY <1>1, <1>5, <1>7, <2>1, <2>2
<1>8. CASE Take(t) /\ t \in cancelled
  <2>1. w = <<>> /\ Moves(<<>>, <<>>) /\ Release(<<>> \o q)
    BY <1>1, <1>8 DEF Take, Leave
  <2> QED BY <1>7, <2>1
<1>9. CASE Disconnected(t)
  <2>1. w = <<>> /\ Moves(<<>>, <<>>) /\ Release(<<>> \o q)
    BY <1>1, <1>9 DEF Disconnected, Leave
  <2> QED BY <1>7, <2>1
<1>10. CASE Finish(t)
  <2>1. \/ Moves(<<>>, <<>>) /\ Release(w \o q)
        \/ Moves(q, <<>>) /\ Release(w)
    BY <1>1, <1>10 DEF Finish, Leave
  <2> HIDE DEF Moves, q, w
  <2>2. CASE Moves(<<>>, <<>>) /\ Release(w \o q)
    <3>1. w \o q \in Seq(Batches)  BY <1>1, BatchesConcat
    <3>2. \A for : Bytes(for, w \o q) = Bytes(for, w) + Bytes(for, q)
      BY <1>1, BytesConcat
    <3>3. \A for : Bytes(for, <<>>) + Bytes(for, w \o q) = Bytes(for, q) + Bytes(for, w)
      BY <1>4, <3>2
    <3> QED BY <1>5, <2>2, <3>1, <3>3
  <2>3. CASE Moves(q, <<>>) /\ Release(w)
    BY <1>1, <1>5, <2>3
  <2> QED BY <2>1, <2>2, <2>3
<1> QED BY <1>6, <1>8, <1>9, <1>10 DEF Writer, Wrote, GaveUp

\* The oldest payload moves to a terminal, or it ends here.
LEMMA DispatchAccounts ==
  ASSUME InputPathAssumption, IInv, TypeOK', Budgets, Dispatch
  PROVE  Budgets'
<1>0. PICK b, s, t : b = Head(channel) /\ s = b.service /\ t = <<s, running[s]>>
  OBVIOUS
<1>1. /\ channel \in Seq(Batches) /\ channel # <<>> /\ backlog \in Seq(Batches)
      /\ channel' = Tail(channel) /\ UNCHANGED <<backlog, writing>>
      /\ queue \in [Terminals -> Seq(Batches)] /\ writing \in [Terminals -> Seq(Batches)]
      /\ TypeOK
  BY DEF IInv, TypeOK, Dispatch
<1>2. b \in Batches /\ s \in Services /\ channel' \in Seq(Batches) /\ <<b>> \in Seq(Batches)
  <2>1. b \in Batches /\ channel' \in Seq(Batches)  BY <1>0, <1>1, First
  <2>2. s \in Services  BY <2>1, <1>0 DEF Batches
  <2> QED BY <2>1, <2>2
<1>3. ASSUME NEW for
      PROVE  /\ Bytes(for, channel) = Weight(for, b) + Bytes(for, channel')
             /\ Bytes(for, <<b>>) = Weight(for, b) /\ Weight(for, b) \in Nat
             /\ Bytes(for, channel') \in Nat /\ Bytes(for, backlog) \in Nat
             /\ Bytes(for, backlog') = Bytes(for, backlog)
  <2>1. Bytes(for, channel) = Weight(for, b) + Bytes(for, channel')
    BY <1>0, <1>1, BytesFirst
  <2>2. Bytes(for, <<b>>) = Weight(for, b) /\ Weight(for, b) \in Nat
    BY <1>2, BytesOne
  <2>3. Bytes(for, channel') \in Nat /\ Bytes(for, backlog) \in Nat
    BY <1>1, <1>2, BytesType
  <2>4. Bytes(for, backlog') = Bytes(for, backlog)  BY <1>1
  <2> QED BY <2>1, <2>2, <2>3, <2>4
<1>4. CASE Release(<<b>>) /\ UNCHANGED queue
  <2>1. ASSUME NEW for \in SUBSET Services
        PROVE  Existing(for)' \in Nat /\ Existing(for)' + Bytes(for, <<b>>) = Existing(for)
    <3>1. Total(Held(for)) \in Nat  BY <1>1, HeldType
    <3>2. Held(for)' = Held(for)  BY <1>1, <1>4 DEF Held
    <3>3. /\ Existing(for) = Bytes(for, backlog) + Bytes(for, channel) + Total(Held(for))
          /\ Existing(for)' = Bytes(for, backlog') + Bytes(for, channel') + Total(Held(for))
      BY <3>2 DEF Existing
    <3> QED BY <3>1, <3>3, <1>3
  <2> QED BY <1>2, <1>4, <2>1, BudgetsReleased
<1>5. CASE Accepts(s) /\ queue' = [queue EXCEPT ![t] = Append(@, b)] /\ UNCHANGED budgetVars
  <2>1. t \in Terminals
    <3>1. running[s] # 0  BY <1>5 DEF Accepts
    <3>2. running[s] = started[s] /\ started[s] <= MaxRuns /\ running[s] \in Nat
      BY <3>1, <1>2 DEF IInv, Latest, TypeOK
    <3>3. MaxRuns \in Nat  BY DEF InputPathAssumption
    <3> QED BY <3>1, <3>2, <3>3, <1>0, <1>2 DEF Terminals
  <2>2. PICK nq, nw \in Seq(Batches) :
          /\ nq = Append(queue[t], b) /\ nw = writing[t]
          /\ queue' = [queue EXCEPT ![t] = nq] /\ writing' = [writing EXCEPT ![t] = nw]
    <3>1. queue[t] \in Seq(Batches) /\ writing[t] \in Seq(Batches)  BY <1>1, <2>1
    <3>2. Append(queue[t], b) \in Seq(Batches)  BY <1>2, <3>1
    <3>3. writing' = [writing EXCEPT ![t] = writing[t]]  BY <1>1
    <3> QED BY <1>5, <3>1, <3>2, <3>3
  <2>3. ASSUME NEW for \in SUBSET Services  PROVE Existing(for)' = Existing(for)
    <3>1. /\ Total(Held(for)') \in Nat
          /\ Total(Held(for)') + (Bytes(for, queue[t]) + Bytes(for, writing[t]))
               = Total(Held(for)) + (Bytes(for, nq) + Bytes(for, nw))
      <4>1. queue \in [Terminals -> Seq(Batches)] /\ writing \in [Terminals -> Seq(Batches)]
        BY <1>1
      <4>2. queue' = [queue EXCEPT ![t] = nq] /\ writing' = [writing EXCEPT ![t] = nw]
        BY <2>2
      <4> QED BY <2>1, <4>1, <4>2, HeldChanged
    <3>2. Bytes(for, nq) = Bytes(for, queue[t]) + Weight(for, b)
      BY <1>1, <1>2, <2>1, <2>2, BytesAppend
    <3>3. Bytes(for, queue[t]) \in Nat /\ Bytes(for, writing[t]) \in Nat
      BY <1>1, <2>1, BytesType
    <3>4. Total(Held(for)) \in Nat  BY <1>1, HeldType
    <3>5. /\ Existing(for) = Bytes(for, backlog) + Bytes(for, channel) + Total(Held(for))
          /\ Existing(for)' = Bytes(for, backlog') + Bytes(for, channel') + Total(Held(for)')
      BY DEF Existing
    <3>6. PICK x, y, z, old, new \in Nat :
            /\ x = Bytes(for, queue[t]) /\ y = Bytes(for, writing[t]) /\ z = Weight(for, b)
            /\ old = Total(Held(for)) /\ new = Total(Held(for)')
      BY <3>1, <3>3, <3>4, <1>3
    <3>7. new + (x + y) = old + ((x + z) + y)  BY <3>1, <3>2, <3>6, <2>2
    <3>8. new = old + z  BY <3>7
    <3>9. PICK p, r \in Nat : p = Bytes(for, backlog) /\ r = Bytes(for, channel')  BY <1>3
    <3>10. Existing(for) = p + (z + r) + old /\ Existing(for)' = p + r + new
      BY <3>5, <3>6, <3>9, <1>3
    <3> QED BY <3>8, <3>10
  <2> QED BY <1>5, <2>3, BudgetsKept
<1> QED BY <1>0, <1>4, <1>5 DEF Dispatch

LEMMA RunsAccounts ==
  ASSUME Budgets, Runs \/ UNCHANGED inputVars  PROVE Budgets'
<1>1. UNCHANGED <<backlog, channel, queue, writing, budgetVars>>
  BY DEF Runs, Start, Exited, ReportDrops, Cancel, writerVars, inputVars
<1>2. \A for \in SUBSET Services : Existing(for)' = Existing(for)
  BY <1>1 DEF Existing, Held
<1> QED BY <1>1, <1>2, BudgetsKept

\* Who may record, report or forget a drop.
LEMMA DropsNext ==
  ASSUME IInv, Drops, [InputNext]_inputVars  PROVE Drops'
<1>1. CASE Tui \/ StopListening \/ UNCHANGED inputVars
  BY <1>1, DropsStep
     DEF Tui, Type, Refuse, Flush, Discard, StopListening, inputVars
<1>2. CASE Dispatch
  <2>1. Head(channel).service \in Services
    <3>1. channel \in Seq(Batches) /\ channel # <<>>  BY <1>2 DEF Dispatch, IInv, TypeOK
    <3> QED BY <3>1, First DEF Batches
  <2> QED BY <1>2, <2>1, DropsStep DEF Dispatch
<1>3. CASE Runs
  BY <1>3, DropsStep DEF Runs, Exited, Cancel
<1>4. ASSUME NEW t \in Terminals, Writer(t)  PROVE Drops'
  <2>1. t[1] \in Services  BY DEF Terminals
  <2> QED BY <1>4, <2>1, DropsStep DEF Writer, Take, Disconnected, Wrote, GaveUp
<1> QED BY <1>1, <1>2, <1>3, <1>4 DEF InputNext

\* Whatever ended a payload returned its reservation.
THEOREM AccountsInvariance ==
  ASSUME InputPathAssumption
  PROVE  InputSpec => [](IInv /\ Budgets /\ Drops)
<1>1. InputInit => IInv /\ Budgets /\ Drops  BY Initially, AccountsInit
<1>2. (IInv /\ Budgets /\ Drops) /\ [InputNext]_inputVars => (IInv /\ Budgets /\ Drops)'
  <2> SUFFICES ASSUME IInv, Budgets, Drops, [InputNext]_inputVars
               PROVE  IInv' /\ Budgets' /\ Drops'
    OBVIOUS
  <2>1. IInv'  BY Inductive
  <2>2. TypeOK /\ TypeOK'  BY <2>1 DEF IInv
  <2>3. Budgets'
    BY <2>2, TuiAccounts, DispatchAccounts, WriterAccounts, RunsAccounts DEF InputNext
  <2>4. Drops'  BY DropsNext
  <2> QED BY <2>1, <2>3, <2>4
<1> QED BY <1>1, <1>2, PTL DEF InputSpec

\* The budgets count exactly the payloads that still exist, and no drop goes
\* untold (input.rs, lib.rs, pty.rs, scheduler.rs).
THEOREM InputAccountedHolds ==
  ASSUME InputPathAssumption
  PROVE  InputSpec => []InputAccounted
<1>1. Budgets /\ Drops => InputAccounted  BY DEF Budgets, Drops, InputAccounted
<1> QED BY <1>1, AccountsInvariance, PTL

-----------------------------------------------------------------------------
(***************************************************************************)
(* The sizes of the services' terminals.                                   *)
(***************************************************************************)

SizeTypeOK ==
  /\ pane \in BOOLEAN
  /\ width \in Nat /\ sidebar \in Nat
  /\ last \in Nat \ {0} /\ commands \in Seq(Nat) /\ current \in Nat \ {0}
  /\ master \in [SizedServices -> Nat] /\ emulator \in [SizedServices -> Nat]
  /\ sizeCheck \in [SizedServices -> {"check", "read"}]
  /\ stale \in [SizedServices -> Nat]

\* What the TUI takes for settled is the last size on its way or, when none is,
\* the scheduler's.
Queued(size, queued, settled) ==
  \/ settled = size /\ \A i \in DOMAIN queued : queued[i] = 0
  \/ \E i \in DOMAIN queued :
       /\ settled = queued[i] /\ queued[i] # 0
       /\ \A j \in DOMAIN queued : i < j => queued[j] = 0

\* A chunk was read at another size: the reader looks at the size before the
\* next, or has looked since.
LooksAgain(s) ==
  /\ stale[s] <= 1
  /\ stale[s] = 1 =>
       master[s] = 0 \/ sizeCheck[s] = "check" \/ emulator[s] = master[s]

SizeIInv ==
  /\ SizeTypeOK
  /\ Queued(current, commands, last)
  /\ \A s \in SizedServices : master[s] \in {0, current} /\ LooksAgain(s)

\* The columns that the layout computes are a size, at least one.
LEMMA DesiredIsSize ==
  ASSUME NEW w \in Nat, NEW side \in Nat, NEW split \in BOOLEAN
  PROVE  DesiredPtySize(w, side, split) \in Nat \ {0}
<1>1. Less(w, side) \in Nat  BY DEF Less
<1>2. PICK right \in Nat : right = Less(w, side)  BY <1>1
<1>3. right \div 2 \in Nat  OBVIOUS
<1>4. PICK logs \in Nat : logs = IF split THEN right \div 2 ELSE right  BY <1>3
<1>5. DesiredPtySize(w, side, split) = Most(Less(Less(logs, 1), 2), 1)
  BY <1>2, <1>4 DEF DesiredPtySize
<1> QED BY <1>5 DEF Most, Less

\* The sidebar stays a width, clamped or moved.
LEMMA SidebarIsWidth ==
  ASSUME SizeAssumption, NEW side \in Nat, NEW w \in Nat
  PROVE  /\ ClampSidebar(side, Unreserved(w)) \in Nat
         /\ Narrower(side) \in Nat
         /\ Wider(side, Unreserved(w)) \in Nat
<1>1. Sidebar.minimum \in Nat /\ Sidebar.step \in Nat /\ Sidebar.reserve \in Nat
  BY DEF SizeAssumption
<1>2. Unreserved(w) \in Nat  BY <1>1 DEF Unreserved, Less
<1> QED BY <1>1, <1>2 DEF ClampSidebar, Narrower, Wider, Least, Most, Less

\* A size that joins the queue is the last one; any other command changes nothing.
LEMMA QueuedAppend ==
  ASSUME NEW size, NEW queued \in Seq(Nat), NEW settled, NEW c \in Nat,
         c = 0 => Queued(size, queued, settled)
  PROVE  Queued(size, Append(queued, c), IF c = 0 THEN settled ELSE c)
<1> DEFINE longer == Append(queued, c)
<1>1. /\ DOMAIN longer = 1 .. Len(queued) + 1 /\ DOMAIN queued = 1 .. Len(queued)
      /\ Len(queued) \in Nat /\ longer[Len(queued) + 1] = c
      /\ \A i \in 1 .. Len(queued) : longer[i] = queued[i]
  OBVIOUS
<1> HIDE DEF longer
<1>2. CASE c # 0
  BY <1>1, <1>2 DEF Queued
<1>3. CASE c = 0
  <2>1. CASE settled = size /\ \A i \in DOMAIN queued : queued[i] = 0
    <3>1. \A i \in DOMAIN longer : longer[i] = 0  BY <1>1, <1>3, <2>1
    <3> QED BY <3>1, <1>3, <2>1 DEF Queued, longer
  <2>2. ASSUME NEW i \in DOMAIN queued, settled = queued[i], queued[i] # 0,
               \A j \in DOMAIN queued : i < j => queued[j] = 0
        PROVE  Queued(size, longer, settled)
    <3>1. \A j \in DOMAIN longer : i < j => longer[j] = 0  BY <1>1, <1>3, <2>2
    <3>2. i \in DOMAIN longer /\ longer[i] = queued[i]  BY <1>1, <2>2
    <3> QED BY <3>1, <3>2, <2>2 DEF Queued
  <2> QED BY <2>1, <2>2, <1>3 DEF Queued, longer
<1> QED BY <1>2, <1>3 DEF longer

\* The scheduler takes the first command, and its size if it is one.
LEMMA QueuedTail ==
  ASSUME NEW size, NEW queued \in Seq(Nat), NEW settled, queued # <<>>,
         Queued(size, queued, settled)
  PROVE  Queued(IF Head(queued) = 0 THEN size ELSE Head(queued), Tail(queued), settled)
<1> DEFINE rest == Tail(queued)
<1>1. /\ DOMAIN rest = 1 .. Len(queued) - 1 /\ DOMAIN queued = 1 .. Len(queued)
      /\ Len(queued) \in Nat /\ Len(queued) >= 1 /\ Head(queued) = queued[1]
      /\ \A i \in 1 .. Len(queued) - 1 : rest[i] = queued[i + 1]
  OBVIOUS
<1> HIDE DEF rest
<1>2. CASE settled = size /\ \A i \in DOMAIN queued : queued[i] = 0
  <2>1. \A i \in DOMAIN rest : rest[i] = 0  BY <1>1, <1>2
  <2>2. Head(queued) = 0  BY <1>1, <1>2
  <2> QED BY <2>1, <2>2, <1>2 DEF Queued, rest
<1>3. ASSUME NEW i \in DOMAIN queued, settled = queued[i], queued[i] # 0,
             \A j \in DOMAIN queued : i < j => queued[j] = 0
      PROVE  Queued(IF Head(queued) = 0 THEN size ELSE Head(queued), rest, settled)
  <2>1. CASE i = 1
    <3>1. ASSUME NEW j \in DOMAIN rest  PROVE rest[j] = 0
      <4>1. j + 1 \in DOMAIN queued /\ i < j + 1 /\ rest[j] = queued[j + 1]  BY <1>1, <2>1
      <4> QED BY <4>1, <1>3
    <3> QED BY <3>1, <1>1, <1>3, <2>1 DEF Queued
  <2>2. CASE i # 1
    <3>1. i - 1 \in DOMAIN rest /\ rest[i - 1] = queued[i]  BY <1>1, <1>3, <2>2
    <3>2. ASSUME NEW j \in DOMAIN rest, i - 1 < j  PROVE rest[j] = 0
      <4>1. j + 1 \in DOMAIN queued /\ i < j + 1 /\ rest[j] = queued[j + 1]  BY <1>1, <3>2
      <4> QED BY <4>1, <1>3
    <3> QED BY <3>1, <3>2, <1>3 DEF Queued
  <2> QED BY <2>1, <2>2
<1> QED BY <1>2, <1>3 DEF Queued, rest

LEMMA SizeInitInv == ASSUME SizeAssumption, SizeInit  PROVE SizeIInv
<1>1. width \in Nat /\ InitialWidth \in Nat \ {0} /\ Sidebar.initial \in Nat
  BY DEF SizeAssumption, SizeInit
<1>2. sidebar \in Nat  BY <1>1, SidebarIsWidth DEF SizeInit
<1>3. last \in Nat \ {0}  BY <1>1, <1>2, DesiredIsSize DEF SizeInit
<1>4. SizeTypeOK
  <2>1. pane \in BOOLEAN  BY DEF SizeInit
  <2>2. commands \in Seq(Nat) /\ current \in Nat \ {0}  BY <1>1, <1>3 DEF SizeInit
  <2>3. /\ master \in [SizedServices -> Nat] /\ emulator \in [SizedServices -> Nat]
        /\ sizeCheck \in [SizedServices -> {"check", "read"}]
        /\ stale \in [SizedServices -> Nat]
    BY DEF SizeInit
  <2> QED BY <1>1, <1>2, <1>3, <2>1, <2>2, <2>3 DEF SizeTypeOK
<1>5. Queued(current, commands, last)
  <2>1. DOMAIN commands = {1} /\ commands[1] = last  BY DEF SizeInit
  <2> QED BY <2>1, <1>3 DEF Queued
<1>6. \A s \in SizedServices : master[s] \in {0, current} /\ LooksAgain(s)
  BY DEF SizeInit, LooksAgain
<1> QED BY <1>4, <1>5, <1>6 DEF SizeIInv

\* A new layout is queued, or it changes nothing that the scheduler sees.
LEMMA LayoutPreserves ==
  ASSUME SizeIInv, NEW w \in Nat, NEW side \in Nat, NEW split \in BOOLEAN,
         Layout(w, side, split)
  PROVE  SizeIInv'
<1> DEFINE cols == DesiredPtySize(w, side, split)
<1>1. cols \in Nat \ {0}  BY DesiredIsSize
<1>2. \/ last' = cols /\ commands' = Append(commands, cols)
      \/ last' = last /\ commands' = commands
  BY DEF Layout, MaybeResize
<1>3. UNCHANGED <<current, ptyVars>> /\ width' = w /\ sidebar' = side /\ pane' = split
  BY DEF Layout
<1> HIDE DEF cols
<1>4. SizeTypeOK'
  <2>1. pane' \in BOOLEAN  BY <1>3
  <2>2. width' \in Nat /\ sidebar' \in Nat  BY <1>3
  <2>3. last' \in Nat \ {0} /\ commands' \in Seq(Nat) /\ current' \in Nat \ {0}
    <3>1. last \in Nat \ {0} /\ commands \in Seq(Nat) /\ current \in Nat \ {0}
      BY DEF SizeIInv, SizeTypeOK
    <3>2. current' = current  BY <1>3
    <3>3. Append(commands, cols) \in Seq(Nat)  BY <1>1, <3>1
    <3>4. CASE last' = cols /\ commands' = Append(commands, cols)
      BY <1>1, <3>1, <3>2, <3>3, <3>4
    <3>5. CASE last' = last /\ commands' = commands
      BY <3>1, <3>2, <3>5
    <3> QED BY <1>2, <3>4, <3>5
  <2>4. /\ master' \in [SizedServices -> Nat] /\ emulator' \in [SizedServices -> Nat]
        /\ sizeCheck' \in [SizedServices -> {"check", "read"}]
        /\ stale' \in [SizedServices -> Nat]
    BY <1>3 DEF SizeIInv, SizeTypeOK, ptyVars
  <2> QED BY <2>1, <2>2, <2>3, <2>4 DEF SizeTypeOK
<1>5. Queued(current, commands, last)'
  <2>1. CASE last' = cols /\ commands' = Append(commands, cols)
    <3>1. Queued(current, Append(commands, cols), cols)
      BY <1>1, QueuedAppend DEF SizeIInv, SizeTypeOK
    <3> QED BY <3>1, <2>1, <1>3
  <2>2. CASE last' = last /\ commands' = commands
    BY <2>2, <1>3 DEF SizeIInv
  <2> QED BY <1>2, <2>1, <2>2
<1>6. (\A s \in SizedServices : master[s] \in {0, current} /\ LooksAgain(s))'
  BY <1>3 DEF SizeIInv, LooksAgain, ptyVars
<1> QED BY <1>4, <1>5, <1>6 DEF SizeIInv

LEMMA OtherCommandPreserves ==
  ASSUME SizeIInv, OtherCommand  PROVE SizeIInv'
<1>1. commands' = Append(commands, 0) /\ UNCHANGED <<uiVars, current, ptyVars>>
  BY DEF OtherCommand
<1>2. SizeTypeOK'  BY <1>1 DEF SizeIInv, SizeTypeOK, ptyVars, uiVars
<1>3. Queued(current, Append(commands, 0), last)
  BY QueuedAppend DEF SizeIInv, SizeTypeOK
<1>4. Queued(current, commands, last)'  BY <1>1, <1>3 DEF uiVars
<1>5. (\A s \in SizedServices : master[s] \in {0, current} /\ LooksAgain(s))'
  BY <1>1 DEF SizeIInv, LooksAgain, ptyVars
<1> QED BY <1>2, <1>4, <1>5 DEF SizeIInv

LEMMA HandleCommandPreserves ==
  ASSUME SizeIInv, HandleCommand  PROVE SizeIInv'
<1> DEFINE cols == Head(commands)
<1>1. commands \in Seq(Nat) /\ commands # <<>> /\ commands' = Tail(commands)
  BY DEF HandleCommand, SizeIInv, SizeTypeOK
<1>2. cols \in Nat /\ commands' \in Seq(Nat)  BY <1>1
<1>3. UNCHANGED <<uiVars, emulator, sizeCheck>>  BY DEF HandleCommand
<1>4. Queued(IF cols = 0 THEN current ELSE cols, commands', last)
  BY <1>1, QueuedTail DEF SizeIInv
<1>5. CASE cols = 0
  <2>1. UNCHANGED <<current, master, stale>>  BY <1>5 DEF HandleCommand
  <2>2. SizeTypeOK'  BY <1>2, <1>3, <2>1 DEF SizeIInv, SizeTypeOK, uiVars
  <2>3. (\A s \in SizedServices : master[s] \in {0, current} /\ LooksAgain(s))'
    BY <1>3, <2>1 DEF SizeIInv, LooksAgain
  <2>4. Queued(current, commands, last)'  BY <1>3, <1>4, <1>5, <2>1 DEF uiVars
  <2> QED BY <2>2, <2>3, <2>4 DEF SizeIInv
<1>6. CASE cols # 0
  <2>1. /\ current' = cols
        /\ master' = [s \in SizedServices |-> IF master[s] = 0 THEN 0 ELSE cols]
        /\ stale' = [s \in SizedServices |-> 0]
    BY <1>6 DEF HandleCommand
  <2>2. SizeTypeOK'  BY <1>2, <1>3, <1>6, <2>1 DEF SizeIInv, SizeTypeOK, uiVars
  <2>3. (\A s \in SizedServices : master[s] \in {0, current} /\ LooksAgain(s))'
    BY <2>1 DEF LooksAgain
  <2>4. Queued(current, commands, last)'  BY <1>3, <1>4, <1>6, <2>1 DEF uiVars
  <2> QED BY <2>2, <2>3, <2>4 DEF SizeIInv
<1> QED BY <1>5, <1>6

\* One service's run, its terminal and its reader.
LEMMA PtyStepPreserves ==
  ASSUME SizeIInv, NEW s \in SizedServices,
         StartSized(s) \/ ExitSized(s) \/ CheckSize(s) \/ ReadChunk(s)
  PROVE  SizeIInv'
<1>1. UNCHANGED <<uiVars, commands, current>>
  BY DEF StartSized, ExitSized, CheckSize, ReadChunk
<1>2. Queued(current, commands, last)'  BY <1>1 DEF SizeIInv, uiVars
<1>3. CASE StartSized(s)
  BY <1>1, <1>2, <1>3 DEF StartSized, SizeIInv, SizeTypeOK, LooksAgain, uiVars
<1>4. CASE ExitSized(s)
  BY <1>1, <1>2, <1>4 DEF ExitSized, SizeIInv, SizeTypeOK, LooksAgain, uiVars
<1>5. CASE CheckSize(s)
  BY <1>1, <1>2, <1>5 DEF CheckSize, SizeIInv, SizeTypeOK, LooksAgain, uiVars
<1>6. CASE ReadChunk(s)
  BY <1>1, <1>2, <1>6 DEF ReadChunk, SizeIInv, SizeTypeOK, LooksAgain, uiVars, Least
<1> QED BY <1>3, <1>4, <1>5, <1>6

\* The invariant is inductive.
THEOREM SizeInvariance ==
  ASSUME SizeAssumption  PROVE SizeSpec => []SizeIInv
<1>1. SizeInit => SizeIInv  BY SizeInitInv
<1>2. SizeIInv /\ [SizeNext]_sizeVars => SizeIInv'
  <2> SUFFICES ASSUME SizeIInv, [SizeNext]_sizeVars  PROVE SizeIInv'
    OBVIOUS
  <2>1. width \in Nat /\ sidebar \in Nat  BY DEF SizeIInv, SizeTypeOK
  <2>2. pane \in BOOLEAN /\ (~pane) \in BOOLEAN
    BY Zenon DEF SizeIInv, SizeTypeOK
  <2>3. ASSUME NEW w \in Widths, TerminalResized(w)  PROVE SizeIInv'
    <3>1. w \in Nat  BY DEF SizeAssumption
    <3>2. ClampSidebar(sidebar, Unreserved(w)) \in Nat  BY <2>1, <3>1, SidebarIsWidth
    <3> QED BY <2>2, <2>1, <2>3, <3>1, <3>2, LayoutPreserves DEF TerminalResized
  <2>4. CASE ResizeLeft
    BY <2>2, <2>1, <2>4, SidebarIsWidth, LayoutPreserves DEF ResizeLeft
  <2>5. CASE ResizeRight
    BY <2>2, <2>1, <2>5, SidebarIsWidth, LayoutPreserves DEF ResizeRight
  <2>6. CASE TogglePane
    BY <2>1, <2>6, LayoutPreserves DEF TogglePane
  <2>7. CASE OtherCommand  BY <2>7, OtherCommandPreserves
  <2>8. CASE HandleCommand  BY <2>8, HandleCommandPreserves
  <2>9. ASSUME NEW s \in SizedServices,
               StartSized(s) \/ ExitSized(s) \/ CheckSize(s) \/ ReadChunk(s)
        PROVE  SizeIInv'
    BY <2>9, PtyStepPreserves
  <2>10. CASE UNCHANGED sizeVars
    BY <2>10 DEF SizeIInv, SizeTypeOK, LooksAgain, sizeVars, uiVars, ptyVars
  <2> QED BY <2>3, <2>4, <2>5, <2>6, <2>7, <2>8, <2>9, <2>10 DEF SizeNext
<1> QED BY <1>1, <1>2, PTL DEF SizeSpec

\* The size that the TUI takes for settled is the one that every terminal has or
\* will have, and at most one chunk is read at another (lib.rs, scheduler.rs,
\* pty.rs).
THEOREM SizesAgreeHolds ==
  ASSUME SizeAssumption  PROVE SizeSpec => []SizesAgree
<1>1. SizeIInv => SizesAgree
  BY DEF SizeIInv, SizesAgree, Queued, LooksAgain
<1> QED BY <1>1, SizeInvariance, PTL
=============================================================================
