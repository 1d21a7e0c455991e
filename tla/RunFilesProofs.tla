----------------------------- MODULE RunFilesProofs -----------------------------
(***************************************************************************)
(* A page of a run's log file is the one its query asks for, for every     *)
(* number of lines, every size of the queue, the file and the cache, and   *)
(* every query.                                                            *)
(*                                                                         *)
(* The records of a file are `InTurn`: a line's first record is an append  *)
(* with a greater number than all before, and others replace its text; so  *)
(* are those that wait (`QueueOrder`, `FileOrder`), although the queue     *)
(* drops records and a rotation the file.  Reading one record after the    *)
(* other has taken what the query asks for of the records so far           *)
(* (`ReadTo`), wherever an index that is right about them (`Knows`) lets   *)
(* it start.  The index is right because it is named by its epoch          *)
(* (`Indexed`); and a reader's page is checked against the epoch that it   *)
(* saw (`Reading`), which is why nothing has to be said of a page that was *)
(* read across a rotation.                                                 *)
(***************************************************************************)
EXTENDS LogStoreProofs, RunFiles

\* The types of a record, of the worker's commands, of the metadata and of the
\* readers' index.
FileRecords == [seq : Nat \ {0}, text : Nat, op : {AppendOp, Replace}]
DiskCommands == [do : {"begin", "remove"}] \cup [do : {"write"}, record : FileRecords]
Metas == [epoch : Nat, readable : Nat, lines : Nat, first : Nat, last : Nat]
Offsets == [seq : Nat \ {0}, offset : Nat]
Indexes == [epoch : Nat, scanned : Nat, last : Nat, offsets : Seq(Offsets)]

FileTypeOK ==
  /\ nextSeq \in Nat \ {0} /\ lastSeq \in Nat
  /\ live \in Nat /\ retained \in BOOLEAN /\ logged \in Nat
  /\ diskCommands \in Seq(DiskCommands)
  /\ worker \in {IdleWorker} \cup [pc : {"chosen", "written"}, record : FileRecords]
  /\ file \in Seq(FileRecords) /\ exists \in BOOLEAN
  /\ meta \in Metas /\ index \in Indexes

\* What a record says follows what an earlier one says.
Before(record, later) ==
  record.seq <= later.seq /\ (later.op = AppendOp => record.seq < later.seq)

\* A record may follow those of a file: a line is new, or replaces one of them.
Fits(record, records) ==
  /\ \A n \in DOMAIN records : Before(records[n], record)
  /\ record.op = Replace => record.seq \in Seqs(records)

\* Every record of a file fits those before it.
InTurn(records) ==
  /\ \A m, n \in DOMAIN records : m < n => Before(records[m], records[n])
  /\ \A n \in DOMAIN records : records[n].op = Replace =>
       \E m \in Appends(records) : m < n /\ records[m].seq = records[n].seq

Writes == {i \in DOMAIN diskCommands : diskCommands[i].do = "write"}

\* What the service logged arrives in its order, and nothing after the removal.
QueueOrder ==
  /\ lastSeq < nextSeq
  /\ \A i, j \in Writes : i < j => Before(diskCommands[i].record, diskCommands[j].record)
  /\ \A i \in Writes : diskCommands[i].record.seq <= lastSeq
  /\ \A i \in DOMAIN diskCommands : diskCommands[i].do = "remove" =>
       i = Len(diskCommands) /\ ~retained

\* The worker's record fits the file, or has just ended it; those that wait come
\* after it and after the file.
FileOrder ==
  /\ InTurn(file)
  /\ \A n \in DOMAIN file : file[n].seq <= lastSeq
  /\ \A n \in DOMAIN file, i \in Writes : Before(file[n], diskCommands[i].record)
  /\ worker # IdleWorker =>
       /\ exists /\ worker.record.seq <= lastSeq
       /\ \A i \in Writes : Before(worker.record, diskCommands[i].record)
  /\ worker.pc = "chosen" => Fits(worker.record, file)
  /\ worker.pc = "written" => file # <<>> /\ worker.record = file[Len(file)]
  /\ ~exists => file = <<>> \/ (diskCommands = <<>> /\ ~retained)

\* The metadata describes the file, but for a record that is not yet published.
Summary ==
  /\ meta.readable = IF worker.pc = "written" THEN Len(file) - 1 ELSE Len(file)
  /\ meta.lines = Cardinality(Appends(SubSeq(file, 1, meta.readable)))
  /\ meta.first = IF meta.readable = 0 THEN 0 ELSE file[1].seq
  /\ meta.last = IF meta.readable = 0 THEN 0 ELSE file[meta.readable].seq

\* An index is right about the records that it has scanned.
Knows(i, records) ==
  /\ i.scanned <= Len(records)
  /\ \A n \in 1 .. i.scanned : records[n].seq <= i.last
  /\ \A k \in DOMAIN i.offsets :
       /\ i.offsets[k].offset < i.scanned
       /\ records[i.offsets[k].offset + 1].op = AppendOp
       /\ records[i.offsets[k].offset + 1].seq = i.offsets[k].seq

\* Of an older segment the index may say anything.
Indexed ==
  /\ index.epoch <= meta.epoch /\ Increasing(index.offsets)
  /\ index.epoch = meta.epoch => index.scanned <= meta.readable /\ Knows(index, file)

\* The page that a query asks for.
PageOf(page, records, q) ==
  /\ AreLines(page, records)
  /\ IF q.tail = 0 THEN FirstLines(page, records, q) ELSE LastLines(page, records, q)

\* While no rotation has come between, a reader has the page of what was published.
Reading ==
  /\ reader.pc \in {"idle", "asked", "opened", "read", "page"}
  /\ reader.pc # "idle" => reader.query \in Queries
  /\ reader.pc \in {"asked", "opened", "read"} => reader.attempt \in Nat
  /\ reader.pc \in {"opened", "read"} => reader.epoch \in Nat /\ reader.epoch <= meta.epoch
  /\ reader.pc \in {"opened", "read", "page"} =>
       reader.segment \in Seq(FileRecords) /\ InTurn(reader.segment)
  /\ reader.pc = "opened" => reader.readable \in Nat
  /\ (reader.pc = "opened" /\ reader.epoch = meta.epoch) =>
       /\ reader.readable <= meta.readable
       /\ reader.segment = SubSeq(file, 1, reader.readable)
  /\ (reader.pc = "page" \/ (reader.pc = "read" /\ reader.epoch = meta.epoch)) =>
       PageOf(reader.page, reader.segment, reader.query)

\* The inductive invariant.
FileIInv == FileTypeOK /\ QueueOrder /\ FileOrder /\ Summary /\ Indexed /\ Reading

-----------------------------------------------------------------------------
(* The helpers.                                                              *)

LEMMA Lesses ==
  ASSUME NEW n \in Nat, NEW m \in Nat
  PROVE  /\ Lesser(n, m) \in Nat /\ Lesser(n, m) <= n /\ Lesser(n, m) <= m
         /\ (Lesser(n, m) = n \/ Lesser(n, m) = m)
         /\ Beyond(n, m) \in Nat /\ Beyond(n, m) <= n
         /\ (m <= n => Beyond(n, m) = n - m) /\ (n <= m => Beyond(n, m) = 0)
BY DEF Lesser, Beyond

\* The last n elements of a sequence.
LEMMA EndingIs ==
  ASSUME NEW S, NEW s \in Seq(S), NEW n \in Nat
  PROVE  LET b == Beyond(Len(s), n)
         IN  /\ b \in 0 .. Len(s) /\ Ending(s, n) \in Seq(S) /\ Len(Ending(s, n)) = Len(s) - b
             /\ Len(Ending(s, n)) <= n
             /\ (n # 0 /\ s # <<>> => b < Len(s))
             /\ \A i \in 1 .. Len(s) - b : Ending(s, n)[i] = s[b + i]
<1> DEFINE b == Beyond(Len(s), n)
<1>1. Len(s) \in Nat /\ (s # <<>> => Len(s) # 0)
  BY LenProperties, EmptySeq
<1>2. b \in 0 .. Len(s) /\ (n # 0 /\ Len(s) # 0 => b < Len(s)) /\ Len(s) - b <= n
  BY <1>1 DEF Beyond
<1> HIDE DEF b
<1>3. /\ SubSeq(s, b + 1, Len(s)) \in Seq(S) /\ Len(SubSeq(s, b + 1, Len(s))) = Len(s) - b
      /\ \A i \in 1 .. Len(s) - b : SubSeq(s, b + 1, Len(s))[i] = s[b + i]
  BY <1>2, Parts
<1>4. Ending(s, n) = SubSeq(s, b + 1, Len(s))
  BY DEF Ending, b
<1> QED  BY <1>1, <1>2, <1>3, <1>4 DEF b

\* One sequence after another.
LEMMA JoinIs ==
  ASSUME NEW S, NEW s \in Seq(S), NEW t \in Seq(S)
  PROVE  /\ s \o t \in Seq(S) /\ Len(s \o t) = Len(s) + Len(t)
         /\ \A i \in 1 .. Len(s) + Len(t) : (s \o t)[i] = IF i <= Len(s) THEN s[i] ELSE t[i - Len(s)]
BY ConcatProperties

-----------------------------------------------------------------------------
(* The index.                                                                *)

\* The first k offsets are of earlier lines; what is put after them is new.
Splits(s, k, seq) == k \in 0 .. Len(s) /\ \A n \in DOMAIN s : n <= k <=> s[n].seq < seq
Adds(h, e, s, k) == h = <<>> \/ (h = <<e>> /\ (k = Len(s) \/ s[k + 1].seq # e.seq))
Joined(s, k, h) == (SubSeq(s, 1, k) \o h) \o SubSeq(s, k + 1, Len(s))

\* An offset is put in its place, unless its line is known.
LEMMA InsertedIs ==
  ASSUME NEW s \in Seq(Offsets), Increasing(s), NEW e \in Offsets, NEW k, Splits(s, k, e.seq),
         NEW h, Adds(h, e, s, k)
  PROVE  /\ Joined(s, k, h) \in Seq(Offsets) /\ Increasing(Joined(s, k, h))
         /\ \A n \in 1 .. Len(Joined(s, k, h)) :
              Joined(s, k, h)[n] = e \/ \E m \in 1 .. Len(s) : Joined(s, k, h)[n] = s[m]
<1> DEFINE N == Len(s)
           a == SubSeq(s, 1, k)
           b == SubSeq(s, k + 1, N)
           H == Len(h)
           all == (a \o h) \o b
<1>0. /\ k \in 0 .. Len(s) /\ (h = <<>> \/ (h = <<e>> /\ (k = Len(s) \/ s[k + 1].seq # e.seq)))
      /\ \A n \in DOMAIN s : n <= k <=> s[n].seq < e.seq
  BY DEF Splits, Adds
<1>1. N \in Nat /\ DOMAIN s = 1 .. N /\ \A n \in 1 .. N : s[n] \in Offsets /\ s[n].seq \in Nat
  <2>1. \A n \in 1 .. N : s[n] \in Offsets
    BY ElementOfSeq
  <2> QED  BY <2>1, LenProperties DEF Offsets
<1>2. /\ a \in Seq(Offsets) /\ Len(a) = k /\ \A i \in 1 .. k : a[i] = s[i]
      /\ b \in Seq(Offsets) /\ Len(b) = N - k /\ \A i \in 1 .. N - k : b[i] = s[k + i]
  BY <1>0, Parts
<1>3. /\ h \in Seq(Offsets) /\ H \in {0, 1} /\ \A i \in 1 .. H : i = 1 /\ h[i] = e
      /\ H = 1 => k = N \/ s[k + 1].seq # e.seq
  <2>1. <<>> \in Seq(Offsets) /\ Len(<<>>) = 0
    BY EmptySeq
  <2>2. <<e>> \in Seq(Offsets) /\ Len(<<e>>) = 1 /\ <<e>>[1] = e
    OBVIOUS
  <2>3. CASE h = <<>>
    BY <2>1, <2>3
  <2>4. CASE h = <<e>> /\ (k = N \/ s[k + 1].seq # e.seq)
    <3> HIDE DEF N
    <3>1. H = 1
      BY <2>2, <2>4
    <3>2. \A i \in 1 .. 1 : i = 1
      OBVIOUS
    <3> HIDE DEF H
    <3> QED  BY <2>2, <2>4, <3>1, <3>2
  <2> QED  BY <1>0, <2>3, <2>4
<1>4. k \in 0 .. N /\ e.seq \in Nat /\ \A n \in 1 .. N : n <= k <=> s[n].seq < e.seq
  BY <1>0, <1>1 DEF Offsets
<1>5. /\ a \o h \in Seq(Offsets) /\ Len(a \o h) = k + H
      /\ \A i \in 1 .. k : (a \o h)[i] = s[i]
      /\ H = 1 => (a \o h)[k + 1] = e
  <2> HIDE DEF a, b, H, N
  <2>1. /\ a \o h \in Seq(Offsets) /\ Len(a \o h) = k + Len(h)
        /\ \A i \in 1 .. k + Len(h) : (a \o h)[i] = IF i <= k THEN a[i] ELSE h[i - k]
    <3>1. /\ a \o h \in Seq(Offsets) /\ Len(a \o h) = Len(a) + Len(h)
          /\ \A i \in 1 .. Len(a) + Len(h) : (a \o h)[i] = IF i <= Len(a) THEN a[i] ELSE h[i - Len(a)]
      <4>1. a \in Seq(Offsets) /\ h \in Seq(Offsets)
        BY <1>2, <1>3
      <4> QED  BY <4>1, JoinIs, Zenon
    <3> QED  BY <1>2, <3>1
  <2>2. \A i \in 1 .. k : i \in 1 .. k + Len(h) /\ i <= k
    BY <1>1, <1>3, <1>4 DEF H
  <2>3. Len(h) = 1 => k + 1 \in 1 .. k + Len(h) /\ ~(k + 1 <= k) /\ k + 1 - k = 1 /\ 1 \in 1 .. 1
    BY <1>1, <1>4
  <2> QED  BY <1>2, <1>3, <2>1, <2>2, <2>3 DEF H
<1>6. /\ all \in Seq(Offsets) /\ Len(all) = N + H
      /\ \A i \in 1 .. k : all[i] = s[i]
      /\ H = 1 => all[k + 1] = e
      /\ \A i \in k + H + 1 .. N + H : all[i] = s[i - H] /\ i - H \in k + 1 .. N
  <2> HIDE DEF a, b, H, N
  <2> DEFINE ah == a \o h
  <2>0. ah \in Seq(Offsets) /\ Len(ah) = k + H /\ Len(b) = N - k
    BY <1>2, <1>5
  <2> HIDE DEF ah
  <2>1. /\ ah \o b \in Seq(Offsets) /\ Len(ah \o b) = (k + H) + (N - k)
        /\ \A i \in 1 .. (k + H) + (N - k) :
             (ah \o b)[i] = IF i <= k + H THEN ah[i] ELSE b[i - (k + H)]
    <3>1. /\ ah \o b \in Seq(Offsets) /\ Len(ah \o b) = Len(ah) + Len(b)
          /\ \A i \in 1 .. Len(ah) + Len(b) : (ah \o b)[i] = IF i <= Len(ah) THEN ah[i] ELSE b[i - Len(ah)]
      <4>1. ah \in Seq(Offsets) /\ b \in Seq(Offsets)
        BY <1>2, <2>0
      <4> QED  BY <4>1, JoinIs, Zenon
    <3> QED  BY <2>0, <3>1
  <2>2. (k + H) + (N - k) = N + H /\ \A i \in 1 .. k : i \in 1 .. N + H /\ i <= k + H
    BY <1>1, <1>3, <1>4
  <2>3. H = 1 => k + 1 \in 1 .. N + H /\ k + 1 <= k + H
    BY <1>1, <1>3, <1>4
  <2>4. \A i \in k + H + 1 .. N + H : /\ i \in 1 .. N + H /\ ~(i <= k + H)
                                     /\ i - (k + H) \in 1 .. N - k
                                     /\ k + (i - (k + H)) = i - H /\ i - H \in k + 1 .. N
    BY <1>1, <1>3, <1>4
  <2>5. \A i \in k + H + 1 .. N + H : (ah \o b)[i] = s[i - H]
    <3> SUFFICES ASSUME NEW i \in k + H + 1 .. N + H  PROVE (ah \o b)[i] = s[i - H]
      OBVIOUS
    <3> DEFINE j == i - (k + H)
    <3>1. j \in 1 .. N - k /\ k + j = i - H /\ i \in 1 .. (k + H) + (N - k) /\ ~(i <= k + H)
      BY <2>2, <2>4
    <3>2. (ah \o b)[i] = b[j]
      BY <2>1, <3>1
    <3> HIDE DEF j
    <3>3. b[j] = s[k + j]
      BY <1>2, <3>1
    <3> QED  BY <3>1, <3>2, <3>3
  <2>6. all = ah \o b
    BY DEF ah
  <2>7. all \in Seq(Offsets) /\ Len(all) = N + H
    BY <2>1, <2>2, <2>6
  <2>8. \A i \in 1 .. k : all[i] = s[i]
    <3>1. \A i \in 1 .. k : (ah \o b)[i] = ah[i]
      BY <2>1, <2>2
    <3> HIDE DEF all
    <3> QED  BY <1>5, <2>6, <3>1 DEF ah
  <2>9. H = 1 => all[k + 1] = e
    <3>1. H = 1 => (ah \o b)[k + 1] = ah[k + 1]
      BY <2>1, <2>2, <2>3
    <3> HIDE DEF all
    <3> QED  BY <1>5, <2>6, <3>1 DEF ah
  <2> HIDE DEF all
  <2>10. \A i \in k + H + 1 .. N + H : all[i] = s[i - H] /\ i - H \in k + 1 .. N
    BY <2>4, <2>5, <2>6
  <2> QED  BY <2>7, <2>8, <2>9, <2>10
<1> HIDE DEF all, a, b, H
<1>7. ASSUME NEW i \in 1 .. N + H
      PROVE  \/ i <= k /\ all[i] = s[i] /\ i \in 1 .. N
             \/ H = 1 /\ i = k + 1 /\ all[i] = e
             \/ i \in k + H + 1 .. N + H /\ all[i] = s[i - H] /\ i - H \in k + 1 .. N
  <2> HIDE DEF N
  <2>1. \/ i \in 1 .. k /\ i \in 1 .. N
        \/ H = 1 /\ i = k + 1
        \/ i \in k + H + 1 .. N + H
    BY <1>1, <1>3, <1>4
  <2> QED  BY <1>6, <2>1
<1>8. \A n \in 1 .. N : n > k => s[n].seq >= e.seq
  <2> HIDE DEF N
  <2> QED  BY <1>1, <1>4
<1>9. H = 1 => \A n \in k + 1 .. N : s[n].seq > e.seq
  <2> SUFFICES ASSUME H = 1, NEW n \in k + 1 .. N  PROVE s[n].seq > e.seq
    OBVIOUS
  <2> HIDE DEF N
  <2>1. k + 1 \in 1 .. N /\ n \in 1 .. N /\ (n = k + 1 \/ k + 1 < n) /\ k # N /\ k + 1 > k
    BY <1>1, <1>4
  <2>2. s[k + 1].seq > e.seq
    BY <1>1, <1>3, <1>4, <1>8, <2>1
  <2>3. n = k + 1 \/ s[k + 1].seq < s[n].seq
    BY <1>1, <2>1 DEF Increasing
  <2> QED  BY <1>1, <1>4, <2>1, <2>2, <2>3
<1>10. ASSUME NEW i \in 1 .. N + H, NEW j \in 1 .. N + H, i < j  PROVE all[i].seq < all[j].seq
  <2> HIDE DEF N
  <2>1. CASE i <= k /\ all[i] = s[i] /\ i \in 1 .. N
    <3>1. CASE j <= k /\ all[j] = s[j] /\ j \in 1 .. N
      BY <1>1, <1>10, <2>1, <3>1 DEF Increasing
    <3>2. CASE H = 1 /\ j = k + 1 /\ all[j] = e
      BY <1>4, <2>1, <3>2
    <3>3. CASE j \in k + H + 1 .. N + H /\ all[j] = s[j - H] /\ j - H \in k + 1 .. N
      <4>1. j - H \in 1 .. N /\ i < j - H
        BY <1>1, <1>3, <1>4, <2>1, <3>3
      <4> QED  BY <1>1, <2>1, <3>3, <4>1 DEF Increasing
    <3> QED  BY <1>7, <3>1, <3>2, <3>3
  <2>2. CASE H = 1 /\ i = k + 1 /\ all[i] = e
    <3>1. j \in k + H + 1 .. N + H /\ all[j] = s[j - H] /\ j - H \in k + 1 .. N
      BY <1>1, <1>3, <1>4, <1>7, <1>10, <2>2
    <3> QED  BY <1>9, <1>1, <1>4, <2>2, <3>1
  <2>3. CASE i \in k + H + 1 .. N + H /\ all[i] = s[i - H] /\ i - H \in k + 1 .. N
    <3>1. ~(j <= k) /\ j # k + 1
      BY <1>1, <1>3, <1>4, <1>10, <2>3
    <3>2. j \in k + H + 1 .. N + H /\ all[j] = s[j - H] /\ j - H \in k + 1 .. N
      BY <1>7, <3>1
    <3>3. i - H \in 1 .. N /\ j - H \in 1 .. N /\ i - H < j - H
      BY <1>1, <1>3, <1>4, <1>10, <2>3, <3>2
    <3> QED  BY <1>1, <2>3, <3>2, <3>3 DEF Increasing
  <2> QED  BY <1>7, <2>1, <2>2, <2>3
<1>11. \A n \in 1 .. N + H : all[n] = e \/ \E m \in 1 .. N : all[n] = s[m]
  <2> HIDE DEF N
  <2>1. \A n : n \in k + 1 .. N => n \in 1 .. N
    BY <1>1, <1>4
  <2> QED  BY <1>7, <2>1
<1>12. DOMAIN all = 1 .. N + H
  BY <1>6, LenProperties
<1>13. Increasing(all)
  BY <1>10, <1>12 DEF Increasing
<1>14. Joined(s, k, h) = all
  BY DEF Joined, all, a, b
<1> QED  BY <1>6, <1>11, <1>13, <1>14

\* The offsets before the place of a line are those of earlier lines.
LEMMA PlaceIs ==
  ASSUME NEW s \in Seq(Offsets), Increasing(s), NEW seq \in Nat
  PROVE  \E k \in 0 .. Len(s) : \A n \in DOMAIN s : n <= k <=> s[n].seq < seq
<1> DEFINE N == Len(s)
           B == {k \in 0 .. N : k = N \/ ~(s[k + 1].seq < seq)}
<1>1. N \in Nat /\ DOMAIN s = 1 .. N /\ \A i \in 1 .. N : s[i].seq \in Nat
  <2>1. \A n \in 1 .. N : s[n] \in Offsets
    BY ElementOfSeq
  <2> QED  BY <2>1, LenProperties DEF Offsets
<1> HIDE DEF N
<1>2. PICK k \in B : \A m \in B : k <= m
  <2>1. N \in B /\ B \in SUBSET Nat
    BY <1>1
  <2> HIDE DEF B
  <2> QED  BY <2>1, LeastOf
<1>3. k \in 0 .. N /\ (k = N \/ ~(s[k + 1].seq < seq))
  OBVIOUS
<1>4. ASSUME NEW i \in 1 .. N  PROVE i <= k <=> s[i].seq < seq
  <2>1. CASE i <= k
    <3>1. i - 1 \in 0 .. N /\ ~(k <= i - 1) /\ i - 1 # N /\ (i - 1) + 1 = i
      BY <1>1, <1>3, <2>1
    <3>2. i - 1 \notin B
      <4> HIDE DEF B
      <4> QED  BY <1>2, <3>1
    <3>3. s[(i - 1) + 1].seq < seq
      BY <3>1, <3>2
    <3> QED  BY <1>1, <2>1, <3>1, <3>3
  <2>2. CASE ~(i <= k)
    <3>1. k + 1 \in 1 .. N /\ ~(s[k + 1].seq < seq) /\ (i = k + 1 \/ k + 1 < i)
      BY <1>1, <1>3, <2>2
    <3>2. i = k + 1 \/ s[k + 1].seq < s[i].seq
      BY <1>1, <3>1 DEF Increasing
    <3> QED  BY <1>1, <2>2, <3>1, <3>2
  <2> QED  BY <2>1, <2>2
<1> QED  BY <1>1, <1>3, <1>4 DEF N

\* observe_append keeps the index sorted, and adds one offset at most.
LEMMA ObservedIs ==
  ASSUME RunFilesAssumption, NEW i \in Indexes, Increasing(i.offsets),
         NEW seq \in Nat \ {0}, NEW offset \in Nat
  PROVE  LET o == Observed(i, seq, offset)
         IN  /\ o \in Indexes /\ o.epoch = i.epoch /\ o.scanned = i.scanned
             /\ o.last = IF i.last > seq THEN i.last ELSE seq
             /\ Increasing(o.offsets)
             /\ \A k \in DOMAIN o.offsets :
                  \/ o.offsets[k] = [seq |-> seq, offset |-> offset]
                  \/ \E m \in DOMAIN i.offsets : o.offsets[k] = i.offsets[m]
<1> DEFINE s == i.offsets
           N == Len(s)
           e == [seq |-> seq, offset |-> offset]
           Is(k) == \A n \in DOMAIN s : n <= k <=> s[n].seq < seq
           k == CHOOSE q \in 0 .. N : Is(q)
           later == SubSeq(s, k + 1, N)
           h == IF later # <<>> /\ later[1].seq = seq THEN <<>> ELSE <<e>>
           all == (SubSeq(s, 1, k) \o h) \o later
           last == IF i.last > seq THEN i.last ELSE seq
           kept == Ending(all, CacheMax)
           o == Observed(i, seq, offset)
<1>1. /\ s \in Seq(Offsets) /\ N \in Nat /\ DOMAIN s = 1 .. N /\ e \in Offsets
      /\ i.last \in Nat /\ i.epoch \in Nat /\ i.scanned \in Nat
  BY LenProperties DEF Indexes, Offsets
<1>2. o = [i EXCEPT !.last = last, !.offsets = kept]
  BY DEF Observed
<1>3. CacheMax \in Nat \ {0}
  BY DEF RunFilesAssumption
<1>4. k \in 0 .. N /\ Is(k)
  <2>1. \E q \in 0 .. N : Is(q)
    <3> HIDE DEF s
    <3> QED  BY <1>1, PlaceIs DEF s
  <2> HIDE DEF Is, N
  <2> QED  BY <2>1
<1>5. h = <<>> \/ (h = <<e>> /\ (k = N \/ s[k + 1].seq # e.seq))
  <2> SUFFICES ASSUME ~(later # <<>> /\ later[1].seq = seq), k # N  PROVE s[k + 1].seq # e.seq
    OBVIOUS
  <2> HIDE DEF k, s
  <2>1. /\ later \in Seq(Offsets) /\ Len(later) = N - k
        /\ \A j \in 1 .. N - k : later[j] = s[k + j]
    BY <1>1, <1>4, Parts
  <2> HIDE DEF later, N
  <2>2. N - k # 0 /\ 1 \in 1 .. N - k
    BY <1>1, <1>4
  <2>3. later # <<>>
    BY <2>1, <2>2, EmptySeq
  <2>4. later[1] = s[k + 1]
    BY <2>1, <2>2
  <2> QED  BY <2>3, <2>4
<1>6. /\ all \in Seq(Offsets) /\ Increasing(all)
      /\ \A n \in 1 .. Len(all) : all[n] = e \/ \E m \in 1 .. N : all[n] = s[m]
  <2>1. Splits(s, k, e.seq)
    BY <1>1, <1>4 DEF Splits
  <2>2. Adds(h, e, s, k)
    BY <1>5 DEF Adds
  <2>3. s \in Seq(Offsets) /\ Increasing(s) /\ e \in Offsets
    BY <1>1
  <2>4. all = Joined(s, k, h)
    BY DEF Joined
  <2> HIDE DEF h, k, s, e, all
  <2> QED  BY <2>1, <2>2, <2>3, <2>4, InsertedIs DEF N
<1> HIDE DEF all
<1> DEFINE b == Beyond(Len(all), CacheMax)
<1>7. /\ b \in 0 .. Len(all) /\ kept \in Seq(Offsets) /\ Len(kept) = Len(all) - b
      /\ \A j \in 1 .. Len(all) - b : kept[j] = all[b + j]
  BY <1>3, <1>6, EndingIs
<1>8. DOMAIN all = 1 .. Len(all) /\ DOMAIN kept = 1 .. Len(all) - b /\ Len(all) \in Nat
  BY <1>6, <1>7, LenProperties
<1> HIDE DEF b, kept
<1>9. \A j \in 1 .. Len(all) - b : b + j \in 1 .. Len(all)
  BY <1>7, <1>8
<1>10. Increasing(kept)
  <2>1. \A x, y \in 1 .. Len(all) - b : x < y => b + x < b + y
    BY <1>7, <1>8
  <2>2. \A x, y \in 1 .. Len(all) : x < y => all[x].seq < all[y].seq
    BY <1>6, <1>8 DEF Increasing
  <2>3. \A x, y \in 1 .. Len(all) - b : x < y => kept[x].seq < kept[y].seq
    BY <1>7, <1>9, <2>1, <2>2
  <2> QED  BY <1>8, <2>3 DEF Increasing
<1>11. \A j \in DOMAIN kept : kept[j] = e \/ \E m \in DOMAIN s : kept[j] = s[m]
  <2> SUFFICES ASSUME NEW j \in 1 .. Len(all) - b
               PROVE  kept[j] = e \/ \E m \in DOMAIN s : kept[j] = s[m]
    BY <1>8
  <2> HIDE DEF e, s, N
  <2>1. b + j \in 1 .. Len(all) /\ kept[j] = all[b + j]
    BY <1>7, <1>9
  <2>2. all[b + j] = e \/ \E m \in 1 .. N : all[b + j] = s[m]
    BY <1>6, <2>1
  <2> QED  BY <1>1, <2>1, <2>2
<1>12. o.offsets = kept /\ o.last = last /\ o.epoch = i.epoch /\ o.scanned = i.scanned /\ o \in Indexes
  <2> HIDE DEF o
  <2>1. last \in Nat
    BY <1>1
  <2> HIDE DEF last
  <2> QED  BY <1>1, <1>2, <1>7, <2>1 DEF Indexes
<1> QED  BY <1>10, <1>11, <1>12 DEF e

\* A scanned record leaves an index that is right about it, too.
LEMMA ScannedType ==
  ASSUME RunFilesAssumption, NEW i \in Indexes, Increasing(i.offsets),
         NEW record \in FileRecords, NEW n \in Nat \ {0}
  PROVE  LET o == Scanned(i, record, n)
         IN  /\ o \in Indexes /\ o.epoch = i.epoch /\ Increasing(o.offsets)
             /\ o.scanned = IF i.scanned > n THEN i.scanned ELSE n
             /\ o.last = IF record.op # AppendOp \/ i.last > record.seq THEN i.last ELSE record.seq
             /\ \A k \in DOMAIN o.offsets :
                  \/ o.offsets[k] = [seq |-> record.seq, offset |-> n - 1] /\ record.op = AppendOp
                  \/ \E m \in DOMAIN i.offsets : o.offsets[k] = i.offsets[m]
<1> DEFINE scanned == IF i.scanned > n THEN i.scanned ELSE n
           to == [i EXCEPT !.scanned = scanned]
           o == Scanned(i, record, n)
<1>1. /\ to \in Indexes /\ to.epoch = i.epoch /\ to.offsets = i.offsets
      /\ to.scanned = scanned /\ to.last = i.last
  BY DEF Indexes
<1>2. record.seq \in Nat \ {0} /\ n - 1 \in Nat
  BY DEF FileRecords
<1>3. CASE record.op = AppendOp
  <2>1. o = Observed(to, record.seq, n - 1)
    BY <1>3 DEF Scanned
  <2> HIDE DEF o, to, scanned
  <2> QED  BY <1>1, <1>2, <1>3, <2>1, ObservedIs DEF o, scanned
<1>4. CASE record.op # AppendOp
  <2>1. o = to
    BY <1>4 DEF Scanned
  <2> HIDE DEF o, to, scanned
  <2> QED  BY <1>1, <1>4, <2>1 DEF o, scanned
<1> QED  BY <1>3, <1>4

\* Of a file in turn, what is known of two records.
LEMMA TurnIs ==
  ASSUME NEW records \in Seq(FileRecords), InTurn(records)
  PROVE  /\ Len(records) \in Nat /\ DOMAIN records = 1 .. Len(records)
         /\ \A n \in 1 .. Len(records) :
              /\ records[n] \in FileRecords /\ records[n].seq \in Nat \ {0}
              /\ records[n].text \in Nat /\ records[n].op \in {AppendOp, Replace}
         /\ \A m, n \in 1 .. Len(records) : m <= n => records[m].seq <= records[n].seq
         /\ \A m, n \in 1 .. Len(records) :
              (m < n /\ records[n].op = AppendOp) => records[m].seq < records[n].seq
         /\ \A n \in 1 .. Len(records) : records[n].op # AppendOp =>
              \E m \in 1 .. n - 1 : records[m].op = AppendOp /\ records[m].seq = records[n].seq
<1>1. Len(records) \in Nat /\ DOMAIN records = 1 .. Len(records)
  BY LenProperties
<1>2. \A n \in 1 .. Len(records) : records[n] \in FileRecords
  BY ElementOfSeq
<1>3. \A r \in FileRecords : r.seq \in Nat \ {0} /\ r.text \in Nat /\ r.op \in {AppendOp, Replace}
  BY DEF FileRecords
<1>4. ASSUME NEW m \in 1 .. Len(records), NEW n \in 1 .. Len(records)
      PROVE  /\ m <= n => records[m].seq <= records[n].seq
             /\ (m < n /\ records[n].op = AppendOp) => records[m].seq < records[n].seq
  <2>1. m < n => Before(records[m], records[n])
    BY <1>1 DEF InTurn
  <2>2. m <= n => m < n \/ m = n
    BY <1>1
  <2>3. records[m].seq \in Nat /\ records[n].seq \in Nat
    BY <1>2, <1>3
  <2> QED  BY <2>1, <2>2, <2>3 DEF Before
<1>5. ASSUME NEW n \in 1 .. Len(records), records[n].op # AppendOp
      PROVE  \E m \in 1 .. n - 1 : records[m].op = AppendOp /\ records[m].seq = records[n].seq
  <2>1. records[n].op = Replace
    BY <1>2, <1>3, <1>5
  <2>2. PICK m \in Appends(records) : m < n /\ records[m].seq = records[n].seq
    BY <1>1, <2>1 DEF InTurn
  <2>3. m \in 1 .. n - 1 /\ records[m].op = AppendOp
    BY <1>1, <2>2 DEF Appends
  <2> QED  BY <2>2, <2>3
<1> QED  BY <1>1, <1>2, <1>3, <1>4, <1>5

\* An index that has scanned the records before this one is right about it, too.
LEMMA ScannedKnows ==
  ASSUME RunFilesAssumption, NEW i \in Indexes, Increasing(i.offsets),
         NEW records \in Seq(FileRecords), InTurn(records), NEW n \in 1 .. Len(records),
         Knows(i, records), n - 1 <= i.scanned
  PROVE  Knows(Scanned(i, records[n], n), records) /\ n <= Scanned(i, records[n], n).scanned
<1> DEFINE r == records[n]
           o == Scanned(i, r, n)
           N == Len(records)
<1>1. /\ N \in Nat /\ DOMAIN records = 1 .. N
      /\ \A m \in 1 .. N : records[m] \in FileRecords /\ records[m].seq \in Nat
      /\ \A m, l \in 1 .. N : m <= l => records[m].seq <= records[l].seq
      /\ \A m \in 1 .. N : records[m].op # AppendOp =>
           \E l \in 1 .. m - 1 : records[l].op = AppendOp /\ records[l].seq = records[m].seq
  BY TurnIs
<1>2. r \in FileRecords /\ r.seq \in Nat /\ n \in Nat \ {0} /\ n \in 1 .. N
  BY <1>1
<1> HIDE DEF r, o, N
<1>3. /\ o \in Indexes
      /\ o.scanned = IF i.scanned > n THEN i.scanned ELSE n
      /\ o.last = IF r.op # AppendOp \/ i.last > r.seq THEN i.last ELSE r.seq
      /\ \A k \in DOMAIN o.offsets :
           \/ o.offsets[k] = [seq |-> r.seq, offset |-> n - 1] /\ r.op = AppendOp
           \/ \E m \in DOMAIN i.offsets : o.offsets[k] = i.offsets[m]
  BY <1>2, ScannedType DEF o
<1>4. /\ i.scanned \in Nat /\ i.last \in Nat /\ i.scanned <= N
      /\ \A m \in 1 .. i.scanned : records[m].seq <= i.last
      /\ \A m \in DOMAIN i.offsets :
           /\ i.offsets[m].offset < i.scanned /\ i.offsets[m].offset \in Nat
           /\ records[i.offsets[m].offset + 1].op = AppendOp
           /\ records[i.offsets[m].offset + 1].seq = i.offsets[m].seq
  <2>1. \A m \in DOMAIN i.offsets : i.offsets[m] \in Offsets
    BY ElementOfSeq, LenProperties DEF Indexes
  <2> QED  BY <2>1 DEF Indexes, Offsets, Knows, N
<1>5. o.scanned <= N /\ n <= o.scanned /\ i.scanned <= o.scanned /\ o.last >= i.last
      /\ o.scanned \in Nat /\ o.last \in Nat
  BY <1>1, <1>2, <1>3, <1>4
<1>6. r.seq <= o.last
  <2>1. CASE r.op = AppendOp
    BY <1>2, <1>3, <1>4, <2>1
  <2>2. CASE r.op # AppendOp
    <3>1. PICK l \in 1 .. n - 1 : records[l].seq = r.seq
      BY <1>1, <1>2, <2>2 DEF r
    <3>2. l \in 1 .. i.scanned
      BY <1>2, <1>4
    <3>3. r.seq <= i.last
      BY <1>4, <3>1, <3>2
    <3> QED  BY <1>2, <1>4, <1>5, <3>3
  <2> QED  BY <2>1, <2>2
<1>7. ASSUME NEW m \in 1 .. o.scanned  PROVE records[m].seq <= o.last
  <2>0. m \in 1 .. N
    BY <1>1, <1>5
  <2>1. CASE m \in 1 .. i.scanned
    BY <1>1, <1>4, <1>5, <2>0, <2>1
  <2>2. CASE m \notin 1 .. i.scanned
    <3>1. m = n
      BY <1>2, <1>3, <1>4, <1>7, <2>2
    <3> QED  BY <1>6, <3>1 DEF r
  <2> QED  BY <2>1, <2>2
<1>8. ASSUME NEW k \in DOMAIN o.offsets
      PROVE  /\ o.offsets[k].offset < o.scanned
             /\ records[o.offsets[k].offset + 1].op = AppendOp
             /\ records[o.offsets[k].offset + 1].seq = o.offsets[k].seq
  <2>1. CASE o.offsets[k] = [seq |-> r.seq, offset |-> n - 1] /\ r.op = AppendOp
    <3>1. o.offsets[k].offset = n - 1 /\ o.offsets[k].seq = r.seq
      BY <2>1
    <3>2. n - 1 < o.scanned /\ (n - 1) + 1 = n
      BY <1>2, <1>5
    <3> QED  BY <2>1, <3>1, <3>2 DEF r
  <2>2. CASE \E m \in DOMAIN i.offsets : o.offsets[k] = i.offsets[m]
    BY <1>4, <1>5, <2>2
  <2> QED  BY <1>3, <2>1, <2>2
<1>9. Knows(o, records)
  BY <1>5, <1>7, <1>8 DEF Knows, N
<1> QED  BY <1>5, <1>9 DEF o, r

-----------------------------------------------------------------------------
(* The lines of a page.                                                      *)

\* A line has the text that was last among the first p records.
LastText(line, records, p) ==
  \E n \in 1 .. p :
    /\ records[n].seq = line.seq /\ records[n].text = line.text
    /\ \A m \in 1 .. p : m > n => records[m].seq # line.seq

\* A number is a line's, or that of a line that was before those of a tail.
Told(lines, seq, q) ==
  \/ \E i \in DOMAIN lines : lines[i].seq = seq
  \/ q.tail # 0 /\ \A i \in DOMAIN lines : seq < lines[i].seq

\* The lines after reading from a record on up to the record p: that many have
\* been asked for, and the last of them is the record's.
ReadTo(lines, records, start, p, q) ==
  /\ lines \in Seq(Texts) /\ Increasing(lines)
  /\ \A i \in DOMAIN lines :
       /\ lines[i].seq > q.after /\ LastText(lines[i], records, p)
       /\ \E n \in 1 .. p : records[n].op = AppendOp /\ records[n].seq = lines[i].seq
  /\ \A n \in 1 .. p : records[n].seq > q.after => Told(lines, records[n].seq, q)
  /\ lines # <<>> => p # 0 /\ lines[Len(lines)].seq = records[p].seq
  /\ q.tail # 0 => Len(lines) <= q.tail /\ (start < p => lines # <<>>)
  /\ q.limit # 0 => Len(lines) <= q.limit

\* Where reading may start: nothing that is asked for comes before.
StartsRight(start, records, q) ==
  /\ start \in 0 .. Len(records)
  /\ q.tail = 0 => \A n \in 1 .. start : records[n].seq <= q.after
  /\ (q.tail # 0 /\ records # <<>>) => start < Len(records) /\ records[start + 1].op = AppendOp

\* What a query may ask for.
LEMMA QueryIs ==
  ASSUME RunFilesAssumption, NEW q \in Queries
  PROVE  /\ q.tail \in Nat /\ q.after \in Nat /\ q.limit \in Nat
         /\ q.tail # 0 => q.after = 0 /\ q.limit = 0
<1>1. q \in [tail : Nat, after : Nat, limit : Nat]
  BY DEF RunFilesAssumption
<1> QED  BY <1>1 DEF RunFilesAssumption

LEMMA ReadNothing ==
  ASSUME RunFilesAssumption, NEW q \in Queries, NEW records \in Seq(FileRecords),
         InTurn(records), NEW start, StartsRight(start, records, q)
  PROVE  ReadTo(<<>>, records, start, start, q)
<1>1. <<>> \in Seq(Texts) /\ Len(<<>>) = 0 /\ DOMAIN <<>> = {}
  BY EmptySeq
<1>2. Increasing(<<>>)
  BY <1>1 DEF Increasing
<1>3. start \in Nat /\ ~(start < start) /\ q.tail \in Nat /\ q.limit \in Nat /\ q.after \in Nat
  BY QueryIs, LenProperties DEF StartsRight
<1>4. \A n \in 1 .. start : records[n].seq \in Nat
  BY TurnIs DEF StartsRight
<1>5. ASSUME NEW n \in 1 .. start, records[n].seq > q.after  PROVE Told(<<>>, records[n].seq, q)
  <2>1. q.tail # 0
    BY <1>3, <1>4, <1>5 DEF StartsRight
  <2> QED  BY <1>1, <2>1 DEF Told
<1> QED  BY <1>1, <1>2, <1>3, <1>5 DEF ReadTo

\* What is known of the lines read so far.
LEMMA LinesRead ==
  ASSUME RunFilesAssumption, NEW q \in Queries, NEW records \in Seq(FileRecords),
         InTurn(records), NEW start, NEW p \in 0 .. Len(records), NEW lines,
         ReadTo(lines, records, start, p, q)
  PROVE  /\ Len(lines) \in Nat /\ DOMAIN lines = 1 .. Len(lines)
         /\ \A i \in 1 .. Len(lines) :
              /\ lines[i] \in Texts /\ lines[i].seq \in Nat \ {0}
              /\ p # 0 /\ lines[i].seq <= records[p].seq
<1>1. lines \in Seq(Texts)
  BY DEF ReadTo
<1>2. Len(lines) \in Nat /\ DOMAIN lines = 1 .. Len(lines)
  BY <1>1, LenProperties
<1>3. \A i \in 1 .. Len(lines) : lines[i] \in Texts
  BY <1>1, ElementOfSeq
<1>4. ASSUME NEW i \in 1 .. Len(lines)
      PROVE  lines[i].seq \in Nat \ {0} /\ p # 0 /\ lines[i].seq <= records[p].seq
  <2>1. lines[i].seq \in Nat \ {0}
    BY <1>3 DEF Texts
  <2>2. PICK n \in 1 .. p : records[n].seq = lines[i].seq
    BY <1>2 DEF ReadTo
  <2>3. n \in 1 .. Len(records) /\ p \in 1 .. Len(records) /\ n <= p
    BY LenProperties
  <2>4. records[n].seq <= records[p].seq
    BY <2>3, TurnIs
  <2> QED  BY <2>1, <2>2, <2>3, <2>4
<1> QED  BY <1>2, <1>3, <1>4

\* A record of another line leaves a line's text as it is.
LEMMA TextKept ==
  ASSUME NEW line, NEW records, NEW p \in Nat, LastText(line, records, p),
         records[p + 1].seq # line.seq
  PROVE  LastText(line, records, p + 1)
<1>1. PICK n \in 1 .. p :
        /\ records[n].seq = line.seq /\ records[n].text = line.text
        /\ \A m \in 1 .. p : m > n => records[m].seq # line.seq
  BY DEF LastText
<1>2. n \in 1 .. p + 1 /\ \A m \in 1 .. p + 1 : m \in 1 .. p \/ m = p + 1
  OBVIOUS
<1> QED  BY <1>1, <1>2 DEF LastText

\* A record that is not asked for is passed over.
LEMMA ReadSkipped ==
  ASSUME RunFilesAssumption, NEW q \in Queries, NEW records \in Seq(FileRecords),
         InTurn(records), NEW start, NEW p \in Nat, p < Len(records), NEW lines,
         ReadTo(lines, records, start, p, q), records[p + 1].seq <= q.after
  PROVE  ReadTo(lines, records, start, p + 1, q)
<1>1. Len(records) \in Nat /\ p + 1 \in 1 .. Len(records) /\ p \in 0 .. Len(records)
  BY LenProperties
<1>2. /\ records[p + 1].seq \in Nat \ {0}
      /\ p # 0 => p \in 1 .. Len(records) /\ records[p].seq \in Nat
                  /\ records[p].seq <= records[p + 1].seq
  <2>1. p # 0 => p \in 1 .. Len(records)
    BY <1>1
  <2>2. p # 0 => p <= p + 1
    OBVIOUS
  <2> QED  BY <1>1, <2>1, <2>2, TurnIs
<1>3. q.tail = 0 /\ q.after \in Nat /\ q.limit \in Nat
  BY <1>2, QueryIs
<1>4. lines = <<>>
  <2> SUFFICES ASSUME lines # <<>>  PROVE FALSE
    OBVIOUS
  <2>1. lines \in Seq(Texts) /\ p # 0 /\ lines[Len(lines)].seq = records[p].seq
    BY DEF ReadTo
  <2>2. Len(lines) \in DOMAIN lines
    BY <2>1, LenProperties, EmptySeq
  <2>3. lines[Len(lines)].seq > q.after
    BY <2>2 DEF ReadTo
  <2> QED  BY <1>2, <1>3, <2>1, <2>3
<1>5. ASSUME NEW n \in 1 .. p + 1, records[n].seq > q.after  PROVE Told(lines, records[n].seq, q)
  <2>1. n # p + 1
    BY <1>2, <1>3, <1>5
  <2>2. n \in 1 .. p
    BY <2>1
  <2> QED  BY <1>5, <2>2 DEF ReadTo
<1>6. DOMAIN lines = {}
  BY <1>4, EmptySeq
<1>7. lines \in Seq(Texts) /\ Increasing(lines)
      /\ (q.limit # 0 => Len(lines) <= q.limit)
  BY DEF ReadTo
<1> QED  BY <1>3, <1>4, <1>5, <1>6, <1>7 DEF ReadTo

\* Another text of the last line replaces it.
LEMMA ReadReplaced ==
  ASSUME RunFilesAssumption, NEW q \in Queries, NEW records \in Seq(FileRecords),
         InTurn(records), NEW start, NEW p \in Nat, p < Len(records), NEW lines,
         ReadTo(lines, records, start, p, q), start <= p, records[p + 1].op = Replace,
         lines # <<>>,
         NEW line, line = [seq |-> records[p + 1].seq, text |-> records[p + 1].text]
  PROVE  /\ Last(lines).seq = records[p + 1].seq
         /\ ReadTo(Append(Front(lines), line), records, start, p + 1, q)
<1> DEFINE r == records[p + 1]
           N == Len(lines)
           new == Append(Front(lines), line)
<1>1. Len(records) \in Nat /\ p + 1 \in 1 .. Len(records) /\ p \in 0 .. Len(records)
  BY LenProperties
<1>2. /\ lines \in Seq(Texts) /\ N \in Nat \ {0} /\ DOMAIN lines = 1 .. N
      /\ Front(lines) \in Seq(Texts) /\ Len(Front(lines)) = N - 1
      /\ \A i \in 1 .. N - 1 : Front(lines)[i] = lines[i]
      /\ Last(lines) = lines[N]
  <2>1. lines \in Seq(Texts)
    BY DEF ReadTo
  <2> QED  BY <2>1, FrontIs
<1>3. p # 0 /\ lines[N].seq = records[p].seq /\ \A i \in 1 .. N : lines[i].seq \in Nat
  <2>1. lines # <<>> => p # 0 /\ lines[N].seq = records[p].seq
    BY DEF ReadTo
  <2>2. \A i \in 1 .. Len(lines) : lines[i].seq \in Nat \ {0}
    BY <1>1, LinesRead
  <2> QED  BY <2>1, <2>2
<1>4. records[p].seq = r.seq /\ r.seq \in Nat \ {0} /\ r.text \in Nat
  <2>1. p \in 1 .. Len(records) /\ p <= p + 1
    BY <1>1, <1>3
  <2>2. records[p].seq <= r.seq /\ records[p].seq \in Nat /\ r.seq \in Nat \ {0} /\ r.text \in Nat
    BY <1>1, <2>1, TurnIs
  <2>3. r.op # AppendOp
    BY DEF AppendOp, Replace
  <2>4. PICK m \in 1 .. (p + 1) - 1 : records[m].seq = r.seq
    BY <1>1, <2>3, TurnIs
  <2>5. m \in 1 .. Len(records) /\ m <= p
    BY <1>1, <2>4
  <2>6. records[m].seq <= records[p].seq
    BY <2>1, <2>5, TurnIs
  <2> QED  BY <2>2, <2>4, <2>6
<1>5. line \in Texts /\ line.seq = r.seq /\ line.text = r.text
  BY <1>4 DEF Texts
<1> HIDE DEF N, r
<1>6. /\ new \in Seq(Texts) /\ Len(new) = N /\ DOMAIN new = 1 .. N
      /\ \A i \in 1 .. N - 1 : new[i] = lines[i]
      /\ new[N] = line
  <2>1. /\ new \in Seq(Texts) /\ Len(new) = (N - 1) + 1 /\ new[(N - 1) + 1] = line
        /\ \A i \in 1 .. N - 1 : new[i] = Front(lines)[i]
    BY <1>2, <1>5, AppendProperties
  <2>2. (N - 1) + 1 = N
    BY <1>2
  <2> QED  BY <1>2, <2>1, <2>2, LenProperties
<1> HIDE DEF new
<1>7. \A i \in 1 .. N : new[i].seq = lines[i].seq /\ (i = N \/ (i \in 1 .. N - 1 /\ i < N))
  BY <1>2, <1>3, <1>4, <1>5, <1>6
<1>8. Increasing(new)
  BY <1>2, <1>6, <1>7 DEF Increasing, ReadTo
<1>9. ASSUME NEW i \in 1 .. N
      PROVE  /\ new[i].seq > q.after /\ LastText(new[i], records, p + 1)
             /\ \E n \in 1 .. p + 1 : records[n].op = AppendOp /\ records[n].seq = new[i].seq
  <2>1. /\ lines[i].seq > q.after /\ LastText(lines[i], records, p)
        /\ \E n \in 1 .. p : records[n].op = AppendOp /\ records[n].seq = lines[i].seq
    BY <1>2 DEF ReadTo
  <2>2. \A n \in 1 .. p : n \in 1 .. p + 1
    OBVIOUS
  <2>3. CASE i = N
    <3>1. new[i].seq = r.seq /\ new[i].text = r.text
      BY <1>5, <1>6, <2>3
    <3>2. p + 1 \in 1 .. p + 1 /\ \A m \in 1 .. p + 1 : ~(m > p + 1)
      OBVIOUS
    <3>3. LastText(new[i], records, p + 1)
      BY <3>1, <3>2 DEF LastText, r
    <3> QED  BY <1>7, <2>1, <2>2, <3>3
  <2>4. CASE i # N
    <3>1. i \in 1 .. N - 1 /\ i < N
      BY <1>7, <2>4
    <3>2. lines[i].seq < lines[N].seq
      BY <1>2, <3>1 DEF ReadTo, Increasing
    <3>3. lines[i].seq # r.seq
      BY <1>2, <1>3, <1>4, <3>2
    <3>4. LastText(lines[i], records, p + 1)
      BY <2>1, <3>3, TextKept DEF r
    <3> QED  BY <1>6, <2>1, <2>2, <3>1, <3>4
  <2> QED  BY <2>3, <2>4
<1>10. ASSUME NEW seq, Told(lines, seq, q)  PROVE Told(new, seq, q)
  BY <1>2, <1>6, <1>7, <1>10 DEF Told
<1>11. ASSUME NEW n \in 1 .. p + 1, records[n].seq > q.after  PROVE Told(new, records[n].seq, q)
  <2>1. CASE n = p + 1
    BY <1>2, <1>5, <1>6, <2>1 DEF Told, r
  <2>2. CASE n # p + 1
    <3>1. n \in 1 .. p
      BY <2>2
    <3> QED  BY <1>10, <1>11, <3>1 DEF ReadTo
  <2> QED  BY <2>1, <2>2
<1>12. /\ p + 1 # 0 /\ new[Len(new)].seq = records[p + 1].seq /\ new # <<>>
       /\ q.tail # 0 => Len(new) <= q.tail
       /\ q.limit # 0 => Len(new) <= q.limit
  <2>1. new # <<>>
    BY <1>2, <1>6, EmptySeq
  <2>2. q.tail # 0 => N <= q.tail
    BY DEF ReadTo, N
  <2>3. q.limit # 0 => N <= q.limit
    BY DEF ReadTo, N
  <2> QED  BY <1>5, <1>6, <2>1, <2>2, <2>3 DEF r
<1>13. ReadTo(new, records, start, p + 1, q)
  BY <1>6, <1>8, <1>9, <1>11, <1>12 DEF ReadTo
<1> QED  BY <1>2, <1>3, <1>4, <1>13 DEF new, r

\* A new line comes at the end; of a tail the first ones may be left out.
LEMMA ReadAppended ==
  ASSUME RunFilesAssumption, NEW q \in Queries, NEW records \in Seq(FileRecords),
         InTurn(records), NEW start, NEW p \in Nat, p < Len(records), NEW lines,
         ReadTo(lines, records, start, p, q), records[p + 1].op = AppendOp,
         records[p + 1].seq > q.after,
         NEW line, line = [seq |-> records[p + 1].seq, text |-> records[p + 1].text],
         NEW b \in Nat, b <= Len(lines), q.tail = 0 => b = 0,
         NEW new \in Seq(Texts), Len(new) = (Len(lines) + 1) - b,
         \A i \in 1 .. (Len(lines) + 1) - b : new[i] = Append(lines, line)[b + i],
         q.tail # 0 => Len(new) <= q.tail, q.limit # 0 => Len(new) <= q.limit
  PROVE  ReadTo(new, records, start, p + 1, q)
<1> DEFINE r == records[p + 1]
           N == Len(lines)
           w == Append(lines, line)
           M == (N + 1) - b
<1>1. Len(records) \in Nat /\ p + 1 \in 1 .. Len(records) /\ p \in 0 .. Len(records)
  BY LenProperties
<1>2. /\ N \in Nat /\ DOMAIN lines = 1 .. N
      /\ \A i \in 1 .. N : lines[i].seq \in Nat /\ lines[i].seq < r.seq
      /\ r.seq \in Nat \ {0} /\ r.text \in Nat
  <2>1. /\ N \in Nat /\ DOMAIN lines = 1 .. N
        /\ \A i \in 1 .. N : lines[i].seq \in Nat \ {0} /\ p # 0 /\ lines[i].seq <= records[p].seq
    BY <1>1, LinesRead
  <2>2. r.seq \in Nat \ {0} /\ r.text \in Nat
    BY <1>1, TurnIs
  <2>3. p # 0 => records[p].seq < r.seq /\ records[p].seq \in Nat
    <3>1. p # 0 => p \in 1 .. Len(records) /\ p < p + 1
      BY <1>1
    <3> QED  BY <1>1, <3>1, TurnIs
  <2> HIDE DEF r, N
  <2> QED  BY <2>1, <2>2, <2>3
<1>3. line \in Texts /\ line.seq = r.seq /\ line.text = r.text
  BY <1>2 DEF Texts
<1>4. lines \in Seq(Texts)
  BY DEF ReadTo
<1>5. /\ \A i \in 1 .. N : w[i] = lines[i]
      /\ w[N + 1] = line
  BY <1>3, <1>4, AppendProperties
<1> HIDE DEF w, N, r
<1>6. /\ M \in 1 .. N + 1 /\ Len(new) = M /\ DOMAIN new = 1 .. M
      /\ \A i \in 1 .. M : new[i] = w[b + i] /\ b + i \in 1 .. N + 1
  <2>1. M \in 1 .. N + 1 /\ \A i \in 1 .. M : b + i \in 1 .. N + 1
    BY <1>2 DEF N
  <2>2. Len(new) = M /\ \A i \in 1 .. M : new[i] = w[b + i]
    BY DEF N, w
  <2> QED  BY <2>1, <2>2, LenProperties
<1>7. \A i \in 1 .. N + 1 : i \in 1 .. N \/ i = N + 1
  BY <1>2
<1>8. ASSUME NEW i \in 1 .. N + 1, NEW j \in 1 .. N + 1, i < j  PROVE w[i].seq < w[j].seq
  <2>1. i \in 1 .. N
    BY <1>2, <1>8
  <2>2. CASE j \in 1 .. N
    <3>1. lines[i].seq < lines[j].seq
      BY <1>2, <1>8, <2>1, <2>2 DEF ReadTo, Increasing
    <3> QED  BY <1>5, <2>1, <2>2, <3>1
  <2>3. CASE j = N + 1
    BY <1>2, <1>3, <1>5, <2>1, <2>3
  <2> QED  BY <1>7, <2>2, <2>3
<1>9. Increasing(new)
  <2>1. \A i, j \in 1 .. M : i < j => b + i < b + j
    BY <1>2, <1>6
  <2>2. \A i, j \in 1 .. M : i < j => new[i].seq < new[j].seq
    BY <1>6, <1>8, <2>1
  <2> QED  BY <1>6, <2>2 DEF Increasing
<1>10. ASSUME NEW i \in 1 .. N + 1
       PROVE  /\ w[i].seq > q.after /\ LastText(w[i], records, p + 1)
              /\ \E n \in 1 .. p + 1 : records[n].op = AppendOp /\ records[n].seq = w[i].seq
  <2>1. CASE i = N + 1
    <3>1. w[i].seq = r.seq /\ w[i].text = r.text
      BY <1>3, <1>5, <2>1
    <3>2. p + 1 \in 1 .. p + 1 /\ \A m \in 1 .. p + 1 : ~(m > p + 1)
      OBVIOUS
    <3>3. LastText(w[i], records, p + 1)
      BY <3>1, <3>2 DEF LastText, r
    <3> QED  BY <3>1, <3>2, <3>3 DEF r
  <2>2. CASE i \in 1 .. N
    <3>1. /\ lines[i].seq > q.after /\ LastText(lines[i], records, p)
          /\ \E n \in 1 .. p : records[n].op = AppendOp /\ records[n].seq = lines[i].seq
      BY <1>2, <2>2 DEF ReadTo
    <3>2. \A n \in 1 .. p : n \in 1 .. p + 1
      OBVIOUS
    <3>3. records[p + 1].seq # lines[i].seq
      BY <1>2, <2>2 DEF r
    <3>4. LastText(lines[i], records, p + 1)
      BY <3>1, <3>3, TextKept
    <3>5. w[i] = lines[i]
      BY <1>5, <2>2
    <3>6. PICK n \in 1 .. p : records[n].op = AppendOp /\ records[n].seq = lines[i].seq
      BY <3>1
    <3>7. n \in 1 .. p + 1 /\ records[n].op = AppendOp /\ records[n].seq = w[i].seq
      BY <3>2, <3>5, <3>6
    <3>8. w[i].seq > q.after /\ LastText(w[i], records, p + 1)
      BY <3>1, <3>4, <3>5
    <3> QED  BY <3>7, <3>8
  <2> QED  BY <1>7, <2>1, <2>2
<1>11. ASSUME NEW seq \in Nat, \/ \E i \in 1 .. N + 1 : w[i].seq = seq
                               \/ q.tail # 0 /\ \A i \in 1 .. N + 1 : seq < w[i].seq
       PROVE  Told(new, seq, q)
  <2>1. CASE \E i \in 1 .. N + 1 : w[i].seq = seq
    <3>1. PICK i \in 1 .. N + 1 : w[i].seq = seq
      BY <2>1
    <3>2. CASE b < i
      <4> DEFINE j == i - b
      <4>1. j \in 1 .. M /\ b + j = i
        BY <1>2, <3>2
      <4> HIDE DEF j
      <4>2. j \in DOMAIN new /\ new[j].seq = seq
        BY <1>6, <3>1, <4>1
      <4> QED  BY <4>2 DEF Told
    <3>3. CASE ~(b < i)
      <4>1. q.tail # 0
        BY <3>3
      <4>2. \A j \in 1 .. M : i < b + j
        BY <1>2, <3>3
      <4>3. \A j \in 1 .. M : seq < new[j].seq
        BY <1>6, <1>8, <3>1, <4>2
      <4> QED  BY <1>6, <4>1, <4>3 DEF Told
    <3> QED  BY <3>2, <3>3
  <2>2. CASE q.tail # 0 /\ \A i \in 1 .. N + 1 : seq < w[i].seq
    BY <1>6, <2>2 DEF Told
  <2> QED  BY <1>11, <2>1, <2>2
<1>12. ASSUME NEW n \in 1 .. p + 1, records[n].seq > q.after  PROVE Told(new, records[n].seq, q)
  <2>1. records[n].seq \in Nat
    <3>1. n \in 1 .. Len(records)
      BY <1>1
    <3> QED  BY <3>1, TurnIs
  <2>2. CASE n = p + 1
    <3>1. N + 1 \in 1 .. N + 1 /\ w[N + 1].seq = records[n].seq
      BY <1>2, <1>3, <1>5, <2>2 DEF r
    <3> QED  BY <1>11, <2>1, <3>1
  <2>3. CASE n # p + 1
    <3>1. n \in 1 .. p
      BY <2>3
    <3>2. Told(lines, records[n].seq, q)
      BY <1>12, <3>1 DEF ReadTo
    <3>3. CASE \E i \in 1 .. N : lines[i].seq = records[n].seq
      <4>1. PICK i \in 1 .. N : lines[i].seq = records[n].seq
        BY <3>3
      <4>2. i \in 1 .. N + 1 /\ w[i].seq = records[n].seq
        BY <1>2, <1>5, <4>1
      <4> QED  BY <1>11, <2>1, <4>2
    <3>4. CASE q.tail # 0 /\ \A i \in 1 .. N : records[n].seq < lines[i].seq
      <4>1. n \in 1 .. Len(records) /\ n < p + 1
        BY <1>1, <3>1
      <4>2. records[n].seq < r.seq
        BY <1>1, <4>1, TurnIs DEF r
      <4>3. \A i \in 1 .. N + 1 : records[n].seq < w[i].seq
        BY <1>3, <1>5, <1>7, <3>4, <4>2
      <4> QED  BY <1>11, <2>1, <3>4, <4>3
    <3> QED  BY <1>2, <3>2, <3>3, <3>4 DEF Told
  <2> QED  BY <2>2, <2>3
<1>13. new # <<>> /\ p + 1 # 0 /\ new[Len(new)].seq = records[p + 1].seq
  <2>1. M \in 1 .. M /\ b + M = N + 1 /\ M # 0
    BY <1>2, <1>6
  <2>2. new # <<>>
    BY <1>6, <2>1, EmptySeq
  <2> QED  BY <1>3, <1>5, <1>6, <2>1, <2>2 DEF r
<1>14. ASSUME NEW i \in DOMAIN new
       PROVE  /\ new[i].seq > q.after /\ LastText(new[i], records, p + 1)
              /\ \E n \in 1 .. p + 1 : records[n].op = AppendOp /\ records[n].seq = new[i].seq
  <2>1. b + i \in 1 .. N + 1 /\ new[i] = w[b + i]
    BY <1>6
  <2> QED  BY <1>10, <2>1
<1> QED  BY <1>9, <1>12, <1>13, <1>14 DEF ReadTo

-----------------------------------------------------------------------------
(* Reading a segment.                                                        *)

\* What reading has come to.
Scans(epoch) ==
  {st \in [lines : Seq(Texts), index : Indexes, stop : BOOLEAN] :
     st.index.epoch = epoch /\ Increasing(st.index.offsets)}

\* After the record p the lines are those up to it, or those up to the record
\* before which reading stopped.
Reached(st, records, start, p, q) ==
  /\ Knows(st.index, records)
  /\ ~st.stop => p <= st.index.scanned /\ ReadTo(st.lines, records, start, p, q)
  /\ st.stop =>
       /\ q.tail = 0 /\ q.limit # 0 /\ Len(st.lines) >= q.limit
       /\ \E m \in start .. p - 1 :
            ReadTo(st.lines, records, start, m, q) /\ records[m + 1].op = AppendOp

\* Lines are lines with a record taken.
LEMMA WithLineType ==
  ASSUME RunFilesAssumption, NEW q \in Queries, NEW lines \in Seq(Texts),
         NEW record \in FileRecords
  PROVE  WithLine(lines, record, q) \in Seq(Texts)
<1> DEFINE line == [seq |-> record.seq, text |-> record.text]
           w == Append(lines, line)
<1>1. line \in Texts
  BY DEF FileRecords, Texts
<1> HIDE DEF line
<1>2. w \in Seq(Texts)
  BY <1>1, AppendProperties
<1>3. q.tail \in Nat
  BY QueryIs
<1> HIDE DEF w
<1>4. Ending(w, q.tail) \in Seq(Texts)
  BY <1>2, <1>3, EndingIs
<1>5. lines # <<>> => Append(Front(lines), line) \in Seq(Texts)
  <2> SUFFICES ASSUME lines # <<>>  PROVE Append(Front(lines), line) \in Seq(Texts)
    OBVIOUS
  <2>1. Front(lines) \in Seq(Texts)
    BY FrontIs
  <2> QED  BY <1>1, <2>1, AppendProperties
<1>6. WithLine(lines, record, q) \in {lines, w, Ending(w, q.tail)}
      \/ (lines # <<>> /\ WithLine(lines, record, q) = Append(Front(lines), line))
  BY DEF WithLine, line, w
<1> QED  BY <1>2, <1>4, <1>5, <1>6

LEMMA ScanType ==
  ASSUME RunFilesAssumption, NEW q \in Queries, NEW epoch, NEW st \in Scans(epoch),
         NEW record \in FileRecords, NEW n \in Nat \ {0}
  PROVE  Scan(st, record, n, q) \in Scans(epoch)
<1> DEFINE seen == [st EXCEPT !.index = Scanned(@, record, n)]
           new == WithLine(seen.lines, record, q)
<1>1. /\ st \in [lines : Seq(Texts), index : Indexes, stop : BOOLEAN]
      /\ st.index \in Indexes /\ st.lines \in Seq(Texts)
      /\ st.index.epoch = epoch /\ Increasing(st.index.offsets)
  BY DEF Scans
<1>2. /\ Scanned(st.index, record, n) \in Indexes
      /\ Scanned(st.index, record, n).epoch = epoch
      /\ Increasing(Scanned(st.index, record, n).offsets)
  <2> DEFINE i == st.index
  <2>1. i \in Indexes /\ Increasing(i.offsets) /\ i.epoch = epoch
    BY <1>1
  <2> HIDE DEF i
  <2>2. /\ Scanned(i, record, n) \in Indexes /\ Scanned(i, record, n).epoch = epoch
        /\ Increasing(Scanned(i, record, n).offsets)
    BY <2>1, ScannedType
  <2> QED  BY <2>2 DEF i
<1>3. seen.lines = st.lines /\ seen.index = Scanned(st.index, record, n)
      /\ seen \in [lines : Seq(Texts), index : Indexes, stop : BOOLEAN]
  BY <1>1, <1>2
<1> HIDE DEF seen
<1>4. new \in Seq(Texts)
  BY <1>1, <1>3, WithLineType
<1> HIDE DEF new
<1>5. /\ seen \in Scans(epoch) /\ [seen EXCEPT !.stop = TRUE] \in Scans(epoch)
      /\ [seen EXCEPT !.lines = new] \in Scans(epoch)
  BY <1>2, <1>3, <1>4 DEF Scans
<1>6. Scan(st, record, n, q) \in {st, seen, [seen EXCEPT !.stop = TRUE], [seen EXCEPT !.lines = new]}
  BY DEF Scan, seen, new
<1> QED  BY <1>5, <1>6

\* A record that is taken.
LEMMA ReadTaken ==
  ASSUME RunFilesAssumption, NEW q \in Queries, NEW records \in Seq(FileRecords),
         InTurn(records), NEW start, StartsRight(start, records, q),
         NEW p \in Nat, start <= p, p < Len(records), NEW lines,
         ReadTo(lines, records, start, p, q), records[p + 1].seq > q.after,
         q.tail # 0 \/ q.limit = 0 \/ Len(lines) < q.limit \/ records[p + 1].op = Replace
  PROVE  ReadTo(WithLine(lines, records[p + 1], q), records, start, p + 1, q)
<1> DEFINE r == records[p + 1]
           line == [seq |-> r.seq, text |-> r.text]
           w == Append(lines, line)
           N == Len(lines)
<1>1. /\ Len(records) \in Nat /\ p + 1 \in 1 .. Len(records) /\ start \in Nat
      /\ lines \in Seq(Texts) /\ N \in Nat /\ DOMAIN lines = 1 .. N
      /\ r.op \in {AppendOp, Replace} /\ AppendOp # Replace /\ r.seq \in Nat \ {0} /\ r.text \in Nat
  <2>1. Len(records) \in Nat /\ lines \in Seq(Texts) /\ start \in Nat
    BY LenProperties DEF ReadTo, StartsRight
  <2>2. p + 1 \in 1 .. Len(records) /\ N \in Nat /\ DOMAIN lines = 1 .. N
    BY <2>1, LenProperties
  <2>3. r.op \in {AppendOp, Replace} /\ r.seq \in Nat \ {0} /\ r.text \in Nat
    BY <2>2, TurnIs
  <2> QED  BY <2>1, <2>2, <2>3 DEF AppendOp, Replace
<1>2. /\ q.tail \in Nat /\ q.after \in Nat /\ q.limit \in Nat
      /\ q.tail # 0 => q.after = 0 /\ q.limit = 0
  BY QueryIs
<1>3. CASE r.op = Replace
  <2>1. lines # <<>>
    <3> SUFFICES ASSUME lines = <<>>  PROVE FALSE
      OBVIOUS
    <3>1. PICK m \in 1 .. (p + 1) - 1 : records[m].seq = r.seq
      BY <1>1, <1>3, TurnIs
    <3>2. m \in 1 .. p
      BY <3>1
    <3>3. Told(lines, r.seq, q)
      BY <3>1, <3>2 DEF ReadTo
    <3>4. DOMAIN lines = {}
      BY EmptySeq
    <3>5. q.tail # 0
      BY <3>3, <3>4 DEF Told
    <3>6. p = start
      BY <1>1, <3>5 DEF ReadTo
    <3>7. records # <<>>
      BY <1>1, EmptySeq
    <3> QED  BY <1>1, <1>3, <3>5, <3>6, <3>7 DEF StartsRight
  <2>2. /\ Last(lines).seq = r.seq
        /\ ReadTo(Append(Front(lines), line), records, start, p + 1, q)
    BY <1>3, <2>1, ReadReplaced
  <2>3. WithLine(lines, r, q) = Append(Front(lines), line)
    BY <1>3, <2>1, <2>2 DEF WithLine
  <2> QED  BY <2>2, <2>3
<1>4. CASE r.op = AppendOp
  <2>1. line \in Texts
    BY <1>1 DEF Texts
  <2> HIDE DEF line
  <2>2. w \in Seq(Texts) /\ Len(w) = N + 1 /\ w # <<>> /\ DOMAIN w = 1 .. N + 1
    <3>1. w \in Seq(Texts) /\ Len(w) = N + 1
      BY <1>1, <2>1, AppendProperties
    <3> QED  BY <1>1, <3>1, EmptySeq, LenProperties
  <2>3. ~(r.op = Replace /\ lines # <<>>) /\ ~(q.limit # 0 /\ Len(lines) >= q.limit)
    BY <1>1, <1>2, <1>4
  <2> DEFINE b == IF q.tail = 0 THEN 0 ELSE Beyond(Len(w), q.tail)
             new == IF q.tail = 0 THEN w ELSE Ending(w, q.tail)
  <2>4. WithLine(lines, r, q) = new
    BY <2>3 DEF WithLine, line
  <2> HIDE DEF w
  <2>5. /\ b \in Nat /\ b <= Len(lines) /\ new \in Seq(Texts) /\ Len(new) = (Len(lines) + 1) - b
        /\ \A i \in 1 .. (Len(lines) + 1) - b : new[i] = w[b + i]
        /\ q.tail = 0 => b = 0
        /\ q.tail # 0 => Len(new) <= q.tail
        /\ q.limit # 0 => Len(new) <= q.limit
    <3>1. CASE q.tail = 0
      BY <1>1, <1>2, <2>2, <2>3, <3>1
    <3>2. CASE q.tail # 0
      <4> HIDE DEF N
      <4>1. b = Beyond(Len(w), q.tail) /\ new = Ending(w, q.tail)
        BY <3>2
      <4> HIDE DEF b, new
      <4>2. /\ b \in 0 .. Len(w) /\ new \in Seq(Texts) /\ Len(new) = Len(w) - b
            /\ Len(new) <= q.tail /\ b < Len(w)
            /\ \A i \in 1 .. Len(w) - b : new[i] = w[b + i]
        BY <1>2, <2>2, <3>2, <4>1, EndingIs
      <4> QED  BY <1>1, <1>2, <2>2, <3>2, <4>2 DEF N
    <3> QED  BY <3>1, <3>2
  <2> HIDE DEF b, new
  <2>6. ReadTo(new, records, start, p + 1, q)
    BY <1>4, <2>5, ReadAppended DEF w, line
  <2> QED  BY <2>4, <2>6
<1> QED  BY <1>1, <1>3, <1>4

\* A record is scanned, and taken if it is asked for.
LEMMA ScanReaches ==
  ASSUME RunFilesAssumption, NEW q \in Queries, NEW records \in Seq(FileRecords),
         InTurn(records), NEW start, StartsRight(start, records, q),
         NEW p \in Nat, start <= p, p < Len(records), NEW epoch, NEW st \in Scans(epoch),
         Reached(st, records, start, p, q)
  PROVE  Reached(Scan(st, records[p + 1], p + 1, q), records, start, p + 1, q)
<1> DEFINE r == records[p + 1]
           seen == [st EXCEPT !.index = Scanned(@, r, p + 1)]
           new == Scan(st, r, p + 1, q)
<1>1. /\ st \in [lines : Seq(Texts), index : Indexes, stop : BOOLEAN]
      /\ st.index \in Indexes /\ st.lines \in Seq(Texts) /\ Len(st.lines) \in Nat
      /\ st.stop \in BOOLEAN /\ Increasing(st.index.offsets)
      /\ st.index.scanned \in Nat
  BY LenProperties DEF Scans, Indexes
<1>2. /\ Len(records) \in Nat /\ p + 1 \in 1 .. Len(records) /\ start \in Nat
      /\ (p + 1) - 1 = p /\ r.seq \in Nat /\ r.op \in {AppendOp, Replace}
  <2>1. Len(records) \in Nat /\ start \in Nat
    BY LenProperties DEF StartsRight
  <2>2. p + 1 \in 1 .. Len(records)
    BY <2>1
  <2> QED  BY <2>1, <2>2, TurnIs
<1>3. q.tail \in Nat /\ q.after \in Nat /\ q.limit \in Nat
  BY QueryIs
<1>4. CASE st.stop
  <2>1. new = st
    BY <1>4 DEF Scan
  <2>2. \A m \in start .. p - 1 : m \in start .. (p + 1) - 1
    BY <1>2
  <2> HIDE DEF new, r, seen
  <2> QED  BY <1>4, <2>1, <2>2 DEF Reached, new, r
<1>5. CASE ~st.stop
  <2>1. p <= st.index.scanned /\ ReadTo(st.lines, records, start, p, q) /\ Knows(st.index, records)
    BY <1>5 DEF Reached
  <2>2. seen.index = Scanned(st.index, r, p + 1) /\ seen.lines = st.lines /\ ~seen.stop
        /\ seen \in [lines : {st.lines}, index : {seen.index}, stop : BOOLEAN]
    BY <1>1, <1>5
  <2>3. Knows(seen.index, records) /\ p + 1 <= seen.index.scanned
    <3>1. (p + 1) - 1 <= st.index.scanned
      BY <1>2, <2>1
    <3> HIDE DEF seen
    <3> QED  BY <1>1, <1>2, <2>1, <2>2, <3>1, ScannedKnows
  <2>4. CASE r.seq <= q.after
    <3>1. new = seen
      BY <1>5, <2>4 DEF Scan
    <3>2. ReadTo(st.lines, records, start, p + 1, q)
      BY <2>1, <2>4, ReadSkipped
    <3> HIDE DEF new, seen, r
    <3> QED  BY <2>2, <2>3, <3>1, <3>2 DEF Reached, new, r
  <2>5. CASE ~(r.seq <= q.after) /\ Full(st, r, q)
    <3>1. new = [seen EXCEPT !.stop = TRUE]
      BY <1>5, <2>5 DEF Scan
    <3>2. new.index = seen.index /\ new.lines = st.lines /\ new.stop
      BY <2>2, <3>1
    <3>3. /\ q.tail = 0 /\ q.limit # 0 /\ Len(st.lines) >= q.limit /\ r.op = AppendOp
      BY <1>2, <2>5 DEF Full
    <3>4. p \in start .. (p + 1) - 1
      BY <1>2
    <3> HIDE DEF new, seen
    <3> QED  BY <2>1, <2>3, <3>2, <3>3, <3>4 DEF Reached, new, r
  <2>6. CASE ~(r.seq <= q.after) /\ ~Full(st, r, q)
    <3> DEFINE lines == WithLine(st.lines, r, q)
    <3>1. new = [seen EXCEPT !.lines = lines]
      BY <1>5, <2>2, <2>6 DEF Scan
    <3> HIDE DEF lines
    <3>2. new.index = seen.index /\ new.lines = lines /\ ~new.stop
      BY <2>2, <3>1
    <3>3. q.tail # 0 \/ q.limit = 0 \/ Len(st.lines) < q.limit \/ r.op = Replace
      BY <1>1, <1>2, <1>3, <2>6 DEF Full
    <3>4. r.seq > q.after
      BY <1>2, <1>3, <2>6
    <3>5. ReadTo(lines, records, start, p + 1, q)
      BY <2>1, <3>3, <3>4, ReadTaken DEF lines
    <3> HIDE DEF new, seen
    <3> QED  BY <2>3, <3>2, <3>5 DEF Reached, new, r
  <2> QED  BY <2>4, <2>5, <2>6
<1> QED  BY <1>1, <1>4, <1>5

\* Where reading ended, the lines are the page.
LEMMA PageIs ==
  ASSUME RunFilesAssumption, NEW q \in Queries, NEW records \in Seq(FileRecords),
         InTurn(records), NEW start, StartsRight(start, records, q),
         NEW m \in 0 .. Len(records), NEW page, ReadTo(page, records, start, m, q),
         \/ m = Len(records)
         \/ /\ q.tail = 0 /\ q.limit # 0 /\ Len(page) >= q.limit
            /\ records[m + 1].op = AppendOp
  PROVE  PageOf(page, records, q)
<1> DEFINE N == Len(records)
           given == {page[i].seq : i \in DOMAIN page}
<1>1. /\ N \in Nat /\ DOMAIN records = 1 .. N
      /\ \A n \in 1 .. N : records[n].seq \in Nat \ {0} /\ records[n].op \in {AppendOp, Replace}
      /\ Appends(records) = {n \in 1 .. N : records[n].op = AppendOp}
      /\ q.tail \in Nat /\ q.after \in Nat /\ q.limit \in Nat
      /\ q.tail # 0 => q.after = 0 /\ q.limit = 0
  BY QueryIs, TurnIs DEF Appends
<1>2. /\ Len(page) \in Nat /\ DOMAIN page = 1 .. Len(page)
      /\ \A i \in DOMAIN page : page[i].seq \in Nat \ {0}
  BY LinesRead
<1>3. /\ \A i \in DOMAIN page :
           /\ page[i].seq > q.after /\ LastText(page[i], records, m)
           /\ \E n \in 1 .. m : records[n].op = AppendOp /\ records[n].seq = page[i].seq
      /\ \A n \in 1 .. m : records[n].seq > q.after => Told(page, records[n].seq, q)
      /\ \A i, j \in DOMAIN page : i < j => page[i].seq < page[j].seq
  BY DEF ReadTo, Increasing
<1>4. m \in Nat /\ \A n \in 1 .. m : n \in 1 .. N
  <2>1. m \in 0 .. N /\ N \in Nat
    BY <1>1
  <2> HIDE DEF N
  <2> QED  BY <2>1
<1> HIDE DEF N
<1>5. ASSUME NEW n \in m + 1 .. N, NEW i \in DOMAIN page  PROVE page[i].seq < records[n].seq
  <2>1. m < N /\ m + 1 \in 1 .. N /\ n \in 1 .. N /\ m + 1 <= n
    BY <1>1, <1>4
  <2>2. records[m + 1].op = AppendOp
    BY <1>1, <1>4, <2>1 DEF N
  <2>3. PICK k \in 1 .. m : records[k].seq = page[i].seq
    BY <1>3
  <2>4. k \in 1 .. N /\ k < m + 1
    BY <1>4
  <2>5. records[k].seq < records[m + 1].seq /\ records[m + 1].seq <= records[n].seq
    BY <2>1, <2>2, <2>4, TurnIs DEF N
  <2> QED  BY <1>1, <2>1, <2>3, <2>4, <2>5
<1>6. \A n \in 1 .. N : n \in 1 .. m \/ n \in m + 1 .. N
  BY <1>1, <1>4
<1>7. AreLines(page, records)
  <2>1. ASSUME NEW i \in DOMAIN page  PROVE page[i].seq \in Seqs(records)
    BY <1>1, <1>3, <1>4 DEF Seqs
  <2>2. ASSUME NEW i \in DOMAIN page  PROVE Latest(page[i], records)
    <3>1. PICK n \in 1 .. m :
            /\ records[n].seq = page[i].seq /\ records[n].text = page[i].text
            /\ \A l \in 1 .. m : l > n => records[l].seq # page[i].seq
      BY <1>3 DEF LastText
    <3>2. ASSUME NEW l \in 1 .. N, l > n  PROVE records[l].seq # page[i].seq
      <4>1. CASE l \in 1 .. m
        BY <3>1, <3>2, <4>1
      <4>2. CASE l \in m + 1 .. N
        BY <1>1, <1>2, <1>5, <4>2
      <4> QED  BY <1>6, <4>1, <4>2
    <3> QED  BY <1>1, <1>4, <3>1, <3>2 DEF Latest
  <2> QED  BY <1>3, <2>1, <2>2 DEF AreLines
<1>8. CASE q.tail = 0
  <2> DEFINE due == {s \in Seqs(records) : s > q.after}
  <2>1. given \subseteq due
    BY <1>1, <1>3, <1>4 DEF Seqs
  <2>2. ASSUME NEW n \in 1 .. m, records[n].seq > q.after  PROVE records[n].seq \in given
    <3>1. Told(page, records[n].seq, q)
      BY <1>3, <2>2
    <3> QED  BY <1>8, <3>1 DEF Told
  <2>3. ASSUME NEW s \in due \ given  PROVE \E n \in m + 1 .. N : records[n].seq = s
    <3>1. PICK n \in 1 .. N : records[n].seq = s
      BY <1>1 DEF Seqs
    <3>2. s > q.after /\ s \notin given
      OBVIOUS
    <3> HIDE DEF given, due
    <3>3. n \notin 1 .. m
      BY <2>2, <3>1, <3>2
    <3> QED  BY <1>6, <3>1, <3>3
  <2>4. \A s \in due \ given, t \in given : t < s
    <3> SUFFICES ASSUME NEW s \in due \ given, NEW i \in DOMAIN page  PROVE page[i].seq < s
      OBVIOUS
    <3> HIDE DEF given, due
    <3> QED  BY <1>5, <2>3
  <2>5. q.limit # 0 => Len(page) <= q.limit
    BY DEF ReadTo
  <2>6. given = due \/ (q.limit # 0 /\ Len(page) = q.limit)
    <3>1. CASE m = N
      <4>1. ~(\E n \in m + 1 .. N : TRUE)
        BY <1>1, <3>1
      <4> HIDE DEF given, due
      <4>2. due \ given = {}
        BY <2>3, <4>1
      <4> QED  BY <2>1, <4>2
    <3>2. CASE m # N
      <4>1. q.limit # 0 /\ Len(page) >= q.limit
        BY <3>2 DEF N
      <4>2. Len(page) = q.limit
        BY <1>1, <1>2, <2>5, <4>1
      <4> QED  BY <4>1, <4>2
    <3> QED  BY <3>1, <3>2
  <2> HIDE DEF given, due
  <2>7. FirstLines(page, records, q)
    BY <2>1, <2>4, <2>5, <2>6 DEF FirstLines, given, due
  <2> QED  BY <1>7, <1>8, <2>7 DEF PageOf
<1>9. CASE q.tail # 0
  <2>1. m = N
    BY <1>1, <1>9 DEF N
  <2>2. ASSUME NEW s \in Seqs(records) \ given, NEW t \in given  PROVE s < t
    <3>1. PICK n \in 1 .. N : records[n].seq = s
      BY <1>1 DEF Seqs
    <3>2. records[n].seq > q.after /\ n \in 1 .. m
      BY <1>1, <1>9, <2>1, <3>1
    <3>3. Told(page, s, q)
      BY <1>3, <3>1, <3>2
    <3> QED  BY <3>3 DEF Told
  <2>3. Len(page) <= q.tail
    BY <1>9 DEF ReadTo
  <2>4. ASSUME Seqs(records) # {}  PROVE page # <<>>
    <3>1. records # <<>>
      <4>1. PICK s \in Seqs(records) : TRUE
        BY <2>4
      <4>2. PICK n \in 1 .. N : TRUE
        BY <1>1, <4>1 DEF Seqs
      <4>3. N # 0
        BY <1>1, <4>2
      <4> QED  BY <4>3, EmptySeq DEF N
    <3>2. start < m
      BY <1>9, <2>1, <3>1 DEF StartsRight, N
    <3> QED  BY <1>9, <3>2 DEF ReadTo
  <2>5. LastLines(page, records, q)
    BY <2>2, <2>3, <2>4 DEF LastLines
  <2> QED  BY <1>7, <1>9, <2>5 DEF PageOf
<1> QED  BY <1>8, <1>9

\* A set of the first numbers has a greatest one.
LEMMA GreatestOf ==
  ASSUME NEW n \in Nat, NEW S \in SUBSET (1 .. n), S # {}
  PROVE  \E g \in S : \A m \in S : m <= g
<1> DEFINE B == {k \in 0 .. n : \A m \in S : m <= k}
<1>1. PICK k \in B : \A j \in B : k <= j
  <2>1. n \in B /\ B \in SUBSET Nat
    OBVIOUS
  <2> HIDE DEF B
  <2> QED  BY <2>1, LeastOf
<1>2. k \in S
  <2> SUFFICES ASSUME k \notin S  PROVE FALSE
    OBVIOUS
  <2>0. PICK x \in S : TRUE
    OBVIOUS
  <2>1. k - 1 \in B
    <3>1. k \in 0 .. n /\ (\A m \in S : m <= k /\ m # k /\ m \in 1 .. n) /\ x \in S
      OBVIOUS
    <3>2. k - 1 \in 0 .. n /\ \A m \in S : m <= k - 1
      <4> HIDE DEF B
      <4> QED  BY <3>1
    <3> QED  BY <3>2
  <2> HIDE DEF B
  <2>2. k <= k - 1
    BY <1>1, <2>1
  <2>3. k \in Nat
    BY <1>1 DEF B
  <2> QED  BY <2>2, <2>3
<1> QED  BY <1>2

\* The offset of a line, or the start.
LEMMA OffsetIs ==
  ASSUME NEW i \in Indexes, NEW seq \in Nat
  PROVE  LET o == OffsetAtOrBefore(i, seq)
         IN  o \in Nat /\ (o # 0 => \E n \in DOMAIN i.offsets :
                                      i.offsets[n].seq <= seq /\ o = i.offsets[n].offset)
<1> DEFINE known == {n \in DOMAIN i.offsets : i.offsets[n].seq <= seq}
           c == CHOOSE n \in known : \A m \in known : m <= n
<1>1. /\ i.offsets \in Seq(Offsets) /\ Len(i.offsets) \in Nat
      /\ DOMAIN i.offsets = 1 .. Len(i.offsets)
  BY LenProperties DEF Indexes
<1>2. \A n \in DOMAIN i.offsets : i.offsets[n].offset \in Nat
  <2>1. \A n \in DOMAIN i.offsets : i.offsets[n] \in Offsets
    BY <1>1, ElementOfSeq
  <2> QED  BY <2>1 DEF Offsets
<1>3. CASE known = {}
  BY <1>3 DEF OffsetAtOrBefore
<1>4. CASE known # {}
  <2>1. known \in SUBSET (1 .. Len(i.offsets))
    BY <1>1
  <2> HIDE DEF known
  <2>2. \E n \in known : \A m \in known : m <= n
    BY <1>1, <1>4, <2>1, GreatestOf
  <2>3. c \in known
    BY <2>2
  <2>4. OffsetAtOrBefore(i, seq) = i.offsets[c].offset
    BY <1>4 DEF OffsetAtOrBefore, known
  <2> HIDE DEF c
  <2> QED  BY <1>2, <2>3, <2>4 DEF known
<1> QED  BY <1>3, <1>4

LEMMA StartType ==
  ASSUME RunFilesAssumption, NEW i \in Indexes, NEW q \in Queries, NEW readable \in Nat
  PROVE  StartOffset(i, q, readable) \in Nat
<1>1. q.tail \in Nat /\ q.after \in Nat /\ i.last \in Nat /\ i.scanned \in Nat
  BY QueryIs DEF Indexes
<1>2. OffsetAtOrBefore(i, q.after) \in Nat
  BY <1>1, OffsetIs
<1>3. OffsetAtOrBefore(i, Beyond(i.last, q.tail)) \in Nat
  BY <1>1, Lesses, OffsetIs
<1> QED  BY <1>1, <1>2, <1>3, Lesses DEF StartOffset

\* An index that is right about the records lets reading start right.
LEMMA StartIs ==
  ASSUME RunFilesAssumption, NEW q \in Queries, NEW records \in Seq(FileRecords),
         InTurn(records), NEW i \in Indexes, Knows(i, records)
  PROVE  LET start == StartOffset(i, q, Len(records))
         IN  StartsRight(start, records, q) /\ start <= i.scanned
<1> DEFINE N == Len(records)
           start == StartOffset(i, q, N)
<1>1. /\ N \in Nat /\ \A n \in 1 .. N : records[n].seq \in Nat
      /\ \A m, n \in 1 .. N : m <= n => records[m].seq <= records[n].seq
      /\ N # 0 => records[1].op = AppendOp
      /\ records # <<>> => N # 0
  <2>1. N # 0 => 1 \in 1 .. N /\ ~(\E m \in 1 .. 1 - 1 : TRUE)
    BY LenProperties
  <2> QED  BY <2>1, TurnIs, EmptySeq
<1>2. /\ q.tail \in Nat /\ q.after \in Nat
      /\ q.tail # 0 => q.after = 0
  BY QueryIs
<1>3. /\ i.scanned \in Nat /\ i.scanned <= N /\ i.last \in Nat
      /\ \A n \in 1 .. i.scanned : records[n].seq <= i.last
  BY DEF Indexes, Knows
<1> HIDE DEF N, start
<1>4. ASSUME NEW seq \in Nat, OffsetAtOrBefore(i, seq) # 0
      PROVE  LET o == OffsetAtOrBefore(i, seq)
             IN  /\ o \in Nat /\ o < i.scanned /\ o < N
                 /\ records[o + 1].op = AppendOp /\ \A n \in 1 .. o : records[n].seq <= seq
  <2> DEFINE o == OffsetAtOrBefore(i, seq)
  <2>1. PICK k \in DOMAIN i.offsets : i.offsets[k].seq <= seq /\ o = i.offsets[k].offset
    BY <1>4, OffsetIs
  <2>2. o \in Nat
    BY OffsetIs
  <2> HIDE DEF o
  <2>3. o < i.scanned /\ records[o + 1].op = AppendOp /\ records[o + 1].seq <= seq
    BY <2>1 DEF Knows
  <2>4. o < N /\ o + 1 \in 1 .. N /\ \A n \in 1 .. o : n \in 1 .. N /\ n <= o + 1
    BY <1>1, <1>3, <2>2, <2>3
  <2>5. \A n \in 1 .. o : records[n].seq <= seq
    BY <1>1, <2>3, <2>4
  <2> QED  BY <2>2, <2>3, <2>4, <2>5 DEF o
<1>5. CASE start = 0
  <2>1. 0 \in 0 .. N /\ 0 <= i.scanned /\ 0 + 1 = 1 /\ (records # <<>> => 0 < N)
    BY <1>1, <1>3
  <2>2. \A n \in 1 .. 0 : FALSE
    OBVIOUS
  <2> QED  BY <1>1, <1>5, <2>1, <2>2 DEF StartsRight, N, start
<1>6. CASE start # 0 /\ q.tail # 0
  <2> DEFINE seq == Beyond(i.last, q.tail)
             o == OffsetAtOrBefore(i, seq)
  <2>1. start = Lesser(o, N)
    BY <1>6 DEF StartOffset, start, N
  <2>2. seq \in Nat
    BY <1>2, <1>3, Lesses
  <2>3. o # 0
    <3>1. o = 0 => Lesser(o, N) = 0
      BY <1>1 DEF Lesser
    <3> QED  BY <1>6, <2>1, <3>1
  <2>4. o \in Nat /\ o < i.scanned /\ o < N /\ records[o + 1].op = AppendOp
    BY <1>4, <2>2, <2>3
  <2> HIDE DEF o, seq
  <2>5. start = o /\ o \in 0 .. N /\ o <= i.scanned
    BY <1>1, <1>3, <2>1, <2>4 DEF Lesser
  <2> QED  BY <1>6, <2>4, <2>5 DEF StartsRight, N, start
<1>7. CASE start # 0 /\ q.tail = 0 /\ q.after # 0 /\ i.last # 0 /\ i.last <= q.after
  <2>1. start = Lesser(i.scanned, N)
    BY <1>7 DEF StartOffset, start, N
  <2>2. start = i.scanned
    BY <1>1, <1>3, <2>1 DEF Lesser
  <2>3. \A n \in 1 .. i.scanned : n \in 1 .. N
    BY <1>1, <1>3
  <2>4. \A n \in 1 .. i.scanned : records[n].seq <= q.after
    BY <1>1, <1>2, <1>3, <1>7, <2>3
  <2>5. i.scanned \in 0 .. N /\ i.scanned <= i.scanned
    BY <1>1, <1>3
  <2> QED  BY <1>7, <2>2, <2>4, <2>5 DEF StartsRight, N, start
<1>8. CASE start # 0 /\ q.tail = 0 /\ ~(q.after # 0 /\ i.last # 0 /\ i.last <= q.after)
  <2> DEFINE o == OffsetAtOrBefore(i, q.after)
  <2>1. start = o
    BY <1>8 DEF StartOffset, start, N
  <2>2. o \in Nat /\ o < i.scanned /\ o < N /\ \A n \in 1 .. o : records[n].seq <= q.after
    BY <1>2, <1>4, <1>8, <2>1
  <2> HIDE DEF o
  <2>3. o \in 0 .. N /\ o <= i.scanned
    BY <1>1, <1>3, <2>2
  <2> QED  BY <1>8, <2>1, <2>2, <2>3 DEF StartsRight, N, start
<1> QED  BY <1>5, <1>6, <1>7, <1>8

\* Where reading starts, and with what index.
Scanning(i, records) == IF i.scanned > Len(records) THEN ResetScan(i) ELSE i
StartOf(i, records, q) == StartOffset(Scanning(i, records), q, Len(records))
FirstIndex(i, records, q) ==
  IF StartOf(i, records, q) = 0 THEN ResetScan(Scanning(i, records)) ELSE Scanning(i, records)

\* f[n] is what reading has come to after n records.
Reads(f, i, records, q) ==
  LET start == StartOf(i, records, q)
      steps == Beyond(Len(records), start)
  IN  /\ f \in [0 .. steps -> Scans(i.epoch)]
      /\ f[0] = [lines |-> <<>>, index |-> FirstIndex(i, records, q), stop |-> FALSE]
      /\ \A n \in 1 .. steps : f[n] = Scan(f[n - 1], records[start + n], start + n, q)
      /\ ReadSegment(records, i, q) = f[steps]

\* Without its offsets an index is right about any file.
LEMMA ResetIs ==
  ASSUME NEW i \in Indexes
  PROVE  /\ ResetScan(i) \in Indexes /\ ResetScan(i).epoch = i.epoch
         /\ ResetScan(i).scanned = 0 /\ Increasing(ResetScan(i).offsets)
         /\ \A records : Len(records) \in Nat => Knows(ResetScan(i), records)
<1>1. <<>> \in Seq(Offsets) /\ DOMAIN <<>> = {}
  BY EmptySeq
<1>2. /\ ResetScan(i).epoch = i.epoch /\ ResetScan(i).scanned = 0
      /\ ResetScan(i).last = 0 /\ ResetScan(i).offsets = <<>>
      /\ ResetScan(i) \in Indexes
  BY <1>1 DEF ResetScan, FreshIndex, Indexes
<1>3. Increasing(<<>>)
  BY <1>1 DEF Increasing
<1>4. \A n \in 1 .. 0 : FALSE
  OBVIOUS
<1> QED  BY <1>1, <1>2, <1>3, <1>4 DEF Knows

\* Reading starts with an index of the same segment.
LEMMA FirstIndexIs ==
  ASSUME RunFilesAssumption, NEW i \in Indexes, Increasing(i.offsets),
         NEW records \in Seq(FileRecords), NEW q \in Queries
  PROVE  /\ Scanning(i, records) \in Indexes
         /\ StartOf(i, records, q) \in Nat
         /\ FirstIndex(i, records, q) \in Indexes
         /\ FirstIndex(i, records, q).epoch = i.epoch
         /\ Increasing(FirstIndex(i, records, q).offsets)
<1> DEFINE i1 == Scanning(i, records)
<1>1. i1 \in Indexes /\ i1.epoch = i.epoch /\ Increasing(i1.offsets)
  BY ResetIs DEF Scanning
<1>2. Len(records) \in Nat
  BY LenProperties
<1> HIDE DEF i1
<1>3. StartOffset(i1, q, Len(records)) \in Nat
  BY <1>1, <1>2, StartType
<1>4. FirstIndex(i, records, q) \in {ResetScan(i1), i1}
  BY DEF FirstIndex, i1
<1> QED  BY <1>1, <1>3, <1>4, ResetIs DEF StartOf, i1

\* ReadSegment is the last value of a function over the records.
LEMMA SegmentIs ==
  ASSUME RunFilesAssumption, NEW i \in Indexes, Increasing(i.offsets),
         NEW records \in Seq(FileRecords), NEW q \in Queries
  PROVE  \E f : Reads(f, i, records, q)
<1> DEFINE start == StartOf(i, records, q)
           N == Beyond(Len(records), start)
           X == Scans(i.epoch)
           first == [lines |-> <<>>, index |-> FirstIndex(i, records, q), stop |-> FALSE]
           G == [n \in 1 .. N |-> [st \in X |-> Scan(st, records[start + n], start + n, q)]]
           Def(f) == f = [n \in 0 .. N |->
                            IF n = 0 THEN first
                            ELSE Scan(f[n - 1], records[start + n], start + n, q)]
<1>1. Len(records) \in Nat /\ start \in Nat /\ N \in Nat /\ (N # 0 => N = Len(records) - start)
  <2>1. Len(records) \in Nat /\ start \in Nat
    BY LenProperties, FirstIndexIs
  <2> HIDE DEF start
  <2> QED  BY <2>1 DEF Beyond
<1>2. first \in X
  <2>1. <<>> \in Seq(Texts)
    BY EmptySeq
  <2> QED  BY <2>1, FirstIndexIs DEF Scans
<1> HIDE DEF start, N, first
<1>3. \A n \in 1 .. N : records[start + n] \in FileRecords /\ start + n \in Nat \ {0}
  <2>1. \A n \in 1 .. N : start + n \in 1 .. Len(records)
    BY <1>1
  <2> QED  BY <1>1, <2>1, ElementOfSeq
<1>4. \A n \in 1 .. N, st \in X : Scan(st, records[start + n], start + n, q) \in X
  BY <1>3, ScanType
<1> HIDE DEF X
<1>5. \A n \in 1 .. N, st \in X : G[n][st] = Scan(st, records[start + n], start + n, q)
  OBVIOUS
<1> HIDE DEF G
<1>6. Closed(N, X, G)
  BY <1>4, <1>5 DEF Closed
<1>7. PICK f : Steps(f, N, X, first, G)
  BY <1>1, <1>2, <1>6, Recursion, Zenon
<1>8. Def(f)
  <2>1. ASSUME NEW n \in 0 .. N
        PROVE  f[n] = IF n = 0 THEN first ELSE Scan(f[n - 1], records[start + n], start + n, q)
    <3>1. CASE n = 0
      BY <1>7, <3>1 DEF Steps
    <3>2. CASE n # 0
      <4>1. n \in 1 .. N /\ n - 1 \in 0 .. N
        BY <1>1, <3>2
      <4>2. f[n - 1] \in X
        BY <1>7, <4>1 DEF Steps
      <4> QED  BY <1>5, <1>7, <3>2, <4>1, <4>2 DEF Steps
    <3> QED  BY <3>1, <3>2
  <2> QED  BY <1>7, <2>1 DEF Steps
<1> DEFINE g == CHOOSE read : Def(read)
<1>9. ReadSegment(records, i, q) = g[N]
  BY DEF ReadSegment, first, N, start, FirstIndex, StartOf, Scanning
<1>10. Def(g)
  <2> HIDE DEF Def
  <2> QED  BY <1>8
<1>11. \A n \in 0 .. N : g[n] = IF n = 0 THEN first
                               ELSE Scan(g[n - 1], records[start + n], start + n, q)
  <2> HIDE DEF g
  <2> QED  BY <1>10
<1>12. g[0] = first /\ \A n \in 1 .. N : g[n] = Scan(g[n - 1], records[start + n], start + n, q)
  <2>1. 0 \in 0 .. N /\ \A n \in 1 .. N : n \in 0 .. N /\ n # 0
    BY <1>1
  <2> HIDE DEF g
  <2> QED  BY <1>11, <2>1
<1>13. \A k \in 0 .. N : g[k] \in X
  <2> DEFINE P == {k \in 0 .. N : g[k] \in X}
  <2> HIDE DEF g
  <2>1. 0 \in P
    BY <1>1, <1>2, <1>12
  <2>2. ASSUME NEW k \in 0 .. N - 1, k \in P  PROVE k + 1 \in P
    <3>1. k + 1 \in 1 .. N /\ k + 1 \in 0 .. N /\ (k + 1) - 1 = k
      BY <1>1
    <3>2. g[k] \in X
      BY <2>2
    <3>3. g[k + 1] = Scan(g[k], records[start + (k + 1)], start + (k + 1), q)
      BY <1>12, <3>1
    <3>4. g[k + 1] \in X
      BY <1>4, <3>1, <3>2, <3>3
    <3> QED  BY <3>1, <3>4
  <2> HIDE DEF P
  <2>3. \A k \in 0 .. N : k \in P
    BY <1>1, <2>1, <2>2, Induction
  <2> QED  BY <2>3 DEF P
<1>14. g \in [0 .. N -> X]
  <2> HIDE DEF g
  <2>1. g = [n \in 0 .. N |-> g[n]]
    BY <1>10, <1>11
  <2> QED  BY <1>13, <2>1
<1> HIDE DEF g
<1> QED  BY <1>9, <1>12, <1>14 DEF Reads, first, N, start, X

\* Whatever an index says, reading leaves lines and an index of that segment.
LEMMA SegmentType ==
  ASSUME RunFilesAssumption, NEW i \in Indexes, Increasing(i.offsets),
         NEW records \in Seq(FileRecords), NEW q \in Queries
  PROVE  ReadSegment(records, i, q) \in Scans(i.epoch)
<1>1. PICK f : Reads(f, i, records, q)
  BY SegmentIs
<1> DEFINE N == Beyond(Len(records), StartOf(i, records, q))
<1>2. N \in 0 .. N
  <2>1. Len(records) \in Nat /\ StartOf(i, records, q) \in Nat
    BY LenProperties, FirstIndexIs
  <2> QED  BY <2>1 DEF Beyond
<1> HIDE DEF N
<1> QED  BY <1>1, <1>2 DEF Reads, N

\* An index that is right about what it has scanned leads to the page, and stays
\* right.
LEMMA SegmentRead ==
  ASSUME RunFilesAssumption, NEW i \in Indexes, Increasing(i.offsets),
         NEW records \in Seq(FileRecords), InTurn(records), NEW q \in Queries,
         i.scanned <= Len(records) => Knows(i, records)
  PROVE  /\ PageOf(ReadSegment(records, i, q).lines, records, q)
         /\ Knows(ReadSegment(records, i, q).index, records)
<1> DEFINE i1 == Scanning(i, records)
           i2 == FirstIndex(i, records, q)
           start == StartOf(i, records, q)
           L == Len(records)
           N == Beyond(L, start)
<1>1. L \in Nat /\ i1 \in Indexes /\ start \in Nat /\ i2 \in Indexes
  BY LenProperties, FirstIndexIs
<1>2. Knows(i1, records)
  <2>1. CASE i.scanned > L
    BY <1>1, <2>1, ResetIs DEF Scanning
  <2>2. CASE ~(i.scanned > L)
    <3>1. i.scanned \in Nat
      BY DEF Indexes
    <3>2. i.scanned <= L
      BY <1>1, <2>2, <3>1
    <3> QED  BY <2>2, <3>2 DEF Scanning
  <2> QED  BY <2>1, <2>2
<1>3. StartsRight(start, records, q) /\ start <= i1.scanned
  BY <1>1, <1>2, StartIs DEF StartOf
<1>4. Knows(i2, records) /\ start <= i2.scanned
  BY <1>1, <1>2, <1>3, ResetIs DEF FirstIndex
<1>5. PICK f : Reads(f, i, records, q)
  BY SegmentIs
<1>6. start \in 0 .. L
  BY <1>3 DEF StartsRight
<1> HIDE DEF i1, i2, start, L
<1>7. N = L - start /\ N \in Nat
  BY <1>1, <1>6 DEF Beyond
<1>8. /\ f \in [0 .. N -> Scans(i.epoch)]
      /\ f[0] = [lines |-> <<>>, index |-> i2, stop |-> FALSE]
      /\ \A n \in 1 .. N : f[n] = Scan(f[n - 1], records[start + n], start + n, q)
      /\ ReadSegment(records, i, q) = f[N]
  BY <1>5 DEF Reads, i2, start, L
<1> HIDE DEF N
<1> DEFINE P == {k \in 0 .. N : Reached(f[k], records, start, start + k, q)}
<1>9. 0 \in P
  <2>1. f[0].lines = <<>> /\ f[0].index = i2 /\ ~f[0].stop
    BY <1>8
  <2>2. start + 0 = start /\ 0 \in 0 .. N
    BY <1>1, <1>7
  <2>3. Reached(f[0], records, start, start, q)
    BY <1>3, <1>4, <2>1, ReadNothing DEF Reached
  <2> QED  BY <2>2, <2>3
<1>10. ASSUME NEW k \in 0 .. N - 1, k \in P  PROVE k + 1 \in P
  <2> DEFINE p == start + k
  <2>1. /\ k + 1 \in 1 .. N /\ k + 1 \in 0 .. N /\ k \in 0 .. N /\ (k + 1) - 1 = k
        /\ p \in Nat /\ start <= p /\ p < L /\ start + (k + 1) = p + 1
    BY <1>1, <1>7
  <2>2. Reached(f[k], records, start, p, q)
    BY <1>10
  <2> HIDE DEF p
  <2>3. f[k] \in Scans(i.epoch) /\ f[k + 1] = Scan(f[k], records[p + 1], p + 1, q)
    BY <1>8, <2>1
  <2>4. Reached(f[k + 1], records, start, p + 1, q)
    BY <1>3, <2>1, <2>2, <2>3, ScanReaches DEF L
  <2> QED  BY <2>1, <2>4
<1> HIDE DEF P
<1>11. \A k \in 0 .. N : k \in P
  BY <1>7, <1>9, <1>10, Induction
<1> DEFINE read == f[N]
<1>12. Reached(read, records, start, L, q) /\ read \in Scans(i.epoch)
  <2>1. N \in 0 .. N /\ start + N = L
    BY <1>1, <1>7
  <2> QED  BY <1>8, <1>11, <2>1 DEF P
<1> HIDE DEF read
<1>13. read.stop \in BOOLEAN
  BY <1>12 DEF Scans
<1>14. PageOf(read.lines, records, q)
  <2>1. CASE read.stop
    <3>1. PICK m \in start .. L - 1 :
            ReadTo(read.lines, records, start, m, q) /\ records[m + 1].op = AppendOp
      BY <1>12, <2>1 DEF Reached
    <3>2. m \in 0 .. L
      BY <1>1, <1>6
    <3>3. q.tail = 0 /\ q.limit # 0 /\ Len(read.lines) >= q.limit
      BY <1>12, <2>1 DEF Reached
    <3> QED  BY <1>3, <3>1, <3>2, <3>3, PageIs DEF L
  <2>2. CASE ~read.stop
    <3>1. ReadTo(read.lines, records, start, L, q)
      BY <1>12, <2>2 DEF Reached
    <3>2. L \in 0 .. L
      BY <1>1
    <3> QED  BY <1>3, <3>1, <3>2, PageIs DEF L
  <2> QED  BY <2>1, <2>2
<1>15. Knows(read.index, records)
  BY <1>12 DEF Reached
<1> QED  BY <1>8, <1>14, <1>15 DEF read

-----------------------------------------------------------------------------
(* Files.                                                                    *)

\* The beginning of a file in turn.
LEMMA PrefixIs ==
  ASSUME NEW records \in Seq(FileRecords), InTurn(records), NEW k \in 0 .. Len(records)
  PROVE  LET first == SubSeq(records, 1, k)
         IN  /\ first \in Seq(FileRecords) /\ Len(first) = k /\ DOMAIN first = 1 .. k
             /\ \A n \in 1 .. k : first[n] = records[n]
             /\ Appends(first) = {n \in 1 .. k : records[n].op = AppendOp}
             /\ InTurn(first)
<1> DEFINE first == SubSeq(records, 1, k)
<1>1. /\ first \in Seq(FileRecords) /\ Len(first) = k
      /\ \A n \in 1 .. k : first[n] = records[n]
  BY Parts
<1>2. DOMAIN first = 1 .. k /\ k \in Nat /\ DOMAIN records = 1 .. Len(records) /\ Len(records) \in Nat
  BY <1>1, LenProperties
<1>3. \A n \in 1 .. k : n \in 1 .. Len(records)
  BY <1>2
<1> HIDE DEF first
<1>4. Appends(first) = {n \in 1 .. k : records[n].op = AppendOp}
  BY <1>1, <1>2 DEF Appends
<1>5. \A m, n \in DOMAIN first : m < n => Before(first[m], first[n])
  BY <1>1, <1>2, <1>3 DEF InTurn
<1>6. ASSUME NEW n \in DOMAIN first, first[n].op = Replace
      PROVE  \E m \in Appends(first) : m < n /\ first[m].seq = first[n].seq
  <2>1. n \in DOMAIN records /\ records[n].op = Replace
    BY <1>1, <1>2, <1>3, <1>6
  <2>2. PICK m \in Appends(records) : m < n /\ records[m].seq = records[n].seq
    BY <2>1 DEF InTurn
  <2>3. m \in 1 .. k /\ records[m].op = AppendOp
    BY <1>2, <2>2 DEF Appends
  <2> QED  BY <1>1, <1>2, <1>4, <2>2, <2>3
<1>7. InTurn(first)
  BY <1>5, <1>6 DEF InTurn
<1> QED  BY <1>1, <1>2, <1>4, <1>7 DEF first

\* A file stays in turn with a record that fits.
LEMMA InTurnAppended ==
  ASSUME NEW records \in Seq(FileRecords), InTurn(records),
         NEW r \in FileRecords, Fits(r, records)
  PROVE  LET all == Append(records, r)
         IN  /\ all \in Seq(FileRecords) /\ Len(all) = Len(records) + 1
             /\ DOMAIN all = 1 .. Len(records) + 1
             /\ \A n \in 1 .. Len(records) : all[n] = records[n]
             /\ all[Len(records) + 1] = r
             /\ InTurn(all)
<1> DEFINE all == Append(records, r)
           N == Len(records)
<1>1. /\ all \in Seq(FileRecords) /\ Len(all) = N + 1
      /\ \A n \in 1 .. N : all[n] = records[n]
      /\ all[N + 1] = r
  BY AppendProperties
<1>2. DOMAIN all = 1 .. N + 1 /\ N \in Nat /\ DOMAIN records = 1 .. N
  BY <1>1, LenProperties
<1> HIDE DEF all, N
<1>3. \A n \in 1 .. N + 1 : n \in 1 .. N \/ n = N + 1
  BY <1>2
<1>4. ASSUME NEW m \in 1 .. N + 1, NEW n \in 1 .. N + 1, m < n  PROVE Before(all[m], all[n])
  <2>1. m \in 1 .. N
    BY <1>2, <1>4
  <2>2. CASE n \in 1 .. N
    BY <1>1, <1>2, <1>4, <2>1, <2>2 DEF InTurn
  <2>3. CASE n = N + 1
    BY <1>1, <1>2, <2>1, <2>3 DEF Fits
  <2> QED  BY <1>3, <2>2, <2>3
<1>5. \A m \in Appends(records) : m \in Appends(all) /\ all[m].seq = records[m].seq /\ m \in 1 .. N
  BY <1>1, <1>2 DEF Appends
<1>6. ASSUME NEW n \in 1 .. N + 1, all[n].op = Replace
      PROVE  \E m \in Appends(all) : m < n /\ all[m].seq = all[n].seq
  <2>1. CASE n \in 1 .. N
    <3>1. PICK m \in Appends(records) : m < n /\ records[m].seq = records[n].seq
      BY <1>1, <1>2, <1>6, <2>1 DEF InTurn
    <3> QED  BY <1>1, <1>5, <2>1, <3>1
  <2>2. CASE n = N + 1
    <3>1. r.seq \in Seqs(records)
      BY <1>1, <1>6, <2>2 DEF Fits
    <3>2. PICK m \in Appends(records) : records[m].seq = r.seq
      BY <3>1 DEF Seqs
    <3>3. m < N + 1
      BY <1>2, <1>5
    <3> QED  BY <1>1, <1>5, <2>2, <3>2, <3>3
  <2> QED  BY <1>3, <2>1, <2>2
<1>7. InTurn(all)
  BY <1>2, <1>4, <1>6 DEF InTurn
<1> QED  BY <1>1, <1>2, <1>7 DEF all, N

\* What an index says is about the records that it has scanned.
LEMMA KnowsSame ==
  ASSUME NEW i \in Indexes, NEW a, NEW b, Knows(i, a), i.scanned <= Len(b),
         \A n \in 1 .. i.scanned : b[n] = a[n]
  PROVE  Knows(i, b)
<1>1. /\ i.scanned \in Nat
      /\ \A k \in DOMAIN i.offsets : i.offsets[k].offset \in Nat
  <2>1. \A k \in DOMAIN i.offsets : i.offsets[k] \in Offsets
    BY ElementOfSeq, LenProperties DEF Indexes
  <2> QED  BY <2>1 DEF Indexes, Offsets
<1>2. \A k \in DOMAIN i.offsets : i.offsets[k].offset + 1 \in 1 .. i.scanned
  BY <1>1 DEF Knows
<1> QED  BY <1>2 DEF Knows

-----------------------------------------------------------------------------
(* The queue.                                                                *)

\* The queue with one more command.
LEMMA QueueAppended ==
  ASSUME FileTypeOK, NEW c \in DiskCommands, diskCommands' = Append(diskCommands, c)
  PROVE  /\ diskCommands' \in Seq(DiskCommands) /\ Len(diskCommands) \in Nat
         /\ Len(diskCommands') = Len(diskCommands) + 1 /\ diskCommands' # <<>>
         /\ DOMAIN diskCommands = 1 .. Len(diskCommands)
         /\ DOMAIN diskCommands' = 1 .. Len(diskCommands) + 1
         /\ \A i \in 1 .. Len(diskCommands) : diskCommands'[i] = diskCommands[i]
         /\ diskCommands'[Len(diskCommands) + 1] = c
<1>1. diskCommands \in Seq(DiskCommands)
  BY DEF FileTypeOK
<1>2. Len(diskCommands) \in Nat /\ DOMAIN diskCommands = 1 .. Len(diskCommands)
  BY <1>1, LenProperties
<1>3. /\ diskCommands' \in Seq(DiskCommands) /\ Len(diskCommands') = Len(diskCommands) + 1
      /\ \A i \in 1 .. Len(diskCommands) : diskCommands'[i] = diskCommands[i]
      /\ diskCommands'[Len(diskCommands) + 1] = c
  BY <1>1, AppendProperties
<1>4. DOMAIN diskCommands' = 1 .. Len(diskCommands) + 1
  BY <1>3, LenProperties
<1>5. diskCommands' # <<>>
  BY <1>2, <1>3, EmptySeq
<1> QED  BY <1>2, <1>3, <1>4, <1>5

\* The queue without its first command.
LEMMA QueueTaken ==
  ASSUME FileTypeOK, diskCommands # <<>>, diskCommands' = Tail(diskCommands)
  PROVE  /\ diskCommands' \in Seq(DiskCommands) /\ Len(diskCommands) \in Nat \ {0}
         /\ diskCommands[1] \in DiskCommands
         /\ Len(diskCommands') = Len(diskCommands) - 1
         /\ DOMAIN diskCommands = 1 .. Len(diskCommands)
         /\ DOMAIN diskCommands' = 1 .. Len(diskCommands) - 1
         /\ \A i \in 1 .. Len(diskCommands) - 1 :
              diskCommands'[i] = diskCommands[i + 1] /\ i + 1 \in 1 .. Len(diskCommands)
<1>1. diskCommands \in Seq(DiskCommands)
  BY DEF FileTypeOK
<1>2. Len(diskCommands) \in Nat \ {0} /\ DOMAIN diskCommands = 1 .. Len(diskCommands)
  BY <1>1, LenProperties, EmptySeq
<1>3. /\ diskCommands' \in Seq(DiskCommands) /\ Len(diskCommands') = Len(diskCommands) - 1
      /\ \A i \in 1 .. Len(diskCommands) - 1 : diskCommands'[i] = diskCommands[i + 1]
  BY <1>1, HeadTailProperties
<1>4. DOMAIN diskCommands' = 1 .. Len(diskCommands) - 1
  BY <1>3, LenProperties
<1>5. diskCommands[1] \in DiskCommands
  BY <1>1, <1>2, ElementOfSeq
<1>6. \A i \in 1 .. Len(diskCommands) - 1 : i + 1 \in 1 .. Len(diskCommands)
  BY <1>2
<1> QED  BY <1>2, <1>3, <1>4, <1>5, <1>6

\* What waits has the type of a record.
LEMMA WritesAre ==
  ASSUME FileTypeOK
  PROVE  /\ \A i \in Writes : diskCommands[i].record \in FileRecords
         /\ \A i \in Writes : /\ diskCommands[i].record.seq \in Nat \ {0}
                              /\ diskCommands[i].record.op \in {AppendOp, Replace}
<1>1. \A i \in DOMAIN diskCommands : diskCommands[i] \in DiskCommands
  BY ElementOfSeq, LenProperties DEF FileTypeOK
<1>2. \A c \in DiskCommands : c.do = "write" => c.record \in FileRecords
  BY DEF DiskCommands
<1>3. \A i \in Writes : diskCommands[i].record \in FileRecords
  BY <1>1, <1>2 DEF Writes
<1> QED  BY <1>3 DEF FileRecords

\* Without its first command the queue is in order, and waits for less.
LEMMA TakenOrder ==
  ASSUME FileTypeOK, QueueOrder, diskCommands # <<>>, diskCommands' = Tail(diskCommands),
         UNCHANGED serviceVars
  PROVE  /\ QueueOrder'
         /\ \A j \in Writes' : j + 1 \in Writes /\ diskCommands'[j] = diskCommands[j + 1]
                               /\ 1 < j + 1
<1> DEFINE N == Len(diskCommands)
<1>1. /\ N \in Nat \ {0}
      /\ Len(diskCommands') = N - 1
      /\ DOMAIN diskCommands = 1 .. N
      /\ DOMAIN diskCommands' = 1 .. N - 1
      /\ \A i \in 1 .. N - 1 :
           diskCommands'[i] = diskCommands[i + 1] /\ i + 1 \in 1 .. N
  BY QueueTaken
<1>2. \A j \in Writes' : /\ j + 1 \in Writes /\ diskCommands'[j] = diskCommands[j + 1]
                         /\ 1 < j + 1 /\ j \in 1 .. N - 1
  <2> HIDE DEF N
  <2> QED  BY <1>1 DEF Writes
<1>3. lastSeq' < nextSeq'
  BY DEF QueueOrder, serviceVars
<1>4. ASSUME NEW i \in Writes', NEW j \in Writes', i < j
      PROVE  Before(diskCommands'[i].record, diskCommands'[j].record)
  <2>1. i + 1 < j + 1
    BY <1>1, <1>2, <1>4
  <2> QED  BY <1>2, <2>1 DEF QueueOrder
<1>5. \A i \in Writes' : diskCommands'[i].record.seq <= lastSeq'
  BY <1>2 DEF QueueOrder, serviceVars
<1>6. ASSUME NEW i \in DOMAIN diskCommands', diskCommands'[i].do = "remove"
      PROVE  i = Len(diskCommands') /\ ~retained'
  <2>1. i + 1 \in DOMAIN diskCommands /\ diskCommands[i + 1].do = "remove"
    BY <1>1, <1>6
  <2>2. i + 1 = N /\ ~retained
    BY <2>1 DEF QueueOrder
  <2> HIDE DEF N
  <2> QED  BY <1>1, <2>2 DEF serviceVars
<1>7. QueueOrder'
  BY <1>3, <1>4, <1>5, <1>6 DEF QueueOrder
<1> QED  BY <1>2, <1>7

-----------------------------------------------------------------------------
(* The steps of the service.                                                 *)

LEMMA FileInitInv == ASSUME RunFilesAssumption, FileInit PROVE FileIInv
<1>1. /\ diskCommands \in Seq(DiskCommands) /\ Len(diskCommands) = 1
      /\ DOMAIN diskCommands = 1 .. 1 /\ diskCommands[1].do = "begin"
  <2>1. [do |-> "begin"] \in DiskCommands
    BY DEF DiskCommands
  <2> QED  BY <2>1 DEF FileInit
<1>2. /\ file = <<>> /\ file \in Seq(FileRecords) /\ Len(file) = 0 /\ DOMAIN file = {}
      /\ worker = IdleWorker /\ worker.pc = "idle" /\ reader.pc = "idle"
  BY EmptySeq DEF FileInit, IdleWorker, IdleReader
<1>3. Writes = {}
  BY <1>1 DEF Writes
<1>4. /\ index.epoch = 0 /\ index.scanned = 0 /\ index.offsets = <<>>
      /\ index \in Indexes /\ Increasing(index.offsets) /\ Knows(index, file)
  <2>1. <<>> \in Seq(Offsets) /\ DOMAIN <<>> = {} /\ \A n \in 1 .. 0 : FALSE
    BY EmptySeq
  <2>2. /\ index.epoch = 0 /\ index.scanned = 0 /\ index.offsets = <<>> /\ index \in Indexes
    BY <2>1 DEF FileInit, FreshIndex, Indexes
  <2>3. Increasing(index.offsets)
    BY <2>1, <2>2 DEF Increasing
  <2> QED  BY <1>2, <2>1, <2>2, <2>3 DEF Knows
<1>5. FileTypeOK
  <2>1. meta \in Metas
    BY DEF FileInit, Metas
  <2>2. /\ nextSeq \in Nat \ {0} /\ lastSeq \in Nat /\ logged \in Nat
        /\ live \in Nat /\ retained \in BOOLEAN /\ exists \in BOOLEAN
    <3>1. /\ nextSeq = 1 /\ lastSeq = 0 /\ logged = 0
          /\ live = 0 /\ retained = TRUE /\ exists = FALSE
      BY DEF FileInit
    <3>2. nextSeq \in Nat \ {0} /\ lastSeq \in Nat /\ logged \in Nat /\ live \in Nat
      BY <3>1
    <3>3. retained \in {TRUE, FALSE} /\ exists \in {TRUE, FALSE}
      BY <3>1, Zenon
    <3> QED  BY <3>2, <3>3
  <2>3. worker \in {IdleWorker} \cup [pc : {"chosen", "written"}, record : FileRecords]
    BY <1>2
  <2> QED  BY <1>1, <1>2, <1>4, <2>1, <2>2, <2>3 DEF FileTypeOK
<1>6. QueueOrder
  BY <1>1, <1>3 DEF QueueOrder, FileInit
<1>7. Appends(file) = {}
  BY <1>2 DEF Appends
<1>8. FileOrder
  BY <1>2, <1>3 DEF FileOrder, InTurn
<1>9. Summary
  <2>1. SubSeq(file, 1, 0) \in Seq(FileRecords) /\ Len(SubSeq(file, 1, 0)) = 0
    BY <1>2, Parts
  <2>2. Appends(SubSeq(file, 1, 0)) = {}
    BY <2>1, LenProperties DEF Appends
  <2>3. Cardinality({}) = 0
    BY FS_EmptySet
  <2> QED  BY <1>2, <2>2, <2>3 DEF Summary, FileInit
<1>10. Indexed
  BY <1>4 DEF Indexed, FileInit
<1>11. Reading
  BY <1>2 DEF Reading
<1> QED  BY <1>5, <1>6, <1>8, <1>9, <1>10, <1>11 DEF FileIInv

\* The records of the file and of the worker are the service's.
LEMMA FileIs ==
  ASSUME FileTypeOK
  PROVE  /\ Len(file) \in Nat /\ DOMAIN file = 1 .. Len(file)
         /\ \A n \in DOMAIN file : file[n] \in FileRecords /\ file[n].seq \in Nat \ {0}
         /\ worker = IdleWorker \/
              /\ worker.pc \in {"chosen", "written"} /\ worker.record \in FileRecords
              /\ worker.record.seq \in Nat \ {0} /\ worker.record.op \in {AppendOp, Replace}
              /\ worker # IdleWorker /\ worker = [pc |-> worker.pc, record |-> worker.record]
         /\ worker = IdleWorker => worker.pc = "idle"
<1>1. file \in Seq(FileRecords)
  BY DEF FileTypeOK
<1>2. Len(file) \in Nat /\ DOMAIN file = 1 .. Len(file)
  BY <1>1, LenProperties
<1>3. \A n \in DOMAIN file : file[n] \in FileRecords
  BY <1>1, <1>2, ElementOfSeq
<1>4. \A r \in FileRecords : r.seq \in Nat \ {0} /\ r.op \in {AppendOp, Replace}
  BY DEF FileRecords
<1>5. worker = IdleWorker => worker.pc = "idle"
  BY DEF IdleWorker
<1>6. worker # IdleWorker =>
        /\ worker.pc \in {"chosen", "written"} /\ worker.record \in FileRecords
        /\ worker = [pc |-> worker.pc, record |-> worker.record]
  BY DEF FileTypeOK
<1> QED  BY <1>2, <1>3, <1>4, <1>5, <1>6

\* A new record follows all that was written before it.
LEMMA LogLineKeeps ==
  ASSUME RunFilesAssumption, FileIInv, NEW screen \in LiveScreens \cup {0},
         NEW others \in Gaps, LogLine(screen, others)
  PROVE  FileIInv'
<1> DEFINE replaces == screen # 0 /\ live = screen /\ lastSeq # 0
           seq == IF replaces THEN lastSeq ELSE nextSeq + others
           record == [seq |-> seq, text |-> logged + 1,
                      op |-> IF replaces THEN Replace ELSE AppendOp]
           write == [do |-> "write", record |-> record]
           N == Len(diskCommands)
<1>1. /\ FileTypeOK /\ QueueOrder /\ FileOrder /\ Summary /\ Indexed /\ Reading
  BY DEF FileIInv
<1>2. /\ retained /\ nextSeq' = (IF replaces THEN nextSeq ELSE seq + 1)
      /\ lastSeq' = seq /\ live' = screen /\ logged' = logged + 1
      /\ UNCHANGED <<retained, worker, file, exists, meta, index, reader>>
      /\ diskCommands' = Queued(record)
  BY DEF LogLine, diskVars
<1>3. nextSeq \in Nat \ {0} /\ lastSeq \in Nat /\ logged \in Nat /\ others \in Nat /\ lastSeq < nextSeq
      /\ screen \in Nat
  BY <1>1 DEF FileTypeOK, RunFilesAssumption, QueueOrder
<1>4. /\ seq \in Nat \ {0} /\ lastSeq <= seq /\ (~replaces => lastSeq < seq)
      /\ nextSeq' \in Nat \ {0} /\ lastSeq' < nextSeq'
  BY <1>2, <1>3
<1>5. AppendOp # Replace
  BY DEF AppendOp, Replace
<1>6. record \in FileRecords /\ record.seq = seq /\ (record.op = AppendOp => ~replaces)
  BY <1>3, <1>4, <1>5 DEF FileRecords
<1> HIDE DEF record
<1>7. write \in DiskCommands /\ write.do = "write" /\ write.record = record
  BY <1>6 DEF DiskCommands
<1> HIDE DEF write
<1>8. diskCommands' = diskCommands \/ diskCommands' = Append(diskCommands, write)
  BY <1>2 DEF Queued, write
<1> HIDE DEF replaces, seq
<1>9. \A r \in FileRecords : r.seq <= lastSeq => Before(r, record)
  BY <1>3, <1>4, <1>6 DEF Before, FileRecords
<1>10. \A i \in DOMAIN diskCommands : diskCommands[i].do # "remove"
  BY <1>1, <1>2 DEF QueueOrder
<1>11. ASSUME diskCommands' = Append(diskCommands, write)
       PROVE  /\ diskCommands' \in Seq(DiskCommands)
              /\ \A i \in Writes' :
                   \/ i \in Writes /\ diskCommands'[i] = diskCommands[i] /\ i < N + 1
                   \/ i = N + 1 /\ diskCommands'[i] = write
              /\ \A i \in DOMAIN diskCommands' : diskCommands'[i].do # "remove"
  <2>1. /\ diskCommands' \in Seq(DiskCommands) /\ N \in Nat
        /\ DOMAIN diskCommands = 1 .. N /\ DOMAIN diskCommands' = 1 .. N + 1
        /\ \A i \in 1 .. N : diskCommands'[i] = diskCommands[i]
        /\ diskCommands'[N + 1] = write
    BY <1>1, <1>7, <1>11, QueueAppended
  <2> HIDE DEF N
  <2>2. \A i \in 1 .. N + 1 : (i \in 1 .. N /\ i < N + 1) \/ i = N + 1
    BY <2>1
  <2> QED  BY <1>7, <1>10, <2>1, <2>2 DEF Writes
<1>12. ASSUME diskCommands' = diskCommands
       PROVE  /\ diskCommands' \in Seq(DiskCommands) /\ Writes' = Writes
              /\ \A i \in DOMAIN diskCommands' : diskCommands'[i].do # "remove"
  BY <1>1, <1>10, <1>12 DEF Writes, FileTypeOK
<1> HIDE DEF N
<1>13. FileTypeOK'
  BY <1>1, <1>2, <1>3, <1>4, <1>8, <1>11, <1>12 DEF FileTypeOK
<1>14. \A i \in Writes : diskCommands[i].record \in FileRecords /\ diskCommands[i].record.seq <= lastSeq
                         /\ diskCommands[i].record.seq \in Nat
  BY <1>1, WritesAre DEF QueueOrder
<1>15. QueueOrder'
  <2>1. CASE diskCommands' = diskCommands
    <3>1. \A i \in Writes : diskCommands[i].record.seq <= seq
      BY <1>3, <1>4, <1>14
    <3> QED  BY <1>1, <1>2, <1>4, <1>12, <2>1, <3>1 DEF QueueOrder
  <2>2. CASE diskCommands' = Append(diskCommands, write)
    <3>1. ASSUME NEW i \in Writes', NEW j \in Writes', i < j
          PROVE  Before(diskCommands'[i].record, diskCommands'[j].record)
      <4>0. N \in Nat
        BY <1>1, LenProperties DEF N, FileTypeOK
      <4>1. CASE j \in Writes /\ diskCommands'[j] = diskCommands[j] /\ j < N + 1
        <5>1. i # N + 1
          BY <3>1, <4>0, <4>1, <1>1, LenProperties DEF Writes, N, FileTypeOK
        <5> QED  BY <1>1, <1>11, <2>2, <3>1, <4>1, <5>1 DEF QueueOrder
      <4>2. CASE j = N + 1 /\ diskCommands'[j] = write
        <5>1. i # N + 1
          BY <3>1, <4>0, <4>2
        <5>2. i \in Writes /\ diskCommands'[i] = diskCommands[i]
          BY <1>11, <2>2, <5>1
        <5> QED  BY <1>7, <1>9, <1>14, <4>2, <5>2
      <4> QED  BY <1>11, <2>2, <4>1, <4>2
    <3>2. ASSUME NEW i \in Writes'  PROVE diskCommands'[i].record.seq <= seq
      <4>1. CASE i \in Writes /\ diskCommands'[i] = diskCommands[i]
        BY <1>3, <1>4, <1>14, <4>1
      <4>2. CASE diskCommands'[i] = write
        BY <1>4, <1>6, <1>7, <4>2
      <4> QED  BY <1>11, <2>2, <4>1, <4>2
    <3> QED  BY <1>2, <1>4, <1>11, <2>2, <3>1, <3>2 DEF QueueOrder
  <2> QED  BY <1>8, <2>1, <2>2
<1>16. FileOrder'
  <2>1. \A i \in Writes' : (i \in Writes /\ diskCommands'[i] = diskCommands[i])
                           \/ diskCommands'[i].record = record
    BY <1>7, <1>8, <1>11, <1>12
  <2>2. \A n \in DOMAIN file : file[n] \in FileRecords /\ file[n].seq \in Nat /\ file[n].seq <= lastSeq
    BY <1>1, FileIs DEF FileOrder
  <2>3. \A n \in DOMAIN file, i \in Writes' : Before(file[n], diskCommands'[i].record)
    BY <1>1, <1>9, <2>1, <2>2 DEF FileOrder
  <2>4. worker # IdleWorker => /\ exists /\ worker.record.seq <= lastSeq
                               /\ worker.record \in FileRecords /\ worker.record.seq \in Nat
    BY <1>1, FileIs DEF FileOrder
  <2>5. worker # IdleWorker => \A i \in Writes' : Before(worker.record, diskCommands'[i].record)
    BY <1>1, <1>9, <2>1, <2>4 DEF FileOrder
  <2>6. /\ \A n \in DOMAIN file : file[n].seq <= seq
        /\ worker # IdleWorker => worker.record.seq <= seq
    BY <1>3, <1>4, <2>2, <2>4
  <2>7. exists \/ file = <<>>
    BY <1>1, <1>2 DEF FileOrder
  <2> QED  BY <1>1, <1>2, <2>3, <2>4, <2>5, <2>6, <2>7 DEF FileOrder
<1>17. Summary' /\ Indexed' /\ Reading'
  BY <1>1, <1>2 DEF Summary, Indexed, Reading
<1> QED  BY <1>13, <1>15, <1>16, <1>17 DEF FileIInv

\* A clear touches nothing that was written or will be read.
LEMMA ClearVisibleKeeps == ASSUME FileIInv, ClearVisibleLogs PROVE FileIInv'
<1>1. /\ FileTypeOK /\ QueueOrder /\ FileOrder /\ Summary /\ Indexed /\ Reading
      /\ live' = 0
      /\ UNCHANGED <<nextSeq, lastSeq, retained, logged, diskCommands, worker, file, exists,
                     meta, index, reader>>
  BY DEF FileIInv, ClearVisibleLogs, diskVars
<1>2. Writes' = Writes
  BY <1>1 DEF Writes
<1>3. FileTypeOK'
  BY <1>1 DEF FileTypeOK
<1>4. QueueOrder'
  BY <1>1, <1>2 DEF QueueOrder
<1>5. FileOrder'
  BY <1>1, <1>2 DEF FileOrder
<1>6. Summary' /\ Indexed'
  BY <1>1 DEF Summary, Indexed
<1>7. Reading'
  BY <1>1 DEF Reading
<1> QED  BY <1>3, <1>4, <1>5, <1>6, <1>7 DEF FileIInv

\* Nothing follows the removal.
LEMMA EvictKeeps == ASSUME FileIInv, Evict PROVE FileIInv'
<1> DEFINE c == [do |-> "remove"]
           N == Len(diskCommands)
<1>1. /\ FileTypeOK /\ QueueOrder /\ FileOrder /\ Summary /\ Indexed /\ Reading
  BY DEF FileIInv
<1>2. /\ retained /\ retained' = FALSE /\ diskCommands' = Append(diskCommands, c)
      /\ UNCHANGED <<nextSeq, lastSeq, live, logged, worker, file, exists, meta, index, reader>>
  BY DEF Evict, diskVars
<1>3. c \in DiskCommands /\ c.do = "remove"
  BY DEF DiskCommands
<1> HIDE DEF c
<1>4. /\ diskCommands' \in Seq(DiskCommands) /\ N \in Nat /\ Len(diskCommands') = N + 1
      /\ DOMAIN diskCommands = 1 .. N /\ DOMAIN diskCommands' = 1 .. N + 1
      /\ \A i \in 1 .. N : diskCommands'[i] = diskCommands[i]
      /\ diskCommands'[N + 1] = c
  BY <1>1, <1>2, <1>3, QueueAppended
<1> HIDE DEF N
<1>5. \A i \in 1 .. N + 1 : i \in 1 .. N \/ i = N + 1
  BY <1>4
<1>6. \A i \in Writes' : i \in Writes /\ diskCommands'[i] = diskCommands[i]
  BY <1>3, <1>4, <1>5 DEF Writes
<1>7. \A i \in DOMAIN diskCommands : diskCommands[i].do # "remove"
  BY <1>1, <1>2 DEF QueueOrder
<1>8. \A i \in DOMAIN diskCommands' : diskCommands'[i].do = "remove" => i = Len(diskCommands')
  BY <1>4, <1>5, <1>7
<1>9. FileTypeOK'
  BY <1>1, <1>2, <1>4 DEF FileTypeOK
<1>10. QueueOrder'
  BY <1>1, <1>2, <1>6, <1>8 DEF QueueOrder
<1>11. FileOrder'
  <2>1. exists \/ file = <<>>
    BY <1>1, <1>2 DEF FileOrder
  <2> QED  BY <1>1, <1>2, <1>6, <2>1 DEF FileOrder
<1>12. Summary' /\ Indexed' /\ Reading'
  BY <1>1, <1>2 DEF Summary, Indexed, Reading
<1> QED  BY <1>9, <1>10, <1>11, <1>12 DEF FileIInv

-----------------------------------------------------------------------------
(* The steps of the disk worker.                                             *)

\* What a new segment begins with; readers of the one before are too late.
LEMMA NewSegment ==
  ASSUME FileTypeOK, Indexed, Reading, meta' = BeginSegment, UNCHANGED <<index, reader>>
  PROVE  /\ meta' \in Metas /\ meta'.epoch = meta.epoch + 1 /\ meta'.readable = 0
         /\ Indexed' /\ Reading'
         /\ \A records : Len(records) = 0 /\ records \in Seq(FileRecords) =>
              meta'.lines = Cardinality(Appends(SubSeq(records, 1, 0)))
<1>1. meta.epoch \in Nat /\ index.epoch \in Nat
  BY DEF FileTypeOK, Metas, Indexes
<1>2. /\ meta' \in Metas /\ meta'.epoch = meta.epoch + 1 /\ meta'.readable = 0 /\ meta'.lines = 0
  BY <1>1 DEF BeginSegment, Metas
<1>3. Indexed'
  BY <1>1, <1>2 DEF Indexed
<1>4. reader.pc \in {"opened", "read"} =>
        reader.epoch \in Nat /\ reader.epoch <= meta'.epoch /\ reader.epoch # meta'.epoch
  BY <1>1, <1>2 DEF Reading
<1>5. Reading'
  BY <1>4 DEF Reading
<1>6. ASSUME NEW records \in Seq(FileRecords), Len(records) = 0
      PROVE  Cardinality(Appends(SubSeq(records, 1, 0))) = 0
  <2>1. 0 \in 0 .. Len(records)
    BY <1>6
  <2>2. SubSeq(records, 1, 0) \in Seq(FileRecords) /\ Len(SubSeq(records, 1, 0)) = 0
    BY <2>1, Parts
  <2>3. Appends(SubSeq(records, 1, 0)) = {}
    BY <2>2, LenProperties DEF Appends
  <2> QED  BY <2>3, FS_EmptySet
<1> QED  BY <1>2, <1>3, <1>5, <1>6

\* An empty file is in order.
LEMMA EmptyFile ==
  ASSUME file' = <<>>, worker' = IdleWorker, meta' = BeginSegment, exists',
         \A records : Len(records) = 0 /\ records \in Seq(FileRecords) =>
           meta'.lines = Cardinality(Appends(SubSeq(records, 1, 0)))
  PROVE  file' \in Seq(FileRecords) /\ FileOrder' /\ Summary'
<1>1. file' \in Seq(FileRecords) /\ Len(file') = 0 /\ DOMAIN file' = {}
  BY EmptySeq
<1>2. worker'.pc = "idle"
  BY DEF IdleWorker
<1>3. InTurn(file')
  BY <1>1 DEF InTurn
<1>4. FileOrder'
  BY <1>1, <1>2, <1>3 DEF FileOrder
<1>5. meta'.readable = 0 /\ meta'.first = 0 /\ meta'.last = 0
  BY DEF BeginSegment
<1>6. Summary'
  BY <1>1, <1>2, <1>5 DEF Summary
<1> QED  BY <1>1, <1>4, <1>6

\* A command that is passed over leaves the rest in order.
LEMMA PassedOver ==
  ASSUME FileIInv, worker = IdleWorker, diskCommands # <<>>, diskCommands' = Tail(diskCommands),
         UNCHANGED <<serviceVars, worker, file, meta, index, reader>>,
         exists' = exists \/ (exists' = FALSE /\ diskCommands[1].do = "remove")
  PROVE  FileIInv'
<1>1. /\ FileTypeOK /\ QueueOrder /\ FileOrder /\ Summary /\ Indexed /\ Reading
  BY DEF FileIInv
<1>2. /\ diskCommands' \in Seq(DiskCommands) /\ Len(diskCommands) \in Nat \ {0}
      /\ Len(diskCommands') = Len(diskCommands) - 1 /\ 1 \in DOMAIN diskCommands
  BY <1>1, QueueTaken
<1>3. QueueOrder' /\ \A j \in Writes' : j + 1 \in Writes /\ diskCommands'[j] = diskCommands[j + 1]
  BY <1>1, TakenOrder
<1>4. UNCHANGED <<nextSeq, lastSeq, live, retained, logged>>
  BY DEF serviceVars
<1>5. FileTypeOK'
  <2>1. exists' \in BOOLEAN
    BY <1>1 DEF FileTypeOK
  <2> QED  BY <1>1, <1>2, <1>4, <2>1 DEF FileTypeOK
<1>6. worker.pc = "idle"
  BY DEF IdleWorker
<1>7. ~exists' => file = <<>> \/ (diskCommands' = <<>> /\ ~retained)
  <2>1. CASE exists' = exists
    BY <1>1, <2>1 DEF FileOrder
  <2>2. CASE diskCommands[1].do = "remove"
    <3>1. 1 = Len(diskCommands) /\ ~retained
      BY <1>1, <1>2, <2>2 DEF QueueOrder
    <3>2. diskCommands' = <<>>
      BY <1>2, <3>1, EmptySeq
    <3> QED  BY <3>1, <3>2
  <2> QED  BY <2>1, <2>2
<1>8. FileOrder'
  BY <1>1, <1>3, <1>4, <1>6, <1>7 DEF FileOrder
<1>9. Summary' /\ Indexed' /\ Reading'
  BY <1>1 DEF Summary, Indexed, Reading
<1> QED  BY <1>3, <1>5, <1>8, <1>9 DEF FileIInv

LEMMA BeginKeeps == ASSUME FileIInv, Begin PROVE FileIInv'
<1>1. /\ FileTypeOK /\ QueueOrder /\ FileOrder /\ Summary /\ Indexed /\ Reading
  BY DEF FileIInv
<1>2. /\ worker = IdleWorker /\ diskCommands # <<>> /\ diskCommands' = Tail(diskCommands)
      /\ UNCHANGED <<serviceVars, worker, index, reader>>
      /\ \/ exists' = TRUE /\ file' = <<>> /\ meta' = BeginSegment
         \/ UNCHANGED <<exists, file, meta>>
  BY DEF Begin
<1>3. CASE UNCHANGED <<exists, file, meta>>
  BY <1>2, <1>3, PassedOver
<1>4. CASE exists' = TRUE /\ file' = <<>> /\ meta' = BeginSegment
  <2>1. /\ meta' \in Metas /\ Indexed' /\ Reading'
        /\ \A records : Len(records) = 0 /\ records \in Seq(FileRecords) =>
             meta'.lines = Cardinality(Appends(SubSeq(records, 1, 0)))
    BY <1>1, <1>2, <1>4, NewSegment
  <2>2. file' \in Seq(FileRecords) /\ FileOrder' /\ Summary'
    BY <1>2, <1>4, <2>1, EmptyFile
  <2>3. diskCommands' \in Seq(DiskCommands) /\ QueueOrder'
    BY <1>1, <1>2, QueueTaken, TakenOrder
  <2>4. FileTypeOK'
    BY <1>1, <1>2, <1>4, <2>1, <2>2, <2>3 DEF FileTypeOK, serviceVars
  <2> QED  BY <2>1, <2>2, <2>3, <2>4 DEF FileIInv
<1> QED  BY <1>2, <1>3, <1>4

LEMMA RemoveFileKeeps == ASSUME FileIInv, RemoveFile PROVE FileIInv'
BY PassedOver DEF RemoveFile

\* The metadata tells whether a frame's first record is in the file.
LEMMA OpFits ==
  ASSUME FileTypeOK, QueueOrder, FileOrder, Summary, worker = IdleWorker,
         NEW i \in Writes
  PROVE  LET record == diskCommands[i].record
         IN  Fits([record EXCEPT !.op = OpOf(record)], file)
<1> DEFINE record == diskCommands[i].record
           new == [record EXCEPT !.op = OpOf(record)]
           N == Len(file)
<1>1. record \in FileRecords /\ record.seq \in Nat \ {0} /\ record.op \in {AppendOp, Replace}
  BY WritesAre
<1>2. /\ N \in Nat /\ DOMAIN file = 1 .. N
      /\ \A n \in 1 .. N : file[n].seq \in Nat \ {0}
  BY FileIs
<1>3. \A n \in 1 .. N : Before(file[n], record)
  BY <1>2 DEF FileOrder
<1>4. meta.readable = N /\ meta.last = IF N = 0 THEN 0 ELSE file[N].seq
  BY DEF Summary, IdleWorker
<1> HIDE DEF record, N
<1>5. new.seq = record.seq /\ new.op = OpOf(record)
  BY <1>1 DEF FileRecords
<1> HIDE DEF new
<1>6. AppendOp # Replace
  BY DEF AppendOp, Replace
<1>7. file \in Seq(FileRecords) /\ InTurn(file)
  BY DEF FileTypeOK, FileOrder
<1>8. ASSUME NEW n \in 1 .. N, new.op = AppendOp  PROVE file[n].seq < new.seq
  <2>1. CASE record.op = AppendOp
    BY <1>3, <1>5, <2>1 DEF Before
  <2>2. CASE record.op = Replace
    <3>1. meta.last # record.seq
      BY <1>5, <1>6, <1>8, <2>2 DEF OpOf
    <3>2. N # 0 /\ N \in 1 .. N /\ n <= N
      BY <1>2
    <3>3. file[N].seq # record.seq /\ file[N].seq <= record.seq
      BY <1>3, <1>4, <3>1, <3>2 DEF Before
    <3>4. file[n].seq <= file[N].seq
      BY <1>7, <3>2, TurnIs DEF N
    <3> QED  BY <1>1, <1>2, <1>5, <3>2, <3>3, <3>4
  <2> QED  BY <1>1, <2>1, <2>2
<1>9. \A n \in 1 .. N : file[n].seq <= new.seq
  BY <1>3, <1>5 DEF Before
<1>10. ASSUME new.op = Replace  PROVE new.seq \in Seqs(file)
  <2>1. record.op = Replace /\ meta.last = record.seq
    BY <1>1, <1>5, <1>6, <1>10 DEF OpOf
  <2>2. N # 0 /\ N \in 1 .. N /\ file[N].seq = record.seq
    BY <1>1, <1>2, <1>4, <2>1
  <2>3. CASE file[N].op = AppendOp
    BY <1>2, <1>5, <2>2, <2>3 DEF Seqs, Appends
  <2>4. CASE file[N].op # AppendOp
    <3>1. PICK m \in 1 .. N - 1 : file[m].op = AppendOp /\ file[m].seq = file[N].seq
      BY <1>7, <2>2, <2>4, TurnIs DEF N
    <3>2. m \in 1 .. N
      BY <1>2
    <3> QED  BY <1>2, <1>5, <2>2, <3>1, <3>2 DEF Seqs, Appends
  <2> QED  BY <2>3, <2>4
<1>11. Fits(new, file)
  BY <1>2, <1>8, <1>9, <1>10 DEF Fits, Before
<1> QED  BY <1>11 DEF new, record

LEMMA TakeWriteKeeps == ASSUME FileIInv, TakeWrite PROVE FileIInv'
<1> DEFINE record == diskCommands[1].record
<1>1. /\ FileTypeOK /\ QueueOrder /\ FileOrder /\ Summary /\ Indexed /\ Reading
  BY DEF FileIInv
<1>2. /\ worker = IdleWorker /\ diskCommands # <<>> /\ diskCommands' = Tail(diskCommands)
      /\ diskCommands[1].do = "write" /\ StartWrite(record)
      /\ UNCHANGED <<serviceVars, index, reader>>
      /\ UNCHANGED <<nextSeq, lastSeq, live, retained, logged>>
  BY DEF TakeWrite, serviceVars
<1>3. /\ diskCommands' \in Seq(DiskCommands) /\ QueueOrder' /\ 1 \in Writes
      /\ \A j \in Writes' : j + 1 \in Writes /\ diskCommands'[j] = diskCommands[j + 1] /\ 1 < j + 1
  BY <1>1, <1>2, QueueTaken, TakenOrder DEF Writes
<1>4. record \in FileRecords /\ record.seq \in Nat /\ record.seq <= lastSeq
      /\ record.op \in {AppendOp, Replace}
  BY <1>1, <1>3, WritesAre DEF QueueOrder
<1>5. \A j \in Writes' : Before(record, diskCommands'[j].record)
  BY <1>1, <1>3 DEF QueueOrder
<1>6. ASSUME NEW op \in {AppendOp, Replace}
      PROVE  LET new == [record EXCEPT !.op = op]
             IN  /\ new \in FileRecords /\ new.seq = record.seq /\ new.op = op
                 /\ \A j \in Writes' : Before(new, diskCommands'[j].record)
  <2>1. [record EXCEPT !.op = op] \in FileRecords /\ [record EXCEPT !.op = op].seq = record.seq
        /\ [record EXCEPT !.op = op].op = op
    BY <1>4 DEF FileRecords
  <2> QED  BY <1>5, <2>1 DEF Before
<1> HIDE DEF record
<1>7. CASE UNCHANGED <<file, exists, meta, worker>>
  BY <1>2, <1>7, PassedOver
<1>8. CASE Rotates /\ Rotate(record)
  <2> DEFINE new == [record EXCEPT !.op = AppendOp]
  <2>1. /\ file' = <<>> /\ exists' = TRUE /\ meta' = BeginSegment
        /\ worker' = [pc |-> "chosen", record |-> new]
    BY <1>8 DEF Rotate
  <2>2. /\ new \in FileRecords /\ new.seq = record.seq /\ new.op = AppendOp
        /\ \A j \in Writes' : Before(new, diskCommands'[j].record)
    BY <1>6
  <2> HIDE DEF new
  <2>3. /\ meta' \in Metas /\ meta'.readable = 0 /\ Indexed' /\ Reading'
        /\ \A records : Len(records) = 0 /\ records \in Seq(FileRecords) =>
             meta'.lines = Cardinality(Appends(SubSeq(records, 1, 0)))
    BY <1>1, <1>2, <2>1, NewSegment
  <2>4. file' \in Seq(FileRecords) /\ Len(file') = 0 /\ DOMAIN file' = {}
    BY <2>1, EmptySeq
  <2>5. /\ worker' \in [pc : {"chosen", "written"}, record : FileRecords]
        /\ worker'.pc = "chosen" /\ worker'.record = new
    BY <2>1, <2>2
  <2>6. FileTypeOK'
    BY <1>1, <1>2, <1>3, <2>1, <2>3, <2>4, <2>5 DEF FileTypeOK
  <2>7. Fits(new, file')
    BY <2>2, <2>4 DEF Fits, AppendOp, Replace
  <2>8. InTurn(file')
    BY <2>4 DEF InTurn
  <2>9. FileOrder'
    BY <1>2, <1>4, <2>1, <2>2, <2>4, <2>5, <2>7, <2>8 DEF FileOrder
  <2>10. meta'.first = 0 /\ meta'.last = 0
    BY <2>1 DEF BeginSegment
  <2>11. Summary'
    BY <2>3, <2>4, <2>5, <2>10 DEF Summary
  <2> QED  BY <1>3, <2>3, <2>6, <2>9, <2>11 DEF FileIInv
<1>9. CASE /\ exists' = TRUE /\ file' = IF exists THEN file ELSE <<>>
           /\ worker' = [pc |-> "chosen", record |-> [record EXCEPT !.op = OpOf(record)]]
           /\ UNCHANGED meta
  <2> DEFINE new == [record EXCEPT !.op = OpOf(record)]
  <2>1. OpOf(record) \in {AppendOp, Replace}
    BY <1>4 DEF OpOf
  <2>2. /\ new \in FileRecords /\ new.seq = record.seq
        /\ \A j \in Writes' : Before(new, diskCommands'[j].record)
    BY <1>6, <2>1
  <2>3. Fits(new, file)
    BY <1>1, <1>2, <1>3, OpFits DEF record
  <2> HIDE DEF new
  <2>4. file' = file
    BY <1>1, <1>2, <1>9 DEF FileOrder
  <2>5. /\ worker' \in [pc : {"chosen", "written"}, record : FileRecords]
        /\ worker'.pc = "chosen" /\ worker'.record = new
    BY <1>9, <2>2 DEF new
  <2>6. FileTypeOK'
    BY <1>1, <1>2, <1>3, <1>9, <2>4, <2>5 DEF FileTypeOK
  <2>7. \A n \in DOMAIN file, j \in Writes' : Before(file[n], diskCommands'[j].record)
    BY <1>1, <1>3 DEF FileOrder
  <2>8. FileOrder'
    BY <1>1, <1>2, <1>4, <1>9, <2>2, <2>3, <2>4, <2>5, <2>7 DEF FileOrder
  <2>9. worker.pc = "idle"
    BY <1>2 DEF IdleWorker
  <2>10. Summary' /\ Indexed' /\ Reading'
    BY <1>1, <1>2, <1>9, <2>4, <2>5, <2>9 DEF Summary, Indexed, Reading
  <2> QED  BY <1>3, <2>6, <2>8, <2>10 DEF FileIInv
<1> QED  BY <1>2, <1>7, <1>8, <1>9 DEF StartWrite

\* What was true of the file's beginning stays true when it grows.
LEMMA FileGrown ==
  ASSUME NEW records \in Seq(FileRecords), InTurn(records), NEW r \in FileRecords,
         Fits(r, records), NEW k \in 0 .. Len(records)
  PROVE  SubSeq(Append(records, r), 1, k) = SubSeq(records, 1, k)
<1> DEFINE all == Append(records, r)
           N == Len(records)
<1>1. /\ all \in Seq(FileRecords) /\ Len(all) = N + 1 /\ InTurn(all) /\ N \in Nat
      /\ \A n \in 1 .. N : all[n] = records[n]
  BY InTurnAppended, LenProperties
<1> HIDE DEF all, N
<1>2. k \in 0 .. N /\ k \in 0 .. Len(all)
  BY <1>1 DEF N
<1>3. /\ SubSeq(all, 1, k) \in Seq(FileRecords) /\ Len(SubSeq(all, 1, k)) = k
      /\ \A n \in 1 .. k : SubSeq(all, 1, k)[n] = all[n]
  BY <1>1, <1>2, PrefixIs
<1>4. /\ SubSeq(records, 1, k) \in Seq(FileRecords) /\ Len(SubSeq(records, 1, k)) = k
      /\ \A n \in 1 .. k : SubSeq(records, 1, k)[n] = records[n]
  BY PrefixIs
<1>5. \A n \in 1 .. k : n \in 1 .. N
  BY <1>1, <1>2
<1>6. \A n \in 1 .. k : SubSeq(all, 1, k)[n] = SubSeq(records, 1, k)[n]
  BY <1>1, <1>3, <1>4, <1>5
<1> DEFINE s == SubSeq(all, 1, k)
           t == SubSeq(records, 1, k)
<1>7. s = t
  <2>1. s \in Seq(FileRecords) /\ t \in Seq(FileRecords) /\ Len(s) = Len(t)
        /\ \A n \in 1 .. Len(s) : s[n] = t[n]
    BY <1>3, <1>4, <1>6
  <2> HIDE DEF s, t
  <2> QED  BY <2>1, SeqEqual
<1> QED  BY <1>7 DEF all

\* A record that is written is not published yet; one that could not be written
\* leaves the file as it was.
LEMMA WriteRecordKeeps == ASSUME FileIInv, WriteRecord PROVE FileIInv'
<1> DEFINE r == worker.record
           N == Len(file)
<1>1. /\ FileTypeOK /\ QueueOrder /\ FileOrder /\ Summary /\ Indexed /\ Reading
  BY DEF FileIInv
<1>2. /\ worker.pc = "chosen"
      /\ UNCHANGED <<nextSeq, lastSeq, live, retained, logged, diskCommands, exists, meta,
                     index, reader>>
      /\ \/ file' = Append(file, r) /\ worker' = [worker EXCEPT !.pc = "written"]
         \/ UNCHANGED file /\ worker' = IdleWorker
  BY DEF WriteRecord, serviceVars
<1>3. /\ worker # IdleWorker /\ r \in FileRecords /\ worker = [pc |-> worker.pc, record |-> r]
  BY <1>1, <1>2, FileIs
<1>4. file \in Seq(FileRecords) /\ N \in Nat /\ DOMAIN file = 1 .. N
  BY <1>1, FileIs DEF FileTypeOK
<1>5. /\ InTurn(file) /\ Fits(r, file) /\ exists /\ r.seq <= lastSeq
      /\ \A n \in DOMAIN file : file[n].seq <= lastSeq
      /\ \A n \in DOMAIN file, i \in Writes : Before(file[n], diskCommands[i].record)
      /\ \A i \in Writes : Before(r, diskCommands[i].record)
  BY <1>1, <1>2, <1>3 DEF FileOrder
<1>6. Writes' = Writes /\ QueueOrder'
  BY <1>1, <1>2 DEF Writes, QueueOrder
<1>7. meta.readable = N
  BY <1>1, <1>2 DEF Summary
<1>8. CASE UNCHANGED file /\ worker' = IdleWorker
  <2>1. worker'.pc = "idle"
    BY <1>8 DEF IdleWorker
  <2>2. FileTypeOK'
    BY <1>1, <1>2, <1>8 DEF FileTypeOK
  <2>3. FileOrder'
    BY <1>2, <1>5, <1>6, <1>8, <2>1 DEF FileOrder
  <2>4. Summary'
    BY <1>1, <1>2, <1>7, <1>8, <2>1 DEF Summary
  <2>5. Indexed' /\ Reading'
    BY <1>1, <1>2, <1>8 DEF Indexed, Reading
  <2> QED  BY <1>6, <2>2, <2>3, <2>4, <2>5 DEF FileIInv
<1>9. CASE file' = Append(file, r) /\ worker' = [worker EXCEPT !.pc = "written"]
  <2>1. /\ worker' \in [pc : {"chosen", "written"}, record : FileRecords]
        /\ worker'.pc = "written" /\ worker'.record = r /\ worker' # IdleWorker
    BY <1>3, <1>9 DEF IdleWorker
  <2>2. /\ file' \in Seq(FileRecords) /\ Len(file') = N + 1 /\ DOMAIN file' = 1 .. N + 1
        /\ \A n \in 1 .. N : file'[n] = file[n]
        /\ file'[N + 1] = r /\ InTurn(file')
    BY <1>3, <1>4, <1>5, <1>9, InTurnAppended
  <2>3. ASSUME NEW k \in 0 .. N  PROVE SubSeq(file', 1, k) = SubSeq(file, 1, k)
    BY <1>3, <1>4, <1>5, <1>9, FileGrown
  <2> HIDE DEF r, N
  <2>4. FileTypeOK'
    BY <1>1, <1>2, <2>1, <2>2 DEF FileTypeOK
  <2>5. \A n \in 1 .. N + 1 : n \in 1 .. N \/ n = N + 1
    BY <1>4
  <2>6. FileOrder'
    <3>1. /\ \A n \in DOMAIN file' : file'[n].seq <= lastSeq
          /\ \A n \in DOMAIN file', i \in Writes' : Before(file'[n], diskCommands'[i].record)
      BY <1>2, <1>4, <1>5, <1>6, <2>2, <2>5
    <3>2. file' # <<>> /\ worker'.record = file'[Len(file')]
      <4>1. Len(file') # 0
        BY <1>4, <2>2
      <4> QED  BY <2>1, <2>2, <4>1, EmptySeq
    <3> QED  BY <1>2, <1>5, <1>6, <2>1, <2>2, <3>1, <3>2 DEF FileOrder
  <2>7. Summary'
    <3>1. N \in 0 .. N /\ (N # 0 => 1 \in 1 .. N /\ N \in 1 .. N) /\ (N + 1) - 1 = N
      BY <1>4
    <3> QED  BY <1>1, <1>2, <1>7, <2>1, <2>2, <2>3, <3>1 DEF Summary
  <2>8. Indexed'
    <3>1. ASSUME index.epoch = meta.epoch  PROVE Knows(index, file')
      <4>1. Knows(index, file) /\ index.scanned <= N /\ index \in Indexes /\ index.scanned \in Nat
        BY <1>1, <1>7, <3>1 DEF Indexed, FileTypeOK, Indexes
      <4>2. index.scanned <= N + 1 /\ \A n \in 1 .. index.scanned : n \in 1 .. N
        BY <1>4, <4>1
      <4> QED  BY <2>2, <4>1, <4>2, KnowsSame
    <3> QED  BY <1>1, <1>2, <3>1 DEF Indexed
  <2>9. Reading'
    <3>1. (reader.pc = "opened" /\ reader.epoch = meta.epoch) =>
             /\ reader.readable <= meta.readable
             /\ reader.segment = SubSeq(file', 1, reader.readable)
      <4> SUFFICES ASSUME reader.pc = "opened", reader.epoch = meta.epoch
                   PROVE  /\ reader.readable <= meta.readable
                          /\ reader.segment = SubSeq(file', 1, reader.readable)
        OBVIOUS
      <4>1. /\ reader.readable \in Nat /\ reader.readable <= meta.readable
            /\ reader.segment = SubSeq(file, 1, reader.readable)
        BY <1>1 DEF Reading
      <4>2. reader.readable \in 0 .. N
        BY <1>4, <1>7, <4>1
      <4> QED  BY <2>3, <4>1, <4>2
    <3> QED  BY <1>1, <1>2, <3>1 DEF Reading
  <2> QED  BY <1>6, <2>4, <2>6, <2>7, <2>8, <2>9 DEF FileIInv
<1> QED  BY <1>2, <1>8, <1>9

\* One more record of the file is published.
LEMMA PublishKeeps == ASSUME FileIInv, Publish PROVE FileIInv'
<1> DEFINE r == worker.record
           N == Len(file)
<1>1. /\ FileTypeOK /\ QueueOrder /\ FileOrder /\ Summary /\ Indexed /\ Reading
  BY DEF FileIInv
<1>2. /\ worker.pc = "written" /\ worker' = IdleWorker /\ worker'.pc = "idle"
      /\ meta' = Observe(meta, r.op, r.seq)
      /\ UNCHANGED <<nextSeq, lastSeq, live, retained, logged, diskCommands, file, exists,
                     index, reader>>
  BY DEF Publish, serviceVars, IdleWorker
<1>3. file \in Seq(FileRecords) /\ N \in Nat /\ DOMAIN file = 1 .. N
  BY <1>1, FileIs DEF FileTypeOK
<1>4. file # <<>> /\ r = file[N] /\ InTurn(file) /\ worker # IdleWorker /\ exists
  BY <1>1, <1>2, FileIs DEF FileOrder
<1>5. N # 0 /\ N \in 1 .. N /\ 1 \in 1 .. N
  <2>1. N # 0
    BY <1>3, <1>4, EmptySeq
  <2> QED  BY <1>3, <2>1
<1>6. r \in FileRecords /\ r.seq \in Nat \ {0} /\ r.op \in {AppendOp, Replace}
  BY <1>1, <1>2, <1>4, FileIs
<1>7. /\ meta \in Metas /\ meta.readable = N - 1
      /\ meta.lines = Cardinality(Appends(SubSeq(file, 1, meta.readable)))
      /\ meta.first = (IF meta.readable = 0 THEN 0 ELSE file[1].seq)
  BY <1>1, <1>2 DEF Summary, FileTypeOK
<1>8. /\ meta' \in Metas /\ meta'.epoch = meta.epoch /\ meta'.readable = N /\ meta'.last = r.seq
      /\ meta'.lines = (IF r.op = AppendOp THEN meta.lines + 1 ELSE meta.lines)
      /\ meta'.first = (IF r.op = AppendOp /\ meta.first = 0 THEN r.seq ELSE meta.first)
  <2>1. meta' = Observe(meta, r.op, r.seq) /\ meta \in Metas /\ Len(file) = N
        /\ r.op \in {AppendOp, Replace} /\ r.seq \in Nat /\ N \in Nat
    BY <1>2, <1>3, <1>6, <1>7
  <2> DEFINE lines == IF r.op = AppendOp THEN meta.lines + 1 ELSE meta.lines
             first == IF r.op = AppendOp /\ meta.first = 0 THEN r.seq ELSE meta.first
  <2>2. lines \in Nat /\ first \in Nat
    BY <2>1 DEF Metas
  <2> HIDE DEF r, N
  <2>3. meta' = [epoch |-> meta.epoch, readable |-> N, lines |-> lines, first |-> first,
                 last |-> r.seq]
    BY <2>1 DEF Metas, Observe
  <2> HIDE DEF lines, first
  <2>4. meta' \in Metas
    BY <2>1, <2>2, <2>3 DEF Metas
  <2> QED  BY <2>3, <2>4 DEF lines, first
<1> HIDE DEF r, N
<1>9. Writes' = Writes /\ QueueOrder'
  BY <1>1, <1>2 DEF Writes, QueueOrder
<1>10. FileTypeOK'
  BY <1>1, <1>2, <1>8 DEF FileTypeOK
<1>11. FileOrder'
  BY <1>1, <1>2, <1>4, <1>9 DEF FileOrder
<1>12. Summary'
  <2>1. N - 1 \in 0 .. N /\ N \in 0 .. N /\ N \in Nat /\ N - 1 \in Nat
    BY <1>3, <1>5
  <2>2. Appends(SubSeq(file, 1, N - 1)) = {n \in 1 .. N - 1 : file[n].op = AppendOp}
    BY <1>3, <1>4, <2>1, PrefixIs DEF N
  <2>3. Appends(SubSeq(file, 1, N)) = {n \in 1 .. N : file[n].op = AppendOp}
    BY <1>3, <1>4, <2>1, PrefixIs DEF N
  <2> DEFINE before == {n \in 1 .. N - 1 : file[n].op = AppendOp}
             after == {n \in 1 .. N : file[n].op = AppendOp}
  <2>4. \A n : n \in 1 .. N <=> (n \in 1 .. N - 1 \/ n = N)
    BY <1>5, <2>1
  <2>5. IsFiniteSet(before) /\ N \notin before
    <3>1. IsFiniteSet(1 .. N - 1)
      BY <2>1, FS_Interval
    <3>2. before \subseteq 1 .. N - 1
      OBVIOUS
    <3>3. N \notin 1 .. N - 1
      BY <2>1
    <3> QED  BY <3>1, <3>2, <3>3, FS_Subset
  <2>6. meta'.lines = Cardinality(after)
    <3>1. CASE r.op = AppendOp
      <4>1. after = before \cup {N}
        BY <1>4, <1>5, <2>4, <3>1
      <4> HIDE DEF before, after
      <4>2. Cardinality(before \cup {N}) = Cardinality(before) + 1
        BY <2>5, FS_AddElement
      <4> QED  BY <1>7, <1>8, <2>2, <3>1, <4>1, <4>2 DEF before
    <3>2. CASE r.op # AppendOp
      <4>1. after = before
        BY <1>4, <1>5, <2>4, <3>2
      <4> QED  BY <1>7, <1>8, <2>2, <3>2, <4>1
    <3> QED  BY <3>1, <3>2
  <2> HIDE DEF before, after
  <2>7. meta'.first = file[1].seq
    <3>1. CASE N = 1
      <4>1. file[1].op = AppendOp
        <5>1. ~(\E m \in 1 .. 1 - 1 : TRUE)
          OBVIOUS
        <5> QED  BY <1>3, <1>4, <1>5, <5>1, TurnIs DEF N
      <4>2. meta.first = 0 /\ r.op = AppendOp
        BY <1>4, <1>7, <3>1, <4>1
      <4> QED  BY <1>4, <1>8, <3>1, <4>2
    <3>2. CASE N # 1
      <4>1. meta.readable # 0
        BY <1>5, <1>7, <3>2, <2>1
      <4>2. meta.first = file[1].seq /\ file[1].seq # 0
        BY <1>3, <1>5, <1>7, <1>1, <4>1, FileIs
      <4> QED  BY <1>8, <4>2
    <3> QED  BY <3>1, <3>2
  <2> QED  BY <1>2, <1>4, <1>5, <1>8, <2>3, <2>6, <2>7 DEF Summary, after, N
<1>13. Indexed'
  <2>1. index.epoch = meta.epoch => index.scanned \in Nat /\ index.scanned <= N - 1
    BY <1>1, <1>7 DEF Indexed, FileTypeOK, Indexes
  <2>2. index.epoch = meta.epoch => index.scanned <= N
    BY <1>3, <2>1
  <2> QED  BY <1>1, <1>2, <1>8, <2>2 DEF Indexed
<1>14. Reading'
  <2>1. (reader.pc = "opened" /\ reader.epoch = meta.epoch) =>
          reader.readable \in Nat /\ reader.readable <= N - 1
    BY <1>1, <1>7 DEF Reading
  <2>2. (reader.pc = "opened" /\ reader.epoch = meta.epoch) => reader.readable <= N
    BY <1>3, <2>1
  <2> QED  BY <1>1, <1>2, <1>8, <2>2 DEF Reading
<1> QED  BY <1>9, <1>10, <1>11, <1>12, <1>13, <1>14 DEF FileIInv


-----------------------------------------------------------------------------
(* The steps of the reader.                                                  *)

\* What the reader's steps leave alone.
LEMMA OthersSame ==
  ASSUME FileIInv, UNCHANGED <<serviceVars, diskCommands, diskVars>>,
         index' \in Indexes, Indexed', Reading'
  PROVE  FileIInv'
<1>1. /\ FileTypeOK /\ QueueOrder /\ FileOrder /\ Summary
      /\ UNCHANGED <<nextSeq, lastSeq, live, retained, logged, diskCommands, worker, file,
                     exists, meta>>
  BY DEF FileIInv, serviceVars, diskVars
<1>2. Writes' = Writes
  BY <1>1 DEF Writes
<1>3. FileTypeOK'
  BY <1>1 DEF FileTypeOK
<1>4. QueueOrder'
  BY <1>1, <1>2 DEF QueueOrder
<1>5. FileOrder'
  BY <1>1, <1>2 DEF FileOrder
<1>6. Summary'
  BY <1>1 DEF Summary
<1> QED  BY <1>3, <1>4, <1>5, <1>6 DEF FileIInv

\* A reader that keeps the index.
LEMMA IndexSame ==
  ASSUME FileIInv, UNCHANGED <<serviceVars, diskCommands, diskVars, index>>, Reading'
  PROVE  FileIInv'
<1>1. FileTypeOK /\ Indexed /\ UNCHANGED <<file, meta, index>>
  BY DEF FileIInv, diskVars
<1>2. Indexed' /\ index' \in Indexes
  BY <1>1 DEF Indexed, FileTypeOK
<1> QED  BY <1>2, OthersSame

LEMMA AskKeeps ==
  ASSUME RunFilesAssumption, FileIInv, NEW q \in Queries, Ask(q)
  PROVE  FileIInv'
<1>1. reader'.pc = "asked" /\ reader'.query = q /\ reader'.attempt = 1
  BY DEF Ask
<1>2. Reading'
  BY <1>1 DEF Reading
<1> QED  BY <1>2, IndexSame DEF Ask

\* What the metadata says is readable is the beginning of the file.
LEMMA PublishedIs ==
  ASSUME FileTypeOK, FileOrder, Summary
  PROVE  /\ file \in Seq(FileRecords) /\ InTurn(file) /\ meta.readable \in 0 .. Len(file)
         /\ meta.epoch \in Nat
<1>1. Len(file) \in Nat /\ file \in Seq(FileRecords) /\ InTurn(file) /\ meta \in Metas
  BY FileIs DEF FileTypeOK, FileOrder
<1>2. worker.pc = "written" => Len(file) # 0
  BY <1>1, EmptySeq DEF FileOrder
<1>3. meta.readable \in 0 .. Len(file)
  BY <1>1, <1>2 DEF Summary
<1> QED  BY <1>1, <1>3 DEF Metas

LEMMA LookAtMetadataKeeps == ASSUME FileIInv, LookAtMetadata PROVE FileIInv'
<1>1. /\ FileTypeOK /\ QueueOrder /\ FileOrder /\ Summary /\ Indexed /\ Reading
  BY DEF FileIInv
<1>2. /\ file \in Seq(FileRecords) /\ InTurn(file) /\ meta.readable \in 0 .. Len(file)
      /\ meta.epoch \in Nat
  BY <1>1, PublishedIs
<1>3. SubSeq(file, 1, meta.readable) \in Seq(FileRecords) /\ InTurn(SubSeq(file, 1, meta.readable))
  BY <1>2, PrefixIs
<1>4. /\ reader.pc = "asked" /\ reader'.pc = "opened" /\ reader'.query = reader.query
      /\ reader'.attempt = reader.attempt /\ reader'.epoch = meta.epoch
      /\ reader'.readable = meta.readable
      /\ reader'.segment = SubSeq(file, 1, meta.readable)
      /\ UNCHANGED <<meta, file>>
  BY DEF LookAtMetadata, diskVars
<1>5. meta.readable \in Nat /\ meta.readable <= meta.readable /\ meta.epoch <= meta.epoch
  BY <1>2
<1>6. reader.query \in Queries /\ reader.attempt \in Nat
  BY <1>1, <1>4 DEF Reading
<1>7. Reading'
  BY <1>2, <1>3, <1>4, <1>5, <1>6 DEF Reading
<1> QED  BY <1>7, IndexSame DEF LookAtMetadata

\* Nothing is known of a reader that is idle again.
LEMMA IdleKeeps ==
  ASSUME FileIInv, UNCHANGED <<serviceVars, diskCommands, diskVars, index>>,
         reader' = IdleReader
  PROVE  FileIInv'
<1>1. reader'.pc = "idle"
  BY DEF IdleReader
<1>2. Reading'
  BY <1>1 DEF Reading
<1> QED  BY <1>2, IndexSame

LEMMA ResetForIs ==
  ASSUME NEW i \in Indexes, Increasing(i.offsets), NEW epoch \in Nat
  PROVE  LET o == ResetForSegment(i, epoch)
         IN  /\ o \in Indexes /\ o.epoch = epoch /\ Increasing(o.offsets)
             /\ i.epoch = epoch => o = i
             /\ i.epoch # epoch => o.scanned = 0 /\ \A n : n \notin DOMAIN o.offsets
<1>1. CASE i.epoch = epoch
  BY <1>1 DEF ResetForSegment
<1>2. CASE i.epoch # epoch
  <2>1. <<>> \in Seq(Offsets) /\ DOMAIN <<>> = {}
    BY EmptySeq
  <2>2. ResetForSegment(i, epoch) = [epoch |-> epoch, scanned |-> 0, last |-> 0, offsets |-> <<>>]
    BY <1>2 DEF ResetForSegment, FreshIndex
  <2>3. ResetForSegment(i, epoch) \in Indexes
    BY <2>1, <2>2 DEF Indexes
  <2>4. Increasing(ResetForSegment(i, epoch).offsets)
    BY <2>1, <2>2 DEF Increasing
  <2> QED  BY <1>2, <2>1, <2>2, <2>3, <2>4
<1> QED  BY <1>1, <1>2

\* A fresh index is right about every file.
LEMMA FreshKnows ==
  ASSUME NEW i, i.scanned = 0, \A n : n \notin DOMAIN i.offsets,
         NEW records, Len(records) \in Nat
  PROVE  Knows(i, records)
<1>1. 0 <= Len(records) /\ \A n \in 1 .. 0 : FALSE
  OBVIOUS
<1> QED  BY <1>1 DEF Knows


\* What is read of the segment that is still the file's is what was published, and
\* the index is right about it; of an older segment nothing is claimed.
LEMMA ReadFileKeeps == ASSUME RunFilesAssumption, FileIInv, ReadFile PROVE FileIInv'
<1> DEFINE k == Lesser(reader.readable, Len(file))
           readable == SubSeq(file, 1, k)
           i == ResetForSegment(index, reader.epoch)
           q == reader.query
           read == ReadSegment(readable, i, q)
<1>1. /\ FileTypeOK /\ QueueOrder /\ FileOrder /\ Summary /\ Indexed /\ Reading
  BY DEF FileIInv
<1>2. /\ reader.pc = "opened" /\ index' = read.index
      /\ reader' = [pc |-> "read", query |-> q, epoch |-> reader.epoch,
                    attempt |-> reader.attempt, segment |-> reader.segment,
                    page |-> read.lines]
      /\ UNCHANGED <<serviceVars, diskCommands, diskVars>> /\ UNCHANGED <<file, meta>>
  BY DEF ReadFile, diskVars
<1>3. /\ file \in Seq(FileRecords) /\ InTurn(file) /\ meta.readable \in 0 .. Len(file)
      /\ meta.epoch \in Nat /\ Len(file) \in Nat
  BY <1>1, PublishedIs, LenProperties
<1>4. /\ q \in Queries /\ reader.epoch \in Nat /\ reader.epoch <= meta.epoch
      /\ reader.readable \in Nat /\ reader.attempt \in Nat
      /\ reader.segment \in Seq(FileRecords) /\ InTurn(reader.segment)
      /\ reader.epoch = meta.epoch =>
           /\ reader.readable <= meta.readable
           /\ reader.segment = SubSeq(file, 1, reader.readable)
  BY <1>1, <1>2 DEF Reading
<1>5. k \in 0 .. Len(file) /\ k <= reader.readable /\ (reader.readable <= Len(file) => k = reader.readable)
  BY <1>3, <1>4 DEF Lesser
<1> HIDE DEF k
<1>6. /\ readable \in Seq(FileRecords) /\ Len(readable) = k /\ InTurn(readable)
      /\ \A n \in 1 .. k : readable[n] = file[n]
  BY <1>3, <1>5, PrefixIs
<1> HIDE DEF readable
<1>7. /\ index \in Indexes /\ Increasing(index.offsets)
      /\ index.epoch = meta.epoch => Knows(index, file)
  BY <1>1 DEF FileTypeOK, Indexed
<1>8. /\ i \in Indexes /\ i.epoch = reader.epoch /\ Increasing(i.offsets)
      /\ index.epoch = reader.epoch => i = index
      /\ index.epoch # reader.epoch => i.scanned = 0 /\ \A n : n \notin DOMAIN i.offsets
  BY <1>4, <1>7, ResetForIs
<1> HIDE DEF i
<1>9. read \in Scans(i.epoch)
  BY <1>4, <1>6, <1>8, SegmentType
<1>10. ASSUME reader.epoch = meta.epoch
       PROVE  /\ PageOf(read.lines, reader.segment, q)
              /\ Knows(read.index, file) /\ read.index.scanned <= meta.readable
  <2>1. k = reader.readable /\ k <= meta.readable /\ k \in Nat
    BY <1>3, <1>4, <1>5, <1>10
  <2>2. reader.segment = readable
    BY <1>4, <1>10, <2>1 DEF readable
  <2>3. i.scanned <= Len(readable) => Knows(i, readable)
    <3>1. CASE index.epoch = reader.epoch
      <4>1. i = index /\ Knows(index, file)
        BY <1>7, <1>8, <1>10, <3>1
      <4> SUFFICES ASSUME i.scanned <= Len(readable)  PROVE Knows(i, readable)
        OBVIOUS
      <4>2. i.scanned \in Nat /\ i.scanned <= k /\ \A n \in 1 .. i.scanned : n \in 1 .. k
        BY <1>6, <1>8, <2>1 DEF Indexes
      <4> QED  BY <1>6, <1>8, <4>1, <4>2, KnowsSame
    <3>2. CASE index.epoch # reader.epoch
      BY <1>6, <1>8, <2>1, <3>2, FreshKnows
    <3> QED  BY <3>1, <3>2
  <2>4. PageOf(read.lines, readable, q) /\ Knows(read.index, readable)
    BY <1>4, <1>6, <1>8, <2>3, SegmentRead
  <2>5. read.index \in Indexes
    BY <1>9 DEF Scans
  <2> HIDE DEF read
  <2>6. read.index.scanned \in Nat /\ read.index.scanned <= k
    BY <1>6, <2>4, <2>5 DEF Knows, Indexes
  <2>7. /\ read.index.scanned <= Len(file) /\ read.index.scanned <= meta.readable
        /\ \A n \in 1 .. read.index.scanned : n \in 1 .. k
    BY <1>3, <2>1, <2>6
  <2>8. \A n \in 1 .. read.index.scanned : file[n] = readable[n]
    BY <1>6, <2>7
  <2>9. Knows(read.index, file)
    BY <2>4, <2>5, <2>7, <2>8, KnowsSame
  <2> QED  BY <2>2, <2>4, <2>7, <2>9
<1>11. read.index \in Indexes /\ read.index.epoch = reader.epoch /\ Increasing(read.index.offsets)
  BY <1>8, <1>9 DEF Scans
<1> HIDE DEF read
<1>12. Indexed'
  BY <1>2, <1>4, <1>10, <1>11 DEF Indexed
<1>13. /\ reader'.pc = "read" /\ reader'.query = q /\ reader'.epoch = reader.epoch
       /\ reader'.attempt = reader.attempt /\ reader'.segment = reader.segment
       /\ reader'.page = read.lines
  BY <1>2
<1>14. Reading'
  BY <1>2, <1>4, <1>10, <1>13 DEF Reading
<1> QED  BY <1>2, <1>11, <1>12, <1>14, OthersSame

LEMMA AcceptKeeps == ASSUME FileIInv, Accept PROVE FileIInv'
<1>1. Reading
  BY DEF FileIInv
<1>2. /\ reader.pc = "read" /\ reader.epoch = meta.epoch
      /\ reader'.pc = "page" /\ reader'.query = reader.query
      /\ reader'.segment = reader.segment /\ reader'.page = reader.page
  BY DEF Accept, SameSegment
<1>3. Reading'
  BY <1>1, <1>2 DEF Reading
<1> QED  BY <1>3, IndexSame DEF Accept

\* The index that a reader leaves behind is one of the new segment.
LEMMA RejectKeeps == ASSUME RunFilesAssumption, FileIInv, Reject PROVE FileIInv'
<1> DEFINE i == ResetForSegment(index, meta.epoch)
<1>1. /\ FileTypeOK /\ QueueOrder /\ FileOrder /\ Summary /\ Indexed /\ Reading
  BY DEF FileIInv
<1>2. /\ reader.pc = "read" /\ index' = i
      /\ \/ reader' = IdleReader
         \/ reader' = [pc |-> "asked", query |-> reader.query, attempt |-> reader.attempt + 1]
      /\ UNCHANGED <<serviceVars, diskCommands, diskVars>> /\ UNCHANGED <<file, meta>>
  BY DEF Reject, diskVars
<1>3. meta.epoch \in Nat /\ meta.readable \in 0 .. Len(file) /\ Len(file) \in Nat
  BY <1>1, PublishedIs, LenProperties
<1>4. /\ index \in Indexes /\ Increasing(index.offsets)
      /\ index.epoch = meta.epoch => index.scanned <= meta.readable /\ Knows(index, file)
  BY <1>1 DEF FileTypeOK, Indexed
<1>5. /\ i \in Indexes /\ i.epoch = meta.epoch /\ Increasing(i.offsets)
      /\ index.epoch = meta.epoch => i = index
      /\ index.epoch # meta.epoch => i.scanned = 0 /\ \A n : n \notin DOMAIN i.offsets
  BY <1>3, <1>4, ResetForIs
<1> HIDE DEF i
<1>6. i.scanned <= meta.readable /\ Knows(i, file)
  <2>1. CASE index.epoch = meta.epoch
    BY <1>4, <1>5, <2>1
  <2>2. CASE index.epoch # meta.epoch
    <3>1. i.scanned = 0 /\ i.scanned <= meta.readable
      BY <1>3, <1>5, <2>2
    <3> QED  BY <1>3, <1>5, <2>2, <3>1, FreshKnows
  <2> QED  BY <2>1, <2>2
<1>7. meta.epoch <= meta.epoch
  BY <1>3
<1>8. Indexed'
  BY <1>2, <1>5, <1>6, <1>7 DEF Indexed
<1>9. reader.query \in Queries /\ reader.attempt + 1 \in Nat
  BY <1>1, <1>2 DEF Reading
<1>10. Reading'
  <2>1. CASE reader' = IdleReader
    BY <2>1 DEF Reading, IdleReader
  <2>2. CASE reader' = [pc |-> "asked", query |-> reader.query, attempt |-> reader.attempt + 1]
    <3>1. /\ reader'.pc = "asked" /\ reader'.query = reader.query
          /\ reader'.attempt = reader.attempt + 1
      BY <2>2
    <3> QED  BY <1>9, <3>1 DEF Reading
  <2> QED  BY <1>2, <2>1, <2>2
<1> QED  BY <1>2, <1>5, <1>8, <1>10, OthersSame

-----------------------------------------------------------------------------
(* The specification.                                                        *)

LEMMA FileSame == ASSUME FileIInv, UNCHANGED fileVars PROVE FileIInv'
<1>1. /\ UNCHANGED <<serviceVars, diskCommands, diskVars, index>> /\ UNCHANGED <<reader, meta, file>>
      /\ Reading
  BY DEF fileVars, serviceVars, diskVars, FileIInv
<1>2. Reading'
  BY <1>1 DEF Reading
<1> QED  BY <1>1, <1>2, IndexSame

LEMMA FileNextKeeps ==
  ASSUME RunFilesAssumption, FileIInv, [FileNext]_fileVars
  PROVE  FileIInv'
<1>1. CASE Service
  <2>1. ASSUME NEW screen \in LiveScreens \cup {0}, NEW others \in Gaps,
               LogLine(screen, others)
        PROVE  FileIInv'
    BY <2>1, LogLineKeeps
  <2> QED  BY <1>1, <2>1, EvictKeeps, ClearVisibleKeeps DEF Service
<1>2. CASE Worker
  <2>1. CASE Begin
    BY <2>1, BeginKeeps
  <2>2. CASE RemoveFile
    BY <2>2, RemoveFileKeeps
  <2>3. CASE TakeWrite
    BY <2>3, TakeWriteKeeps
  <2>4. CASE WriteRecord
    BY <2>4, WriteRecordKeeps
  <2>5. CASE Publish
    BY <2>5, PublishKeeps
  <2> QED  BY <1>2, <2>1, <2>2, <2>3, <2>4, <2>5 DEF Worker
<1>3. CASE Reader
  <2>1. CASE LookAtMetadata
    BY <2>1, LookAtMetadataKeeps
  <2>2. CASE NoFile
    BY <2>2, IdleKeeps DEF NoFile
  <2>3. CASE ReadFile
    BY <2>3, ReadFileKeeps
  <2>4. CASE Accept
    BY <2>4, AcceptKeeps
  <2>5. CASE Reject
    BY <2>5, RejectKeeps
  <2>6. CASE Return
    BY <2>6, IdleKeeps DEF Return
  <2>7. ASSUME NEW q \in Queries, Ask(q)  PROVE FileIInv'
    BY <2>7, AskKeeps
  <2> QED  BY <1>3, <2>1, <2>2, <2>3, <2>4, <2>5, <2>6, <2>7 DEF Reader
<1>4. CASE UNCHANGED fileVars
  BY <1>4, FileSame
<1> QED  BY <1>1, <1>2, <1>3, <1>4 DEF FileNext

\* FileIInv is an invariant of the file and its readers: the queue and the file
\* keep the order of the lines, the published summary describes the file, and
\* the index a reader leaves behind is right about the segment that it names.
THEOREM FileInvariance ==
  ASSUME RunFilesAssumption
  PROVE  FileSpec => []FileIInv
<1>1. FileInit => FileIInv
  BY FileInitInv
<1>2. FileIInv /\ [FileNext]_fileVars => FileIInv'
  BY FileNextKeeps
<1> QED  BY <1>1, <1>2, PTL DEF FileSpec

\* The published summary of a file in order: its first and its last line.
LEMMA SummaryIs ==
  ASSUME FileTypeOK, FileOrder, Summary
  PROVE  LET published == SubSeq(file, 1, meta.readable)
             seqs == Seqs(published)
         IN  /\ meta.lines = Cardinality(Appends(published))
             /\ IF seqs = {} THEN meta.first = 0 /\ meta.last = 0
                ELSE {meta.first, meta.last} \subseteq seqs
                       /\ \A s \in seqs : meta.first <= s /\ s <= meta.last
             /\ \A m, n \in Appends(published) : m < n => published[m].seq < published[n].seq
<1> DEFINE k == meta.readable
           published == SubSeq(file, 1, k)
           seqs == Seqs(published)
<1>1. /\ meta.lines = Cardinality(Appends(published))
      /\ meta.first = IF k = 0 THEN 0 ELSE file[1].seq
      /\ meta.last = IF k = 0 THEN 0 ELSE file[k].seq
  BY DEF Summary
<1>2. /\ published \in Seq(FileRecords) /\ Len(published) = k /\ InTurn(published)
      /\ k \in Nat
      /\ Appends(published) = {n \in 1 .. k : file[n].op = AppendOp}
      /\ \A n \in 1 .. k : published[n] = file[n]
  <2>1. file \in Seq(FileRecords) /\ InTurn(file) /\ meta.readable \in 0 .. Len(file)
    BY PublishedIs
  <2> QED  BY <2>1, PrefixIs
<1> HIDE DEF k, published
<1>3. /\ \A n \in 1 .. k : /\ published[n].seq \in Nat \ {0}
                           /\ published[n].op \in {AppendOp, Replace}
      /\ \A m, n \in 1 .. k : m <= n => published[m].seq <= published[n].seq
      /\ \A m, n \in 1 .. k :
           (m < n /\ published[n].op = AppendOp) => published[m].seq < published[n].seq
      /\ \A n \in 1 .. k : published[n].op # AppendOp =>
           \E m \in 1 .. n - 1 : published[m].op = AppendOp /\ published[m].seq = published[n].seq
  BY <1>2, TurnIs
<1>4. \A n \in Appends(published) : n \in 1 .. k /\ published[n].op = AppendOp
  BY <1>2
<1>5. \A m, n \in Appends(published) : m < n => published[m].seq < published[n].seq
  BY <1>3, <1>4
<1>6. CASE k = 0
  <2>1. \A n : n \notin Appends(published)
    <3>1. \A n \in 1 .. k : FALSE
      BY <1>6
    <3> QED  BY <1>4, <3>1
  <2>2. seqs = {}
    BY <2>1 DEF Seqs
  <2> QED  BY <1>1, <1>5, <1>6, <2>2 DEF k, published
<1>7. CASE k # 0
  <2>1. 1 \in 1 .. k /\ k \in 1 .. k /\ (\A n \in 1 .. k : 1 <= n /\ n <= k)
        /\ ~(\E m \in 1 .. 1 - 1 : TRUE)
    BY <1>2, <1>7
  <2>2. \A n \in 1 .. k : published[n].seq \in seqs
    <3> SUFFICES ASSUME NEW n \in 1 .. k  PROVE published[n].seq \in seqs
      OBVIOUS
    <3>1. CASE published[n].op = AppendOp
      BY <1>2, <3>1 DEF Seqs
    <3>2. CASE published[n].op # AppendOp
      <4>1. PICK m \in 1 .. n - 1 : published[m].op = AppendOp /\ published[m].seq = published[n].seq
        BY <1>3, <3>2
      <4>2. m \in 1 .. k
        BY <1>2
      <4> QED  BY <1>2, <4>1, <4>2 DEF Seqs
    <3> QED  BY <3>1, <3>2
  <2>3. meta.first = published[1].seq /\ meta.last = published[k].seq
    BY <1>1, <1>2, <1>7, <2>1
  <2>4. \A s \in seqs : \E n \in 1 .. k : published[n].seq = s
    BY <1>4 DEF Seqs
  <2>5. published[1].seq \in seqs /\ published[k].seq \in seqs
    BY <2>1, <2>2
  <2>6. \A s \in seqs : published[1].seq <= s /\ s <= published[k].seq
    BY <1>3, <2>1, <2>4
  <2> HIDE DEF seqs
  <2>7. seqs # {} /\ {meta.first, meta.last} \subseteq seqs
        /\ \A s \in seqs : meta.first <= s /\ s <= meta.last
    BY <2>3, <2>5, <2>6
  <2> QED  BY <1>1, <1>5, <2>7 DEF k, published, seqs
<1> QED  BY <1>6, <1>7

\* The page that a reader returns is that of the segment whose metadata it saw,
\* and what is published describes the file, for every limit and every query.
THEOREM ReadFaithfulHolds ==
  ASSUME RunFilesAssumption
  PROVE  FileSpec => []ReadFaithful
<1>1. ASSUME FileIInv  PROVE ReadFaithful
  <2>1. FileTypeOK /\ FileOrder /\ Summary /\ Reading
    BY <1>1 DEF FileIInv
  <2>2. reader.pc = "page" => PageOf(reader.page, reader.segment, reader.query)
    BY <2>1 DEF Reading
  <2> QED  BY <2>1, <2>2, SummaryIs DEF ReadFaithful, PageOf
<1>2. FileIInv => ReadFaithful
  BY <1>1
<1> QED  BY <1>2, FileInvariance, PTL
=============================================================================
