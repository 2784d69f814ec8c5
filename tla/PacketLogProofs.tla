--------------------------- MODULE PacketLogProofs ---------------------------
(***************************************************************************)
(* Proofs about the packet log, for any number of records, failed writes   *)
(* and crashes of the process that writes it.                              *)
(***************************************************************************)
EXTENDS FeedProofs

\* The (k+1)-th record of the file is bad and stays so: its length or its body
\* is not what it should be, or the write of its body will never come.
Damaged(k) ==
  \/ Len(file) >= 2 * k + 1 /\ ~(file[2 * k + 1].part = "length" /\ file[2 * k + 1].whole)
  \/ /\ Len(file) >= 2 * k + 2
     /\ ~(/\ file[2 * k + 2].part = "body" /\ file[2 * k + 2].whole
          /\ file[2 * k + 2].record = file[2 * k + 1].record)
  \/ Len(file) = 2 * k + 1 /\ handler.at # "body"

\* All that has been appended is in the file, with perhaps the length of the
\* record that the handler is writing.
Clean(k) ==
  /\ k = Len(logged)
  /\ IF handler.at = "body"
     THEN /\ Len(file) = 2 * k + 1
          /\ file[2 * k + 1] = Written("length", RecordOf(file, "body"))
     ELSE Len(file) = 2 * k

\* The file begins with the first k records appended, undamaged.
Begins(k) ==
  /\ 2 * k <= Len(file)
  /\ Undamaged(file, k)
  /\ k <= Len(logged)
  /\ \A i \in 1..k : logged[i] = file[2 * i].record

\* The invariant behind LogReadsBack: the records before the first damage are
\* the first that were appended, and nothing mends the damage.
LogOK == \E k \in Nat : Begins(k) /\ IF torn THEN Damaged(k) ELSE Clean(k)
-----------------------------------------------------------------------------
(* What the reader makes of a file. *)

\* The reader gets as far as the records are undamaged.
LEMMA ReadableIs ==
  ASSUME NEW f \in Seq(Chunk), NEW k \in Nat, 2 * k <= Len(f), Undamaged(f, k),
         2 * k + 2 <= Len(f) => ~Undamaged(f, k + 1)
  PROVE  Readable(f) = k
<1> DEFINE half == Len(f) \div 2
           Ends(j) == j = half \/ ~Undamaged(f, j + 1)
<1>1. half \in Nat /\ 2 * half <= Len(f) /\ Len(f) <= 2 * half + 1 /\ Len(f) \in Nat
  OBVIOUS
<1>2. k \in 0..half /\ Ends(k)
  BY <1>1
<1>3. ASSUME NEW i \in 0..half, NEW j \in 0..half, Undamaged(f, j), Ends(i), i < j PROVE FALSE
  <2>1. Undamaged(f, i + 1)
    <3>1. i \in Nat /\ j \in Nat /\ 1..(i + 1) \subseteq 1..j
      BY <1>1, <1>3
    <3> QED
      BY <1>3, <3>1 DEF Undamaged
  <2>2. i # half
    BY <1>1, <1>3
  <2> QED
    BY <1>3, <2>1, <2>2
<1>4. ASSUME NEW j \in 0..half, Undamaged(f, j), Ends(j) PROVE j = k
  <2>1. ~(j < k) /\ ~(k < j)
    BY <1>2, <1>3, <1>4
  <2> QED
    BY <1>1, <2>1
<1>5. Readable(f) = CHOOSE j \in 0..half : Undamaged(f, j) /\ Ends(j)
  BY DEF Readable
<1> HIDE DEF half, Ends
<1> QED
  BY <1>2, <1>4, <1>5

\* The damage is where the reader stops.
LEMMA DamageStops ==
  ASSUME TypeOK, NEW k \in Nat, Damaged(k), 2 * k + 2 <= Len(file)
  PROVE  ~Undamaged(file, k + 1)
<1>1. k + 1 \in 1..(k + 1) /\ 2 * (k + 1) - 1 = 2 * k + 1 /\ 2 * (k + 1) = 2 * k + 2
  OBVIOUS
<1>2. Len(file) \in Nat
  BY DEF TypeOK
<1>3. Undamaged(file, k + 1) =>
        /\ file[2 * k + 1].part = "length" /\ file[2 * k + 1].whole
        /\ file[2 * k + 2].part = "body" /\ file[2 * k + 2].whole
        /\ file[2 * k + 2].record = file[2 * k + 1].record
  BY <1>1 DEF Undamaged
<1> QED
  BY <1>2, <1>3 DEF Damaged

\* So the invariant says what replay reads.
LEMMA LogOKReads == TypeOK /\ LogOK => LogReadsBack
<1> SUFFICES ASSUME TypeOK, LogOK PROVE LogReadsBack
  OBVIOUS
<1>1. PICK k \in Nat : Begins(k) /\ IF torn THEN Damaged(k) ELSE Clean(k)
  BY DEF LogOK
<1>2. file \in Seq(Chunk) /\ logged \in Seq(Nat) /\ Len(file) \in Nat /\ Len(logged) \in Nat
  BY DEF TypeOK
<1>3. 2 * k + 2 <= Len(file) => ~Undamaged(file, k + 1)
  <2>1. CASE torn
    BY <1>1, <2>1, DamageStops
  <2>2. CASE ~torn
    BY <1>1, <1>2, <2>2 DEF Clean
  <2> QED
    BY <2>1, <2>2
<1>4. Readable(file) = k
  BY <1>1, <1>2, <1>3, ReadableIs DEF Begins
<1>5. Packets(file) = [i \in 1..k |-> file[2 * i].record]
  BY <1>4 DEF Packets
<1>6. \A i \in 1..k : logged[i] = file[2 * i].record /\ logged[i] \in Nat /\ i \in 1..Len(logged)
  <2>1. \A i \in 1..Len(logged) : logged[i] \in Nat
    BY <1>2, ElementOfSeq
  <2> QED
    BY <1>1, <1>2, <2>1 DEF Begins
<1>7. Packets(file) = [i \in 1..k |-> logged[i]]
  BY <1>5, <1>6
<1>8. Packets(file) \in Seq(Nat) /\ Len(Packets(file)) = k
  BY <1>6, <1>7, SeqDef
<1>9. IsPrefix(Packets(file), logged)
  <2>1. k <= Len(logged)
    BY <1>1 DEF Begins
  <2>2. SubSeq(Packets(file), 1, k) = [i \in 1..k |-> logged[i]]
    BY <1>7, <1>8
  <2>3. SubSeq(logged, 1, k) = [i \in 1..k |-> logged[i]]
    BY <1>2, <1>6, <2>1
  <2> QED
    BY <1>8, <2>1, <2>2, <2>3 DEF IsPrefix
<1>10. ASSUME ~torn, handler.at # "body"
       PROVE  Outcome(file) = "ok" /\ Packets(file) = logged
  <2>1. k = Len(logged) /\ Len(file) = 2 * k
    BY <1>1, <1>10 DEF Clean
  <2>2. Packets(file) = logged
    BY <1>2, <1>7, <2>1
  <2>3. Rest(file) = <<>>
    BY <1>2, <1>4, <2>1 DEF Rest
  <2> QED
    BY <2>2, <2>3 DEF Outcome
<1> QED
  BY <1>9, <1>10 DEF LogReadsBack
-----------------------------------------------------------------------------
(* The writes. *)

\* The file is left alone or gets one chunk more, which is a length unless a
\* body is due.
Grows ==
  \/ file' = file /\ (handler'.at = "body" => handler.at = "body")
  \/ \E c \in Chunk : file' = Append(file, c) /\ (handler.at # "body" => c.part = "length")

\* What has been undamaged stays so.
LEMMA BeginningStays ==
  ASSUME TypeOK, NEW k \in Nat, Begins(k), Grows, logged' = logged
  PROVE  Begins(k)'
<1>1. Len(file) \in Nat /\ file \in Seq(Chunk)
  BY DEF TypeOK
<1>2. Len(file') >= Len(file) /\ Len(file') \in Nat /\ \A i \in 1..Len(file) : file'[i] = file[i]
  BY <1>1 DEF Grows
<1>3. \A i \in 1..k : file'[2 * i - 1] = file[2 * i - 1] /\ file'[2 * i] = file[2 * i]
  <2> SUFFICES ASSUME NEW i \in 1..k
               PROVE  2 * i - 1 \in 1..Len(file) /\ 2 * i \in 1..Len(file)
    BY <1>2
  <2>1. 2 * k <= Len(file)
    BY DEF Begins
  <2> QED
    BY <1>1, <2>1
<1>4. Undamaged(file', k)
  BY <1>3 DEF Begins, Undamaged
<1> QED
  BY <1>1, <1>2, <1>3, <1>4 DEF Begins

\* So does what has been damaged.
LEMMA DamageStays ==
  ASSUME TypeOK, NEW k \in Nat, Damaged(k), Grows
  PROVE  Damaged(k)'
<1>1. Len(file) \in Nat /\ file \in Seq(Chunk)
  BY DEF TypeOK
<1>2. CASE file' = file /\ (handler'.at = "body" => handler.at = "body")
  BY <1>2 DEF Damaged
<1>3. CASE \E c \in Chunk : file' = Append(file, c) /\ (handler.at # "body" => c.part = "length")
  <2>1. PICK c \in Chunk : file' = Append(file, c) /\ (handler.at # "body" => c.part = "length")
    BY <1>3
  <2>2. /\ Len(file') = Len(file) + 1 /\ file'[Len(file) + 1] = c
        /\ \A i \in 1..Len(file) : file'[i] = file[i]
    BY <1>1, <2>1
  <2>3. CASE /\ Len(file) >= 2 * k + 1
             /\ ~(file[2 * k + 1].part = "length" /\ file[2 * k + 1].whole)
    <3>1. 2 * k + 1 \in 1..Len(file) /\ Len(file') >= 2 * k + 1
      BY <1>1, <2>2, <2>3
    <3> QED
      BY <2>2, <2>3, <3>1 DEF Damaged
  <2>4. CASE /\ Len(file) >= 2 * k + 2
             /\ ~(/\ file[2 * k + 2].part = "body" /\ file[2 * k + 2].whole
                  /\ file[2 * k + 2].record = file[2 * k + 1].record)
    <3>1. 2 * k + 1 \in 1..Len(file) /\ 2 * k + 2 \in 1..Len(file) /\ Len(file') >= 2 * k + 2
      BY <1>1, <2>2, <2>4
    <3> QED
      BY <2>2, <2>4, <3>1 DEF Damaged
  <2>5. CASE Len(file) = 2 * k + 1 /\ handler.at # "body"
    <3>1. Len(file') = 2 * k + 2 /\ file'[2 * k + 2].part = "length"
      BY <2>1, <2>2, <2>5
    <3> QED
      BY <3>1 DEF Damaged
  <2> QED
    BY <2>3, <2>4, <2>5 DEF Damaged
<1> QED
  BY <1>2, <1>3 DEF Grows

\* A record is numbered by the lengths in front of it, its own included.
LEMMA LengthNumbersBody ==
  ASSUME NEW f \in Seq(Chunk), NEW n \in Nat
  PROVE  RecordOf(Append(f, Written("length", n)), "body") = RecordOf(f, "length")
<1> DEFINE c == Written("length", n)
           g == Append(f, c)
           LengthsOf(h) == {i \in DOMAIN h : h[i].part = "length"}
<1>1. Len(f) \in Nat /\ DOMAIN f = 1..Len(f)
  OBVIOUS
<1>2. DOMAIN g = 1..(Len(f) + 1) /\ g[Len(f) + 1] = c /\ \A i \in 1..Len(f) : g[i] = f[i]
  OBVIOUS
<1>3. c.part = "length"
  BY DEF Written
<1> HIDE DEF c, g
<1>4. LengthsOf(g) = LengthsOf(f) \cup {Len(f) + 1} /\ Len(f) + 1 \notin LengthsOf(f)
  BY <1>1, <1>2, <1>3
<1>5. IsFiniteSet(LengthsOf(f))
  <2>1. IsFiniteSet(1..Len(f)) /\ LengthsOf(f) \subseteq 1..Len(f)
    BY <1>1, FS_Interval
  <2> QED
    BY <2>1, FS_Subset
<1> HIDE DEF LengthsOf
<1>6. Cardinality(LengthsOf(g)) = Cardinality(LengthsOf(f)) + 1
  BY <1>4, <1>5, FS_AddElement
<1>7. Cardinality(LengthsOf(f)) \in Nat
  BY <1>5, FS_CardinalityType
<1>8. /\ RecordOf(g, "body") = Cardinality(LengthsOf(g)) + 0
      /\ RecordOf(f, "length") = Cardinality(LengthsOf(f)) + 1
  BY DEF RecordOf, LengthsOf
<1> QED
  BY <1>6, <1>7, <1>8 DEF c, g

\* Every other step leaves the file alone.
LEMMA QuietLog ==
  ASSUME TypeOK, LogOK, UNCHANGED logVars, handler'.at = "body" <=> handler.at = "body"
  PROVE  LogOK'
<1>1. PICK k \in Nat : Begins(k) /\ IF torn THEN Damaged(k) ELSE Clean(k)
  BY DEF LogOK
<1>2. file' = file /\ logged' = logged /\ torn' = torn
  BY DEF logVars
<1>3. Begins(k)'
  BY <1>1, <1>2 DEF Begins
<1>4. Damaged(k) => Damaged(k)'
  BY <1>2 DEF Damaged
<1>5. Clean(k) => Clean(k)'
  BY <1>2 DEF Clean
<1> QED
  BY <1>1, <1>2, <1>3, <1>4, <1>5 DEF LogOK

\* Damage from before goes on, whatever is written behind it.
LEMMA TornLog ==
  ASSUME TypeOK, LogOK, torn, torn', Grows,
         logged' = logged \/ \E n \in Nat : logged' = Append(logged, n)
  PROVE  LogOK'
<1>1. PICK k \in Nat : Begins(k) /\ Damaged(k)
  BY DEF LogOK
<1>2. Damaged(k)'
  BY <1>1, DamageStays
<1>3. Begins(k)'
  <2>1. CASE logged' = logged
    BY <1>1, <2>1, BeginningStays
  <2>2. CASE \E n \in Nat : logged' = Append(logged, n)
    <3>1. logged \in Seq(Nat) /\ Len(logged) \in Nat /\ file \in Seq(Chunk) /\ Len(file) \in Nat
      BY DEF TypeOK
    <3>2. Len(logged') = Len(logged) + 1 /\ \A i \in 1..Len(logged) : logged'[i] = logged[i]
      BY <2>2, <3>1
    <3>3. Len(file') >= Len(file) /\ Len(file') \in Nat
          /\ \A i \in 1..Len(file) : file'[i] = file[i]
      BY <3>1 DEF Grows
    <3>4. \A i \in 1..k : file'[2 * i - 1] = file[2 * i - 1] /\ file'[2 * i] = file[2 * i]
      <4> SUFFICES ASSUME NEW i \in 1..k
                   PROVE  2 * i - 1 \in 1..Len(file) /\ 2 * i \in 1..Len(file)
        BY <3>3
      <4>1. 2 * k <= Len(file)
        BY <1>1 DEF Begins
      <4> QED
        BY <3>1, <4>1
    <3>5. Undamaged(file', k)
      BY <1>1, <3>4 DEF Begins, Undamaged
    <3>6. \A i \in 1..k : i \in 1..Len(logged) /\ logged[i] = file[2 * i].record
      BY <1>1, <3>1 DEF Begins
    <3>7. 2 * k <= Len(file') /\ k <= Len(logged')
      BY <1>1, <3>1, <3>2, <3>3 DEF Begins
    <3> QED
      BY <3>2, <3>4, <3>5, <3>6, <3>7 DEF Begins
  <2> QED
    BY <2>1, <2>2
<1> QED
  BY <1>2, <1>3 DEF LogOK

\* The steps of the writer while the log is clean.
LEMMA CleanLength ==
  ASSUME TypeOK, LogOK, ~torn, WriteLength
  PROVE  LogOK'
<1>1. PICK k \in Nat : Begins(k) /\ Clean(k)
  BY DEF LogOK
<1> DEFINE n == RecordOf(file, "length")
<1>2. /\ file \in Seq(Chunk) /\ n \in Nat /\ handler.at = "length" /\ Len(file) = 2 * k
      /\ k = Len(logged) /\ logged' = logged
  BY <1>1, ChunkTypes DEF TypeOK, WriteLength, Clean
<1>3. /\ Written("length", n) \in Chunk /\ Written("length", n).part = "length"
      /\ CutShort("length", n) \in Chunk /\ CutShort("length", n).part = "length"
      /\ ~CutShort("length", n).whole
  BY ChunkTypes DEF TypeOK, Written, CutShort
<1> HIDE DEF n
<1>4. CASE file' = Append(file, Written("length", n)) /\ handler'.at = "body" /\ torn' = torn
  <2>1. Grows
    BY <1>3, <1>4 DEF Grows
  <2>2. Begins(k)'
    BY <1>1, <1>2, <2>1, BeginningStays
  <2>3. RecordOf(file', "body") = n
    BY <1>2, <1>4, LengthNumbersBody DEF n
  <2>4. RecordOf(file, "body")' = RecordOf(file', "body")
    BY DEF RecordOf
  <2>5. Len(file') = 2 * k + 1 /\ file'[2 * k + 1] = Written("length", n)
    BY <1>2, <1>4
  <2>6. Written("length", RecordOf(file, "body"))' = Written("length", n)
    BY <2>3, <2>4 DEF Written
  <2>7. Clean(k)'
    BY <1>2, <1>4, <2>5, <2>6 DEF Clean
  <2> QED
    BY <1>4, <2>2, <2>7 DEF LogOK
<1>5. CASE file' = Append(file, CutShort("length", n)) /\ torn'
  <2>1. Grows
    BY <1>3, <1>5 DEF Grows
  <2>2. Begins(k)'
    BY <1>1, <1>2, <2>1, BeginningStays
  <2>3. Len(file') = 2 * k + 1 /\ file'[2 * k + 1] = CutShort("length", n)
    BY <1>2, <1>5
  <2>4. Damaged(k)'
    BY <1>2, <1>3, <2>3 DEF Damaged
  <2> QED
    BY <1>5, <2>2, <2>4 DEF LogOK
<1>6. CASE UNCHANGED logVars /\ handler'.at = "check"
  BY <1>2, <1>6, QuietLog
<1>7. WriteLength =>
        \/ file' = Append(file, Written("length", n)) /\ handler'.at = "body" /\ torn' = torn
        \/ file' = Append(file, CutShort("length", n)) /\ torn'
        \/ UNCHANGED logVars /\ handler'.at = "check"
  BY DEF WriteLength, TypeOK, logVars, n
<1> QED
  BY <1>4, <1>5, <1>6, <1>7

LEMMA CleanBody ==
  ASSUME TypeOK, LogOK, ~torn, WriteBody
  PROVE  LogOK'
<1>1. PICK k \in Nat : Begins(k) /\ Clean(k)
  BY DEF LogOK
<1> DEFINE n == RecordOf(file, "body")
<1>2. /\ file \in Seq(Chunk) /\ logged \in Seq(Nat) /\ n \in Nat /\ handler.at = "body"
      /\ handler'.at = "check"
      /\ Len(file) = 2 * k + 1 /\ k = Len(logged) /\ file[2 * k + 1] = Written("length", n)
  BY <1>1, ChunkTypes DEF TypeOK, WriteBody, Clean
<1>3. /\ Written("body", n) \in Chunk
      /\ Written("body", n).part = "body" /\ Written("body", n).whole
      /\ Written("body", n).record = n
      /\ CutShort("body", n) \in Chunk /\ ~CutShort("body", n).whole
  BY ChunkTypes DEF TypeOK, Written, CutShort
<1>4. /\ Written("length", n).part = "length" /\ Written("length", n).whole
      /\ Written("length", n).record = n
  BY DEF Written
<1> HIDE DEF n
<1> DEFINE Longer(c) == /\ Len(Append(file, c)) = 2 * k + 2 /\ Append(file, c)[2 * k + 2] = c
                        /\ \A i \in 1..(2 * k + 1) : Append(file, c)[i] = file[i]
<1>5. ASSUME NEW c \in Chunk PROVE Longer(c)
  <2>1. /\ Len(Append(file, c)) = Len(file) + 1 /\ Append(file, c)[Len(file) + 1] = c
        /\ \A i \in 1..Len(file) : Append(file, c)[i] = file[i]
    BY <1>2, AppendProperties
  <2>2. Len(file) = 2 * k + 1 /\ 2 * k + 1 + 1 = 2 * k + 2
    BY <1>2
  <2> QED
    BY <2>1, <2>2
<1>6. CASE file' = Append(file, Written("body", n)) /\ logged' = Append(logged, n)
           /\ torn' = torn
  <2>1. /\ Len(file') = 2 * k + 2 /\ file'[2 * k + 2] = Written("body", n)
        /\ \A i \in 1..(2 * k + 1) : file'[i] = file[i]
    BY <1>3, <1>6, <1>5
  <2>2. /\ Len(logged') = k + 1 /\ logged'[k + 1] = n
        /\ \A i \in 1..k : logged'[i] = logged[i]
    BY <1>2, <1>6
  <2>3. \A i \in 1..k : file'[2 * i - 1] = file[2 * i - 1] /\ file'[2 * i] = file[2 * i]
    <3> SUFFICES ASSUME NEW i \in 1..k
                 PROVE  2 * i - 1 \in 1..(2 * k + 1) /\ 2 * i \in 1..(2 * k + 1)
      BY <2>1
    <3> QED
      OBVIOUS
  <2>4. file'[2 * k + 1] = Written("length", n)
    BY <1>2, <2>1
  <2>5. \A i \in 1..k :
          /\ file'[2 * i - 1].part = "length" /\ file'[2 * i - 1].whole
          /\ file'[2 * i].part = "body" /\ file'[2 * i].whole
          /\ file'[2 * i].record = file'[2 * i - 1].record
          /\ logged'[i] = file'[2 * i].record
    BY <1>1, <2>2, <2>3 DEF Begins, Undamaged
  <2>6. \A i \in 1..(k + 1) :
          /\ file'[2 * i - 1].part = "length" /\ file'[2 * i - 1].whole
          /\ file'[2 * i].part = "body" /\ file'[2 * i].whole
          /\ file'[2 * i].record = file'[2 * i - 1].record
          /\ logged'[i] = file'[2 * i].record
    <3>1. \A i \in 1..(k + 1) : i \in 1..k \/ i = k + 1
      OBVIOUS
    <3>2. 2 * (k + 1) - 1 = 2 * k + 1 /\ 2 * (k + 1) = 2 * k + 2
      OBVIOUS
    <3>3. /\ file'[2 * (k + 1) - 1] = Written("length", n)
          /\ file'[2 * (k + 1)] = Written("body", n)
      BY <2>1, <2>4, <3>2
    <3>4. /\ file'[2 * (k + 1) - 1].part = "length" /\ file'[2 * (k + 1) - 1].whole
          /\ file'[2 * (k + 1)].part = "body" /\ file'[2 * (k + 1)].whole
          /\ file'[2 * (k + 1)].record = file'[2 * (k + 1) - 1].record
          /\ logged'[k + 1] = file'[2 * (k + 1)].record
      BY <1>3, <1>4, <2>2, <3>3
    <3> QED
      BY <2>5, <3>1, <3>4
  <2>7. Begins(k + 1)'
    <3>1. 2 * (k + 1) <= Len(file') /\ k + 1 <= Len(logged')
      BY <2>1, <2>2
    <3>2. Undamaged(file', k + 1)
      BY <2>6 DEF Undamaged
    <3> QED
      BY <2>6, <3>1, <3>2 DEF Begins
  <2>8. Clean(k + 1)'
    BY <1>2, <2>1, <2>2 DEF Clean
  <2>9. k + 1 \in Nat /\ ~torn'
    BY <1>6
  <2> QED
    BY <2>7, <2>8, <2>9 DEF LogOK
<1>7. CASE (file' = file \/ file' = Append(file, CutShort("body", n))) /\ logged' = logged /\ torn'
  <2>1. Grows
    BY <1>2, <1>3, <1>7 DEF Grows
  <2>2. Begins(k)'
    BY <1>1, <1>7, <2>1, BeginningStays
  <2>3. ASSUME file' = file PROVE Damaged(k)'
    BY <1>2, <2>3 DEF Damaged
  <2>4. ASSUME file' = Append(file, CutShort("body", n)) PROVE Damaged(k)'
    <3>1. Len(file') = 2 * k + 2 /\ file'[2 * k + 2] = CutShort("body", n)
      BY <1>3, <1>5, <2>4
    <3> QED
      BY <1>3, <3>1 DEF Damaged
  <2>5. Damaged(k)'
    BY <1>7, <2>3, <2>4
  <2> QED
    BY <1>7, <2>2, <2>5 DEF LogOK
<1>8. \/ file' = Append(file, Written("body", n)) /\ logged' = Append(logged, n) /\ torn' = torn
      \/ (file' = file \/ file' = Append(file, CutShort("body", n))) /\ logged' = logged /\ torn'
  BY DEF WriteBody, n
<1> QED
  BY <1>6, <1>7, <1>8

LEMMA CleanCrash ==
  ASSUME TypeOK, LogOK, ~torn, CrashExecutor
  PROVE  LogOK'
<1>1. PICK k \in Nat : Begins(k) /\ Clean(k)
  BY DEF LogOK
<1>2. file \in Seq(Chunk) /\ Len(file) \in Nat
  BY DEF TypeOK
<1>3. handler'.at = "idle" /\ logged' = logged
      /\ (torn' <=> (torn \/ handler.at = "body" \/ file' # file))
  BY DEF CrashExecutor, Idle
<1>4. CASE handler.at # "body" /\ file' = file
  <2>1. torn' = FALSE
    BY <1>3, <1>4 DEF CrashExecutor
  <2>2. UNCHANGED logVars
    BY <1>3, <1>4, <2>1 DEF logVars, TypeOK
  <2> QED
    BY <1>3, <1>4, <2>2, QuietLog
<1>5. CASE handler.at = "body" /\ file' = file
  <2>1. torn'
    BY <1>3, <1>5
  <2>2. Grows
    BY <1>5 DEF Grows
  <2>3. Begins(k)'
    BY <1>1, <1>3, <2>2, BeginningStays
  <2>4. Damaged(k)'
    BY <1>1, <1>3, <1>5 DEF Clean, Damaged
  <2> QED
    BY <2>1, <2>3, <2>4 DEF LogOK
<1>6. ASSUME handler.at \in {"length", "body"},
             file' = Append(file, CutShort(handler.at, RecordOf(file, handler.at)))
      PROVE  LogOK'
  <2> DEFINE c == CutShort(handler.at, RecordOf(file, handler.at))
  <2>1. c \in Chunk /\ ~c.whole /\ c.part = handler.at
    BY <1>2, <1>6, ChunkTypes DEF CutShort
  <2>2. file' = Append(file, c)
    BY <1>6
  <2> HIDE DEF c
  <2>3. Len(file') = Len(file) + 1 /\ file'[Len(file) + 1] = c
    BY <1>2, <2>2
  <2>4. torn'
    <3>1. file' # file
      BY <1>2, <2>3
    <3> QED
      BY <1>3, <3>1
  <2>5. Grows
    BY <1>6, <2>1, <2>2 DEF Grows
  <2>6. Begins(k)'
    BY <1>1, <1>3, <2>5, BeginningStays
  <2>7. Damaged(k)'
    <3>1. ASSUME handler.at = "body" PROVE Damaged(k)'
      <4>1. Len(file') = 2 * k + 2 /\ ~file'[2 * k + 2].whole
        BY <1>1, <2>1, <2>3, <3>1 DEF Clean
      <4> QED
        BY <4>1 DEF Damaged
    <3>2. ASSUME handler.at # "body" PROVE Damaged(k)'
      <4>1. Len(file') = 2 * k + 1 /\ ~file'[2 * k + 1].whole
        BY <1>1, <2>1, <2>3, <3>2 DEF Clean
      <4> QED
        BY <4>1 DEF Damaged
    <3> QED
      BY <3>1, <3>2
  <2> QED
    BY <2>4, <2>6, <2>7 DEF LogOK
<1> QED
  BY <1>4, <1>5, <1>6 DEF CrashExecutor

\* The steps of the writer behind some damage.
LEMMA TornStep ==
  ASSUME TypeOK, LogOK, torn, WriteLength \/ WriteBody \/ CrashExecutor
  PROVE  LogOK'
<1>1. ASSUME NEW part \in {"length", "body"}
      PROVE  /\ Written(part, RecordOf(file, part)) \in Chunk
             /\ Written(part, RecordOf(file, part)).part = part
             /\ CutShort(part, RecordOf(file, part)) \in Chunk
             /\ CutShort(part, RecordOf(file, part)).part = part
             /\ RecordOf(file, part) \in Nat
  BY ChunkTypes DEF TypeOK, Written, CutShort
<1>2. CASE WriteLength
  <2>1. torn' /\ logged' = logged
    BY <1>2 DEF WriteLength
  <2>2. Grows
    <3>1. CASE file' = file
      <4>1. handler'.at # "body"
        <5>1. file' # Append(file, Written("length", RecordOf(file, "length")))
          BY <3>1 DEF TypeOK
        <5> QED
          BY <1>2, <5>1 DEF WriteLength, TypeOK
      <4> QED
        BY <3>1, <4>1 DEF Grows
    <3>2. CASE file' # file
      BY <1>1, <1>2, <3>2 DEF WriteLength, Grows
    <3> QED
      BY <3>1, <3>2
  <2> QED
    BY <2>1, <2>2, TornLog
<1>3. CASE WriteBody
  <2>1. torn' /\ (logged' = logged \/ \E n \in Nat : logged' = Append(logged, n))
    BY <1>1, <1>3 DEF WriteBody
  <2>2. Grows
    BY <1>1, <1>3 DEF WriteBody, Grows
  <2> QED
    BY <2>1, <2>2, TornLog
<1>4. CASE CrashExecutor
  <2>1. torn' /\ logged' = logged /\ handler'.at = "idle"
    BY <1>4 DEF CrashExecutor, Idle
  <2>2. Grows
    BY <1>1, <1>4, <2>1 DEF CrashExecutor, Grows
  <2> QED
    BY <2>1, <2>2, TornLog
<1> QED
  BY <1>2, <1>3, <1>4
-----------------------------------------------------------------------------
(* The theorem. *)

LEMMA LogStep == TypeOK /\ LogOK /\ [Next]_vars => LogOK'
<1> SUFFICES ASSUME TypeOK, LogOK, [Next]_vars PROVE LogOK'
  OBVIOUS
<1>1. CASE WriteLength
  BY <1>1, CleanLength, TornStep
<1>2. CASE WriteBody
  BY <1>2, CleanBody, TornStep
<1>3. CASE CrashExecutor
  BY <1>3, CleanCrash, TornStep
<1>4. CASE UNCHANGED <<handler, logVars>>
  BY <1>4, QuietLog
<1>5. CASE StartExecutor
  <2>1. UNCHANGED <<handler, logVars>>
    BY <1>5 DEF StartExecutor, Opened, logVars
  <2> QED
    BY <2>1, <1>4
<1>6. CASE Take \/ PassOver \/ TestNumber
  <2>1. UNCHANGED logVars /\ handler.at # "body"
    BY <1>6 DEF Take, PassOver, TestNumber
  <2>2. handler \in [at : Place, tick : Tick, verdict : Verdict]
    BY DEF TypeOK
  <2>3. CASE Take
    <3>1. handler'.at = "length"
      BY <2>3 DEF Take
    <3> QED
      BY <2>1, <3>1, QuietLog
  <2>4. CASE PassOver \/ TestNumber
    <3>1. handler'.at = "idle"
      BY <2>2, <2>4 DEF PassOver, TestNumber
    <3> QED
      BY <2>1, <3>1, QuietLog
  <2> QED
    BY <1>6, <2>3, <2>4
<1>7. CASE \/ \E x \in Exchange : NetChanges(x) \/ Connect(x) \/ Close(x) \/ Break(x)
           \/ Reconnect
  BY <1>4, <1>7 DEF NetChanges, Connect, Close, Break, Reconnect, StreamGoes, entryVars
<1>8. CASE StartObserver \/ CrashObserver \/ Publish \/ \E s \in Symbols : Quote(s)
  BY <1>4, <1>8 DEF StartObserver, CrashObserver, Publish, Quote, entryVars
<1>9. CASE UNCHANGED vars
  BY <1>4, <1>9 DEF vars, entryVars
<1> QED
  BY <1>1, <1>2, <1>3, <1>5, <1>6, <1>7, <1>8, <1>9 DEF Next

\* Whatever write fails and whenever the process dies, replay reads nothing but
\* records that were appended, in their order and from the first on: all of them
\* while no write has been cut short, and those before the damage after that
\* (packet_log.rs:22-62).
THEOREM ReplayReadsTheLog == Spec => []LogReadsBack
<1>1. Init => LogOK
  <2> SUFFICES ASSUME Init PROVE Begins(0) /\ Clean(0) /\ ~torn
    BY DEF LogOK
  <2> QED
    BY DEF Init, Begins, Clean, Undamaged, Idle
<1>2. TypeOK /\ LogOK => LogReadsBack
  BY LogOKReads
<1> QED
  BY <1>1, <1>2, LogStep, InitType, NextType, PTL DEF Spec
=============================================================================
