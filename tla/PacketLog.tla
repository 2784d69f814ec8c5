----------------------------- MODULE PacketLog ------------------------------
(***************************************************************************)
(* The packet log (crates/shared/src/packet_log.rs): a file that is only   *)
(* appended to, a record at a time, each in two writes: its length, then   *)
(* its bytes.  The file is the sequence of what the writes have left: a    *)
(* chunk is the length or the body of the n-th record, whole or cut short. *)
(* A record of an inadmissible length is never written, so the reader's    *)
(* test of the length can only fail on bytes that are no length.           *)
(***************************************************************************)
EXTENDS Integers, Sequences, FiniteSets

Chunk == [part : {"length", "body"}, record : Nat, whole : BOOLEAN]

Written(part, n) == [part |-> part, record |-> n, whole |-> TRUE]
CutShort(part, n) == [part |-> part, record |-> n, whole |-> FALSE]

\* The number of the record whose part comes next.
RecordOf(file, part) ==
  Cardinality({i \in DOMAIN file : file[i].part = "length"})
    + (IF part = "length" THEN 1 ELSE 0)

\* Mutant of Opened: File::create in place of the append mode.
OpenedEmpty(file) == <<>>

\* The writer opens for appending; a file is there or begins empty.
Opened(file) == file

\* The first k records lie in the file one behind the other, undamaged.
Undamaged(file, k) ==
  \A i \in 1..k :
    /\ file[2 * i - 1].part = "length" /\ file[2 * i - 1].whole
    /\ file[2 * i].part = "body" /\ file[2 * i].whole
    /\ file[2 * i].record = file[2 * i - 1].record

\* How many records read_packets gets right.
Readable(file) ==
  CHOOSE k \in 0..(Len(file) \div 2) :
    /\ Undamaged(file, k)
    /\ k = Len(file) \div 2 \/ ~Undamaged(file, k + 1)

Packets(file) == [i \in 1..Readable(file) |-> file[2 * i].record]

Rest(file) == SubSeq(file, 2 * Readable(file) + 1, Len(file))

\* What becomes of the reading after the last good record.  The end of the
\* file inside a length ends it, inside a body fails it; with more behind the
\* cut, lengths are read where there are none, and anything may come of it.
Outcome(file) ==
  LET rest == Rest(file)
  IN  IF rest = <<>> THEN "ok"
      ELSE IF rest[1].part = "length" /\ ~rest[1].whole
           THEN IF Len(rest) = 1 THEN "ok" ELSE "garbled"
      ELSE IF \/ Len(rest) = 1
              \/ Len(rest) = 2 /\ rest[2].part = "body" /\ ~rest[2].whole
           THEN "error"
      ELSE "garbled"
=============================================================================
