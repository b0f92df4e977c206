---------------------------- MODULE EventSummary ----------------------------
(***************************************************************************)
(* What a thread keeps of one event, and its file: the durations in a      *)
(* LinkedVector (htf_linked_vector), the attribute lists of some of the    *)
(* occurrences, and how both are encoded, compressed and read again        *)
(* (htf_storage.cpp).                                                      *)
(*                                                                         *)
(* A duration has WordBytes bytes, 8 in the code, and a byte ByteBase      *)
(* values, 256 in the code.  Of an attribute list only the occurrence it   *)
(* belongs to is kept.                                                     *)
(***************************************************************************)
EXTENDS Integers, Sequences, SequencesExt, FiniteSetsExt

CONSTANTS SubVectorSize, WordBytes, ByteBase

ASSUME SizesAssumption ==
  SubVectorSize \in Nat \ {0} /\ WordBytes \in Nat \ {0} /\ ByteBase \in Nat \ {0, 1}

-----------------------------------------------------------------------------
(* LinkedVector: a list of arrays of SubVectorSize elements.               *)

EmptyVector == << [starting_index |-> 0, items |-> <<>>] >>

VectorSize(v) == Last(v).starting_index + Len(Last(v).items)

\* Mutation: the new SubVector starts where the last one starts.
AddAtSameIndex(v, x) ==
  IF Len(Last(v).items) >= SubVectorSize
  THEN Append(v, [starting_index |-> Last(v).starting_index, items |-> <<x>>])
  ELSE [v EXCEPT ![Len(v)].items = Append(@, x)]

\* LinkedVector::add: into the last SubVector, or a new one when it is full.
Add(v, x) ==
  IF Len(Last(v).items) >= SubVectorSize
  THEN Append(v, [starting_index |-> VectorSize(v), items |-> <<x>>])
  ELSE [v EXCEPT ![Len(v)].items = Append(@, x)]

\* LinkedVector::at: the last SubVector that starts at or before the position.
At(v, pos) ==
  LET sub == v[Max({i \in 1..Len(v) : v[i].starting_index <= pos})]
  IN sub.items[pos - sub.starting_index + 1]

\* The buffer of LinkedVector::writeToFile: each SubVector is copied at its index.
ToArray(v) ==
  [i \in 1..VectorSize(v) |->
     LET sub == v[Max({s \in 1..Len(v) : v[s].starting_index < i})]
     IN sub.items[i - sub.starting_index]]

\* The constructor from a file: one SubVector, of the size that is read.
FromArray(a) == << [starting_index |-> 0, items |-> a] >>

-----------------------------------------------------------------------------
(* The encoding and the compression of an array.  The settings are those   *)
(* of the ParameterHandler, the same when the trace is written and read.   *)

Settings ==
  [compression : {"None", "ZSTD", "Histogram"}, encoding : {"None", "Masking"}]

\* getEncodingAlgorithm: no encoding before a lossy compression.
IsLossy(s) == s.compression = "Histogram"
Encoding(s) == IF IsLossy(s) THEN "None" ELSE s.encoding

\* ByteBase^n, what byte n of a word counts.
Weight[n \in 0..WordBytes] == IF n = 0 THEN 1 ELSE ByteBase * Weight[n - 1]

\* Little-endian bytes: the first width bytes of each value, and the word of bytes.
Byte(x, n) == (x \div Weight[n]) % ByteBase
BytesOf(a, width) ==
  [k \in 1..(Len(a) * width) |-> Byte(a[(k - 1) \div width + 1], (k - 1) % width)]
WordOf(bytes) ==
  LET word[n \in 0..Len(bytes)] == IF n = 0 THEN 0 ELSE word[n - 1] + bytes[n] * Weight[n - 1]
  IN word[Len(bytes)]

\* Mutation: the mask is that of the first value.
MaskSizeOfFirst(a) == Min({n \in 0..WordBytes : a[1] < Weight[n]})

\* The bytes that the widest of the values needs, as the union of their bits does.
MaskSize(a) == Min({n \in 0..WordBytes : \A i \in 1..Len(a) : a[i] < Weight[n]})

\* _htf_masking_encode: narrow values lose their leading bytes, unless all are 0.
MaskingEncode(a) == BytesOf(a, IF MaskSize(a) = 0 THEN WordBytes ELSE MaskSize(a))

\* _htf_masking_read: the width is the number of bytes divided by that of values.
MaskingRead(n, bytes) ==
  LET width == Len(bytes) \div n
  IN [i \in 1..n |-> WordOf(SubSeq(bytes, (i - 1) * width + 1, i * width))]

\* ZSTD_compress and ZSTD_decompress give back the bytes.
ZstdCompress(bytes) == [frame |-> bytes]
ZstdRead(f) == f.frame

MaxBit == ByteBase - 1
Lowest(a) == Min(ToSet(a))
Highest(a) == Max(ToSet(a))
HistogramStep(a) == (Highest(a) - Lowest(a)) \div MaxBit

\* _htf_histogram_compress: one byte per value, the step of the histogram it is in.
HistogramCompress(a) ==
  [min |-> Lowest(a), max |-> Highest(a),
   factors |-> [i \in 1..Len(a) |-> Min({MaxBit, (a[i] - Lowest(a)) \div HistogramStep(a)})]]

\* _htf_histogram_read divides the range by one more than the writer.
HistogramRead(n, h) ==
  [i \in 1..n |-> h.min + h.factors[i] * ((h.max - h.min) \div ByteBase)]

\* _htf_compress_write and _htf_compress_read.
CompressWrite(a, s) ==
  LET encoded == IF Encoding(s) = "Masking" THEN MaskingEncode(a) ELSE BytesOf(a, WordBytes)
  IN CASE s.compression = "None" -> encoded
       [] s.compression = "ZSTD" -> ZstdCompress(encoded)
       [] s.compression = "Histogram" -> HistogramCompress(a)

CompressRead(n, data, s) ==
  LET bytes == IF s.compression = "ZSTD" THEN ZstdRead(data) ELSE data
  IN IF s.compression = "Histogram" THEN HistogramRead(n, data) ELSE MaskingRead(n, bytes)

\* The histogram of values that lie closer than MaxBit has steps of 0, by which
\* the writer divides.
DividesByZero(a, s) == s.compression = "Histogram" /\ HistogramStep(a) = 0

-----------------------------------------------------------------------------
(* The summary of an event, its file, and the attributes of an occurrence. *)

EmptySummary == [durations |-> EmptyVector, attributes |-> <<>>]

Occurences(summary) == VectorSize(summary.durations)

\* storeEvent: the duration, and the attribute list if the occurrence has one.
StoreOccurence(summary, duration, attributed) ==
  [durations |-> Add(summary.durations, duration),
   attributes |-> IF attributed THEN Append(summary.attributes, Occurences(summary))
                  ELSE summary.attributes]

\* _htf_store_event: the level of ZSTD is asked for to compress the attributes,
\* and refused under another compression.
StoreAborts(summary, s) == summary.attributes # <<>> /\ s.compression = "Histogram"
StoreCrashes(summary, s) == DividesByZero(ToArray(summary.durations), s)

EventFile(summary, s) ==
  [nb_occurences |-> Occurences(summary),
   attributes |-> summary.attributes,
   durations |-> CompressWrite(ToArray(summary.durations), s)]

\* _htf_read_attribute_values reads the compressed attributes into one buffer,
\* and decompresses another one that was never written.
ReadIsUndefined(f, s) == f.attributes # <<>> /\ s.compression # "None"

ReadSummary(f, s) ==
  [durations |-> FromArray(CompressRead(f.nb_occurences, f.durations, s)),
   attributes |-> f.attributes]

\* Mutation: the cursor does not move.
CursorStays(summary, cursor, occurence) == cursor

\* getEventAttributeList moves the cursor of the event (attribute_pos) to the
\* first list of the occurrence or of a later one; past the last one there is
\* nothing to stop it.
MoveCursor(summary, cursor, occurence) ==
  Min({i \in cursor..Len(summary.attributes) : summary.attributes[i] >= occurence}
      \cup {Len(summary.attributes) + 1})
=============================================================================
