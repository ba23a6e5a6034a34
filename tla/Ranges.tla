------------------------------- MODULE Ranges -------------------------------
(***************************************************************************)
(* Chunk borders (python/urp/chunking.py) and reads of a byte range of a   *)
(* manifest (rehydrate_manifest_range, python/urp/executor.py).  Offsets   *)
(* count from 0, a range is [from, to).  Pure operators.                   *)
(***************************************************************************)
EXTENDS Integers, Sequences

CONSTANTS Refused, Missing

Shorter(a, b) == IF a <= b THEN a ELSE b
Later(a, b) == IF a >= b THEN a ELSE b

Span(from, to) == [from |-> from, to |-> to]

FixedChunks(length, size) ==
  [i \in 1..((length + size - 1) \div size) |->
     Span((i - 1) * size, Shorter(i * size, length))]

(* Mutant of MustCut: a chunk may be one byte longer than the maximum.     *)
CutsLate(at, size, minSize, maxSize, boundaries) ==
  size >= minSize /\ (at \in boundaries \/ size > maxSize)

(* The rolling hash is abstracted to the set of offsets where its low bits *)
(* are zero, which may be any.                                             *)
MustCut(at, size, minSize, maxSize, boundaries) ==
  size >= minSize /\ (at \in boundaries \/ size >= maxSize)

(* Where the loop over the bytes stands after each of them.                *)
Scanned(length, minSize, maxSize, boundaries) ==
  LET scanned[i \in 0..length] ==
        IF i = 0 THEN [start |-> 0, chunks |-> << >>]
        ELSE LET before == scanned[i - 1]
             IN  IF MustCut(i, i - before.start, minSize, maxSize, boundaries)
                   THEN [start |-> i, chunks |-> Append(before.chunks, Span(before.start, i))]
                   ELSE before
  IN  scanned

ContentDefinedChunks(length, minSize, maxSize, boundaries) ==
  LET end == Scanned(length, minSize, maxSize, boundaries)[length]
  IN  IF end.start < length THEN Append(end.chunks, Span(end.start, length)) ELSE end.chunks
-----------------------------------------------------------------------------
(* The bytes an offset range names; a byte is known by its offset.         *)
Bytes(from, to) == [i \in 1..(to - from) |-> from + i - 1]

Overlapping(segment, start, end) == segment.to > start /\ segment.from < end

(* data[local_start:local_end] of a segment.                               *)
Piece(segment, start, end) ==
  SubSeq(segment.data, Later(start, segment.from) - segment.from + 1,
         Shorter(end, segment.to) - segment.from)

(* read_stored raises, or the restored bytes are not as many as they were. *)
Broken(segment) ==
  segment.data = Missing \/ Len(segment.data) # segment.to - segment.from

(* A manifest is of an object of a size and a count of chunks, and has a   *)
(* segment for each chunk, by its place, that is listed in it.             *)
Read(manifest, start, end) ==
  {i \in DOMAIN manifest.segments : Overlapping(manifest.segments[i], start, end)}

Joined(manifest, start, end) ==
  LET joined[i \in 0..manifest.count] ==
        IF i = 0 THEN << >>
        ELSE IF i \in Read(manifest, start, end)
          THEN joined[i - 1] \o Piece(manifest.segments[i], start, end)
          ELSE joined[i - 1]
  IN  joined[manifest.count]

ReadRange(manifest, start, end) ==
  LET effectiveEnd == Shorter(end, manifest.size)
  IN  IF start < 0 \/ end < start THEN Refused
      ELSE IF start >= effectiveEnd THEN << >>
      ELSE IF \E i \in Read(manifest, start, effectiveEnd) : Broken(manifest.segments[i])
        THEN Refused
      ELSE IF Len(Joined(manifest, start, effectiveEnd)) # effectiveEnd - start THEN Refused
      ELSE Joined(manifest, start, effectiveEnd)
=============================================================================
