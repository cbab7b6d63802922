--------------------------- MODULE KDSoapFileRanges ---------------------------
(***************************************************************************)
(* Partial downloads of a file: what KDSoapServerSocket makes of a Range   *)
(* header (determineFileRanges()) and what it then writes                  *)
(* (writeFileRanges()).                                                    *)
(*                                                                         *)
(* A header is the record [present, unit, clean, specs]; "clean" says that *)
(* it has digits, '-', ',' and blanks only.  A spec is the sequence of its *)
(* parts between '-', each a number, or -1 when it is empty: "-5" is       *)
(* <<-1, 5>>.  Bytes are numbered from 0, a range is <<first, last>>.      *)
(***************************************************************************)
EXTENDS Integers, Sequences, SequencesExt

CONSTANTS
    IntMax,             \* the largest int
    multiPartOverhead,  \* 86 in the code: gaps up to this size are sent along
    BoundarySize,       \* the length of the boundary between parts
    PartHeadSize        \* of a part's header, without its numbers

ASSUME RangesAssumption == {IntMax, multiPartOverhead, BoundarySize, PartHeadSize} \subseteq Nat

RangeHeader ==
    [present : BOOLEAN, unit : {"bytes", "other"}, clean : BOOLEAN, specs : Seq(Seq(Nat \cup {-1}))]
NoRangeHeader == [present |-> FALSE, unit |-> "bytes", clean |-> TRUE, specs |-> <<>>]
Bytes(specs) == [present |-> TRUE, unit |-> "bytes", clean |-> TRUE, specs |-> specs]

(* A qint64 that is passed as an int: the size of a large file wraps.      *)
AsInt(n) == ((n + IntMax + 1) % (2 * (IntMax + 1))) - (IntMax + 1)

Ignored(h) == ~ h.present \/ h.unit # "bytes" \/ ~ h.clean

(* toInt() fails for what is no int; both parts may not be empty.          *)
WellFormed(spec) ==
    Len(spec) = 2 /\ (\A k \in 1..2 : spec[k] <= IntMax) /\ spec # <<-1, -1>>

(* The last bytes, from a byte on, from a byte to a byte.                  *)
Resolved(spec, fileSize) ==
    IF spec[1] < 0 THEN <<Max({0, fileSize - spec[2]}), fileSize - 1>>
    ELSE <<spec[1], IF spec[2] < 0 THEN fileSize - 1 ELSE spec[2]>>

Satisfiable(r, fileSize) == r[1] <= r[2] /\ r[1] < fileSize
Clipped(r, fileSize) == <<r[1], Min({r[2], fileSize - 1})>>

(* Unsatisfiable specs are skipped.                                        *)
Requested(spec, fileSize) ==
    LET r == Resolved(spec, fileSize)
    IN IF Satisfiable(r, fileSize) THEN <<Clipped(r, fileSize)>> ELSE <<>>

requestedRanges(specs, fileSize) == FlattenSeq([i \in 1..Len(specs) |-> Requested(specs[i], fileSize)])

(* std::sort() by the operator < of QPair: the ranges in another order, in  *)
(* which none is less than one before it.                                  *)
Less(r, q) == r[1] < q[1] \/ (r[1] = q[1] /\ r[2] < q[2])
Ordering(ranges, p) == \A i, j \in DOMAIN ranges : i < j => ~ Less(ranges[p[j]], ranges[p[i]])
sorted(ranges) ==
    LET order == CHOOSE p \in Bijection(DOMAIN ranges, DOMAIN ranges) : Ordering(ranges, p)
    IN [i \in DOMAIN ranges |-> ranges[order[i]]]

(* Mutant: the range that starts later is taken to end later.              *)
mergedIntoNext(r, q) == <<r[1], q[2]>>

merged(r, q) == <<r[1], Max({r[2], q[2]})>>

(* Where a range that becomes part of the one before may begin, as an int. *)
Reach(r) == AsInt(r[2] + 1 + multiPartOverhead)

(* A range that begins close behind the one before becomes part of it.     *)
withNext(done, r) ==
    IF done # <<>> /\ r[1] <= Reach(Last(done))
    THEN Append(Front(done), merged(Last(done), r))
    ELSE Append(done, r)

coalesced(ranges) == FoldLeft(withNext, <<>>, sorted(ranges))

FullFile == [type |-> "FullFile", ranges |-> <<>>]
InvalidRange == [type |-> "InvalidRange", ranges |-> <<>>]
MaxSpecs == 5

determineFileRanges(h, fileSize) ==
    IF Ignored(h) THEN FullFile
    ELSE IF (\E i \in DOMAIN h.specs : ~ WellFormed(h.specs[i])) \/ Len(h.specs) > MaxSpecs THEN InvalidRange
    ELSE LET ranges == coalesced(requestedRanges(h.specs, fileSize))
         IN CASE ranges = <<>> -> InvalidRange
              [] ranges = <<<<0, fileSize - 1>>>> -> FullFile
              [] OTHER -> [type |-> "ValidRanges", ranges |-> ranges]

---------------------------------------------------------------------------
Total(numbers) == FoldLeft(LAMBDA n, x : n + x, 0, numbers)

(* QByteArray::number(n).size() of an int: at most ten digits.             *)
Digits(n) == 1 + Cardinality({d \in 1..9 : n >= 10 ^ d})
RangeSize(r) == r[2] - r[1] + 1
NumbersSize(r) == Digits(r[1]) + 1 + Digits(r[2])

(* The length of what is written for one range, or added up for several.   *)
announced(ranges) ==
    IF Len(ranges) = 1 THEN RangeSize(ranges[1])
    ELSE LET prefix == 2 + BoundarySize
         IN prefix + 2
              + Total([i \in 1..Len(ranges) |-> PartHeadSize + NumbersSize(ranges[i]) + RangeSize(ranges[i])])
              + (Len(ranges) - 1) * (2 + prefix + 2)
              + 2 + prefix + 4

(* What is written behind the HTTP headers: pieces of text, of which only  *)
(* the size counts, and bytes of the file, read until its end.             *)
TextPiece(n) == [size |-> n, bytes |-> <<>>]
FilePiece(r, fileSize) ==
    LET read == Max({0, Min({RangeSize(r), fileSize - r[1]})})
    IN [size |-> read, bytes |-> [j \in 1..read |-> r[1] + j - 1]]

Part(ranges, i, fileSize) ==
    <<TextPiece((IF i = 1 THEN 0 ELSE 2) + 2 + BoundarySize),
      TextPiece(2), TextPiece(PartHeadSize + NumbersSize(ranges[i])),
      FilePiece(ranges[i], fileSize)>>

writeFileRanges(ranges, fileSize) ==
    IF Len(ranges) = 1 THEN <<FilePiece(ranges[1], fileSize)>>
    ELSE FlattenSeq([i \in 1..Len(ranges) |-> Part(ranges, i, fileSize)])
           \o <<TextPiece(2 + 2 + BoundarySize), TextPiece(4)>>

(* httpResponseHeaders() takes the size of a whole file as an int, too, and *)
(* has a status of its own for no data.                                    *)
wholeFile(fileSize) ==
    [status |-> IF AsInt(fileSize) = 0 THEN "204" ELSE "200", length |-> AsInt(fileSize),
     body |-> <<FilePiece(<<0, fileSize - 1>>, fileSize)>>]

(* handleFileDownload() of an open device.  The Content-Length of ranges   *)
(* is added up in an int.                                                  *)
Download(h, fileSize) ==
    LET d == determineFileRanges(h, AsInt(fileSize))
    IN CASE d.type = "InvalidRange" -> [status |-> "416", length |-> 0, body |-> <<>>]
         [] d.type = "FullFile" -> wholeFile(fileSize)
         [] OTHER -> [status |-> "206", length |-> AsInt(announced(d.ranges)),
                      body |-> writeFileRanges(d.ranges, fileSize)]
===============================================================================
