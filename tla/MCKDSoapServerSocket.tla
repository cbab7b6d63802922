------------------------- MODULE MCKDSoapServerSocket -------------------------
(* Small instances of KDSoapServerSocket for TLC: connections with one or  *)
(* two requests of every kind.                                             *)
EXTENDS KDSoapServerSocket

post == [verb |-> "POST", path |-> "server", authorized |-> TRUE, chunked |-> FALSE,
         sizes |-> <<2>>, trailer |-> FALSE, xml |-> "message", range |-> NoRangeHeader]

short == [post EXCEPT !.sizes = <<1>>]
dispatched == [short EXCEPT !.path = "other"]
chunks == [post EXCEPT !.chunked = TRUE, !.sizes = <<1, 2>>]
trailers == [post EXCEPT !.chunked = TRUE, !.sizes = <<1>>, !.trailer = TRUE]
fault == [short EXCEPT !.xml = "fault"]
get == [post EXCEPT !.verb = "GET", !.sizes = <<>>]
outside == [get EXCEPT !.path = "outside"]
unauthorized == [short EXCEPT !.authorized = FALSE]
put == [short EXCEPT !.verb = "PUT"]
truncated == [short EXCEPT !.xml = "truncated"]
badChunk == [chunks EXCEPT !.sizes = <<1, -1>>]

AnyRequest ==
    {post, dispatched, chunks, trailers, fault, get, outside, unauthorized, put, truncated, badChunk}

TwoOfAny == {<<r, q>> : r \in AnyRequest, q \in AnyRequest}
OneTruncated == {<<truncated>>}
(* Downloads: a Range header with one spec of any kind, two or three.      *)
Specs == {<<a, b>> : a \in {-1, 0, 2, 5, 8, 11, 12, IntMax + 1}, b \in {-1, 0, 2, 5, 8, 11, 12, IntMax + 1}}
FewSpecs == {<<a, b>> : a \in {-1, 0, 4, 8}, b \in {-1, 2, 4, 8}}
Overlapping == {<<0, 8>>, <<2, 3>>, <<10, 10>>, <<9, -1>>, <<-1, 2>>, <<4, 2>>}
Malformed == {<<-1>>, <<5>>, <<1, 2, 3>>}
SpecLists ==
    {<<s>> : s \in Specs \cup Malformed}
        \cup {<<s, t>> : s \in FewSpecs, t \in FewSpecs}
        \cup {<<s, t, u>> : s \in Overlapping, t \in Overlapping, u \in Overlapping}
        \cup {<<<<0, 1>>, s>> : s \in Malformed} \cup {[i \in 1..n |-> <<4 * i, 4 * i>>] : n \in 4..6}
RangeHeaders ==
    {Bytes(l) : l \in SpecLists} \cup {[Bytes(<<<<2, 3>>>>) EXCEPT !.unit = "other"],
                                      [Bytes(<<<<2, 3>>>>) EXCEPT !.clean = FALSE]}
Downloads == {<<[get EXCEPT !.range = h]>> : h \in RangeHeaders}
Sizes == {0, 1, 12, 13, IntMax - 7, 2 * IntMax, 2 * IntMax + 2}

AnyScript == TwoOfAny \cup Downloads

TwoDispatched == {<<dispatched, dispatched>>}
TwoPosts == {<<post, post>>}
WaitsForReplies == {FALSE}
=============================================================================
