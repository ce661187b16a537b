--------------------------- MODULE MC_HttpRecord ---------------------------
(* Message shapes for the runs of HttpRecord.                              *)
EXTENDS HttpRecord

\* A segment: header part or end, body bytes, last-chunk marker.
S(h, b, t) == [hdr |-> h, body |-> b, term |-> t]

\* Request 1: Expect: 100-continue, Content-Length 2, body after 100 in two writes.
\* Request 2: chunked, headers split over two writes, last chunk alone.
MCReq ==
  << [framing |-> "length", clen |-> 2, expect |-> TRUE, pass |-> FALSE,
      segs |-> << S("end", 0, "none"), S("none", 1, "none"), S("none", 1, "none") >>],
     [framing |-> "chunked", clen |-> 0, expect |-> FALSE, pass |-> FALSE,
      segs |-> << S("part", 0, "none"), S("end", 1, "none"), S("none", 0, "alone") >>] >>

\* Response 1: Content-Length 2, headers split, body over two writes.
\* Response 2: chunked, the last chunk written alone.
MCResp ==
  << [framing |-> "length", clen |-> 2, expect |-> FALSE, pass |-> FALSE,
      segs |-> << S("part", 0, "none"), S("end", 1, "none"), S("none", 1, "none") >>],
     [framing |-> "chunked", clen |-> 0, expect |-> FALSE, pass |-> FALSE,
      segs |-> << S("end", 1, "none"), S("none", 0, "alone") >>] >>

\* Response 2 with the last chunk in the same write as the data before it.
MCRespJoinedTerm ==
  << MCResp[1],
     [framing |-> "chunked", clen |-> 0, expect |-> FALSE, pass |-> FALSE,
      segs |-> << S("end", 1, "none"), S("none", 1, "suffix") >>] >>

\* A plain GET to a pass-through host, then a GET with a one-write response.
MCReqPlain ==
  << [framing |-> "none", clen |-> 0, expect |-> FALSE, pass |-> TRUE,
      segs |-> << S("end", 0, "none") >>],
     [framing |-> "none", clen |-> 0, expect |-> FALSE, pass |-> FALSE,
      segs |-> << S("end", 0, "none") >>] >>
MCRespPlain ==
  << [framing |-> "length", clen |-> 1, expect |-> FALSE, pass |-> FALSE,
      segs |-> << S("end", 1, "none") >>],
     [framing |-> "length", clen |-> 1, expect |-> FALSE, pass |-> FALSE,
      segs |-> << S("end", 1, "none") >>] >>
=============================================================================
