---------------------------- MODULE MCPageRanges ----------------------------
(* Small documents for TLC: up to 5 pages or rows, pieces of up to 3, up   *)
(* to two ranges, that may be empty, overlap or lie outside the document.  *)
EXTENDS PageRanges

Bound == [s : 0 .. 4, e : {0, 1, 3, 6, 9}]
MCConfigs ==
    [kind : {"pdf"}, total : 0 .. 5, size : 1 .. 3,
     ranges : {<<>>} \cup {<<a>> : a \in Bound} \cup {<<a, b>> : a, b \in Bound}]
    \cup [kind : {"table", "other"}, total : 0 .. 5, size : 1 .. 3, ranges : {<<>>}]
=============================================================================
