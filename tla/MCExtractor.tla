----------------------------- MODULE MCExtractor -----------------------------
(***************************************************************************)
(* An instance of Extractor for TLC: every sheet of two rows, of three     *)
(* rows around the time series, and of four rows of risks, scores and      *)
(* weights.  The texts are one that float() reads and one that it does     *)
(* not; 1 and 2 are years and values, 3 stands for a number with a         *)
(* fraction.                                                               *)
(***************************************************************************)
EXTENDS Extractor, TLC

CONSTANTS digits, words

TextValues == digits :> 2 @@ words :> NULL

Keys == {"Leverage", "Liquidity"}
Ratios == {"Liquidity", "Scope-adjusted FFO/debt"}

\* Labels for the time series, with one that no template has.
SeriesLabels == Ratios \cup {Header, "Leverage", "Remarks"}
AllLabels == SeriesLabels \cup Lists

BlankRow == [label |-> NULL, cells |-> [c \in 1..Width |-> NULL]]
SeriesRows == {BlankRow} \cup [label : SeriesLabels, cells : [1..Width -> {1, 2, words, NULL}]]
SegmentRows == [label : {"Industry risk", "Industry risk score", "Industry weight"},
                cells : [1..Width -> {1, words, NULL}]]

SheetOf(rows) == \A i \in DOMAIN sheet : sheet[i] \in rows

SheetNext == \/ Len(sheet) < 2 /\ Next
             \/ Assemble
             \/ /\ Len(sheet) = 2 /\ SheetOf(SeriesRows)
                /\ \E r \in SeriesRows : ReadRow(r)
             \/ /\ Len(sheet) \in 2..3 /\ SheetOf(SegmentRows)
                /\ \E r \in SegmentRows : ReadRow(r)

SheetSpec == Init /\ [][SheetNext]_vars
=============================================================================
