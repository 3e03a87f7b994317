----------------------------- MODULE MCFileLoad -----------------------------
(* Instances of FileLoad and ReadModel for TLC. *)
EXTENDS ReadModel, TLC

CONSTANTS f1, f2, f3, f4, corpA, corpB, x, y, z, BBB, BB, tA, tB

\* Four files.  The first three rate company A: f2 differs from f1 in sector,
\* content and rating; f3 differs from f1 in country only, so it has no delta
\* to f1 although the company changes.  f4 rates company B and has no final
\* rating.
MCFileName == [f \in File |-> IF f = f4 THEN corpB ELSE corpA]
MCFileAttrs == [f \in File |-> [k \in Field |->
                                  IF <<f, k>> \in {<<f2, "sector">>, <<f3, "country">>} THEN 2 ELSE 1]]
MCFileContent == [f \in File |-> CASE f = f2 -> y [] f = f4 -> z [] OTHER -> x]

MCRatingOf == x :> BBB @@ y :> BB @@ z :> NULL
MCField == {"sector", "country"}
MCValue == {1, 2}

-----------------------------------------------------------------------------
(* The tables after one load of f1 has been committed for tenant t. *)
SeededInit ==
  \E t \in Tenant :
    LET first == [NoTx EXCEPT !.file = f1, !.tenant = t, !.id = 1,
                              !.outcome = "processed", !.version = 1]
    IN  /\ uploads = {[id |-> 1, tenant |-> t, hash |-> f1, raw |-> f1, name |-> FileName[f1],
                       status |-> "processed", from |-> 0]}
        /\ companies = {NewRow(first, 1)}
        /\ changes = {}
        /\ snapshots = {[id |-> 1, tenant |-> t, name |-> FileName[f1], company |-> 1,
                         version |-> 1, content |-> FileContent[f1]]}
        /\ migrations = {[to |-> 1, from |-> 0, old |-> NULL, new |-> RatingOf[FileContent[f1]]]}
        /\ watermarks = {[id |-> 1, tenant |-> t, name |-> FileName[f1], upload |-> 1]}
        /\ clock = 1
        /\ pc = [l \in Loader |-> "idle"]
        /\ tx = [l \in Loader |-> NoTx]
        /\ result = [l \in Loader |-> NULL]

SeededSpec == SeededInit /\ [][Next]_vars

\* Loads that overlap, over empty tables or after a first load.
OverlapSpec == /\ Init \/ SeededInit
               /\ [][Next]_vars
               /\ \A l \in Loader : WF_vars(Proceed(l))
=============================================================================
