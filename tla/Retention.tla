----------------------------- MODULE Retention -----------------------------
(***************************************************************************)
(* Retention (app/retention.py): enforce_all_policies goes through the     *)
(* active policies, one transaction each, while the rows of the tables     *)
(* come in and grow old.  The statements run on PostgreSQL, where a        *)
(* statement that fails inside a transaction makes every later one of the  *)
(* same transaction fail.  No statement asks for the tenant of a row or of  *)
(* a policy, so neither has one here.                                      *)
(***************************************************************************)
EXTENDS Integers, FiniteSets

CONSTANTS Policy,       \* active rows of retention_policies
          PolicyTable,  \* [Policy -> Table], table_name
          MaxRows       \* bound on the rows that come in

Table == {"uploads", "cdc_events", "field_provenance", "pipeline_runs", "api_keys"}

\* The timestamp columns of the tables, among the candidates.
Columns(t) == CASE t = "uploads"       -> {"uploaded_at"}
                [] t = "pipeline_runs" -> {"run_at"}
                [] t = "cdc_events"    -> {"occurred_at"}
                [] t = "api_keys"      -> {"created_at"}
                [] OTHER               -> {}

\* What the constants have to be; the instance assumes it.
PolicyAssumption == PolicyTable \in [Policy -> Table]

VARIABLES
  rows,    \* [id, table, old, kept]: old is "before the cutoff", kept is what
           \* spares an old row: the event is unpublished, the raw file is there
  last,    \* the last id
  todo,    \* policies the running call has not come to
  results  \* of the last or the running call, by table_name

vars == <<rows, last, todo, results>>

Init == /\ rows = {} /\ last = 0 /\ todo = {}
        /\ results = [t \in Table |-> "none"]

-----------------------------------------------------------------------------
(* The life of the rows *)

Insert(t) == /\ last < MaxRows
             /\ last' = last + 1
             /\ rows' = rows \cup {[id |-> last + 1, table |-> t, old |-> FALSE, kept |-> TRUE]}
             /\ UNCHANGED <<todo, results>>

Change(r, q) == rows' = (rows \ {r}) \cup {q} /\ UNCHANGED <<last, todo, results>>

\* The retain_days of the policy pass; an event is published.
GrowOld(r) == ~r.old /\ Change(r, [r EXCEPT !.old = TRUE])
Publish(r) == r.table = "cdc_events" /\ r.kept /\ Change(r, [r EXCEPT !.kept = FALSE])

-----------------------------------------------------------------------------
(* enforce_all_policies and enforce_policy *)

Start == /\ todo = {} /\ Policy # {}
         /\ todo' = Policy
         /\ results' = [t \in Table |-> "none"]
         /\ UNCHANGED <<rows, last>>

Old(p) == {r \in rows : r.table = PolicyTable[p] /\ r.old}

\* _guess_timestamp_col: the first candidate is uploaded_at.  On a table
\* without it the SELECT fails, and so does every SELECT after it, and the
\* commit of the policy's own row.
Usable(t) == "uploaded_at" \in Columns(t)

\* What a policy deletes: only published events, any provenance.
Deleted(p) == CASE PolicyTable[p] = "cdc_events"       -> {r \in Old(p) : ~r.kept}
                [] PolicyTable[p] = "field_provenance" -> Old(p)
                [] PolicyTable[p] = "uploads"          -> {}
                [] OTHER                               -> IF Usable(PolicyTable[p]) THEN Old(p) ELSE {}

\* uploads.raw_file is NOT NULL, so setting it to NULL fails if a row is old.
Fails(p) == IF PolicyTable[p] = "uploads" THEN Old(p) # {}
            ELSE PolicyTable[p] \notin {"cdc_events", "field_provenance"} /\ ~Usable(PolicyTable[p])

Report(p, r) == /\ todo' = todo \ {p}
                /\ results' = [results EXCEPT ![PolicyTable[p]] = r]
                /\ UNCHANGED last

\* Mutant: an error ends the call.
Fail_Ends(p) == /\ todo' = {} /\ results' = [results EXCEPT ![PolicyTable[p]] = "error"]
                /\ UNCHANGED <<rows, last>>

\* The policy is rolled back, its error is noted, the next one's turn comes.
Fail(p) == Report(p, "error") /\ UNCHANGED rows

Enforce(p) == /\ p \in todo
              /\ \/ Fail(p)
                 \/ /\ ~Fails(p)
                    /\ rows' = rows \ Deleted(p)
                    /\ Report(p, "ok")

Next == \/ \E t \in Table : Insert(t)
        \/ \E r \in rows : GrowOld(r) \/ Publish(r)
        \/ Start
        \/ \E p \in Policy : Enforce(p)

Spec == Init /\ [][Next]_vars

-----------------------------------------------------------------------------
(* Properties *)

\* Whatever the policies are, a row is deleted only after its time, an event
\* only after it was published, and an upload never: "preserve audit metadata".
OnlyExpiredGo ==
  [][\A r \in rows : (\A q \in rows' : q.id # r.id) =>
       /\ r.old /\ r.table # "uploads"
       /\ r.table = "cdc_events" => ~r.kept
       /\ \E p \in Policy : PolicyTable[p] = r.table]_vars

\* One policy's errors do not stop the others: a call that is over has come to
\* the table of every policy.
PoliciesAreIndependent ==
  [][todo # {} /\ todo' = {} => \A p \in Policy : results'[PolicyTable[p]] # "none"]_vars

PoliciesHold == OnlyExpiredGo /\ PoliciesAreIndependent
=============================================================================
