--------------------------- MODULE SchemaRegistry ---------------------------
(***************************************************************************)
(* One subject of the schema registry (app/schema_registry.py), and        *)
(* POST /admin/schema-registry/register (app/routers/admin.py), called     *)
(* concurrently.  A registration reads the latest version twice, once for  *)
(* the number of the new version and once for the compatibility check, and *)
(* other registrations may commit before, between and after the two.       *)
(*                                                                         *)
(* A manifest is its labels and those of them that are required.  Every    *)
(* version inherits the mode of the first one, which is BACKWARD, and no   *)
(* code sets deprecated_at, so neither is modelled.                        *)
(***************************************************************************)
EXTENDS Integers, FiniteSets

CONSTANTS Client,     \* concurrent callers
          Label,      \* labels of the template
          MaxVersions \* bound on the versions

Manifest == {m \in [labels : SUBSET Label, required : SUBSET Label] : m.required \subseteq m.labels}

ASSUME MaxVersionsAssumption == MaxVersions \in Nat \ {0}

VARIABLES
  schema,  \* schema_versions of the subject: [version -> [manifest, breaking_change]]
  pc,      \* each caller's position
  call,    \* what its call has read so far
  reply    \* the answer to each caller's last call

vars == <<schema, pc, call, reply>>

\* The number of the latest version of s, 0 if there is none.
LatestOf(s) == IF DOMAIN s = {} THEN 0
               ELSE CHOOSE v \in DOMAIN s : \A w \in DOMAIN s : w <= v

Latest == LatestOf(schema)

NoCall == [manifest |-> [labels |-> {}, required |-> {}], version |-> 0, breaking |-> FALSE]

\* Mutant: optional labels may not go either.
Breaking_Optional(m) == Latest # 0 /\ ~(schema[Latest].manifest.labels \subseteq m.labels)

\* What check_compatibility finds in mode BACKWARD: a label that the latest
\* version requires is missing.
Breaking(m) == Latest # 0 /\ ~(schema[Latest].manifest.required \subseteq m.labels)

\* A subject that nobody registered, or MASTER after seed_v1.
Init == /\ \/ schema = [v \in {} |-> NoCall]
           \/ \E m \in Manifest : schema = [v \in {1} |-> [manifest |-> m, breaking |-> FALSE]]
        /\ pc = [c \in Client |-> "idle"]
        /\ call = [c \in Client |-> NoCall]
        /\ reply = [c \in Client |-> "none"]

\* Mutant: the number is one too high.
ReadLatest_Skips(c, m) ==
  /\ pc[c] = "idle" /\ Latest + 1 < MaxVersions
  /\ pc' = [pc EXCEPT ![c] = "checking"]
  /\ call' = [call EXCEPT ![c] = [manifest |-> m, version |-> Latest + 2, breaking |-> FALSE]]
  /\ UNCHANGED <<schema, reply>>

\* register_new_version: the number of the new version.
ReadLatest(c, m) ==
  /\ pc[c] = "idle" /\ Latest < MaxVersions
  /\ pc' = [pc EXCEPT ![c] = "checking"]
  /\ call' = [call EXCEPT ![c] = [manifest |-> m, version |-> Latest + 1, breaking |-> FALSE]]
  /\ UNCHANGED <<schema, reply>>

\* check_compatibility, against the version that is the latest by now.
Check(c) ==
  /\ pc[c] = "checking"
  /\ pc' = [pc EXCEPT ![c] = "inserting"]
  /\ call' = [call EXCEPT ![c].breaking = Breaking(call[c].manifest)]
  /\ UNCHANGED <<schema, reply>>

Answer(c, r) == /\ pc' = [pc EXCEPT ![c] = "idle"]
                /\ call' = [call EXCEPT ![c] = NoCall]
                /\ reply' = [reply EXCEPT ![c] = r]

\* Mutant: no unique key on (subject, version); the row found first is replaced.
Taken_Never(v) == FALSE

\* uq_schema_subject_version
Taken(v) == v \in DOMAIN schema

\* The registry with one more version.
Store(v, m, b) == [w \in DOMAIN schema \cup {v} |->
                     IF w = v THEN [manifest |-> m, breaking |-> b] ELSE schema[w]]

\* The new version is committed; the caller of a breaking one is told 409,
\* "registration rejected".
Register(c) ==
  /\ pc[c] = "inserting"
  /\ ~Taken(call[c].version)
  /\ schema' = Store(call[c].version, call[c].manifest, call[c].breaking)
  /\ Answer(c, IF call[c].breaking THEN "rejected" ELSE "registered")

\* The insert violates the unique key, or the database fails otherwise.
Raise(c) ==
  /\ pc[c] \in {"checking", "inserting"}
  /\ Answer(c, "error")
  /\ UNCHANGED schema

Next == \E c \in Client : \/ \E m \in Manifest : ReadLatest(c, m)
                          \/ Check(c)
                          \/ Register(c)
                          \/ Raise(c)

Spec == Init /\ [][Next]_vars

-----------------------------------------------------------------------------
(* Properties *)

TypeOK == /\ DOMAIN schema \subseteq 1..MaxVersions
          /\ \A v \in DOMAIN schema : schema[v] \in [manifest : Manifest, breaking : BOOLEAN]
          /\ pc \in [Client -> {"idle", "checking", "inserting"}]
          /\ call \in [Client -> [manifest : Manifest, version : 0..MaxVersions, breaking : BOOLEAN]]
          /\ reply \in [Client -> {"none", "registered", "rejected", "error"}]

\* However registrations overlap, the versions of a subject have no gap.
VersionsAreConsecutive == DOMAIN schema = 1..Latest

\* breaking_change tells whether the version breaks the one right before it,
\* although the check reads the registry apart from the numbering.
BreakingIsHonest ==
  \A v \in DOMAIN schema :
    schema[v].breaking <=>
      v > 1 /\ ~(schema[v - 1].manifest.required \subseteq schema[v].manifest.labels)

\* A version is never changed or lost by a later registration.
VersionsAreKept ==
  [][\A v \in DOMAIN schema : v \in DOMAIN schema' /\ schema'[v] = schema[v]]_vars
=============================================================================
