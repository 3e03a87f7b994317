----------------------------- MODULE ServiceProofs -----------------------------
(***************************************************************************)
(* Proofs about the schema registry, and about approvals, keys and         *)
(* assignments, and retention as parts of the service: for any number of   *)
(* callers, labels and versions, of analysts and decisions, of requests,   *)
(* slugs, keys and assignments, and of policies and rows.                  *)
(***************************************************************************)
EXTENDS MCService, FiniteSetTheorems, TLAPS

(***************************************************************************)
(* The registry.  The heart of the inductive invariant is CallFits: a call *)
(* that still may insert its version, because nobody took the number, has  *)
(* checked itself against the version right before it.                     *)
(***************************************************************************)

RegistryTypeInv == /\ \A v \in DOMAIN schema : schema[v] \in [manifest : Manifest, breaking : BOOLEAN]
                   /\ pc \in [Client -> {"idle", "checking", "inserting"}]
                   /\ call \in [Client -> [manifest : Manifest, version : 0..MaxVersions, breaking : BOOLEAN]]
                   /\ reply \in [Client -> {"none", "registered", "rejected", "error"}]

Consecutive == \E n \in 0..MaxVersions : DOMAIN schema = 1..n

CallFits ==
  \A c \in Client :
    pc[c] # "idle" =>
      /\ call[c].version \in 1..(Latest + 1)
      /\ pc[c] = "inserting" /\ call[c].version = Latest + 1 =>
           (call[c].breaking <=> Breaking(call[c].manifest))

RegistryInv == RegistryTypeInv /\ Consecutive /\ CallFits /\ BreakingIsHonest

\* The latest version of a registry without gaps is the number of its versions.
LEMMA LatestOfInterval ==
  ASSUME NEW s, NEW n \in Nat, DOMAIN s = 1..n
  PROVE  LatestOf(s) = n
<1>1. CASE n = 0
  BY <1>1 DEF LatestOf
<1>2. CASE n # 0
  <2>1. n \in DOMAIN s /\ \A w \in DOMAIN s : w <= n
    BY <1>2
  <2>2. \A v \in DOMAIN s : (\A w \in DOMAIN s : w <= v) => v = n
    BY <2>1
  <2> QED BY <1>2, <2>1, <2>2 DEF LatestOf
<1> QED BY <1>1, <1>2

\* Every initial registry is empty or holds one version, which breaks none.
LEMMA RegistryInit == Init => RegistryInv
<1> SUFFICES ASSUME Init PROVE RegistryInv
  OBVIOUS
<1> USE MaxVersionsAssumption
<1>0. NoCall \in [manifest : Manifest, version : 0..MaxVersions, breaking : BOOLEAN]
  BY DEF NoCall, Manifest
<1>1. /\ pc \in [Client -> {"idle", "checking", "inserting"}]
      /\ call \in [Client -> [manifest : Manifest, version : 0..MaxVersions, breaking : BOOLEAN]]
      /\ reply \in [Client -> {"none", "registered", "rejected", "error"}]
      /\ CallFits
  BY <1>0 DEF Init, CallFits
<1>2. CASE schema = [v \in {} |-> NoCall]
  <2>1. DOMAIN schema = {} /\ DOMAIN schema = 1..0
    BY <1>2
  <2> QED BY <1>1, <2>1 DEF RegistryInv, RegistryTypeInv, Consecutive, BreakingIsHonest
<1>3. ASSUME NEW m \in Manifest, schema = [v \in {1} |-> [manifest |-> m, breaking |-> FALSE]]
      PROVE  RegistryInv
  <2>1. DOMAIN schema = {1} /\ schema[1] = [manifest |-> m, breaking |-> FALSE]
    BY <1>3
  <2>2. \A v \in DOMAIN schema : schema[v] \in [manifest : Manifest, breaking : BOOLEAN]
    <3>1. [manifest |-> m, breaking |-> FALSE] \in [manifest : Manifest, breaking : BOOLEAN]
      OBVIOUS
    <3> QED BY <2>1, <3>1
  <2>3. Consecutive
    <3>1. DOMAIN schema = 1..1 /\ 1 \in 0..MaxVersions
      BY <2>1
    <3> QED BY <3>1 DEF Consecutive
  <2>4. BreakingIsHonest
    BY <2>1 DEF BreakingIsHonest
  <2> QED BY <1>1, <2>2, <2>3, <2>4 DEF RegistryInv, RegistryTypeInv
<1> QED BY <1>2, <1>3 DEF Init

\* The step of a caller that only reads.  Its own call keeps fitting; the
\* others' calls and the registry are as they were.
LEMMA ReadKeeps ==
  ASSUME RegistryInv, NEW c \in Client, UNCHANGED schema, RegistryTypeInv',
         \A d \in Client \ {c} : pc'[d] = pc[d] /\ call'[d] = call[d],
         pc'[c] # "idle" =>
           /\ call'[c].version \in 1..(Latest + 1)
           /\ pc'[c] = "inserting" /\ call'[c].version = Latest + 1 =>
                (call'[c].breaking <=> Breaking(call'[c].manifest))
  PROVE  RegistryInv'
<1>1. Latest' = Latest /\ \A m : Breaking(m)' = Breaking(m)
  BY DEF Latest, Breaking
<1>2. CallFits'
  <2> SUFFICES ASSUME NEW d \in Client, pc'[d] # "idle"
               PROVE  /\ call'[d].version \in 1..(Latest + 1)
                      /\ pc'[d] = "inserting" /\ call'[d].version = Latest + 1 =>
                           (call'[d].breaking <=> Breaking(call'[d].manifest))
    BY <1>1 DEF CallFits
  <2>1. CASE d = c
    BY <2>1
  <2>2. CASE d # c
    BY <2>2 DEF RegistryInv, CallFits
  <2> QED BY <2>1, <2>2
<1>3. Consecutive' /\ BreakingIsHonest'
  BY DEF RegistryInv, Consecutive, BreakingIsHonest
<1> QED BY <1>2, <1>3 DEF RegistryInv

LEMMA ReadLatestInv ==
  ASSUME RegistryInv, NEW c \in Client, NEW m \in Manifest, ReadLatest(c, m)
  PROVE  RegistryInv'
<1> USE MaxVersionsAssumption
<1>1. PICK n \in 0..MaxVersions : DOMAIN schema = 1..n
  BY DEF RegistryInv, Consecutive
<1>2. Latest = n
  BY <1>1, LatestOfInterval DEF Latest
<1>3. [manifest |-> m, version |-> Latest + 1, breaking |-> FALSE]
        \in [manifest : Manifest, version : 0..MaxVersions, breaking : BOOLEAN]
  BY <1>2 DEF ReadLatest
<1>4. RegistryTypeInv'
  BY <1>3 DEF RegistryInv, RegistryTypeInv, ReadLatest
<1>5. /\ pc'[c] = "checking"
      /\ call'[c].version = Latest + 1
      /\ \A d \in Client \ {c} : pc'[d] = pc[d] /\ call'[d] = call[d]
      /\ UNCHANGED schema
  BY DEF RegistryInv, RegistryTypeInv, ReadLatest
<1> QED BY <1>2, <1>4, <1>5, ReadKeeps

LEMMA CheckInv ==
  ASSUME RegistryInv, NEW c \in Client, Check(c)
  PROVE  RegistryInv'
<1>1. Breaking(call[c].manifest) \in BOOLEAN
  BY DEF Breaking
<1>2. RegistryTypeInv'
  BY <1>1 DEF RegistryInv, RegistryTypeInv, Check
<1>3. /\ call'[c].version = call[c].version
      /\ call'[c].manifest = call[c].manifest
      /\ call'[c].breaking = Breaking(call[c].manifest)
      /\ \A d \in Client \ {c} : pc'[d] = pc[d] /\ call'[d] = call[d]
      /\ UNCHANGED schema
  BY DEF RegistryInv, RegistryTypeInv, Check
<1>4. call[c].version \in 1..(Latest + 1)
  BY DEF RegistryInv, CallFits, Check
<1> QED BY <1>2, <1>3, <1>4, ReadKeeps

LEMMA RaiseInv ==
  ASSUME RegistryInv, NEW c \in Client, Raise(c)
  PROVE  RegistryInv'
<1>1. NoCall \in [manifest : Manifest, version : 0..MaxVersions, breaking : BOOLEAN]
  BY MaxVersionsAssumption DEF NoCall, Manifest
<1>2. RegistryTypeInv'
  BY <1>1 DEF RegistryInv, RegistryTypeInv, Raise, Answer
<1>3. /\ pc'[c] = "idle"
      /\ \A d \in Client \ {c} : pc'[d] = pc[d] /\ call'[d] = call[d]
      /\ UNCHANGED schema
  BY DEF RegistryInv, RegistryTypeInv, Raise, Answer
<1> QED BY <1>2, <1>3, ReadKeeps

\* The unique key lets a call through only with the number after the latest,
\* and that call was checked against the latest.
LEMMA RegisterInv ==
  ASSUME RegistryInv, NEW c \in Client, Register(c)
  PROVE  /\ RegistryInv'
         /\ \A v \in DOMAIN schema : v \in DOMAIN schema' /\ schema'[v] = schema[v]
<1> USE MaxVersionsAssumption
<1> DEFINE v == call[c].version
           row == [manifest |-> call[c].manifest, breaking |-> call[c].breaking]
<1>1. PICK n \in 0..MaxVersions : DOMAIN schema = 1..n
  BY DEF RegistryInv, Consecutive
<1>2. Latest = n
  BY <1>1, LatestOfInterval DEF Latest
<1>3. v = n + 1 /\ v \in 0..MaxVersions
  BY <1>1, <1>2 DEF RegistryInv, RegistryTypeInv, CallFits, Register, Taken
<1>4. row \in [manifest : Manifest, breaking : BOOLEAN]
  BY DEF RegistryInv, RegistryTypeInv
<1>5. /\ DOMAIN schema' = 1..(n + 1)
      /\ schema'[v] = row
      /\ \A w \in 1..n : schema'[w] = schema[w]
  BY <1>1, <1>3 DEF Register, Store
<1>6. Latest' = n + 1
  <2>1. LatestOf(schema') = n + 1
    BY <1>5, LatestOfInterval
  <2> QED BY <2>1 DEF Latest
<1>7. RegistryTypeInv'
  <2>1. NoCall \in [manifest : Manifest, version : 0..MaxVersions, breaking : BOOLEAN]
    BY DEF NoCall, Manifest
  <2>2. \A w \in DOMAIN schema' : schema'[w] \in [manifest : Manifest, breaking : BOOLEAN]
    BY <1>1, <1>3, <1>4, <1>5 DEF RegistryInv, RegistryTypeInv
  <2> QED BY <2>1, <2>2 DEF RegistryInv, RegistryTypeInv, Register, Answer
<1>8. Consecutive'
  BY <1>3, <1>5 DEF Consecutive
<1>9. CallFits'
  <2> SUFFICES ASSUME NEW d \in Client, pc'[d] # "idle"
               PROVE  call'[d].version \in 1..(n + 1)
    BY <1>6 DEF CallFits
  <2>1. d # c /\ pc[d] # "idle" /\ call'[d] = call[d]
    BY DEF RegistryInv, RegistryTypeInv, Register, Answer
  <2> QED BY <1>2, <2>1 DEF RegistryInv, CallFits
<1>10. BreakingIsHonest'
  <2> SUFFICES ASSUME NEW w \in 1..(n + 1)
               PROVE  schema'[w].breaking <=>
                        w > 1 /\ ~(schema'[w - 1].manifest.required \subseteq schema'[w].manifest.labels)
    BY <1>5 DEF BreakingIsHonest
  <2>1. CASE w \in 1..n
    <3>1. w > 1 => w - 1 \in 1..n
      BY <2>1
    <3> QED BY <1>1, <1>5, <2>1, <3>1 DEF RegistryInv, BreakingIsHonest
  <2>2. CASE w = n + 1
    <3>1. call[c].breaking <=> Breaking(call[c].manifest)
      BY <1>2, <1>3 DEF RegistryInv, CallFits, Register
    <3>2. Breaking(call[c].manifest) <=> n # 0 /\ ~(schema[n].manifest.required \subseteq call[c].manifest.labels)
      BY <1>2 DEF Breaking
    <3>3. n # 0 => w - 1 = n /\ n \in 1..n
      BY <2>2
    <3> QED BY <1>3, <1>5, <2>2, <3>1, <3>2, <3>3
  <2> QED BY <2>1, <2>2
<1> QED BY <1>1, <1>5, <1>7, <1>8, <1>9, <1>10 DEF RegistryInv

LEMMA RegistryNext == RegistryInv /\ [Next]_vars => RegistryInv'
<1> SUFFICES ASSUME RegistryInv, [Next]_vars PROVE RegistryInv'
  OBVIOUS
<1>1. CASE UNCHANGED vars
  BY <1>1 DEF vars, RegistryInv, RegistryTypeInv, Consecutive, CallFits, BreakingIsHonest, Latest, Breaking
<1>2. CASE Next
  <2>1. PICK c \in Client : \/ \E m \in Manifest : ReadLatest(c, m)
                            \/ Check(c) \/ Register(c) \/ Raise(c)
    BY <1>2 DEF Next
  <2> QED BY <2>1, ReadLatestInv, CheckInv, RegisterInv, RaiseInv
<1> QED BY <1>1, <1>2

LEMMA RegistryInductive == Spec => []RegistryInv
BY RegistryInit, RegistryNext, PTL DEF Spec

\* Every version is a manifest with a flag, and every call of
\* register_new_version is where its position says.
THEOREM RegistryTypes == Spec => []TypeOK
<1>1. RegistryInv => TypeOK
  BY MaxVersionsAssumption DEF RegistryInv, RegistryTypeInv, Consecutive, TypeOK
<1> QED BY <1>1, RegistryInductive, PTL

\* However calls of register_new_version overlap, uq_schema_subject_version
\* keeps the versions of the subject without a gap.
THEOREM Numbering == Spec => []VersionsAreConsecutive
<1>1. RegistryInv => VersionsAreConsecutive
  BY MaxVersionsAssumption, LatestOfInterval DEF RegistryInv, Consecutive, VersionsAreConsecutive, Latest
<1> QED BY <1>1, RegistryInductive, PTL

\* The flag breaking_change compares a version with the one right before it,
\* although the check and the numbering are separate reads.
THEOREM Honesty == Spec => []BreakingIsHonest
<1>1. RegistryInv => BreakingIsHonest
  BY DEF RegistryInv
<1> QED BY <1>1, RegistryInductive, PTL

\* No registration changes or removes a version that is stored.
THEOREM VersionsKept == Spec => VersionsAreKept
<1> DEFINE Keeps == \A v \in DOMAIN schema : v \in DOMAIN schema' /\ schema'[v] = schema[v]
<1>1. RegistryInv /\ [Next]_vars => [Keeps]_vars
  <2> SUFFICES ASSUME RegistryInv, Next PROVE Keeps
    OBVIOUS
  <2>1. PICK c \in Client : Register(c) \/ UNCHANGED schema
    BY DEF Next, ReadLatest, Check, Raise
  <2> QED BY <2>1, RegisterInv
<1> QED BY <1>1, RegistryInductive, PTL DEF Spec, VersionsAreKept

(***************************************************************************)
(* Approvals.  The status is not always the latest decision, since one     *)
(* that equals what it had read writes no status; what makes               *)
(* LatestUpdateWins hold all the same is that decision_at is read under    *)
(* the row lock, which is held to the commit.  What makes                  *)
(* StatusIsADecision hold is that a decision that writes no status had     *)
(* read another's.                                                         *)
(***************************************************************************)

DecisionPc == {"idle", "read", "updated", "committing", "adding"}
SnapshotStatus == Approvals!Decision \cup {"pending"}
DecisionTx == [pc : DecisionPc, seen : SnapshotStatus, decision : Approvals!Decision, at : Nat]

ApprovalTypes == /\ status \in SnapshotStatus /\ decided \in Nat
           /\ holder \in Analyst \cup {NULL}
           /\ tx \in [Analyst -> DecisionTx]
           /\ approvals \subseteq [decision : Approvals!Decision, at : Nat, updated : BOOLEAN]

\* The lock is held from the update to the end of the transaction.
LockInv == \A a \in Analyst : holder = a <=> tx[a].pc \in {"updated", "committing"}

\* The holder's decision_at is later than that of every update before it.
LatestInv ==
  /\ \A r \in approvals : r.at <= decided
  /\ \A a \in Analyst : tx[a].at <= decided
  /\ \A a \in Analyst :
       tx[a].pc = "committing" => \A r \in approvals : r.updated => r.at < tx[a].at

\* Another status than pending was read from somebody's approval.
SeenInv == /\ \A a \in Analyst : tx[a].seen # "pending" => approvals # {}
           /\ \A a \in Analyst : tx[a].pc = "adding" => tx[a].seen = tx[a].decision

ApprovalInv == ApprovalTypes /\ LockInv /\ LatestInv /\ SeenInv /\ Approvals!StatusFollowsApprovals

USE DEF Approvals!Decision, DecisionPc, SnapshotStatus, DecisionTx

\* The lock has one holder.
LEMMA OneHolder ==
  ASSUME Approvals!ApprovalAssumption, LockInv, NEW a \in Analyst, NEW b \in Analyst,
         tx[a].pc \in {"updated", "committing"}, tx[b].pc \in {"updated", "committing"}
  PROVE  a = b
BY DEF LockInv

\* As long as no approval is stored, nothing but the transactions and the
\* clock has changed for what the statuses say.
LEMMA Quiet ==
  ASSUME Approvals!StatusFollowsApprovals, UNCHANGED <<status, approvals>>
  PROVE  Approvals!StatusFollowsApprovals'
BY DEF Approvals!StatusFollowsApprovals, Approvals!StatusIsADecision, Approvals!LatestUpdateWins, Approvals!IsLatest

\* A decision takes note of the status, and of nothing else.
LEMMA ReadStep ==
  ASSUME Approvals!ApprovalAssumption, ApprovalInv, NEW a \in Analyst, NEW d \in Approvals!Decision,
         Approvals!Read(a, d)
  PROVE  ApprovalInv'
<1> USE DEF ApprovalInv, Approvals!Read
<1>1. ApprovalTypes'
  BY DEF ApprovalTypes
<1>2. LockInv'
  BY DEF LockInv, ApprovalTypes
<1>3. LatestInv'
  BY DEF LatestInv, ApprovalTypes
<1>4. SeenInv'
  BY DEF SeenInv, ApprovalTypes, Approvals!StatusFollowsApprovals, Approvals!StatusIsADecision
<1> QED BY <1>1, <1>2, <1>3, <1>4, Quiet

\* The update takes the lock, which was free.
LEMMA UpdateStep ==
  ASSUME Approvals!ApprovalAssumption, ApprovalInv, NEW a \in Analyst, Approvals!Update(a)
  PROVE  ApprovalInv'
<1> USE DEF ApprovalInv, Approvals!Update
<1>1. ApprovalTypes'
  BY DEF ApprovalTypes
<1>2. LockInv'
  BY DEF LockInv, ApprovalTypes, Approvals!Free, Approvals!ApprovalAssumption
<1>3. LatestInv'
  BY DEF LatestInv, ApprovalTypes
<1>4. SeenInv'
  BY DEF SeenInv, ApprovalTypes
<1> QED BY <1>1, <1>2, <1>3, <1>4, Quiet

\* The approval's time is later than all that are stored.
LEMMA InsertStep ==
  ASSUME Approvals!ApprovalAssumption, ApprovalInv, NEW a \in Analyst, Approvals!Insert(a)
  PROVE  ApprovalInv'
<1> USE DEF ApprovalInv, Approvals!Insert
<1>1. ApprovalTypes'
  <2>1. decided + 1 \in Nat /\ tx[a] \in DecisionTx
    BY DEF ApprovalTypes
  <2>2. [tx[a] EXCEPT !.pc = IF @ = "updated" THEN "committing" ELSE "adding", !.at = decided + 1] \in DecisionTx
    BY <2>1
  <2>3. tx' \in [Analyst -> DecisionTx]
    BY <2>2 DEF ApprovalTypes
  <2> QED BY <2>1, <2>3 DEF ApprovalTypes
<1>2. LockInv'
  BY DEF LockInv, ApprovalTypes, Approvals!ApprovalAssumption
<1>3. LatestInv'
  <2>1. \A r \in approvals : r.at \in Nat /\ r.at <= decided /\ r.at < decided + 1
    BY DEF LatestInv, ApprovalTypes
  <2>2. ASSUME NEW b \in Analyst, tx'[b].pc = "committing"
        PROVE  \A r \in approvals : r.updated => r.at < tx'[b].at
    BY <2>1, <2>2 DEF LatestInv, ApprovalTypes
  <2> QED BY <2>1, <2>2 DEF LatestInv, ApprovalTypes
<1>4. SeenInv'
  BY DEF SeenInv, ApprovalTypes, Approvals!Changes
<1> QED BY <1>1, <1>2, <1>3, <1>4, Quiet

\* A transaction that updated the row stores the latest of the decisions that
\* did, and its status; one that did not leaves the status and those decisions.
LEMMA CommitStep ==
  ASSUME Approvals!ApprovalAssumption, ApprovalInv, NEW a \in Analyst, Approvals!Commit(a)
  PROVE  ApprovalInv'
<1> USE DEF ApprovalInv, Approvals!Commit
<1> DEFINE row == [decision |-> tx[a].decision, at |-> tx[a].at, updated |-> tx[a].pc = "committing"]
<1>1. ApprovalTypes'
  <2>1. (tx[a].pc = "committing") \in BOOLEAN
    OBVIOUS
  <2>2. tx[a].decision \in Approvals!Decision /\ tx[a].at \in Nat
    BY DEF ApprovalTypes
  <2>3. row \in [decision : Approvals!Decision, at : Nat, updated : BOOLEAN]
    BY <2>1, <2>2
  <2>4. /\ tx' \in [Analyst -> DecisionTx] /\ decided' \in Nat
        /\ status' \in SnapshotStatus /\ holder' \in Analyst \cup {NULL}
    BY <2>2 DEF ApprovalTypes, Approvals!Release, Approvals!Idle
  <2> QED BY <2>3, <2>4 DEF ApprovalTypes
<1>2. LockInv'
  BY DEF LockInv, ApprovalTypes, Approvals!Release, Approvals!Idle, Approvals!ApprovalAssumption
<1>3. approvals' = approvals \cup {row} /\ row \in approvals'
  OBVIOUS
<1>4. LatestInv'
  <2>1. ASSUME NEW b \in Analyst, tx'[b].pc = "committing"
        PROVE  \A r \in approvals' : r.updated => r.at < tx'[b].at
    <3>1. b # a /\ tx'[b] = tx[b] /\ tx[b].pc = "committing"
      BY <2>1 DEF ApprovalTypes, Approvals!Idle
    <3>2. ~row.updated
      BY <3>1, OneHolder DEF ApprovalTypes
    <3> QED BY <1>3, <3>1, <3>2 DEF LatestInv
  <2> QED BY <1>3, <2>1 DEF LatestInv, ApprovalTypes, Approvals!Idle
<1>5. SeenInv'
  BY <1>3 DEF SeenInv, ApprovalTypes, Approvals!Idle
<1>6. Approvals!StatusIsADecision'
  <2>1. CASE tx[a].pc = "committing"
    BY <2>1, <1>3 DEF Approvals!StatusIsADecision
  <2>2. CASE tx[a].pc = "adding"
    <3>1. approvals # {}
      BY <2>2 DEF SeenInv, ApprovalTypes
    <3> QED BY <2>2, <3>1, <1>3 DEF Approvals!StatusFollowsApprovals, Approvals!StatusIsADecision
  <2> QED BY <2>1, <2>2
<1>7. Approvals!LatestUpdateWins'
  <2> SUFFICES ASSUME NEW r \in approvals', Approvals!IsLatest({q \in approvals' : q.updated}, r)
               PROVE  status' = r.decision
    BY DEF Approvals!LatestUpdateWins, Approvals!IsLatest
  <2>1. CASE tx[a].pc = "committing"
    <3>1. row.at <= r.at /\ r.updated
      BY <2>1, <1>3 DEF Approvals!IsLatest
    <3>2. r = row
      <4>1. \A q \in approvals : q.updated => q.at < row.at /\ q.at \in Nat /\ row.at \in Nat
        BY <2>1 DEF LatestInv, ApprovalTypes
      <4>2. r \notin approvals
        BY <3>1, <4>1
      <4> QED BY <1>3, <4>2
    <3> QED BY <2>1, <3>2
  <2>2. CASE tx[a].pc = "adding"
    <3>1. {q \in approvals' : q.updated} = {q \in approvals : q.updated}
      <4>1. ~row.updated
        BY <2>2
      <4> HIDE DEF row, Approvals!Commit
      <4> QED BY <4>1, <1>3
    <3>2. r \in approvals /\ Approvals!IsLatest({q \in approvals : q.updated}, r)
      BY <3>1 DEF Approvals!IsLatest
    <3> QED BY <2>2, <3>2 DEF Approvals!StatusFollowsApprovals, Approvals!LatestUpdateWins
  <2> QED BY <2>1, <2>2
<1> QED BY <1>1, <1>2, <1>4, <1>5, <1>6, <1>7 DEF Approvals!StatusFollowsApprovals

\* A transaction that fails gives the lock back and leaves nothing.
LEMMA FailStep ==
  ASSUME Approvals!ApprovalAssumption, ApprovalInv, NEW a \in Analyst, Approvals!Fail(a)
  PROVE  ApprovalInv'
<1> USE DEF ApprovalInv, Approvals!Fail
<1>1. ApprovalTypes'
  BY DEF ApprovalTypes, Approvals!Release, Approvals!Idle
<1>2. LockInv'
  BY DEF LockInv, ApprovalTypes, Approvals!Release, Approvals!Idle, Approvals!ApprovalAssumption
<1>3. LatestInv'
  BY DEF LatestInv, ApprovalTypes, Approvals!Idle
<1>4. SeenInv'
  BY DEF SeenInv, ApprovalTypes, Approvals!Idle
<1> QED BY <1>1, <1>2, <1>3, <1>4, Quiet

LEMMA ApprovalNext ==
  ASSUME Approvals!ApprovalAssumption
  PROVE  ApprovalInv /\ [Approvals!Next]_approvalVars => ApprovalInv'
<1> SUFFICES ASSUME ApprovalInv, [Approvals!Next]_approvalVars PROVE ApprovalInv'
  OBVIOUS
<1>1. CASE UNCHANGED approvalVars
  BY <1>1, Quiet DEF approvalVars, ApprovalInv, ApprovalTypes, LockInv, LatestInv, SeenInv
<1>2. CASE Approvals!Next
  BY <1>2, ReadStep, UpdateStep, InsertStep, CommitStep, FailStep DEF Approvals!Next
<1> QED BY <1>1, <1>2

\* However decisions overlap and roll back, a snapshot's approval_status is
\* pending until an approval is stored, then one that is stored, and the
\* latest of those that updated it.
THEOREM AuditTrail == ServiceSpec => []StatusFollowsApprovals
<1>1. ServiceInit => ApprovalInv
  BY ServiceConstants
  DEF ServiceInit, Approvals!Init, ApprovalInv, ApprovalTypes, LockInv, LatestInv, SeenInv, Approvals!Idle,
      Approvals!ApprovalAssumption, Approvals!StatusFollowsApprovals, Approvals!StatusIsADecision,
      Approvals!LatestUpdateWins
<1>2. ApprovalInv /\ [ServiceNext]_allVars => ApprovalInv'
  <2>1. [ServiceNext]_allVars => [Approvals!Next]_approvalVars
    BY DEF ServiceNext, allVars
  <2> QED BY <2>1, ServiceConstants, ApprovalNext
<1>3. ApprovalInv => StatusFollowsApprovals
  BY DEF ApprovalInv, StatusFollowsApprovals
<1> QED BY <1>1, <1>2, <1>3, PTL DEF ServiceSpec

(***************************************************************************)
(* Keys and assignments.  What keeps a revoked key from coming back is     *)
(* that an update writes the columns it assigned and no others; what keeps *)
(* late requests out is that the clock, which names revocations, is at     *)
(* least at the time of every lookup and never ahead of the latest         *)
(* revocation.                                                             *)
(***************************************************************************)

KeyRow == [role : AccessControl!Role, active : BOOLEAN, used : BOOLEAN, revoked : Nat]
AssignmentRow == [key : Nat, active : BOOLEAN]

\* Ids count from 1.
Numbered(f, Rows) == \E n \in Nat : f \in [1..n -> Rows]

RowsInv == Numbered(keys, KeyRow) /\ Numbered(assignments, AssignmentRow) /\ now \in Nat

\* What a request holds was there when it looked, and is there still.
RequestInv ==
  /\ DOMAIN req = AccessRequest
  /\ \A r \in AccessRequest :
       /\ DOMAIN req[r] = {"pc", "key", "at", "op"}
       /\ req[r].key \in {0} \cup DOMAIN keys
       /\ req[r].at \in 0..now
       /\ req[r].pc = "found" => req[r].key # 0
       /\ req[r].pc = "acting" /\ req[r].op.do = "create_api_key" => req[r].op.role \in AccessControl!Role
       /\ req[r].pc = "acting" /\ req[r].op.do = "revoke_api_key" => req[r].op.key \in DOMAIN keys
       /\ req[r].pc = "acting" /\ req[r].op.do = "create_assignment" => req[r].op.key \in Nat

AccessInv == RowsInv /\ RequestInv /\ AccessControl!LateRequestsAreRefused

\* The modules count alike.
LEMMA SameCount == \A S : AccessControl!Cardinality(S) = Cardinality(S)
BY DEF AccessControl!Cardinality, Cardinality

\* The ids of n rows are counted right, so the next one is new.
LEMMA Count ==
  ASSUME NEW f, NEW Rows, NEW n \in Nat, f \in [1..n -> Rows]
  PROVE  DOMAIN f = 1..n /\ Cardinality(DOMAIN f) = n
<1>1. DOMAIN f = 1..n
  OBVIOUS
<1>2. Cardinality(1..n) = n
  BY FS_Interval
<1> QED BY <1>1, <1>2

\* A row is added behind the others, which stay as they are.
LEMMA Added ==
  ASSUME NEW f, NEW Rows, Numbered(f, Rows), NEW row \in Rows,
         NEW g, DOMAIN g = 1..(Cardinality(DOMAIN f) + 1), g = [k \in DOMAIN g |-> g[k]],
         \A k \in DOMAIN g : g[k] = IF k \in DOMAIN f THEN f[k] ELSE row
  PROVE  /\ Numbered(g, Rows)
         /\ DOMAIN f \subseteq DOMAIN g
         /\ \A k \in DOMAIN f : g[k] = f[k]
<1>1. PICK n \in Nat : f \in [1..n -> Rows]
  BY DEF Numbered
<1>2. DOMAIN f = 1..n /\ Cardinality(DOMAIN f) = n
  BY <1>1, Count
<1>3. DOMAIN g = 1..(n + 1) /\ 1..n \subseteq 1..(n + 1)
  BY <1>2
<1>4. g \in [1..(n + 1) -> Rows]
  BY <1>1, <1>2, <1>3
<1> QED BY <1>2, <1>3, <1>4 DEF Numbered

LEMMA AccessInit == AccessControl!Init => AccessInv
<1> SUFFICES ASSUME AccessControl!Init PROVE AccessInv
  OBVIOUS
<1>1. keys \in [1..0 -> KeyRow] /\ assignments \in [1..0 -> AssignmentRow]
  BY DEF AccessControl!Init
<1>2. RowsInv
  BY <1>1 DEF AccessControl!Init, RowsInv, Numbered
<1>3. \A r \in AccessRequest : req[r] = AccessControl!NoRequest
  BY DEF AccessControl!Init
<1>4. RequestInv
  BY <1>3 DEF AccessControl!Init, RequestInv, AccessControl!NoRequest
<1>5. AccessControl!LateRequestsAreRefused
  BY <1>3 DEF AccessControl!LateRequestsAreRefused, AccessControl!NoRequest
<1> QED BY <1>2, <1>4, <1>5 DEF AccessInv

\* What no step may undo.
Kept == /\ \A k \in DOMAIN keys : ~keys[k].active => ~keys'[k].active
        /\ \A a \in DOMAIN assignments : ~assignments[a].active => ~assignments'[a].active

\* The requests that have not acted find the keys they hold in any larger
\* set of keys, in which none is active again or was revoked earlier.
LEMMA Ended ==
  ASSUME AccessInv, RowsInv', NEW r \in AccessRequest, req' = [req EXCEPT ![r] = AccessControl!NoRequest],
         DOMAIN keys \subseteq DOMAIN keys', now <= now',
         \A k \in DOMAIN keys : \/ keys'[k].active = keys[k].active /\ keys'[k].revoked = keys[k].revoked
                                \/ keys[k].active /\ keys'[k].revoked > now
  PROVE  RequestInv' /\ AccessControl!LateRequestsAreRefused'
<1>1. RequestInv'
  BY DEF AccessInv, RowsInv, RequestInv, AccessControl!NoRequest
<1>2. ASSUME NEW q \in AccessRequest, req'[q].key # 0
      PROVE  keys'[req'[q].key].active \/ req'[q].at < keys'[req'[q].key].revoked
  <2>1. q # r /\ req'[q] = req[q]
    BY <1>2 DEF AccessInv, RequestInv, AccessControl!NoRequest
  <2>2. req[q].key \in DOMAIN keys /\ req[q].at \in 0..now /\ now \in Nat
    BY <1>2, <2>1 DEF AccessInv, RowsInv, RequestInv
  <2>3. keys[req[q].key].active \/ req[q].at < keys[req[q].key].revoked
    BY <1>2, <2>1 DEF AccessInv, AccessControl!LateRequestsAreRefused
  <2>4. keys[req[q].key] \in KeyRow
    BY <2>2 DEF AccessInv, RowsInv, Numbered
  <2>5. CASE keys'[req[q].key].active = keys[req[q].key].active
               /\ keys'[req[q].key].revoked = keys[req[q].key].revoked
    BY <2>1, <2>3, <2>5
  <2>6. CASE keys'[req[q].key].revoked > now
    <3>1. keys'[req[q].key].revoked \in Nat
      BY <2>2 DEF RowsInv, Numbered, KeyRow
    <3> QED BY <2>1, <2>2, <2>6, <3>1
  <2> QED BY <2>1, <2>2, <2>5, <2>6
<1> QED BY <1>1, <1>2 DEF AccessControl!LateRequestsAreRefused

\* Steps that concern nobody but a request: looking a key up, doing without
\* one, looking at the rows, ending.
LEMMA OwnSteps ==
  ASSUME AccessInv, NEW r \in AccessRequest, UNCHANGED <<tenants, keys, assignments, now>>,
         \/ \E k \in DOMAIN keys : AccessControl!Find(r, k)
         \/ AccessControl!Anonymous(r) \/ AccessControl!End(r)
         \/ \E op \in AccessControl!Ops : AccessControl!Look(r, op)
  PROVE  AccessInv' /\ Kept
<1>1. RowsInv' /\ Kept
  BY DEF AccessInv, RowsInv, Kept
<1>2. CASE \E k \in DOMAIN keys : AccessControl!Find(r, k)
  <2>1. PICK k \in DOMAIN keys : AccessControl!Find(r, k)
    BY <1>2
  <2>2. k # 0
    BY <2>1 DEF AccessInv, RowsInv, Numbered
  <2>3. RequestInv'
    BY <2>1, <2>2 DEF AccessInv, RowsInv, RequestInv, AccessControl!Find
  <2>4. AccessControl!LateRequestsAreRefused'
    BY <2>1, <2>2 DEF AccessInv, RequestInv, AccessControl!LateRequestsAreRefused,
        AccessControl!Find, AccessControl!Accepted
  <2> QED BY <1>1, <2>3, <2>4 DEF AccessInv
<1>3. CASE AccessControl!Anonymous(r)
  <2>1. RequestInv'
    BY <1>3 DEF AccessInv, RequestInv, AccessControl!Anonymous
  <2>2. AccessControl!LateRequestsAreRefused'
    BY <1>3 DEF AccessInv, RequestInv, AccessControl!LateRequestsAreRefused, AccessControl!Anonymous
  <2> QED BY <1>1, <2>1, <2>2 DEF AccessInv
<1>4. CASE AccessControl!End(r)
  <2>1. req' = [req EXCEPT ![r] = AccessControl!NoRequest] /\ now <= now'
    BY <1>4 DEF AccessControl!End, AccessInv, RowsInv
  <2> QED BY <1>1, <2>1, Ended DEF AccessInv
<1>5. CASE \E op \in AccessControl!Ops : AccessControl!Look(r, op)
  <2>1. PICK op \in AccessControl!Ops : AccessControl!Look(r, op)
    BY <1>5
  <2>2. /\ op.do = "create_api_key" => op.role \in AccessControl!Role
        /\ op.do = "revoke_api_key" => op.key \in DOMAIN keys
        /\ op.do = "create_assignment" => op.key \in Nat
    <3>1. op \in AccessControl!Ops
      BY <2>1
    <3>2. op.do = "create_api_key" => op.role \in AccessControl!Role
      BY <3>1 DEF AccessControl!Ops
    <3>3. op.do = "revoke_api_key" => op.key \in DOMAIN keys
      BY <3>1 DEF AccessControl!Ops
    <3>4. op.do = "create_assignment" => op.key \in DOMAIN keys
      BY <3>1 DEF AccessControl!Ops
    <3>5. DOMAIN keys \subseteq Nat
      BY DEF AccessInv, RowsInv, Numbered
    <3> QED BY <3>2, <3>3, <3>4, <3>5
  <2>3. RequestInv'
    <3>1. req' = [req EXCEPT ![r] = [req[r] EXCEPT !.pc = "acting", !.op = op]]
      BY <2>1 DEF AccessInv, RequestInv, AccessControl!Look
    <3>2. /\ DOMAIN req' = AccessRequest /\ \A q \in AccessRequest : q # r => req'[q] = req[q]
          /\ DOMAIN req'[r] = {"pc", "key", "at", "op"}
          /\ req'[r].key = req[r].key /\ req'[r].at = req[r].at
          /\ req'[r].pc = "acting" /\ req'[r].op = op
      BY <3>1 DEF AccessInv, RequestInv
    <3> QED BY <2>2, <3>2 DEF AccessInv, RequestInv
  <2>4. AccessControl!LateRequestsAreRefused'
    BY <2>1 DEF AccessInv, RequestInv, AccessControl!LateRequestsAreRefused, AccessControl!Look
  <2> QED BY <1>1, <2>3, <2>4 DEF AccessInv
<1> QED BY <1>2, <1>3, <1>4, <1>5

\* last_used_at: the row that is written back keeps its column is_active.
LEMMA TouchStep ==
  ASSUME AccessInv, NEW r \in AccessRequest, AccessControl!Touch(r)
  PROVE  AccessInv' /\ Kept
<1>1. PICK n \in Nat : keys \in [1..n -> KeyRow]
  BY DEF AccessInv, RowsInv, Numbered
<1>2. req[r].key \in DOMAIN keys
  BY DEF AccessControl!Touch, AccessInv, RequestInv
<1>3. AccessControl!Touched(r) \in KeyRow /\ AccessControl!Touched(r).active = keys[req[r].key].active
        /\ AccessControl!Touched(r).revoked = keys[req[r].key].revoked
  BY <1>1, <1>2 DEF AccessControl!Touched, KeyRow
<1>4. keys' \in [1..n -> KeyRow]
  BY <1>1, <1>3 DEF AccessControl!Touch
<1>5. RowsInv'
  BY <1>4 DEF AccessControl!Touch, AccessInv, RowsInv, Numbered
<1>6. DOMAIN keys' = DOMAIN keys
        /\ \A k \in DOMAIN keys : keys'[k].active = keys[k].active /\ keys'[k].revoked = keys[k].revoked
  BY <1>1, <1>2, <1>3 DEF AccessControl!Touch
<1>7. RequestInv'
  BY <1>6 DEF AccessControl!Touch, AccessInv, RequestInv
<1>8. AccessControl!LateRequestsAreRefused'
  BY <1>6 DEF AccessControl!Touch, AccessInv, RequestInv, AccessControl!LateRequestsAreRefused
<1> QED BY <1>5, <1>6, <1>7, <1>8 DEF AccessInv, Kept, AccessControl!Touch

LEMMA CreateTenantStep ==
  ASSUME AccessInv, NEW r \in AccessRequest, AccessControl!CreateTenant(r)
  PROVE  AccessInv' /\ Kept
<1>1. RowsInv' /\ Kept
  BY DEF AccessControl!CreateTenant, AccessInv, RowsInv, Kept
<1>2. req' = [req EXCEPT ![r] = AccessControl!NoRequest] /\ now <= now' /\ keys' = keys
  BY DEF AccessControl!CreateTenant, AccessControl!Does, AccessInv, RowsInv
<1> QED BY <1>1, <1>2, Ended DEF AccessInv

LEMMA CreateApiKeyStep ==
  ASSUME AccessInv, NEW r \in AccessRequest, AccessControl!CreateApiKey(r)
  PROVE  AccessInv' /\ Kept
<1> DEFINE row == [role |-> req[r].op.role, active |-> TRUE, used |-> FALSE, revoked |-> 0]
<1>1. row \in KeyRow
  <2>1. req[r].pc = "acting" /\ req[r].op.do = "create_api_key"
    BY DEF AccessControl!CreateApiKey, AccessControl!Does
  <2>2. req[r].op.role \in AccessControl!Role
    BY <2>1 DEF AccessInv, RequestInv
  <2> QED BY <2>2 DEF KeyRow
<1>2. keys' = [k \in 1..(Cardinality(DOMAIN keys) + 1) |-> IF k \in DOMAIN keys THEN keys[k] ELSE row]
  BY SameCount DEF AccessControl!CreateApiKey
<1> HIDE DEF row
<1>3. Numbered(keys', KeyRow) /\ DOMAIN keys \subseteq DOMAIN keys'
        /\ \A k \in DOMAIN keys : keys'[k] = keys[k]
  <2>1. /\ DOMAIN keys' = 1..(Cardinality(DOMAIN keys) + 1) /\ keys' = [k \in DOMAIN keys' |-> keys'[k]]
        /\ \A k \in DOMAIN keys' : keys'[k] = IF k \in DOMAIN keys THEN keys[k] ELSE row
    BY <1>2
  <2>2. Numbered(keys, KeyRow)
    BY DEF AccessInv, RowsInv
  <2> QED BY <1>1, <2>1, <2>2, Added
<1>4. RowsInv' /\ Kept
  BY <1>3 DEF AccessControl!CreateApiKey, AccessInv, RowsInv, Kept
<1>5. req' = [req EXCEPT ![r] = AccessControl!NoRequest] /\ now <= now'
  BY DEF AccessControl!CreateApiKey, AccessControl!Does, AccessInv, RowsInv
<1> QED BY <1>3, <1>4, <1>5, Ended DEF AccessInv

\* A key is revoked at a time that is later than all lookups so far.
LEMMA RevokeApiKeyStep ==
  ASSUME AccessInv, NEW r \in AccessRequest, AccessControl!RevokeApiKey(r)
  PROVE  AccessInv' /\ Kept
<1> DEFINE k == req[r].op.key
<1>1. req' = [req EXCEPT ![r] = AccessControl!NoRequest] /\ k \in DOMAIN keys
  <2>1. req[r].pc = "acting" /\ req[r].op.do = "revoke_api_key" /\ req' = [req EXCEPT ![r] = AccessControl!NoRequest]
    BY DEF AccessControl!RevokeApiKey, AccessControl!Does
  <2> QED BY <2>1 DEF AccessInv, RequestInv
<1>2. CASE ~keys[k].active
  <2>1. keys' = keys /\ now' = now /\ assignments' = assignments
    BY <1>2 DEF AccessControl!RevokeApiKey
  <2>2. RowsInv' /\ Kept /\ now <= now'
    BY <2>1 DEF AccessInv, RowsInv, Kept
  <2> QED BY <1>1, <2>1, <2>2, Ended DEF AccessInv
<1>3. CASE keys[k].active
  <2>1. keys' = [keys EXCEPT ![k] = [keys[k] EXCEPT !.active = FALSE, !.revoked = now + 1]] /\ now' = now + 1
          /\ assignments' = assignments
    BY <1>3 DEF AccessControl!RevokeApiKey
  <2> HIDE DEF k
  <2>2. PICK n \in Nat : keys \in [1..n -> KeyRow]
    BY DEF AccessInv, RowsInv, Numbered
  <2>3. now \in Nat
    BY DEF AccessInv, RowsInv
  <2>4. keys' \in [1..n -> KeyRow] /\ DOMAIN keys' = DOMAIN keys
    <3>0. keys[k] \in KeyRow /\ now + 1 \in Nat
      BY <1>1, <2>2, <2>3
    <3>1. [keys[k] EXCEPT !.active = FALSE, !.revoked = now + 1] \in KeyRow
      BY <3>0 DEF KeyRow
    <3> QED BY <2>1, <2>2, <3>1
  <2>5. RowsInv' /\ now <= now'
    BY <2>1, <2>3, <2>4 DEF AccessInv, RowsInv, Numbered
  <2>6. \A q \in DOMAIN keys : q # k => keys'[q] = keys[q]
    BY <2>1, <2>2
  <2>7. keys'[k].active = FALSE /\ keys'[k].revoked = now + 1
    <3>1. keys[k] \in KeyRow
      BY <1>1, <2>2
    <3> QED BY <1>1, <2>1, <3>1 DEF KeyRow
  <2>8. \A q \in DOMAIN keys :
          \/ keys'[q].active = keys[q].active /\ keys'[q].revoked = keys[q].revoked
          \/ keys[q].active /\ keys'[q].revoked > now
    BY <1>3, <2>3, <2>6, <2>7
  <2>9. Kept
    BY <2>1, <2>6, <2>7 DEF Kept
  <2> QED BY <1>1, <2>4, <2>5, <2>8, <2>9, Ended DEF AccessInv
<1> QED BY <1>2, <1>3

LEMMA CreateAssignmentStep ==
  ASSUME AccessInv, NEW r \in AccessRequest, AccessControl!CreateAssignment(r)
  PROVE  AccessInv' /\ Kept
<1> DEFINE row == [key |-> req[r].op.key, active |-> TRUE]
<1>1. row \in AssignmentRow
  <2>1. req[r].pc = "acting" /\ req[r].op.do = "create_assignment"
    BY DEF AccessControl!CreateAssignment, AccessControl!Does
  <2>2. req[r].op.key \in Nat
    BY <2>1 DEF AccessInv, RequestInv
  <2> QED BY <2>2 DEF AssignmentRow
<1>2. assignments' = [a \in 1..(Cardinality(DOMAIN assignments) + 1) |->
                        IF a \in DOMAIN assignments THEN assignments[a] ELSE row]
  BY SameCount DEF AccessControl!CreateAssignment
<1> HIDE DEF row
<1>3. Numbered(assignments', AssignmentRow) /\ \A a \in DOMAIN assignments : assignments'[a] = assignments[a]
  <2>1. /\ DOMAIN assignments' = 1..(Cardinality(DOMAIN assignments) + 1)
        /\ assignments' = [k \in DOMAIN assignments' |-> assignments'[k]]
        /\ \A k \in DOMAIN assignments' : assignments'[k] = IF k \in DOMAIN assignments THEN assignments[k] ELSE row
    BY <1>2
  <2>2. Numbered(assignments, AssignmentRow)
    BY DEF AccessInv, RowsInv
  <2> QED BY <1>1, <2>1, <2>2, Added
<1>4. RowsInv' /\ Kept
  BY <1>3 DEF AccessControl!CreateAssignment, AccessInv, RowsInv, Kept
<1>5. req' = [req EXCEPT ![r] = AccessControl!NoRequest] /\ now <= now' /\ keys' = keys
  BY DEF AccessControl!CreateAssignment, AccessControl!Does, AccessInv, RowsInv
<1> QED BY <1>4, <1>5, Ended DEF AccessInv

LEMMA UnassignStep ==
  ASSUME AccessInv, NEW r \in AccessRequest, AccessControl!Unassign(r)
  PROVE  AccessInv' /\ Kept
<1> DEFINE a == req[r].op.id
<1>1. PICK n \in Nat : assignments \in [1..n -> AssignmentRow]
  BY DEF AccessInv, RowsInv, Numbered
<1>2. assignments' = [assignments EXCEPT ![a].active = FALSE]
  BY DEF AccessControl!Unassign
<1> HIDE DEF a
<1>3. assignments' \in [1..n -> AssignmentRow]
  BY <1>1, <1>2 DEF AssignmentRow
<1>4. \A b \in DOMAIN assignments : ~assignments[b].active => ~assignments'[b].active
  BY <1>1, <1>2 DEF AssignmentRow
<1>5. RowsInv' /\ Kept
  BY <1>3, <1>4 DEF AccessControl!Unassign, AccessInv, RowsInv, Numbered, Kept
<1>6. req' = [req EXCEPT ![r] = AccessControl!NoRequest] /\ now <= now' /\ keys' = keys
  BY DEF AccessControl!Unassign, AccessControl!Does, AccessInv, RowsInv
<1> QED BY <1>5, <1>6, Ended DEF AccessInv

LEMMA AccessNext == AccessInv /\ [AccessControl!Next]_accessVars => AccessInv' /\ (Kept \/ UNCHANGED accessVars)
<1> SUFFICES ASSUME AccessInv, [AccessControl!Next]_accessVars PROVE AccessInv' /\ (Kept \/ UNCHANGED accessVars)
  OBVIOUS
<1>1. CASE UNCHANGED accessVars
  BY <1>1 DEF accessVars, AccessInv, RowsInv, RequestInv, AccessControl!LateRequestsAreRefused
<1>2. CASE AccessControl!Next
  <2>1. PICK r \in AccessRequest :
          \/ \E k \in DOMAIN keys : AccessControl!Find(r, k)
          \/ AccessControl!Touch(r) \/ AccessControl!Anonymous(r) \/ AccessControl!End(r)
          \/ \E op \in AccessControl!Ops : AccessControl!Look(r, op)
          \/ AccessControl!CreateTenant(r) \/ AccessControl!CreateApiKey(r) \/ AccessControl!RevokeApiKey(r)
          \/ AccessControl!CreateAssignment(r) \/ AccessControl!Unassign(r)
    BY <1>2 DEF AccessControl!Next
  <2>2. CASE \/ \E k \in DOMAIN keys : AccessControl!Find(r, k)
            \/ AccessControl!Anonymous(r) \/ AccessControl!End(r)
            \/ \E op \in AccessControl!Ops : AccessControl!Look(r, op)
    <3>1. UNCHANGED <<tenants, keys, assignments, now>>
      BY <2>2 DEF AccessControl!Find, AccessControl!Anonymous, AccessControl!End, AccessControl!Look
    <3> QED BY <2>2, <3>1, OwnSteps
  <2> QED BY <2>1, <2>2, TouchStep, CreateTenantStep, CreateApiKeyStep, RevokeApiKeyStep,
             CreateAssignmentStep, UnassignStep
<1> QED BY <1>1, <1>2

LEMMA AccessOfService == ServiceSpec => AccessControl!Init /\ [][AccessControl!Next]_accessVars
<1>1. ServiceInit => AccessControl!Init
  BY DEF ServiceInit
<1>2. [ServiceNext]_allVars => [AccessControl!Next]_accessVars
  BY DEF ServiceNext, allVars
<1> QED BY <1>1, <1>2, PTL DEF ServiceSpec

\* A request that is let in with a key was begun before the key was revoked
\* (get_current_key), however many requests and revocations overlap.
THEOREM Refusals == ServiceSpec => []LateRequestsAreRefused
<1>1. AccessInv => LateRequestsAreRefused
  BY DEF AccessInv, LateRequestsAreRefused
<1> QED BY <1>1, AccessInit, AccessNext, AccessOfService, PTL

\* A key that was revoked and an assignment that was ended are not brought
\* back by a request that had read the row before (security.py, admin.py,
\* workflow.py).
THEOREM Ends == ServiceSpec => EndsAreFinal
<1>1. AccessInv /\ [AccessControl!Next]_accessVars => [Kept]_accessVars
  BY AccessNext
<1> QED BY <1>1, AccessInit, AccessNext, AccessOfService, PTL
  DEF EndsAreFinal, AccessControl!EndsAreFinal, Kept, accessVars, AccessControl!vars

(***************************************************************************)
(* Retention.  A policy sees only old rows of its own table, and a policy  *)
(* that fails leaves a result like one that does not.                      *)
(***************************************************************************)

DataRow == [id : Int, table : Policies!Table, old : BOOLEAN, kept : BOOLEAN]

\* A running call has a result for every policy it has come to.
RetentionInv ==
  /\ rows \subseteq DataRow /\ last \in Int /\ todo \subseteq Policy
  /\ results \in [Policies!Table -> {"none", "ok", "error"}]
  /\ todo # {} => \A p \in Policy \ todo : results[PolicyTable[p]] # "none"

OnlyExpiredGoes ==
  \A r \in rows : (\A q \in rows' : q.id # r.id) =>
    /\ r.old /\ r.table # "uploads"
    /\ r.table = "cdc_events" => ~r.kept
    /\ \E p \in Policy : PolicyTable[p] = r.table

AllHadTheirTurn == todo # {} /\ todo' = {} => \A p \in Policy : results'[PolicyTable[p]] # "none"

LEMMA RetentionInit == Policies!Init => RetentionInv
BY DEF Policies!Init, RetentionInv

LEMMA PoliciesType == PolicyTable \in [Policy -> Policies!Table]
BY ServiceConstants DEF Policies!PolicyAssumption

\* Rows come in, grow old or are published: all of them stay.
LEMMA RowSteps ==
  ASSUME RetentionInv, \/ \E t \in Policies!Table : Policies!Insert(t)
                       \/ \E r \in rows : Policies!GrowOld(r) \/ Policies!Publish(r)
  PROVE  RetentionInv' /\ OnlyExpiredGoes /\ AllHadTheirTurn
<1>1. CASE \E t \in Policies!Table : Policies!Insert(t)
  <2>1. PICK t \in Policies!Table : Policies!Insert(t)
    BY <1>1
  <2> DEFINE row == [id |-> last + 1, table |-> t, old |-> FALSE, kept |-> TRUE]
  <2>2. row \in DataRow /\ last + 1 \in Int
    BY DEF RetentionInv, DataRow
  <2>3. /\ rows' = rows \cup {row} /\ last' = last + 1 /\ todo' = todo /\ results' = results
    BY <2>1 DEF Policies!Insert
  <2> HIDE DEF row
  <2>4. rows \subseteq rows' /\ rows' \subseteq DataRow /\ last' \in Int /\ todo' = todo /\ results' = results
    BY <2>2, <2>3 DEF RetentionInv
  <2> QED BY <2>4 DEF RetentionInv, OnlyExpiredGoes, AllHadTheirTurn
<1>2. ASSUME NEW r \in rows, Policies!GrowOld(r) \/ Policies!Publish(r)
      PROVE  RetentionInv' /\ OnlyExpiredGoes /\ AllHadTheirTurn
  <2>1. PICK q : q \in DataRow /\ q.id = r.id /\ Policies!Change(r, q)
    <3>1. r \in DataRow
      BY DEF RetentionInv
    <3>2. [r EXCEPT !.old = TRUE] \in DataRow /\ [r EXCEPT !.old = TRUE].id = r.id
      BY <3>1 DEF DataRow
    <3>3. [r EXCEPT !.kept = FALSE] \in DataRow /\ [r EXCEPT !.kept = FALSE].id = r.id
      BY <3>1 DEF DataRow
    <3> QED BY <1>2, <3>2, <3>3 DEF Policies!GrowOld, Policies!Publish
  <2> QED BY <2>1 DEF Policies!Change, RetentionInv, OnlyExpiredGoes, AllHadTheirTurn
<1> QED BY <1>1, <1>2

\* A policy's turn ends with a result, and with it only rows it may delete go.
LEMMA EnforceStep ==
  ASSUME RetentionInv, NEW p \in Policy, Policies!Enforce(p)
  PROVE  RetentionInv' /\ OnlyExpiredGoes /\ AllHadTheirTurn
<1>1. PICK o \in {"ok", "error"} :
        /\ todo' = todo \ {p} /\ results' = [results EXCEPT ![PolicyTable[p]] = o] /\ last' = last
        /\ rows' = rows \/ rows' = rows \ Policies!Deleted(p)
  BY DEF Policies!Enforce, Policies!Fail, Policies!Report
<1>2. PolicyTable[p] \in Policies!Table /\ p \in todo
  BY PoliciesType DEF Policies!Enforce
<1>3. results' \in [Policies!Table -> {"none", "ok", "error"}]
  BY <1>1, <1>2 DEF RetentionInv
<1>4. \A q \in Policy \ todo' : results'[PolicyTable[q]] # "none"
  BY <1>1, <1>2, PoliciesType DEF RetentionInv
<1>5. RetentionInv'
  BY <1>1, <1>3, <1>4 DEF RetentionInv
<1>6. AllHadTheirTurn
  BY <1>4 DEF AllHadTheirTurn
<1>7. \A r \in Policies!Deleted(p) :
        /\ r.old /\ r.table = PolicyTable[p] /\ r.table # "uploads"
        /\ r.table = "cdc_events" => ~r.kept
  BY <1>2 DEF Policies!Deleted, Policies!Old, Policies!Usable, Policies!Columns, Policies!Table
<1>8. OnlyExpiredGoes
  BY <1>1, <1>7 DEF OnlyExpiredGoes
<1> QED BY <1>5, <1>6, <1>8

LEMMA RetentionNext ==
  RetentionInv /\ [Policies!Next]_retentionVars => RetentionInv' /\ [OnlyExpiredGoes /\ AllHadTheirTurn]_retentionVars
<1> SUFFICES ASSUME RetentionInv, [Policies!Next]_retentionVars
             PROVE  RetentionInv' /\ [OnlyExpiredGoes /\ AllHadTheirTurn]_retentionVars
  OBVIOUS
<1>1. CASE UNCHANGED retentionVars
  BY <1>1 DEF retentionVars, RetentionInv
<1>2. CASE Policies!Start
  BY <1>2 DEF Policies!Start, RetentionInv, OnlyExpiredGoes, AllHadTheirTurn
<1>3. CASE \E p \in Policy : Policies!Enforce(p)
  BY <1>3, EnforceStep
<1> QED BY <1>1, <1>2, <1>3, RowSteps DEF Policies!Next

\* Whatever the policies are, a row goes only after its time, an event only
\* once it is published and an upload never; and a call that is over has come
\* to every policy, whichever of them failed.
THEOREM Retained == ServiceSpec => PoliciesHold
<1>1. ServiceInit => RetentionInv
  BY RetentionInit DEF ServiceInit
<1>2. [ServiceNext]_allVars => [Policies!Next]_retentionVars
  BY DEF ServiceNext, allVars
<1> QED
  BY <1>1, <1>2, RetentionNext, PTL
  DEF ServiceSpec, PoliciesHold, Policies!PoliciesHold, Policies!OnlyExpiredGo, Policies!PoliciesAreIndependent,
      OnlyExpiredGoes, AllHadTheirTurn, retentionVars, Policies!vars
=============================================================================
