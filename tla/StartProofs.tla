------------------------------ MODULE StartProofs ------------------------------
(***************************************************************************)
(* Proofs about the start of the service: the batch run over any directory *)
(* of files, with any number of retries and runs, and the seeding that     *)
(* comes before it, for any instances, requests, currencies and days.      *)
(***************************************************************************)
EXTENDS MCStart, FiniteSetTheorems, TLAPS

(***************************************************************************)
(* The batch run.  Files have their turns in order, an attempt leaves at   *)
(* most one upload behind, and a session that met an error inside the      *)
(* transaction refuses the next attempt: so no turn stores two uploads,    *)
(* and what a turn counts can be told from what it left.                   *)
(***************************************************************************)

UploadRow == [file : File, run : Nat, status : Result, again : BOOLEAN]
RunRow == [run : Nat, kind : {"batch", "reprocess"}, counts : [Result -> Nat],
           status : {"running", "completed", "partial", "failed"}]

RunTypes ==
  /\ uploads \subseteq UploadRow /\ IsFiniteSet(uploads) /\ rows \subseteq RunRow
  /\ run \in Nat /\ kind \in {"batch", "reprocess"} /\ pc \in {"idle", "files"}
  /\ todo \in Seq(File) /\ counts \in [Result -> Nat]

\* Runs are numbered, and the summary of a run is its last word.
RunsAreNumbered ==
  /\ \A u \in uploads : u.run <= run
  /\ \A q \in rows : q.run <= run /\ (pc = "files" /\ q.run = run => q.status = "running")

UploadsOf(k) == {u \in uploads : u.run = k}
Loaded(f) == \E u \in uploads : u.file = f /\ u.status # "failed"

\* The number of files that had their turn in a batch.
Turns == Len(Files) - Len(todo)

FilesInOrder ==
  /\ Len(todo) <= Len(Files)
  /\ \A i \in 1..Len(todo) : todo[i] = Files[Turns + i]

CountsOfTurns ==
  /\ counts["processed"] + counts["skipped"] + counts["skipped_no_delta"] + counts["failed"] = Turns
  /\ \A s \in {"processed", "skipped_no_delta"} : counts[s] <= Stored(run, s)
  /\ Cardinality(UploadsOf(run)) + counts["skipped"] <= Turns + (IF session = "broken" THEN 1 ELSE 0)

\* Only a session that is broken has an upload of the file whose turn it is.
NothingAhead ==
  /\ \A u \in uploads : \A i \in 1..Len(todo) :
       u.run = run /\ u.file = todo[i] => i = 1 /\ session = "broken"
  /\ session = "broken" => todo # <<>> /\ Head(todo) \in hurt

TurnsLoad ==
  /\ counts["failed"] = 0 => \A i \in 1..Turns : Loaded(Files[i])
  /\ row # "lost" => \A i \in 1..Turns : Files[i] \notin Unreadable \cup hurt => Loaded(Files[i])

BatchInv ==
  pc = "files" /\ kind = "batch" => FilesInOrder /\ CountsOfTurns /\ NothingAhead /\ TurnsLoad

RunInv == RunTypes /\ RunsAreNumbered /\ BatchInv /\ RunsAreReported

LEMMA RunInit == Init => RunInv
<1> SUFFICES ASSUME Init PROVE RunInv
  OBVIOUS
<1>1. RunTypes
  BY FS_EmptySet DEF Init, RunTypes, NoCounts
<1>2. RunsAreNumbered /\ BatchInv /\ RunsAreReported
  BY DEF Init, RunsAreNumbered, BatchInv, RunsAreReported, ReportsAreHonest, CountsAreHonest,
         CompletedMeansLoaded, LoadedOnce
<1> QED BY <1>1, <1>2 DEF RunInv

-----------------------------------------------------------------------------
(* What an attempt stores *)

\* x is stored, the upload of the file whose turn it is, in a session that
\* works; as processed by a batch only if the file never was.
Uploaded(x) ==
  /\ x \in UploadRow /\ x.file = Head(todo) /\ x.run = run /\ session # "broken"
  /\ x.status = "processed" /\ ~x.again =>
       \A u \in uploads : u.status = "processed" => u.file # x.file
  /\ uploads' = uploads \cup {x}

\* An attempt stores one upload at most, and its run's row as running.
Attempt ==
  /\ pc = "files" /\ todo # <<>> /\ run' = run /\ kind' = kind
  /\ uploads' = uploads \/ \E x : Uploaded(x)
  /\ rows \subseteq rows' /\ rows' \subseteq RunRow
  /\ \A q \in rows' \ rows : q.run = run /\ q.status = "running"

\* What a load that returns r leaves behind.
LEMMA StoreLeaves ==
  ASSUME RunInv, Attempting, NEW r \in Outcomes, Store(r), run' = run, kind' = kind
  PROVE  /\ Attempt /\ r \in Result
         /\ r = "skipped" => uploads' = uploads /\ Loaded(Head(todo))
         /\ r # "skipped" => \E x : Uploaded(x) /\ x.status = r
         /\ r = "failed" => Head(todo) \in Unreadable
<1> USE DEF RunInv, RunTypes
<1>1. Head(todo) \in File /\ pc = "files" /\ todo # <<>> /\ session # "broken"
  BY DEF Attempting
<1>2. r \in Result
  BY DEF Outcomes, Result
<1>3. r = "failed" => Head(todo) \in Unreadable
  BY DEF Outcomes, Current
<1>4. /\ rows \subseteq rows' /\ rows' \subseteq RunRow
      /\ \A q \in rows' \ rows : q.run = run /\ q.status = "running"
  <2>1. StoreRow
    BY DEF Store, StoreUpload
  <2> DEFINE q == [run |-> run, kind |-> kind, status |-> "running", counts |-> NoCounts]
  <2>2. q \in RunRow /\ q.run = run /\ q.status = "running"
    BY DEF RunRow, NoCounts
  <2>3. rows' = rows \/ rows' = rows \cup {q}
    BY <2>1 DEF StoreRow
  <2> HIDE DEF q
  <2> QED BY <2>2, <2>3
<1>5. CASE r = "skipped"
  <2>1. uploads' = uploads
    BY <1>5 DEF Store, StoreUpload
  <2>2. Gated
    BY <1>5 DEF Outcomes
  <2>3. Loaded(Head(todo))
    BY <2>2 DEF Gated, Loaded, Current
  <2> QED BY <1>1, <1>2, <1>3, <1>4, <1>5, <2>1, <2>3 DEF Attempt
<1>6. CASE r # "skipped"
  <2> DEFINE x == [file |-> Head(todo), run |-> run, status |-> r, again |-> kind = "reprocess"]
  <2>1. uploads' = uploads \cup {x}
    BY <1>6 DEF Store, StoreUpload, Current
  <2>2. x \in UploadRow /\ x.file = Head(todo) /\ x.run = run /\ x.status = r /\ x.again = (kind = "reprocess")
    BY <1>1, <1>2 DEF UploadRow
  <2>3. r = "processed" => ~Gated
    BY DEF Outcomes
  <2>4. r = "processed" /\ kind = "batch" => \A u \in uploads : u.status = "processed" => u.file # Head(todo)
    BY <2>3 DEF Gated, Current
  <2> HIDE DEF x
  <2>5. Uploaded(x)
    BY <1>1, <2>1, <2>2, <2>4 DEF Uploaded
  <2> QED BY <1>1, <1>2, <1>3, <1>4, <1>6, <2>2, <2>5 DEF Attempt
<1> QED BY <1>5, <1>6

\* One more element adds one at most (used for the uploads of a run).
LEMMA AddOne ==
  ASSUME NEW S, IsFiniteSet(S), NEW x
  PROVE  /\ IsFiniteSet(S \cup {x})
         /\ Cardinality(S) \in Nat /\ Cardinality(S \cup {x}) \in Nat
         /\ Cardinality(S) <= Cardinality(S \cup {x}) /\ Cardinality(S \cup {x}) <= Cardinality(S) + 1
         /\ x \notin S => Cardinality(S \cup {x}) = Cardinality(S) + 1
<1>1. /\ IsFiniteSet(S \cup {x})
      /\ Cardinality(S \cup {x}) = IF x \in S THEN Cardinality(S) ELSE Cardinality(S) + 1
  BY FS_AddElement
<1>2. Cardinality(S) \in Nat
  BY FS_CardinalityType
<1> QED BY <1>1, <1>2

\* What an attempt does to the numbers of uploads: those of other runs stay.
LEMMA UploadCounts ==
  ASSUME RunTypes, Attempt
  PROVE  /\ IsFiniteSet(uploads') /\ uploads \subseteq uploads' /\ uploads' \subseteq UploadRow
         /\ Cardinality(UploadsOf(run)) \in Nat /\ Cardinality(UploadsOf(run)') \in Nat
         /\ Cardinality(UploadsOf(run)') <= Cardinality(UploadsOf(run)) + 1
         /\ \A s : Stored(run, s) \in Nat /\ Stored(run, s)' \in Nat /\ Stored(run, s) <= Stored(run, s)'
         /\ \A x : Uploaded(x) /\ x \notin uploads => Stored(run, x.status)' = Stored(run, x.status) + 1
         /\ \A k : k # run => UploadsOf(k)' = UploadsOf(k) /\ \A s : Stored(k, s)' = Stored(k, s)
<1> DEFINE St(s) == {u \in uploads : u.run = run /\ u.status = s}
           Stn(s) == {u \in uploads' : u.run = run /\ u.status = s}
<1>r. run' = run
  BY DEF Attempt
<1>1. IsFiniteSet(UploadsOf(run)) /\ \A s : IsFiniteSet(St(s))
  <2>1. \A V \in SUBSET uploads : IsFiniteSet(V)
    BY FS_Subset DEF RunTypes
  <2>2. UploadsOf(run) \in SUBSET uploads /\ \A s : St(s) \in SUBSET uploads
    BY DEF UploadsOf
  <2> HIDE DEF St
  <2> QED BY <2>1, <2>2
<1>2. /\ Cardinality(UploadsOf(run)) \in Nat
      /\ \A s : Stored(run, s) = Cardinality(St(s)) /\ Cardinality(St(s)) \in Nat
  BY <1>1, FS_CardinalityType DEF Stored
<1>3. CASE uploads' = uploads
  <2>1. \A x : Uploaded(x) => x \in uploads
    BY <1>3 DEF Uploaded
  <2>2. UploadsOf(run)' = UploadsOf(run) /\ \A s : Stored(run, s)' = Stored(run, s)
    BY <1>3, <1>r DEF UploadsOf, Stored
  <2>3. \A k : UploadsOf(k)' = UploadsOf(k) /\ \A s : Stored(k, s)' = Stored(k, s)
    BY <1>3 DEF UploadsOf, Stored
  <2> HIDE DEF St
  <2>4. /\ Cardinality(UploadsOf(run)) \in Nat /\ Cardinality(UploadsOf(run)') = Cardinality(UploadsOf(run))
        /\ \A s : Stored(run, s) \in Nat /\ Stored(run, s)' = Stored(run, s)
    BY <1>2, <2>2
  <2>5. /\ IsFiniteSet(uploads') /\ uploads \subseteq uploads' /\ uploads' \subseteq UploadRow
    BY <1>3 DEF RunTypes
  <2>6. \A m, n \in Nat : m = n => m <= n + 1 /\ m <= n
    OBVIOUS
  <2> QED BY ONLY <2>1, <2>3, <2>4, <2>5, <2>6
<1>4. CASE \E x : Uploaded(x)
  <2> PICK x : Uploaded(x)
    BY <1>4
  <2>1. uploads' = uploads \cup {x} /\ x \in UploadRow /\ x.run = run
    BY DEF Uploaded
  <2>2. IsFiniteSet(uploads')
    BY <2>1, AddOne DEF RunTypes
  <2>3. UploadsOf(run)' = UploadsOf(run) \cup {x}
    BY <2>1, <1>r DEF UploadsOf
  <2>4. /\ Cardinality(UploadsOf(run)') \in Nat
        /\ Cardinality(UploadsOf(run)') <= Cardinality(UploadsOf(run)) + 1
    <3>1. /\ Cardinality(UploadsOf(run) \cup {x}) \in Nat
          /\ Cardinality(UploadsOf(run) \cup {x}) <= Cardinality(UploadsOf(run)) + 1
      BY <1>1, AddOne
    <3> QED BY <2>3, <3>1
  <2>5. ASSUME NEW s
        PROVE  /\ Stored(run, s) \in Nat /\ Stored(run, s)' \in Nat /\ Stored(run, s) <= Stored(run, s)'
               /\ x \notin uploads /\ s = x.status => Stored(run, s)' = Stored(run, s) + 1
    <3>0. Stored(run, s)' = Cardinality(Stn(s))
      BY <1>r DEF Stored
    <3>1. CASE s = x.status
      <4>1. Stn(s) = St(s) \cup {x}
        BY <2>1, <3>1
      <4>2. x \notin uploads => x \notin St(s)
        OBVIOUS
      <4> HIDE DEF St, Stn
      <4>3. /\ Cardinality(St(s)) <= Cardinality(Stn(s)) /\ Cardinality(Stn(s)) \in Nat
            /\ x \notin St(s) => Cardinality(Stn(s)) = Cardinality(St(s)) + 1
        BY <1>1, <4>1, AddOne
      <4> QED BY <1>2, <3>0, <4>2, <4>3
    <3>2. CASE s # x.status
      <4>1. Stn(s) = St(s)
        BY <2>1, <3>2
      <4> HIDE DEF St, Stn
      <4> QED BY <1>2, <3>0, <3>2, <4>1
    <3> QED BY <3>1, <3>2
  <2>6. \A k : k # run => UploadsOf(k)' = UploadsOf(k) /\ \A s : Stored(k, s)' = Stored(k, s)
    <3> SUFFICES ASSUME NEW k, k # run PROVE UploadsOf(k)' = UploadsOf(k) /\ \A s : Stored(k, s)' = Stored(k, s)
      OBVIOUS
    <3>1. {u \in uploads' : u.run = k} = {u \in uploads : u.run = k}
      BY <2>1
    <3>2. \A s : {u \in uploads' : u.run = k /\ u.status = s} = {u \in uploads : u.run = k /\ u.status = s}
      BY <2>1
    <3> QED BY <3>1, <3>2 DEF UploadsOf, Stored
  <2>7. \A y : Uploaded(y) /\ y \notin uploads => y = x
    BY <2>1 DEF Uploaded
  <2> QED BY <1>2, <2>1, <2>2, <2>4, <2>5, <2>6, <2>7 DEF RunTypes
<1> QED BY <1>3, <1>4 DEF Attempt

\* An attempt stores nothing that the reports of earlier runs speak of, and a
\* second load of a file only by reprocessing it.
LEMMA AttemptKeeps ==
  ASSUME RunInv, Attempt
  PROVE  /\ uploads' \subseteq UploadRow /\ IsFiniteSet(uploads') /\ rows' \subseteq RunRow
         /\ (pc' = pc => RunsAreNumbered') /\ (pc' = "idle" => RunsAreNumbered')
         /\ RunsAreReported'
<1> USE DEF RunInv
<1>1. /\ IsFiniteSet(uploads') /\ uploads \subseteq uploads' /\ uploads' \subseteq UploadRow
      /\ \A k : k # run => UploadsOf(k)' = UploadsOf(k) /\ \A s : Stored(k, s)' = Stored(k, s)
  BY UploadCounts
<1>2. /\ pc = "files" /\ run' = run /\ rows' \subseteq RunRow
      /\ \A q \in rows' \ rows : q.run = run /\ q.status = "running"
      /\ \A u \in uploads' \ uploads : u.run = run /\ u.file \in File
  BY DEF Attempt, Uploaded, UploadRow
<1>3. \A q \in rows' : q \notin rows => q.status = "running"
  BY <1>2
<1>4. \A q \in rows : q.status # "running" => q.run # run
  BY <1>2 DEF RunsAreNumbered
<1>5. run <= run
  BY DEF RunTypes
<1>6. (pc' = pc => RunsAreNumbered') /\ (pc' = "idle" => RunsAreNumbered')
  <2>1. \A u \in uploads' : u.run <= run'
    BY <1>2, <1>5 DEF RunsAreNumbered
  <2>2. \A q \in rows' : q.run <= run'
    BY <1>2, <1>5 DEF RunsAreNumbered
  <2>3. pc' = pc => \A q \in rows' : q.run = run' => q.status = "running"
    BY <1>2 DEF RunsAreNumbered
  <2> QED BY <2>1, <2>2, <2>3 DEF RunsAreNumbered
<1>7. CountsAreHonest'
  <2> SUFFICES ASSUME NEW q \in rows', q.kind = "batch" /\ q.status # "running"
               PROVE  /\ q.counts["processed"] + q.counts["skipped"]
                           + q.counts["skipped_no_delta"] + q.counts["failed"] = Len(Files)
                      /\ \A s \in {"processed", "skipped_no_delta"} : q.counts[s] <= Stored(q.run, s)'
                      /\ Cardinality({u \in uploads' : u.run = q.run}) <= Len(Files) - q.counts["skipped"]
    BY DEF CountsAreHonest, Stored
  <2>1. q \in rows /\ q.run # run
    BY <1>3, <1>4
  <2>2. UploadsOf(q.run)' = UploadsOf(q.run) /\ \A s : Stored(q.run, s)' = Stored(q.run, s)
    BY <1>1, <2>1
  <2>3. {u \in uploads' : u.run = q.run} = {u \in uploads : u.run = q.run}
    BY <2>2 DEF UploadsOf
  <2> QED BY <2>1, <2>2, <2>3 DEF RunsAreReported, ReportsAreHonest, CountsAreHonest
<1>8. CompletedMeansLoaded'
  BY <1>1, <1>3 DEF RunsAreReported, ReportsAreHonest, CompletedMeansLoaded
<1>9. LoadedOnce'
  <2>1. CASE uploads' = uploads
    BY <2>1 DEF RunsAreReported, LoadedOnce
  <2>2. CASE \E x : Uploaded(x)
    BY <2>2 DEF Uploaded, RunsAreReported, LoadedOnce
  <2> QED BY <2>1, <2>2 DEF Attempt
<1> QED BY <1>1, <1>2, <1>6, <1>7, <1>8, <1>9 DEF RunsAreReported, ReportsAreHonest

-----------------------------------------------------------------------------
(* Turns *)

\* The turn of a file ends, and counts as r.
TurnEnds(r) ==
  /\ pc' = pc /\ counts' = [counts EXCEPT ![r] = @ + 1] /\ todo' = Tail(todo)
  /\ session' = "clean" /\ hurt \subseteq hurt' /\ (row = "lost" => row' = "lost")

\* The files that are left when a turn ends are the next ones.
LEMMA NextFile ==
  ASSUME RunTypes, FilesInOrder, todo # <<>>, todo' = Tail(todo)
  PROVE  /\ todo' \in Seq(File) /\ Turns' = Turns + 1 /\ Turns \in Nat /\ FilesInOrder'
         /\ Turns + 1 \in 1..Len(Files) /\ Files[Turns + 1] = Head(todo)
         /\ \A i \in 1..Len(todo') : todo'[i] = todo[i + 1] /\ i + 1 \in 2..Len(todo)
         /\ \A i \in 1..Len(todo') : todo'[i] # Head(todo)
<1>1. todo \in Seq(File) /\ Len(todo) \in Nat \ {0} /\ Len(Files) \in Nat
  BY FilesAssumption DEF RunTypes
<1>2. /\ todo' \in Seq(File) /\ Len(todo') = Len(todo) - 1 /\ Head(todo) = todo[1]
      /\ \A i \in 1..(Len(todo) - 1) : todo'[i] = todo[i + 1]
  BY <1>1
<1>3. /\ Turns' = Turns + 1 /\ Turns \in Nat /\ Turns + 1 \in 1..Len(Files)
      /\ Len(todo') <= Len(Files) /\ Turns + Len(todo) = Len(Files)
  BY <1>1, <1>2 DEF Turns, FilesInOrder
<1>4. \A i \in 1..Len(todo') : todo'[i] = todo[i + 1] /\ i + 1 \in 2..Len(todo) /\ i + 1 \in 1..Len(todo)
                               /\ Turns + (i + 1) = Turns' + i /\ Turns + (i + 1) \in 1..Len(Files)
  <2> SUFFICES ASSUME NEW i \in 1..Len(todo')
               PROVE  todo'[i] = todo[i + 1] /\ i + 1 \in 2..Len(todo) /\ i + 1 \in 1..Len(todo)
                      /\ Turns + (i + 1) = Turns' + i /\ Turns + (i + 1) \in 1..Len(Files)
    OBVIOUS
  <2>1. i \in 1..(Len(todo) - 1)
    BY <1>2
  <2> QED BY <1>1, <1>2, <1>3, <2>1
<1>5. Files[Turns + 1] = Head(todo)
  BY <1>1, <1>2, <1>3 DEF FilesInOrder
<1>6. FilesInOrder'
  <2>1. \A i \in 1..Len(todo') : todo'[i] = Files[Turns' + i]
    BY <1>4 DEF FilesInOrder
  <2> QED BY <1>3, <2>1 DEF FilesInOrder
<1>7. ASSUME NEW i \in 1..Len(todo') PROVE todo'[i] # Head(todo)
  <2>1. todo'[i] = Files[Turns + (i + 1)]
    BY <1>4 DEF FilesInOrder
  <2>2. Turns + (i + 1) # Turns + 1
    <3>1. i \in Int /\ i >= 1
      OBVIOUS
    <3> QED BY <1>3, <3>1
  <2>3. DOMAIN Files = 1..Len(Files)
    BY FilesAssumption
  <2>4. Turns + (i + 1) \in DOMAIN Files /\ Turns + 1 \in DOMAIN Files
    BY <1>3, <1>4, <2>3
  <2> QED BY <2>1, <2>2, <2>4, <1>5, FilesAssumption
<1> QED BY <1>2, <1>3, <1>4, <1>5, <1>6, <1>7

\* When a turn ends the counts and the tables still agree.
LEMMA TurnCounts ==
  ASSUME RunInv, Attempt, FilesInOrder, CountsOfTurns, NothingAhead,
         NEW r \in Result, TurnEnds(r),
         r = "skipped" => uploads' = uploads /\ session # "broken",
         r \in {"processed", "skipped_no_delta"} => \E x : Uploaded(x) /\ x.status = r
  PROVE  CountsOfTurns'
<1>1. /\ run' = run /\ session' = "clean" /\ todo # <<>>
      /\ counts \in [Result -> Nat] /\ counts' = [counts EXCEPT ![r] = @ + 1]
  BY DEF Attempt, TurnEnds, RunInv, RunTypes
<1>2. Turns \in Nat /\ Turns' = Turns + 1
  BY NextFile DEF TurnEnds, RunInv, Attempt
<1>3. /\ Cardinality(UploadsOf(run)) \in Nat /\ Cardinality(UploadsOf(run)') \in Nat
      /\ Cardinality(UploadsOf(run)') <= Cardinality(UploadsOf(run)) + 1
      /\ \A s : Stored(run, s) \in Nat /\ Stored(run, s)' \in Nat /\ Stored(run, s) <= Stored(run, s)'
      /\ \A x : Uploaded(x) /\ x \notin uploads => Stored(run, x.status)' = Stored(run, x.status) + 1
  BY UploadCounts DEF RunInv
<1>4. counts'["processed"] + counts'["skipped"] + counts'["skipped_no_delta"] + counts'["failed"] = Turns'
  BY <1>1, <1>2 DEF CountsOfTurns, Result
<1>5. ASSUME NEW s \in {"processed", "skipped_no_delta"} PROVE counts'[s] <= Stored(run, s)'
  <2>1. counts[s] \in Nat /\ counts[s] <= Stored(run, s)
    BY <1>1 DEF CountsOfTurns, Result
  <2>2. CASE s = r
    <3>1. PICK x : Uploaded(x) /\ x.status = r
      BY <2>2
    <3>2. x \notin uploads
      <4>1. Len(todo) \in Nat \ {0} /\ Head(todo) = todo[1]
        BY <1>1 DEF RunInv, RunTypes
      <4> QED BY <3>1, <4>1 DEF Uploaded, NothingAhead
    <3>3. Stored(run, s)' = Stored(run, s) + 1
      BY <1>3, <2>2, <3>1, <3>2
    <3>4. counts'[s] = counts[s] + 1
      BY <1>1, <2>2
    <3> QED BY <1>3, <2>1, <3>3, <3>4
  <2>3. CASE s # r
    <3>1. counts'[s] = counts[s]
      BY <1>1, <2>3 DEF Result
    <3> QED BY <1>3, <2>1, <3>1
  <2> QED BY <2>2, <2>3
<1>6. Cardinality(UploadsOf(run)') + counts'["skipped"] <= Turns'
  <2> DEFINE C == Cardinality(UploadsOf(run))
             D == Cardinality(UploadsOf(run)')
             k == counts["skipped"]
             b == IF session = "broken" THEN 1 ELSE 0
  <2>1. C \in Nat /\ D \in Nat /\ k \in Nat /\ C + k <= Turns + b /\ D <= C + 1
    BY <1>1, <1>3 DEF CountsOfTurns, Result
  <2>2. \/ D = C /\ counts'["skipped"] = k + 1 /\ b = 0
        \/ D = C /\ counts'["skipped"] = k
        \/ b = 0 /\ counts'["skipped"] = k
    <3>1. counts'["skipped"] = IF r = "skipped" THEN k + 1 ELSE k
      BY <1>1 DEF Result
    <3>2. uploads' = uploads => D = C
      BY <1>1 DEF UploadsOf
    <3>3. uploads' = uploads \/ b = 0
      BY DEF Attempt, Uploaded
    <3> QED BY <3>1, <3>2, <3>3
  <2>3. D + counts'["skipped"] <= Turns'
    <3> HIDE DEF C, D, k, b
    <3>1. b \in {0, 1}
      BY DEF b
    <3> QED BY <1>2, <2>1, <2>2, <3>1
  <2> QED BY <2>3
<1>7. Turns' \in Nat /\ ~(session' = "broken")
  BY <1>1, <1>2
<1> QED BY <1>1, <1>4, <1>5, <1>6, <1>7 DEF CountsOfTurns

\* The end of a turn keeps what is known of a batch: a file that was not loaded
\* counts as failed, and it could not be read, met an error of its own, or the
\* row of the run is lost.
LEMMA TurnStep ==
  ASSUME RunInv, Attempt, NEW r \in Result, TurnEnds(r),
         r = "skipped" => uploads' = uploads /\ session # "broken" /\ Loaded(Head(todo)),
         r \in {"processed", "skipped_no_delta"} => \E x : Uploaded(x) /\ x.status = r,
         r = "failed" => row' = "lost" \/ Head(todo) \in Unreadable \cup hurt'
  PROVE  BatchInv'
<1> SUFFICES ASSUME kind = "batch" PROVE FilesInOrder' /\ CountsOfTurns' /\ NothingAhead' /\ TurnsLoad'
  BY DEF BatchInv, Attempt
<1>1. /\ FilesInOrder /\ CountsOfTurns /\ NothingAhead /\ TurnsLoad /\ RunTypes
      /\ todo # <<>> /\ run' = run /\ todo' = Tail(todo) /\ session' = "clean" /\ hurt \subseteq hurt'
      /\ counts' = [counts EXCEPT ![r] = @ + 1]
  BY DEF BatchInv, RunInv, Attempt, TurnEnds
<1>2. /\ FilesInOrder' /\ Turns' = Turns + 1 /\ Turns \in Nat
      /\ Files[Turns + 1] = Head(todo)
      /\ \A i \in 1..Len(todo') : todo'[i] = todo[i + 1] /\ i + 1 \in 2..Len(todo)
      /\ \A i \in 1..Len(todo') : todo'[i] # Head(todo)
  BY <1>1, NextFile
<1>3. CountsOfTurns'
  BY <1>1, TurnCounts
<1>4. NothingAhead'
  <2>1. \A n \in Nat : \A j \in 2..n : j \in 1..n /\ j # 1
    OBVIOUS
  <2>2. Len(todo) \in Nat
    BY <1>1 DEF RunTypes
  <2>3. ASSUME NEW u \in uploads, NEW i \in 1..Len(todo'), u.run = run PROVE u.file # todo'[i]
    <3>1. i + 1 \in 1..Len(todo) /\ i + 1 # 1 /\ todo'[i] = todo[i + 1]
      BY <1>2, <2>1, <2>2
    <3> QED BY <1>1, <2>3, <3>1 DEF NothingAhead
  <2>4. \A u \in uploads' \ uploads : u.file = Head(todo)
    BY DEF Attempt, Uploaded
  <2>5. \A u \in uploads' : \A i \in 1..Len(todo') : u.run = run' => u.file # todo'[i]
    BY <1>1, <1>2, <2>3, <2>4
  <2> QED BY <1>1, <2>5 DEF NothingAhead
<1>5. \A f : Loaded(f) \/ (r # "failed" /\ f = Head(todo)) => Loaded(f)'
  <2>1. uploads \subseteq uploads'
    BY UploadCounts DEF RunInv
  <2>2. \A f : Loaded(f) => Loaded(f)'
    BY <2>1 DEF Loaded
  <2>3. ASSUME NEW f, f = Head(todo), r \in {"processed", "skipped_no_delta"} PROVE Loaded(f)'
    <3>1. PICK x : Uploaded(x) /\ x.status = r
      BY <2>3
    <3>2. x \in uploads' /\ x.file = f /\ x.status # "failed"
      BY <2>3, <3>1 DEF Uploaded
    <3> QED BY <3>2 DEF Loaded
  <2> QED BY <2>2, <2>3 DEF Result
<1>6. \A n \in Nat : \A i \in 1..(n + 1) : i \in 1..n \/ i = n + 1
  OBVIOUS
<1>7. counts'["failed"] = 0 => counts["failed"] = 0 /\ r # "failed"
  BY <1>1 DEF RunTypes, Result
<1>8. counts'["failed"] = 0 => \A i \in 1..Turns' : Loaded(Files[i])'
  BY <1>1, <1>2, <1>5, <1>6, <1>7 DEF TurnsLoad
<1>9. row' # "lost" => \A i \in 1..Turns' : Files[i] \notin Unreadable \cup hurt' => Loaded(Files[i])'
  <2>1. row' # "lost" => row # "lost"
    BY DEF TurnEnds
  <2> QED BY <1>1, <1>2, <1>5, <1>6, <2>1 DEF TurnsLoad
<1> QED BY <1>2, <1>3, <1>4, <1>8, <1>9 DEF TurnsLoad

\* The file's turn goes on: nothing is counted, and only an error inside the
\* transaction breaks the session.
LEMMA TurnGoesOn ==
  ASSUME RunInv, Attempt, pc' = pc, UNCHANGED <<todo, counts>>,
         hurt \subseteq hurt', row = "lost" => row' = "lost", session # "broken",
         \/ session' # "broken" /\ uploads' = uploads
         \/ session' = "broken" /\ Head(todo) \in hurt'
  PROVE  BatchInv'
<1> SUFFICES ASSUME kind = "batch" PROVE FilesInOrder' /\ CountsOfTurns' /\ NothingAhead' /\ TurnsLoad'
  BY DEF BatchInv, Attempt
<1>1. /\ FilesInOrder /\ CountsOfTurns /\ NothingAhead /\ TurnsLoad /\ RunTypes
      /\ todo # <<>> /\ run' = run /\ todo' = todo /\ counts' = counts
  BY DEF BatchInv, RunInv, Attempt
<1>2. Turns' = Turns /\ Turns \in Nat
  BY <1>1, FilesAssumption DEF Turns, FilesInOrder, RunTypes
<1>3. FilesInOrder'
  BY <1>1, <1>2 DEF FilesInOrder
<1>4. /\ Cardinality(UploadsOf(run)) \in Nat /\ Cardinality(UploadsOf(run)') \in Nat
      /\ Cardinality(UploadsOf(run)') <= Cardinality(UploadsOf(run)) + 1
      /\ \A s : Stored(run, s) \in Nat /\ Stored(run, s)' \in Nat /\ Stored(run, s) <= Stored(run, s)'
      /\ uploads \subseteq uploads'
  BY <1>1, UploadCounts
<1>5. CountsOfTurns'
  <2>1. \A s \in {"processed", "skipped_no_delta"} : counts[s] \in Nat
    BY <1>1 DEF RunTypes, Result
  <2>2. \A s \in {"processed", "skipped_no_delta"} : counts'[s] <= Stored(run, s)'
    BY <1>1, <1>4, <2>1 DEF CountsOfTurns
  <2>3. uploads' = uploads => Cardinality(UploadsOf(run)') = Cardinality(UploadsOf(run))
    BY <1>1 DEF UploadsOf
  <2>4. Cardinality(UploadsOf(run)') + counts'["skipped"] <= Turns' + (IF session' = "broken" THEN 1 ELSE 0)
    <3> DEFINE C == Cardinality(UploadsOf(run))
               D == Cardinality(UploadsOf(run)')
               b == IF session' = "broken" THEN 1 ELSE 0
    <3>1. C \in Nat /\ D \in Nat /\ counts["skipped"] \in Nat /\ C + counts["skipped"] <= Turns /\ D <= C + 1
      BY <1>1, <1>2, <1>4 DEF CountsOfTurns, RunTypes, Result
    <3>2. b = 1 \/ (b = 0 /\ D = C)
      BY <2>3
    <3>3. D + counts'["skipped"] <= Turns' + b
      <4> HIDE DEF C, D, b
      <4> QED BY <1>1, <1>2, <3>1, <3>2
    <3> QED BY <3>3
  <2> QED BY <1>1, <1>2, <2>2, <2>4 DEF CountsOfTurns
<1>6. NothingAhead'
  <2>1. \A u \in uploads' \ uploads : u.file = todo[1] /\ todo[1] = Head(todo)
    BY <1>1 DEF Attempt, Uploaded, RunTypes
  <2>2. ASSUME NEW u \in uploads', NEW i \in 1..Len(todo), u.run = run, u.file = todo[i]
        PROVE  i = 1 /\ session' = "broken"
    <3>1. u \notin uploads
      BY <1>1, <2>2 DEF NothingAhead
    <3>2. todo[i] = todo[1] /\ session' = "broken"
      BY <2>1, <2>2, <3>1
    <3>3. i = 1
      <4>1. /\ Len(todo) \in Nat \ {0} /\ Len(Files) \in Nat /\ Turns = Len(Files) - Len(todo)
        BY <1>1, FilesAssumption DEF RunTypes, Turns
      <4>2. 1 \in 1..Len(todo) /\ Turns + i \in DOMAIN Files /\ Turns + 1 \in DOMAIN Files
        BY <1>2, <4>1, FilesAssumption
      <4>3. Files[Turns + i] = Files[Turns + 1]
        BY <1>1, <3>2, <4>2 DEF FilesInOrder
      <4>4. Turns + i = Turns + 1
        BY <4>2, <4>3, FilesAssumption
      <4> QED BY <1>2, <4>4
    <3> QED BY <3>2, <3>3
  <2> QED BY <1>1, <2>2 DEF NothingAhead
<1>7. TurnsLoad'
  <2>1. \A f : Loaded(f) => Loaded(f)'
    BY <1>4 DEF Loaded
  <2> QED BY <1>1, <1>2, <2>1 DEF TurnsLoad
<1> QED BY <1>3, <1>5, <1>6, <1>7

-----------------------------------------------------------------------------
(* The steps of a run *)

\* An attempt keeps the invariant if it keeps what is known of a batch.
LEMMA AttemptStep ==
  ASSUME RunInv, Attempt, BatchInv', pc' = pc \/ pc' = "idle",
         todo' \in Seq(File), counts' \in [Result -> Nat]
  PROVE  RunInv'
BY AttemptKeeps DEF RunInv, RunTypes, Attempt

\* A load that returns ends the turn of its file.
LEMMA LoadStep == ASSUME RunInv, Load PROVE RunInv'
<1>1. PICK r \in Outcomes : Store(r) /\ Return(r)
  BY DEF Load
<1>2. Attempting /\ UNCHANGED <<call, hurt>>
  BY <1>1 DEF Load, Return
<1>3. /\ Attempt /\ r \in Result
      /\ r = "skipped" => uploads' = uploads /\ Loaded(Head(todo))
      /\ r # "skipped" => \E x : Uploaded(x) /\ x.status = r
      /\ r = "failed" => Head(todo) \in Unreadable
  BY <1>1, <1>2, StoreLeaves DEF call
<1>4. TurnEnds(r)
  BY <1>1, <1>2 DEF TurnEnds, Return, Committed, call
<1>5. BatchInv'
  BY <1>2, <1>3, <1>4, TurnStep DEF Attempting
<1>6. todo' \in Seq(File) /\ counts' \in [Result -> Nat]
  BY <1>1, <1>2, <1>3 DEF Return, RunInv, RunTypes, Attempting
<1> QED BY <1>3, <1>4, <1>5, <1>6, AttemptStep DEF TurnEnds

\* An error leaves _with_retry: the turn ends in a batch, and a reprocess ends.
LEMMA GiveUpStep ==
  ASSUME RunInv, Attempt, NEW r, GiveUp(r),
         row = "lost" => r \in {"lost", "flushed"},
         hurt \subseteq hurt', Head(todo) \in hurt' \/ r = "lost"
  PROVE  RunInv'
<1>1. /\ counts' = [counts EXCEPT !["failed"] = @ + 1] /\ session' = "clean"
      /\ row' = IF r = "flushed" THEN "lost" ELSE r
      /\ run' = run /\ kind' = kind /\ todo # <<>>
  BY DEF GiveUp, Attempt
<1>2. counts' \in [Result -> Nat] /\ "failed" \in Result
  BY <1>1 DEF RunInv, RunTypes, Result
<1>3. CASE kind = "batch"
  <2>1. todo' = Tail(todo) /\ pc' = pc
    BY <1>3 DEF GiveUp
  <2>2. TurnEnds("failed")
    BY <1>1, <2>1 DEF TurnEnds
  <2>3. BatchInv'
    BY <1>1, <1>2, <2>2, TurnStep
  <2>4. todo' \in Seq(File)
    BY <1>1, <2>1 DEF RunInv, RunTypes
  <2> QED BY <1>2, <2>1, <2>3, <2>4, AttemptStep
<1>4. CASE kind # "batch"
  <2>1. todo' = <<>> /\ pc' = "idle"
    BY <1>4 DEF GiveUp
  <2>2. BatchInv' /\ todo' \in Seq(File)
    BY <2>1 DEF BatchInv
  <2> QED BY <1>2, <2>1, <2>2, AttemptStep
<1> QED BY <1>3, <1>4

\* An OperationalError is retried, or given up after the last attempt.
LEMMA ErrorStep ==
  ASSUME RunInv, Attempt, session # "broken", NEW s, NEW r, OperationalError(s, r), Hit,
         row = "lost" => r = "lost", s # "broken" => uploads' = uploads
  PROVE  RunInv'
<1>1. hurt \subseteq hurt' /\ Head(todo) \in hurt'
  BY DEF Hit, Current
<1>2. CASE Retry(s, r)
  <2>1. UNCHANGED <<todo, counts>> /\ pc' = pc /\ session' = s /\ row' = r
    BY <1>2 DEF Retry, call
  <2>2. BatchInv'
    BY <1>1, <2>1, TurnGoesOn
  <2> QED BY <2>1, <2>2, AttemptStep DEF RunInv, RunTypes
<1>3. CASE GiveUp(r)
  BY <1>1, <1>3, GiveUpStep
<1> QED BY <1>2, <1>3 DEF OperationalError

LEMMA AttemptSteps ==
  ASSUME RunInv, Load \/ NoConnection \/ TransientError \/ AckLost \/ Refused \/ NoSuchRun \/ OtherError
  PROVE  RunInv'
<1>1. ASSUME pc = "files", todo # <<>>, UNCHANGED db, run' = run, kind' = kind PROVE Attempt
  BY <1>1 DEF Attempt, db, RunInv, RunTypes
<1>2. \A s, r : OperationalError(s, r) => run' = run /\ kind' = kind
  BY DEF OperationalError, Retry, GiveUp, call
<1>3. CASE Load
  BY <1>3, LoadStep
<1>4. CASE NoConnection
  <2>1. Attempt /\ session # "broken" /\ uploads' = uploads /\ OperationalError("clean", row) /\ Hit
    BY <1>1, <1>2, <1>4 DEF NoConnection, Attempting, db
  <2> QED BY <2>1, ErrorStep
<1>5. CASE TransientError
  <2>1. Attempt /\ session # "broken" /\ OperationalError("broken", row) /\ Hit
    BY <1>1, <1>2, <1>5 DEF TransientError, Attempting
  <2> QED BY <2>1, ErrorStep
<1>6. CASE AckLost
  <2> DEFINE r == IF row = "flushed" THEN "detached" ELSE row
  <2>1. Attempting /\ session # "broken" /\ OperationalError("broken", r) /\ Hit
    BY <1>6 DEF AckLost, Attempting
  <2>2. PICK o \in Outcomes : Store(o)
    BY <1>6 DEF AckLost
  <2>3. Attempt
    BY <1>2, <2>1, <2>2, StoreLeaves
  <2>4. row = "lost" => r = "lost"
    OBVIOUS
  <2> HIDE DEF r
  <2> QED BY <2>1, <2>3, <2>4, ErrorStep
<1>7. CASE Refused
  <2>1. Attempt /\ GiveUp(row) /\ hurt' = hurt /\ session = "broken"
    BY <1>1, <1>7 DEF Refused, GiveUp
  <2>2. CASE kind = "batch"
    <3>1. Head(todo) \in hurt'
      BY <2>1, <2>2 DEF RunInv, BatchInv, NothingAhead, Attempt
    <3> QED BY <2>1, <3>1, GiveUpStep
  <2>3. CASE kind # "batch"
    <3>1. pc' = "idle" /\ todo' = <<>> /\ counts' = [counts EXCEPT !["failed"] = @ + 1]
      BY <2>1, <2>3 DEF GiveUp
    <3>2. counts' \in [Result -> Nat]
      BY <3>1 DEF RunInv, RunTypes, Result
    <3> QED BY <2>1, <3>1, <3>2, AttemptStep DEF BatchInv
  <2> QED BY <2>2, <2>3
<1>8. CASE NoSuchRun
  <2>1. Attempt /\ GiveUp(row) /\ hurt' = hurt /\ row = "lost"
    BY <1>1, <1>8 DEF NoSuchRun, Attempting, GiveUp
  <2> QED BY <2>1, GiveUpStep
<1>9. CASE OtherError
  <2>1. Attempt /\ GiveUp(row) /\ hurt \subseteq hurt' /\ Head(todo) \in hurt'
    BY <1>1, <1>9 DEF OtherError, Attempting, GiveUp, Hit, Current
  <2> QED BY <2>1, GiveUpStep
<1> QED BY <1>3, <1>4, <1>5, <1>6, <1>7, <1>8, <1>9

\* A run begins with all its files ahead of it.
LEMMA BeginStep == ASSUME RunInv, RunPipeline \/ Reprocess PROVE RunInv'
<1>1. PICK k \in {"batch", "reprocess"}, f \in Seq(File) :
        Begin(k, f) /\ (k = "batch" => f = Files)
  <2>1. CASE RunPipeline
    BY <2>1, FilesAssumption DEF RunPipeline
  <2>2. CASE Reprocess
    <3>1. PICK u \in uploads : Begin("reprocess", <<u.file>>)
      BY <2>2 DEF Reprocess
    <3>2. u.file \in File
      BY DEF RunInv, RunTypes, UploadRow
    <3> DEFINE f == <<u.file>>
    <3>3. f \in Seq(File) /\ Begin("reprocess", f)
      BY <3>1, <3>2
    <3> HIDE DEF f
    <3> QED BY <3>3
  <2> QED BY <2>1, <2>2
<1>2. /\ pc' = "files" /\ run' = run + 1 /\ kind' = k /\ todo' = f /\ session' = "open"
      /\ counts' = NoCounts /\ uploads' = uploads /\ rows' = rows
  BY <1>1 DEF Begin, db
<1>3. RunTypes'
  BY <1>2 DEF RunInv, RunTypes, NoCounts
<1>4. run \in Nat /\ run + 1 \in Nat /\ \A n \in Nat : n <= run => n <= run + 1 /\ n # run + 1
  BY DEF RunInv, RunTypes
<1>5. RunsAreNumbered'
  BY <1>2, <1>4 DEF RunInv, RunTypes, RunsAreNumbered, UploadRow, RunRow
<1>6. \A u \in uploads : u.run # run'
  BY <1>2, <1>4 DEF RunInv, RunTypes, RunsAreNumbered, UploadRow
<1>7. ASSUME kind' = "batch"
      PROVE  FilesInOrder' /\ CountsOfTurns' /\ NothingAhead' /\ TurnsLoad'
  <2>1. todo' = Files /\ Len(Files) \in Nat
    BY <1>1, <1>2, <1>7, FilesAssumption
  <2>2. Turns' = 0 /\ \A i \in 1..Len(Files) : 0 + i = i
    BY <2>1 DEF Turns
  <2>3. FilesInOrder'
    BY <2>1, <2>2 DEF FilesInOrder
  <2>4. UploadsOf(run)' = {} /\ \A s : Stored(run, s)' = Cardinality({})
    <3>1. \A s : {u \in uploads' : u.run = run' /\ u.status = s} = {}
      BY <1>2, <1>6
    <3> QED BY <1>2, <1>6, <3>1 DEF UploadsOf, Stored
  <2>5. Cardinality({}) = 0
    BY FS_EmptySet
  <2>6. CountsOfTurns'
    <3>1. \A s \in Result : counts'[s] = 0
      BY <1>2 DEF NoCounts
    <3>2. Cardinality(UploadsOf(run)') = 0 /\ \A s : Stored(run, s)' = 0
      BY <2>4, <2>5
    <3>3. ~(session' = "broken")
      BY <1>2
    <3> QED BY <2>2, <3>1, <3>2, <3>3 DEF CountsOfTurns, Result
  <2>7. NothingAhead' /\ TurnsLoad'
    BY <1>2, <1>6, <2>2 DEF NothingAhead, TurnsLoad
  <2> QED BY <2>3, <2>6, <2>7
<1>8. RunsAreReported'
  BY <1>2 DEF RunInv, RunsAreReported, ReportsAreHonest, CountsAreHonest, CompletedMeansLoaded, LoadedOnce, Stored
<1> QED BY <1>3, <1>5, <1>7, <1>8 DEF RunInv, BatchInv

\* The call ends and has stored nothing more.
LEMMA QuitStep == ASSUME RunInv, Quit, UNCHANGED db PROVE RunInv'
<1>1. RunTypes' /\ RunsAreNumbered' /\ BatchInv'
  BY DEF Quit, db, RunInv, RunTypes, RunsAreNumbered, BatchInv, NoCounts
<1>2. RunsAreReported'
  BY DEF db, RunInv, RunsAreReported, ReportsAreHonest, CountsAreHonest, CompletedMeansLoaded, LoadedOnce, Stored
<1> QED BY <1>1, <1>2 DEF RunInv

\* The summary of a batch that had all its turns is what CountsAreHonest and
\* CompletedMeansLoaded say it is.
LEMMA FinishStep == ASSUME RunInv, Finish PROVE RunInv'
<1>1. /\ pc = "files" /\ todo = <<>> /\ Quit /\ uploads' = uploads
      /\ rows' = rows \/ rows' = {q \in rows : q.run # run} \cup {Summary}
  BY DEF Finish, Over
<1>2. RunTypes /\ RunsAreNumbered /\ counts \in [Result -> Nat]
  BY DEF RunInv, RunTypes
<1>3. /\ Summary.run = run /\ Summary.kind = kind /\ Summary \in RunRow
      /\ kind = "batch" => Summary.counts = counts /\ (Summary.status = "completed" => counts["failed"] = 0)
  BY <1>2 DEF Summary, RunTypes, RunRow, NoCounts, Result
<1> HIDE DEF Summary
<1>4. \A q \in rows' : q \in rows \/ q = Summary
  BY <1>1
<1>5. RunTypes'
  BY <1>1, <1>2, <1>3 DEF Quit, RunTypes, NoCounts
<1>6. run <= run
  BY <1>2 DEF RunTypes
<1>7. RunsAreNumbered' /\ BatchInv'
  BY <1>1, <1>2, <1>3, <1>4, <1>6 DEF Quit, RunsAreNumbered, BatchInv
<1>8. ASSUME kind = "batch"
      PROVE  /\ counts["processed"] + counts["skipped"]
                  + counts["skipped_no_delta"] + counts["failed"] = Len(Files)
             /\ \A s \in {"processed", "skipped_no_delta"} : counts[s] <= Stored(run, s)
             /\ Cardinality({u \in uploads : u.run = run}) <= Len(Files) - counts["skipped"]
             /\ counts["failed"] = 0 =>
                  \A f \in File : \E u \in uploads : u.file = f /\ u.status # "failed" /\ u.run <= run
  <2>1. CountsOfTurns /\ TurnsLoad /\ session # "broken"
    BY <1>1, <1>8 DEF RunInv, BatchInv, NothingAhead
  <2>2. Turns = Len(Files) /\ Len(Files) \in Nat
    BY <1>1, FilesAssumption DEF Turns
  <2>3. counts["failed"] = 0 => \A f \in File : Loaded(f)
    BY <2>1, <2>2, FilesAssumption DEF TurnsLoad
  <2>4. Cardinality(UploadsOf(run)) \in Nat
    BY <1>2, FS_Subset, FS_CardinalityType, UploadsOf(run) \subseteq uploads DEF RunTypes, UploadsOf
  <2>5. Cardinality(UploadsOf(run)) <= Len(Files) - counts["skipped"]
    BY <1>2, <2>1, <2>2, <2>4 DEF CountsOfTurns, Result
  <2> QED BY <1>2, <2>1, <2>2, <2>3, <2>5 DEF CountsOfTurns, RunsAreNumbered, Loaded, UploadsOf
<1>9. CountsAreHonest'
  <2> SUFFICES ASSUME NEW q \in rows', q.kind = "batch" /\ q.status # "running"
               PROVE  /\ q.counts["processed"] + q.counts["skipped"]
                           + q.counts["skipped_no_delta"] + q.counts["failed"] = Len(Files)
                      /\ \A s \in {"processed", "skipped_no_delta"} : q.counts[s] <= Stored(q.run, s)
                      /\ Cardinality({u \in uploads : u.run = q.run}) <= Len(Files) - q.counts["skipped"]
    BY <1>1 DEF CountsAreHonest, Stored
  <2>1. CASE q \in rows
    BY <2>1 DEF RunInv, RunsAreReported, ReportsAreHonest, CountsAreHonest
  <2>2. CASE q = Summary
    BY <1>3, <1>8, <2>2
  <2> QED BY <1>4, <2>1, <2>2
<1>10. CompletedMeansLoaded'
  BY <1>1, <1>3, <1>4, <1>8 DEF RunInv, RunsAreReported, ReportsAreHonest, CompletedMeansLoaded
<1>11. LoadedOnce'
  BY <1>1 DEF RunInv, RunsAreReported, LoadedOnce
<1> QED BY <1>5, <1>7, <1>9, <1>10, <1>11 DEF RunInv, RunsAreReported, ReportsAreHonest

LEMMA RunNext == RunInv /\ [Next]_vars => RunInv'
<1> SUFFICES ASSUME RunInv, [Next]_vars PROVE RunInv'
  OBVIOUS
<1>1. CASE RunPipeline \/ Reprocess
  BY <1>1, BeginStep
<1>2. CASE Load \/ NoConnection \/ TransientError \/ AckLost \/ Refused \/ NoSuchRun \/ OtherError
  BY <1>2, AttemptSteps
<1>3. CASE Finish
  BY <1>3, FinishStep
<1>4. CASE FinishRaises \/ Crash
  BY <1>4, QuitStep DEF FinishRaises, Crash
<1>5. CASE UNCHANGED vars
  <2>1. RunTypes' /\ RunsAreNumbered'
    BY <1>5 DEF vars, db, call, RunInv, RunTypes, RunsAreNumbered
  <2>2. FilesInOrder' <=> FilesInOrder
    BY <1>5 DEF vars, db, call, FilesInOrder, Turns
  <2>3. CountsOfTurns' <=> CountsOfTurns
    BY <1>5 DEF vars, db, call, CountsOfTurns, Turns, Stored, UploadsOf
  <2>4. (NothingAhead' <=> NothingAhead) /\ (TurnsLoad' <=> TurnsLoad)
    BY <1>5 DEF vars, db, call, NothingAhead, TurnsLoad, Turns, Loaded
  <2>5. BatchInv'
    BY <1>5, <2>2, <2>3, <2>4 DEF vars, db, call, RunInv, BatchInv
  <2>6. CountsAreHonest' /\ CompletedMeansLoaded'
    BY <1>5 DEF vars, db, call, RunInv, RunsAreReported, ReportsAreHonest, CountsAreHonest, CompletedMeansLoaded, Stored
  <2>7. LoadedOnce'
    BY <1>5 DEF vars, db, call, RunInv, RunsAreReported, LoadedOnce
  <2> QED BY <2>1, <2>5, <2>6, <2>7 DEF RunInv, RunsAreReported, ReportsAreHonest
<1> QED BY <1>1, <1>2, <1>3, <1>4, <1>5 DEF Next, Step

\* Whatever errors, lost acknowledgements, deaths and restarts: the stored
\* counts of a finished batch account for every file once, a completed batch
\* left every file of the directory loaded, and no batch loads a file twice.
THEOREM Reports == Spec => []RunsAreReported
<1>1. RunInv => RunsAreReported
  BY DEF RunInv
<1> QED BY RunInit, RunNext, <1>1, PTL DEF Spec

\* A batch that finishes with its row stored has loaded every readable file
\* that met no error of its own: what the files before it left in the session
\* never costs a file its turn.
THEOREM BadFiles == Spec => BadFilesAreAlone
<1> DEFINE Alone == Finish /\ kind = "batch" /\ row # "lost" =>
              \A f \in File \ Unreadable : f \notin hurt => \E u \in uploads : u.file = f /\ u.status # "failed"
<1>1. RunInv => Alone
  <2> SUFFICES ASSUME RunInv, Finish, kind = "batch", row # "lost",
                      NEW f \in File \ Unreadable, f \notin hurt
               PROVE  Loaded(f)
    BY DEF Loaded
  <2>1. TurnsLoad /\ todo = <<>>
    BY DEF Finish, RunInv, BatchInv
  <2>2. Turns = Len(Files)
    BY <2>1, FilesAssumption DEF Turns
  <2> QED BY <2>1, <2>2, FilesAssumption DEF TurnsLoad
<1>2. RunInv /\ [Next]_vars => [Alone]_vars
  BY <1>1
<1> QED BY RunInit, RunNext, <1>2, PTL DEF Spec, BadFilesAreAlone

(***************************************************************************)
(* The seeding.  Currencies are looked up one by one and inserted in the   *)
(* end: what a seeding has passed is in the table, from which nothing is   *)
(* ever taken, or among the rows it will insert.                           *)
(***************************************************************************)

SeedingRow == [found : BOOLEAN, day : Nat, pos : Nat, new : SUBSET Seeds!Ccy]

USE DEF SeedingRow

Process == Instance \cup SeedRequest
Label == {"down", "idle", "seed_v1", "seed_rates", "pipeline", "serving"}

SeedTypes ==
  /\ at \in [Process -> Label]
  /\ seeding \in [Process -> SeedingRow]
  /\ today \in Nat
  /\ \A p \in Process : at[p] = "seed_rates" => seeding[p].pos # 0

\* The currencies p has looked up.
Passed(p) == {Currencies[j] : j \in {k \in DOMAIN Currencies : k < seeding[p].pos}}

\* Where i is, the schema is there, and so is what it has passed.
Sound(i) ==
  /\ at[i] \in {"seed_rates", "pipeline", "serving"} => v1 = TRUE
  /\ at[i] = "seed_rates" => \A c \in Passed(i) : c \in seeding[i].new \/ Seeds!Has(c, seeding[i].day)
  /\ at[i] \in {"pipeline", "serving"} => \A c \in Seeds!Ccy : Seeds!Has(c, seeding[i].day)

SeedingInv == \A i \in Instance : Sound(i)

SeedInv == SeedTypes /\ SeedingInv /\ Seeds!RatesAreUnique

LEMMA SeedInit == ASSUME Seeds!StartupAssumption PROVE Seeds!Init => SeedInv
<1> SUFFICES ASSUME Seeds!Init PROVE SeedInv
  OBVIOUS
<1>1. Seeds!NoSeeding \in SeedingRow
  BY DEF Seeds!NoSeeding
<1>2. SeedTypes
  BY <1>1 DEF Seeds!Init, SeedTypes, Process, Label
<1>3. SeedingInv /\ Seeds!RatesAreUnique
  BY DEF Seeds!Init, SeedingInv, Sound, Seeds!RatesAreUnique
<1> QED BY <1>2, <1>3 DEF SeedInv

\* More rates, and a schema that stays, harm nobody who did not move.
LEMMA Undisturbed ==
  ASSUME SeedingInv, rates \subseteq rates', v1 => v1',
         NEW i \in Instance, at'[i] = at[i], seeding'[i] = seeding[i]
  PROVE  Sound(i)'
<1>1. Passed(i)' = Passed(i)
  BY DEF Passed
<1>2. \A c, d : Seeds!Has(c, d) => Seeds!Has(c, d)'
  BY DEF Seeds!Has
<1>3. Sound(i)
  BY DEF SeedingInv
<1>4. at[i] \in {"seed_rates", "pipeline", "serving"} => v1' = TRUE
  BY <1>3 DEF Sound
<1> QED BY <1>1, <1>2, <1>3, <1>4 DEF Sound, Seeds!Has

\* Processes that are rolled back have nothing to be said of.
LEMMA RollbackStep ==
  ASSUME SeedInv, NEW P, Seeds!Rollback(P), UNCHANGED <<today, v1, rates>>
  PROVE  SeedInv'
<1>1. Seeds!NoSeeding \in SeedingRow
  BY DEF Seeds!NoSeeding
<1>2. SeedTypes'
  BY <1>1 DEF Seeds!Rollback, SeedInv, SeedTypes, Label, Process
<1>3. \A i \in Instance : IF i \in P THEN at'[i] = "down" ELSE at'[i] = at[i] /\ seeding'[i] = seeding[i]
  BY DEF Seeds!Rollback
<1>4. SeedingInv'
  BY <1>3, Undisturbed DEF SeedInv, SeedingInv, Sound
<1>5. Seeds!RatesAreUnique'
  BY DEF SeedInv, Seeds!RatesAreUnique
<1> QED BY <1>2, <1>4, <1>5 DEF SeedInv

\* Nobody moves: another day, or a rate that is entered by hand.
LEMMA IdleSteps ==
  ASSUME SeedInv, UNCHANGED <<v1, at, seeding>>, rates \subseteq rates', today' \in Nat, Seeds!RatesAreUnique'
  PROVE  SeedInv'
<1>1. SeedTypes'
  BY DEF SeedInv, SeedTypes
<1>2. SeedingInv'
  BY Undisturbed DEF SeedInv, SeedingInv
<1> QED BY <1>1, <1>2 DEF SeedInv

LEMMA AddRateStep ==
  ASSUME SeedInv, NEW c \in Seeds!Ccy, NEW d \in 1..Days, Seeds!AddRate(c, d)
  PROVE  SeedInv'
<1>1. Seeds!RatesAreUnique'
  BY DEF SeedInv, Seeds!RatesAreUnique, Seeds!AddRate, Seeds!Has
<1> QED BY <1>1, IdleSteps DEF Seeds!AddRate, SeedInv, SeedTypes

\* One process moves, and leaves the table as it is.
LEMMA MoveStep ==
  ASSUME SeedInv, NEW p \in Process, SeedTypes', UNCHANGED <<today, rates>>, v1 => v1',
         \A i \in Instance : i # p => at'[i] = at[i] /\ seeding'[i] = seeding[i],
         p \in Instance => Sound(p)'
  PROVE  SeedInv'
<1>1. SeedingInv'
  BY Undisturbed DEF SeedInv, SeedingInv
<1>2. Seeds!RatesAreUnique'
  BY DEF SeedInv, Seeds!RatesAreUnique
<1> QED BY <1>1, <1>2 DEF SeedInv

LEMMA StartStep ==
  ASSUME SeedInv, NEW i \in Instance, Seeds!Start(i), v1 \in BOOLEAN
  PROVE  SeedInv'
<1>1. [Seeds!NoSeeding EXCEPT !.found = v1] \in SeedingRow
  BY DEF Seeds!NoSeeding
<1>2. SeedTypes'
  BY <1>1 DEF Seeds!Start, Seeds!Goto, SeedInv, SeedTypes, Process, Label
<1>3. at'[i] = "seed_v1"
  BY DEF Seeds!Start, Seeds!Goto, SeedInv, SeedTypes, Process
<1>4. \A j \in Instance : j # i => at'[j] = at[j] /\ seeding'[j] = seeding[j]
  BY DEF Seeds!Start, Seeds!Goto, SeedInv, SeedTypes, Process
<1> QED BY <1>2, <1>3, <1>4, MoveStep DEF Seeds!Start, Sound, Process

LEMMA SeedV1Step ==
  ASSUME Seeds!StartupAssumption, SeedInv, NEW i \in Instance, Seeds!SeedV1(i)
  PROVE  SeedInv'
<1>1. CASE v1 /\ ~seeding[i].found
  BY <1>1, RollbackStep DEF Seeds!SeedV1, Process
<1>2. CASE ~(v1 /\ ~seeding[i].found)
  <2>1. /\ v1' = TRUE /\ at' = [at EXCEPT ![i] = "seed_rates"]
        /\ seeding' = [seeding EXCEPT ![i] = [seeding[i] EXCEPT !.day = today, !.pos = 1]]
        /\ UNCHANGED <<today, rates>>
    BY <1>2 DEF Seeds!SeedV1, Seeds!Goto, SeedInv, SeedTypes, Process
  <2>2. i \in Process
    BY DEF Process
  <2>3. seeding[i] \in SeedingRow /\ today \in Nat
    BY <2>2 DEF SeedInv, SeedTypes
  <2>4. [seeding[i] EXCEPT !.day = today, !.pos = 1] \in SeedingRow
    BY <2>3
  <2>5. SeedTypes'
    BY <2>1, <2>2, <2>4 DEF SeedInv, SeedTypes, Label
  <2>6. \A j \in Instance : j # i => at'[j] = at[j] /\ seeding'[j] = seeding[j]
    BY <2>1 DEF SeedInv, SeedTypes, Process
  <2>7. at'[i] = "seed_rates" /\ seeding'[i].pos = 1
    BY <2>1, <2>2, <2>3 DEF SeedInv, SeedTypes
  <2>8. Passed(i)' = {}
    BY <2>7 DEF Passed, Seeds!StartupAssumption
  <2>9. Sound(i)'
    BY <2>1, <2>7, <2>8 DEF Sound
  <2> QED BY <2>1, <2>2, <2>5, <2>6, <2>9, MoveStep
<1> QED BY <1>1, <1>2

LEMMA AskStep ==
  ASSUME Seeds!StartupAssumption, SeedInv, NEW r \in SeedRequest, Seeds!Ask(r)
  PROVE  SeedInv'
<1>1. [Seeds!NoSeeding EXCEPT !.day = today, !.pos = 1] \in SeedingRow
  BY DEF Seeds!NoSeeding, SeedInv, SeedTypes
<1>2. SeedTypes'
  BY <1>1 DEF Seeds!Ask, Seeds!Goto, SeedInv, SeedTypes, Process, Label
<1>3. r \notin Instance /\ \A i \in Instance : at'[i] = at[i] /\ seeding'[i] = seeding[i]
  BY DEF Seeds!Ask, Seeds!Goto, SeedInv, SeedTypes, Process, Seeds!StartupAssumption
<1> QED BY <1>2, <1>3, MoveStep DEF Seeds!Ask, Process

LEMMA LookUpStep ==
  ASSUME Seeds!StartupAssumption, SeedInv, NEW p \in Process, Seeds!LookUp(p)
  PROVE  SeedInv'
<1> DEFINE s == seeding[p]
           c == Currencies[s.pos]
           t == [s EXCEPT !.pos = s.pos + 1, !.new = IF Seeds!Has(c, s.day) THEN s.new ELSE s.new \cup {c}]
<1>1. s \in SeedingRow
  BY DEF SeedInv, SeedTypes
<1>2. seeding' = [seeding EXCEPT ![p] = t]
  BY DEF Seeds!LookUp, SeedInv, SeedTypes
<1>3. /\ t.pos = s.pos + 1 /\ t.day = s.day
      /\ t.new = IF Seeds!Has(c, s.day) THEN s.new ELSE s.new \cup {c}
  BY <1>1
<1>4. /\ t \in SeedingRow /\ t.pos # 0
      /\ s.pos \in DOMAIN Currencies
  <2>1. s.pos \in Nat \ {0} /\ s.pos <= Len(Currencies)
    BY <1>1 DEF Seeds!LookUp, SeedInv, SeedTypes
  <2>2. s.pos \in DOMAIN Currencies
    BY <2>1 DEF Seeds!StartupAssumption
  <2>3. c \in Seeds!Ccy
    BY <2>2 DEF Seeds!Ccy
  <2>4. (IF Seeds!Has(c, s.day) THEN s.new ELSE s.new \cup {c}) \in SUBSET Seeds!Ccy
    BY <1>1, <2>3
  <2>5. ASSUME NEW N \in SUBSET Seeds!Ccy
        PROVE  [s EXCEPT !.pos = s.pos + 1, !.new = N] \in SeedingRow
    <3> DEFINE S == SUBSET Seeds!Ccy
    <3>1. s.pos + 1 \in Nat /\ N \in S /\ s \in [found : BOOLEAN, day : Nat, pos : Nat, new : S]
      BY <1>1, <2>5
    <3> HIDE DEF s, S
    <3>2. [s EXCEPT !.pos = s.pos + 1, !.new = N] \in [found : BOOLEAN, day : Nat, pos : Nat, new : S]
      BY <3>1
    <3> QED BY <3>2 DEF S
  <2>6. t.pos # 0
    <3>1. s.pos \in Nat /\ t.pos = s.pos + 1
      BY <1>1, <1>3
    <3> HIDE DEF s, t
    <3> QED BY <3>1
  <2> QED BY <2>2, <2>4, <2>5, <2>6
<1> HIDE DEF t
<1>5. seeding'[p] = t /\ \A q \in Process : q # p => seeding'[q] = seeding[q]
  BY <1>2 DEF SeedInv, SeedTypes
<1>6. SeedTypes'
  BY <1>2, <1>4, <1>5 DEF Seeds!LookUp, SeedInv, SeedTypes
<1>7. ASSUME p \in Instance PROVE Sound(p)'
  <2>1. at'[p] = "seed_rates" /\ v1' = TRUE
    BY <1>7 DEF Seeds!LookUp, SeedInv, SeedingInv, Sound
  <2>2. ASSUME NEW x \in Passed(p)' PROVE x \in t.new \/ Seeds!Has(x, s.day)
    <3>1. PICK j \in DOMAIN Currencies : j < t.pos /\ x = Currencies[j]
      BY <1>5, <2>2 DEF Passed
    <3>2. CASE j = s.pos
      BY <1>3, <3>1, <3>2
    <3>3. CASE j < s.pos
      <4>1. x \in Passed(p)
        BY <3>1, <3>3 DEF Passed
      <4>2. x \in s.new \/ Seeds!Has(x, s.day)
        BY <1>7, <4>1 DEF SeedInv, SeedingInv, Sound, Seeds!LookUp
      <4> QED BY <1>3, <4>2
    <3> QED BY <1>1, <1>3, <3>1, <3>2, <3>3 DEF Seeds!StartupAssumption
  <2>3. rates' = rates /\ seeding'[p].new = t.new /\ seeding'[p].day = s.day
    BY <1>3, <1>5 DEF Seeds!LookUp
  <2>4. \A x \in Passed(p)' : x \in seeding'[p].new \/ \E r \in rates' : r.ccy = x /\ r.day = seeding'[p].day
    BY <2>2, <2>3 DEF Seeds!Has
  <2> QED BY <2>1, <2>4 DEF Sound, Seeds!Has
<1> QED BY <1>5, <1>6, <1>7, MoveStep DEF Seeds!LookUp, Process

\* What is inserted is new and of one day, and with it all currencies are there.
LEMMA StoreStep ==
  ASSUME Seeds!StartupAssumption, SeedInv, NEW p \in Process, Seeds!Store(p)
  PROVE  SeedInv'
<1> DEFINE s == seeding[p]
<1>1. s \in SeedingRow
  BY DEF SeedInv, SeedTypes
<1>2. CASE Seeds!Conflict(p)
  BY <1>2, RollbackStep DEF Seeds!Store
<1>3. CASE ~Seeds!Conflict(p)
  <2>1. /\ rates' = rates \cup Seeds!SeedRows(p)
        /\ at' = [at EXCEPT ![p] = IF p \in Instance THEN "pipeline" ELSE "idle"]
        /\ seeding' = [seeding EXCEPT ![p] = [s EXCEPT !.new = {}]]
        /\ UNCHANGED <<today, v1>>
    BY <1>3 DEF Seeds!Store, Seeds!Goto, SeedInv, SeedTypes
  <2>2. /\ at'[p] \in {"pipeline", "idle"}
        /\ \A q \in Process : q # p => at'[q] = at[q] /\ seeding'[q] = seeding[q]
        /\ seeding'[p] = [s EXCEPT !.new = {}]
    BY <2>1 DEF SeedInv, SeedTypes
  <2>3. [s EXCEPT !.new = {}] \in SeedingRow
          /\ [s EXCEPT !.new = {}].day = s.day
    BY <1>1
  <2>4. SeedTypes'
    BY <2>1, <2>2, <2>3 DEF SeedInv, SeedTypes, Label
  <2>5. Seeds!RatesAreUnique'
    <3>1. \A r \in Seeds!SeedRows(p) :
            r.ccy \in s.new /\ r.day = s.day /\ r = [ccy |-> r.ccy, day |-> s.day, source |-> "seed"]
      BY DEF Seeds!SeedRows
    <3>2. \A r \in rates, q \in Seeds!SeedRows(p) : ~(r.ccy = q.ccy /\ r.day = q.day)
      BY <1>3, <3>1 DEF Seeds!Conflict, Seeds!Has
    <3> QED BY <2>1, <3>1, <3>2 DEF SeedInv, Seeds!RatesAreUnique
  <2>6. ASSUME p \in Instance PROVE Sound(p)'
    <3>1. v1 = TRUE /\ \A x \in Passed(p) : x \in s.new \/ Seeds!Has(x, s.day)
      BY <2>6 DEF Seeds!Store, Seeds!Seeded, SeedInv, SeedingInv, Sound
    <3>2. \A x \in Seeds!Ccy : x \in Passed(p)
      BY <1>1 DEF Seeds!Store, Seeds!Seeded, Seeds!Ccy, Passed, Seeds!StartupAssumption
    <3>3. \A x \in s.new : [ccy |-> x, day |-> s.day, source |-> "seed"] \in rates'
      BY <2>1 DEF Seeds!SeedRows
    <3>4. \A x \in Seeds!Ccy : \E r \in rates' : r.ccy = x /\ r.day = s.day
      <4> SUFFICES ASSUME NEW x \in Seeds!Ccy PROVE \E r \in rates' : r.ccy = x /\ r.day = s.day
        OBVIOUS
      <4>1. CASE x \in s.new
        <5>1. [ccy |-> x, day |-> s.day, source |-> "seed"] \in rates'
          BY <3>3, <4>1
        <5> QED BY <5>1
      <4>2. CASE Seeds!Has(x, s.day)
        BY <2>1, <4>2 DEF Seeds!Has
      <4> QED BY <3>1, <3>2, <4>1, <4>2
    <3> QED BY <2>1, <2>2, <2>3, <3>1, <3>4 DEF Sound, Seeds!Has
  <2>7. \A i \in Instance : i # p => Sound(i)'
    BY <2>1, <2>2, Undisturbed DEF SeedInv, Process
  <2> QED BY <2>4, <2>5, <2>6, <2>7 DEF SeedInv, SeedingInv
<1> QED BY <1>2, <1>3

LEMMA ServeStep ==
  ASSUME SeedInv, NEW i \in Instance, Seeds!Serve(i)
  PROVE  SeedInv'
<1>1. at' = [at EXCEPT ![i] = "serving"] /\ UNCHANGED <<v1, seeding, today, rates>> /\ i \in Process
  BY DEF Seeds!Serve, Seeds!Goto, Process
<1>2. at'[i] = "serving" /\ \A q \in Process : q # i => at'[q] = at[q]
  BY <1>1 DEF SeedInv, SeedTypes
<1>3. SeedTypes'
  BY <1>1, <1>2 DEF SeedInv, SeedTypes, Label
<1>4. Sound(i)
  BY DEF SeedInv, SeedingInv
<1>5. v1 = TRUE /\ \A c \in Seeds!Ccy : Seeds!Has(c, seeding[i].day)
  BY <1>4 DEF Sound, Seeds!Serve
<1>6. Sound(i)'
  BY <1>1, <1>2, <1>5 DEF Sound, Seeds!Has
<1> QED BY <1>1, <1>2, <1>3, <1>6, MoveStep DEF Process

LEMMA SeedNext ==
  ASSUME Seeds!StartupAssumption
  PROVE  SeedInv /\ v1 \in BOOLEAN /\ [Seeds!Next]_seedVars => SeedInv' /\ v1' \in BOOLEAN
<1> SUFFICES ASSUME SeedInv, v1 \in BOOLEAN, [Seeds!Next]_seedVars PROVE SeedInv' /\ v1' \in BOOLEAN
  OBVIOUS
<1>1. CASE UNCHANGED seedVars
  BY <1>1, IdleSteps DEF seedVars, SeedInv, SeedTypes, Seeds!RatesAreUnique
<1>2. CASE Seeds!NextDay
  BY <1>2, IdleSteps DEF Seeds!NextDay, SeedInv, SeedTypes, Seeds!RatesAreUnique
<1>3. CASE \E c \in Seeds!Ccy, d \in 1..Days : Seeds!AddRate(c, d)
  BY <1>3, AddRateStep DEF Seeds!AddRate
<1>4. CASE \E r \in SeedRequest : Seeds!Ask(r)
  BY <1>4, AskStep DEF Seeds!Ask
<1>5. ASSUME NEW p \in Process, Seeds!Step(p) PROVE SeedInv' /\ v1' \in BOOLEAN
  <2>1. CASE p \in Instance /\ Seeds!Start(p)
    BY <2>1, StartStep DEF Seeds!Start
  <2>2. CASE p \in Instance /\ Seeds!SeedV1(p)
    BY <2>2, SeedV1Step DEF Seeds!SeedV1
  <2>3. CASE p \in Instance /\ Seeds!Serve(p)
    BY <2>3, ServeStep DEF Seeds!Serve
  <2>4. CASE Seeds!LookUp(p)
    BY <2>4, LookUpStep DEF Seeds!LookUp
  <2>5. CASE Seeds!Store(p)
    BY <2>5, StoreStep DEF Seeds!Store
  <2> QED BY <1>5, <2>1, <2>2, <2>3, <2>4, <2>5 DEF Seeds!Step
<1>6. ASSUME NEW p \in Process, Seeds!Fail(p) PROVE SeedInv' /\ v1' \in BOOLEAN
  BY <1>6, RollbackStep DEF Seeds!Fail
<1> QED BY <1>1, <1>2, <1>3, <1>4, <1>5, <1>6 DEF Seeds!Next, Process

\* An instance that has passed the seeding of lifespan has the schema and a
\* rate of its day for every currency, and no currency has two rates of one
\* day, however many instances and requests seed at once.
THEOREM Seeding == StartSpec => []SeedingIsSound
<1>1. StartInit => SeedInv /\ v1 \in BOOLEAN
  BY StartConstants, SeedInit DEF StartInit, Seeds!Init
<1>2. SeedInv => SeedingIsSound
  BY DEF SeedInv, SeedingInv, Sound, SeedingIsSound, Seeds!SeedingIsSound, Seeds!SeedsAreComplete
<1>3. (SeedInv /\ v1 \in BOOLEAN) /\ [StartNext]_allVars => (SeedInv /\ v1 \in BOOLEAN)'
  <2>1. [StartNext]_allVars => [Seeds!Next]_seedVars
    BY DEF StartNext, allVars
  <2> QED BY <2>1, StartConstants, SeedNext
<1> QED BY <1>1, <1>2, <1>3, PTL DEF StartSpec
=============================================================================
