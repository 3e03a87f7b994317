--------------------------- MODULE FileLoadProofs ---------------------------
(***************************************************************************)
(* Proofs about FileLoad for any number of sessions, files, tenants and    *)
(* loads, the default tenant included.  The inductive invariant says what  *)
(* the FOR UPDATE lock and the distinct stamps give: a row that a load     *)
(* holds is held by it alone and stays current, and the row a load will    *)
(* insert has an id that no row and no other load has.  With it, what a    *)
(* commit logs is exactly what its new version changed.                    *)
(***************************************************************************)
EXTENDS ReadModel, SetLemmas

RowFields == {"id", "tenant", "name", "attrs", "version", "valid_to"}

Shape == /\ clock \in Nat
         /\ pc \in [Loader -> PC]
         /\ DOMAIN tx = Loader
         /\ \A l \in Loader : DOMAIN tx[l] = DOMAIN NoTx

RowShape == \A r \in companies : /\ DOMAIN r = RowFields
                                 /\ r.id \in 1..clock
                                 /\ r.version \in Nat

UniqueIds == \A r, s \in companies : r.id = s.id => r = s

BasesAreLocked == \A l \in Loader : pc[l] \notin Locking => tx[l].base = 0

StampsAreFresh ==
  \A l \in Loader :
    pc[l] \in Inserted =>
      /\ tx[l].id \in 1..clock
      /\ \A r \in companies : r.id # tx[l].id
      /\ \A k \in Loader : k # l /\ pc[k] \in Inserted => tx[k].id # tx[l].id

HeldIsCurrent ==
  \A l \in Loader :
    pc[l] \in Locking /\ tx[l].base # 0 => \E r \in companies : r.id = tx[l].base /\ IsCurrent(r)

IInv == /\ Shape /\ RowShape /\ UniqueIds
        /\ BasesAreLocked /\ StampsAreFresh /\ HeldIsCurrent
        /\ LocksExclude /\ TransitionsPairUp

LEMMA InitInv == Init => IInv
<1> SUFFICES ASSUME Init PROVE IInv
  OBVIOUS
<1>1. Shape
  BY DEF Init, Shape, PC
<1>2. companies = {} /\ \A l \in Loader : pc[l] = "idle" /\ tx[l].base = 0
  BY DEF Init, NoTx
<1> QED BY <1>1, <1>2 DEF IInv, RowShape, UniqueIds, BasesAreLocked, StampsAreFresh, HeldIsCurrent,
                          LocksExclude, TransitionsPairUp, Locking, Inserted

\* A step of session l that writes no company row, from what it leaves l with.
LEMMA StepKeeps ==
  ASSUME IInv, NEW l \in Loader,
         companies' = companies, clock' \in Nat, clock <= clock',
         pc' = [pc EXCEPT ![l] = pc'[l]], pc'[l] \in PC,
         tx' = [tx EXCEPT ![l] = tx'[l]], DOMAIN tx'[l] = DOMAIN NoTx,
         pc'[l] \notin Locking => tx'[l].base = 0,
         pc'[l] \in Inserted =>
           /\ tx'[l].id \in 1..clock'
           /\ \A r \in companies : r.id # tx'[l].id
           /\ \A k \in Loader : k # l /\ pc[k] \in Inserted => tx[k].id # tx'[l].id,
         pc'[l] \in Locking /\ tx'[l].base # 0 =>
           /\ \E r \in companies : r.id = tx'[l].base /\ IsCurrent(r)
           /\ \A k \in Loader : k # l /\ pc[k] \in Locking => tx[k].base # tx'[l].base
  PROVE  IInv'
<1>1. \A k \in Loader : k # l => pc'[k] = pc[k] /\ tx'[k] = tx[k]
  BY DEF IInv, Shape
<1>2. Shape'
  BY DEF IInv, Shape
<1>3. RowShape' /\ UniqueIds' /\ TransitionsPairUp'
  BY DEF IInv, Shape, RowShape, UniqueIds, TransitionsPairUp, IsCurrent
<1>4. BasesAreLocked'
  BY <1>1 DEF IInv, BasesAreLocked, Locking
<1>5. StampsAreFresh'
  BY <1>1 DEF IInv, Shape, StampsAreFresh, Inserted
<1>6. HeldIsCurrent'
  BY <1>1 DEF IInv, HeldIsCurrent, IsCurrent, Locking
<1>7. LocksExclude'
  BY <1>1 DEF IInv, LocksExclude, Locking
<1> QED BY <1>2, <1>3, <1>4, <1>5, <1>6, <1>7 DEF IInv

\* A load that ends without writing a company row.
LEMMA StopInv ==
  ASSUME IInv, NEW l \in Loader, NEW r, Stop(l, r), companies' = companies,
         clock' \in {clock, clock + 1}
  PROVE  IInv'
<1>1. pc'[l] = "idle" /\ tx'[l] = NoTx /\ NoTx.base = 0
  BY DEF IInv, Shape, Stop, NoTx
<1>2. clock' \in Nat /\ clock <= clock'
  BY DEF IInv, Shape
<1>3. pc' = [pc EXCEPT ![l] = pc'[l]] /\ tx' = [tx EXCEPT ![l] = tx'[l]]
  BY <1>1 DEF Stop
<1> QED BY <1>1, <1>2, <1>3, StepKeeps DEF PC, Locking, Inserted

\* A statement that moves l among the positions before the lock.
LEMMA BeforeLockInv ==
  ASSUME IInv, NEW l \in Loader, NEW to \in PC \ Locking, NEW t, Go(l, to, t), UNCHANGED clock,
         DOMAIN t = DOMAIN NoTx, t.base = 0, to \in Inserted => pc[l] \in Inserted /\ t.id = tx[l].id
  PROVE  IInv'
<1>1. pc'[l] = to /\ tx'[l] = t /\ companies' = companies
  BY DEF IInv, Shape, Go, tables, history, series
<1>2. pc' = [pc EXCEPT ![l] = pc'[l]] /\ tx' = [tx EXCEPT ![l] = tx'[l]]
  BY <1>1 DEF Go
<1>3. clock' \in Nat /\ clock <= clock'
  BY DEF IInv, Shape
<1>4. to \in Inserted =>
        /\ t.id \in 1..clock'
        /\ \A r \in companies : r.id # t.id
        /\ \A k \in Loader : k # l /\ pc[k] \in Inserted => tx[k].id # t.id
  BY DEF IInv, StampsAreFresh
<1> QED BY <1>1, <1>2, <1>3, <1>4, StepKeeps

LEMMA GateInv ==
  ASSUME IInv, NEW l \in Loader, NEW f, NEW t, NEW u, Gate(l, f, t, u)
  PROVE  IInv'
<1>1. CASE Stop(l, "skipped") /\ UNCHANGED tables
  BY <1>1, StopInv DEF Gate, tables, history, series
<1>2. CASE Go(l, "reading", [NoTx EXCEPT !.file = f, !.tenant = t, !.again = u])
  <2> DEFINE x == [NoTx EXCEPT !.file = f, !.tenant = t, !.again = u]
  <2>1. DOMAIN x = DOMAIN NoTx /\ x.base = 0
    BY DEF NoTx
  <2>2. "reading" \in PC \ Locking /\ "reading" \notin Inserted /\ UNCHANGED clock
    BY DEF PC, Locking, Inserted, Gate
  <2> HIDE DEF x
  <2> QED BY <1>2, <2>1, <2>2, BeforeLockInv DEF x
<1> QED BY <1>1, <1>2 DEF Gate

LEMMA UnreadableInv ==
  ASSUME IInv, NEW l \in Loader, NEW f, NEW t, NEW u, Unreadable(l, f, t, u)
  PROVE  IInv'
<1>1. companies' = companies /\ clock' = clock + 1 /\ \E r : Stop(l, r)
  BY DEF Unreadable, history, series
<1> QED BY <1>1, StopInv

LEMMA ReadPreviousInv ==
  ASSUME IInv, NEW l \in Loader, ReadPrevious(l)
  PROVE  IInv'
<1> DEFINE x == [tx[l] EXCEPT !.prev = LatestSnapshot(FileName[tx[l].file], tx[l].tenant)]
<1>1. DOMAIN x = DOMAIN NoTx /\ x.base = 0
  BY DEF IInv, Shape, BasesAreLocked, NoTx, ReadPrevious, Locking
<1>2. "inserting" \in PC \ Locking /\ "inserting" \notin Inserted
  BY DEF PC, Locking, Inserted
<1>3. Go(l, "inserting", x) /\ UNCHANGED clock
  BY DEF ReadPrevious
<1> HIDE DEF x
<1> QED BY <1>1, <1>2, <1>3, BeforeLockInv

\* The new stamp is above every id there is.
LEMMA InsertUploadInv ==
  ASSUME IInv, NEW l \in Loader, InsertUpload(l)
  PROVE  IInv'
<1> DEFINE x == [tx[l] EXCEPT !.id = clock + 1]
<1>1. DOMAIN x = DOMAIN NoTx /\ x.base = 0 /\ x.id = clock + 1
  BY DEF IInv, Shape, BasesAreLocked, NoTx, InsertUpload, Locking
<1>2. pc'[l] = "selecting" /\ tx'[l] = x /\ companies' = companies
  BY DEF IInv, Shape, InsertUpload, Go, tables, history, series
<1>3. pc' = [pc EXCEPT ![l] = pc'[l]] /\ tx' = [tx EXCEPT ![l] = tx'[l]]
  BY <1>2 DEF InsertUpload, Go
<1>4. clock' \in Nat /\ clock <= clock' /\ x.id \in 1..clock'
  BY <1>1 DEF IInv, Shape, InsertUpload
<1>5. \A r \in companies : r.id # x.id
  BY <1>1 DEF IInv, Shape, RowShape
<1>6. \A k \in Loader : k # l /\ pc[k] \in Inserted => tx[k].id # x.id
  BY <1>1 DEF IInv, Shape, StampsAreFresh
<1>7. "selecting" \in PC /\ "selecting" \notin Locking
  BY DEF PC, Locking
<1> HIDE DEF x
<1> QED BY <1>1, <1>2, <1>3, <1>4, <1>5, <1>6, <1>7, StepKeeps

LEMMA SelectCompanyInv ==
  ASSUME IInv, NEW l \in Loader, SelectCompany(l)
  PROVE  IInv'
<1> DEFINE x == [tx[l] EXCEPT !.found = CurrentRows(FileName[tx[l].file], tx[l].tenant)]
<1>1. DOMAIN x = DOMAIN NoTx /\ x.base = 0 /\ x.id = tx[l].id
  BY DEF IInv, Shape, BasesAreLocked, NoTx, SelectCompany, Locking
<1>2. "locking" \in PC \ Locking /\ pc[l] \in Inserted
  BY DEF PC, Locking, Inserted, SelectCompany
<1>3. Go(l, "locking", x) /\ UNCHANGED clock
  BY DEF SelectCompany
<1> HIDE DEF x
<1> QED BY <1>1, <1>2, <1>3, BeforeLockInv

LEMMA DropStaleRowInv ==
  ASSUME IInv, NEW l \in Loader, DropStaleRow(l)
  PROVE  IInv'
<1>1. PICK r \in companies : Go(l, "locking", [tx[l] EXCEPT !.found = @ \ {r.id}])
  BY DEF DropStaleRow
<1> DEFINE x == [tx[l] EXCEPT !.found = @ \ {r.id}]
<1>2. DOMAIN x = DOMAIN NoTx /\ x.base = 0 /\ x.id = tx[l].id
  BY DEF IInv, Shape, BasesAreLocked, NoTx, DropStaleRow, Locking
<1>3. "locking" \in PC \ Locking /\ pc[l] \in Inserted /\ UNCHANGED clock
  BY DEF PC, Locking, Inserted, DropStaleRow
<1>4. Go(l, "locking", x)
  BY <1>1
<1> HIDE DEF x
<1> QED BY <1>2, <1>3, <1>4, BeforeLockInv

\* A statement that moves l to or within the positions at which it holds its
\* row, if it has one.
LEMMA HoldingInv ==
  ASSUME IInv, NEW l \in Loader, NEW to \in Locking, NEW t, Go(l, to, t), UNCHANGED clock,
         DOMAIN t = DOMAIN NoTx, t.id = tx[l].id, pc[l] \in Inserted,
         t.base # 0 =>
           /\ \E r \in companies : r.id = t.base /\ IsCurrent(r)
           /\ \A k \in Loader : k # l /\ pc[k] \in Locking => tx[k].base # t.base
  PROVE  IInv'
<1>1. pc'[l] = to /\ tx'[l] = t /\ companies' = companies
  BY DEF IInv, Shape, Go, tables, history, series
<1>2. pc' = [pc EXCEPT ![l] = pc'[l]] /\ tx' = [tx EXCEPT ![l] = tx'[l]]
  BY <1>1 DEF Go
<1>3. clock' \in Nat /\ clock <= clock' /\ to \in PC
  BY DEF IInv, Shape, Locking, PC
<1>4. /\ t.id \in 1..clock'
      /\ \A r \in companies : r.id # t.id
      /\ \A k \in Loader : k # l /\ pc[k] \in Inserted => tx[k].id # t.id
  BY DEF IInv, StampsAreFresh
<1> QED BY <1>1, <1>2, <1>3, <1>4, StepKeeps

\* The guard of the lock: the row is current and nobody else holds it.
LEMMA LockCompanyInv ==
  ASSUME IInv, NEW l \in Loader, LockCompany(l)
  PROVE  IInv'
<1>1. PICK r \in companies : ~Locked(r.id) /\ IsCurrent(r) /\ Go(l, "deriving", [tx[l] EXCEPT !.base = r.id])
  BY DEF LockCompany
<1> DEFINE x == [tx[l] EXCEPT !.base = r.id]
<1>2. DOMAIN x = DOMAIN NoTx /\ x.base = r.id /\ x.id = tx[l].id
  BY DEF IInv, Shape, NoTx
<1>3. \A k \in Loader : pc[k] \in Locking => tx[k].base # r.id
  BY <1>1 DEF Locked
<1>4. "deriving" \in Locking /\ pc[l] \in Inserted /\ UNCHANGED clock
  BY DEF Locking, Inserted, LockCompany
<1>5. Go(l, "deriving", x)
  BY <1>1
<1> HIDE DEF x
<1> QED BY <1>1, <1>2, <1>3, <1>4, <1>5, HoldingInv

LEMMA NoCompanyInv ==
  ASSUME IInv, NEW l \in Loader, NoCompany(l)
  PROVE  IInv'
<1>1. DOMAIN tx[l] = DOMAIN NoTx /\ tx[l].base = 0
  BY DEF IInv, Shape, BasesAreLocked, NoCompany, Locking
<1>2. "deriving" \in Locking /\ pc[l] \in Inserted
  BY DEF Locking, Inserted, NoCompany
<1>3. Go(l, "deriving", tx[l]) /\ UNCHANGED clock
  BY DEF NoCompany
<1> QED BY <1>1, <1>2, <1>3, HoldingInv

\* The statements after the lock, which read what the commit relies on.
Derive(l) == DetectDelta(l) \/ CountUploads(l) \/ FindWatermark(l)

\* They leave the load where it is, with the same row.
LEMMA Derives ==
  ASSUME IInv, NEW l \in Loader, Derive(l)
  PROVE  /\ pc[l] \in Locking /\ pc[l] \in Inserted /\ UNCHANGED clock
         /\ \E to \in Locking : \E x :
              /\ Go(l, to, x) /\ DOMAIN x = DOMAIN NoTx
              /\ x.file = tx[l].file /\ x.tenant = tx[l].tenant /\ x.id = tx[l].id /\ x.base = tx[l].base
              /\ to = "committing" => x.mark \in {0} \cup Marks(FileName[tx[l].file], tx[l].tenant)
<1>1. DOMAIN tx[l] = DOMAIN NoTx
  BY DEF IInv, Shape
<1>2. pc[l] \in Locking /\ pc[l] \in Inserted /\ UNCHANGED clock
  BY DEF Derive, DetectDelta, CountUploads, FindWatermark, Locking, Inserted
<1>3. ASSUME NEW o, NEW to \in {"counting", "marking"}, Go(l, to, [tx[l] EXCEPT !.outcome = o])
      PROVE  \E t \in Locking : \E x :
               /\ Go(l, t, x) /\ DOMAIN x = DOMAIN NoTx
               /\ x.file = tx[l].file /\ x.tenant = tx[l].tenant /\ x.id = tx[l].id /\ x.base = tx[l].base
               /\ t # "committing"
  <2> DEFINE x == [tx[l] EXCEPT !.outcome = o]
  <2>1. /\ DOMAIN x = DOMAIN NoTx /\ to \in Locking /\ to # "committing"
        /\ x.file = tx[l].file /\ x.tenant = tx[l].tenant /\ x.id = tx[l].id /\ x.base = tx[l].base
    BY <1>1 DEF NoTx, Locking
  <2>2. Go(l, to, x)
    BY <1>3
  <2> HIDE DEF x
  <2> QED BY <2>1, <2>2
<1>4. CASE DetectDelta(l)
  BY <1>2, <1>3, <1>4 DEF DetectDelta
<1>5. CASE CountUploads(l)
  <2>1. PICK v : Go(l, "marking", [tx[l] EXCEPT !.version = v])
    BY <1>5 DEF CountUploads
  <2> DEFINE x == [tx[l] EXCEPT !.version = v]
  <2>2. /\ DOMAIN x = DOMAIN NoTx /\ "marking" \in Locking
        /\ x.file = tx[l].file /\ x.tenant = tx[l].tenant /\ x.id = tx[l].id /\ x.base = tx[l].base
    BY <1>1 DEF NoTx, Locking
  <2>3. Go(l, "marking", x)
    BY <2>1
  <2> HIDE DEF x
  <2> QED BY <1>2, <2>2, <2>3
<1>6. CASE FindWatermark(l)
  <2> DEFINE M == Marks(FileName[tx[l].file], tx[l].tenant)
  <2>1. PICK w \in {0} \cup M : Go(l, "committing", [tx[l] EXCEPT !.mark = w])
    BY <1>6 DEF FindWatermark
  <2> DEFINE x == [tx[l] EXCEPT !.mark = w]
  <2>2. /\ DOMAIN x = DOMAIN NoTx /\ "committing" \in Locking /\ x.mark = w
        /\ x.file = tx[l].file /\ x.tenant = tx[l].tenant /\ x.id = tx[l].id /\ x.base = tx[l].base
    BY <1>1 DEF NoTx, Locking
  <2>3. Go(l, "committing", x)
    BY <2>1
  <2> HIDE DEF x
  <2> QED BY <1>2, <2>1, <2>2, <2>3
<1> QED BY <1>4, <1>5, <1>6 DEF Derive

LEMMA DeriveInv ==
  ASSUME IInv, NEW l \in Loader, Derive(l)
  PROVE  IInv'
<1>1. pc[l] \in Locking /\ pc[l] \in Inserted /\ UNCHANGED clock
  BY Derives
<1>2. PICK to \in Locking : \E x : /\ Go(l, to, x) /\ DOMAIN x = DOMAIN NoTx
                                   /\ x.id = tx[l].id /\ x.base = tx[l].base
  BY Derives
<1>3. tx[l].base # 0 =>
        /\ \E r \in companies : r.id = tx[l].base /\ IsCurrent(r)
        /\ \A k \in Loader : k # l /\ pc[k] \in Locking => tx[k].base # tx[l].base
  BY <1>1 DEF IInv, HeldIsCurrent, LocksExclude
<1> QED BY <1>1, <1>2, <1>3, HoldingInv

\* What a commit does to the company rows: nothing, a first version, or a
\* current row closed and its successor added.
LEMMA CommitWrites ==
  ASSUME IInv, NEW l \in Loader, pc[l] = "committing", companies' = CompanyWrites(tx[l])
  PROVE  \/ companies' = companies
         \/ companies' = companies \cup {NewRow(tx[l], 1)}
         \/ \E b \in companies :
              /\ tx[l].base # 0 /\ b.id = tx[l].base /\ IsCurrent(b)
              /\ companies' = (companies \ {b}) \cup {[b EXCEPT !.valid_to = tx[l].id],
                                                     NewRow(tx[l], b.version + 1)}
<1>1. CASE tx[l].base = 0 \/ ChangedFields(tx[l]) = {}
  BY <1>1 DEF CompanyWrites
<1>2. CASE tx[l].base # 0 /\ ChangedFields(tx[l]) # {}
  <2>1. PICK b \in companies : b.id = tx[l].base /\ IsCurrent(b)
    BY <1>2 DEF IInv, HeldIsCurrent, Locking
  <2>2. Row(tx[l].base) = b
    BY <2>1 DEF IInv, UniqueIds, Row
  <2> QED BY <1>2, <2>1, <2>2 DEF CompanyWrites
<1> QED BY <1>1, <1>2

\* After l has stopped, the others' locks and stamps are as they were; what
\* remains to show is about the rows.
LEMMA StoppedInv ==
  ASSUME IInv, NEW l \in Loader, NEW r, Stop(l, r), UNCHANGED clock,
         RowShape', UniqueIds', TransitionsPairUp',
         \A k \in Loader : k # l /\ pc[k] \in Inserted => \A c \in companies' : c.id # tx[k].id,
         \A k \in Loader : k # l /\ pc[k] \in Locking /\ tx[k].base # 0 =>
           \E c \in companies' : c.id = tx[k].base /\ IsCurrent(c)
  PROVE  IInv'
<1>1. \A k \in Loader : k # l => pc'[k] = pc[k] /\ tx'[k] = tx[k]
  BY DEF IInv, Shape, Stop
<1>2. pc'[l] = "idle" /\ tx'[l] = NoTx /\ NoTx.base = 0
  BY DEF IInv, Shape, Stop, NoTx
<1>3. Shape'
  BY DEF IInv, Shape, Stop, PC
<1>4. BasesAreLocked'
  BY <1>1, <1>2 DEF IInv, BasesAreLocked, Locking
<1>5. StampsAreFresh'
  BY <1>1, <1>2 DEF IInv, StampsAreFresh, Inserted
<1>6. HeldIsCurrent'
  BY <1>1, <1>2 DEF HeldIsCurrent, IsCurrent, Locking
<1>7. LocksExclude'
  BY <1>1, <1>2 DEF IInv, LocksExclude, Locking
<1> QED BY <1>3, <1>4, <1>5, <1>6, <1>7 DEF IInv

LEMMA CommitInv ==
  ASSUME IInv, NEW l \in Loader, Commit(l)
  PROVE  IInv'
<1> DEFINE x == tx[l]
<1>1. /\ Stop(l, x.outcome) /\ UNCHANGED clock
      /\ companies' = CompanyWrites(x)
      /\ pc[l] = "committing"
  BY DEF Commit
<1>2. x.id \in 1..clock /\ \A r \in companies : r.id # x.id
  BY <1>1 DEF IInv, StampsAreFresh, Inserted
<1>3. \A v \in Nat : LET n == NewRow(x, v) IN
        DOMAIN n = RowFields /\ n.id = x.id /\ n.version = v /\ n.valid_to = NULL
  BY DEF NewRow, RowFields
<1>4. \A k \in Loader : k # l /\ pc[k] \in Inserted => tx[k].id # x.id
  BY <1>1 DEF IInv, StampsAreFresh, Inserted
<1>5. CASE companies' = companies
  <2>1. RowShape' /\ UniqueIds' /\ TransitionsPairUp'
    BY <1>1, <1>5 DEF IInv, RowShape, UniqueIds, TransitionsPairUp, IsCurrent
  <2>2. \A k \in Loader : k # l /\ pc[k] \in Inserted => \A c \in companies' : c.id # tx[k].id
    BY <1>5 DEF IInv, StampsAreFresh
  <2>3. \A k \in Loader : k # l /\ pc[k] \in Locking /\ tx[k].base # 0 =>
           \E c \in companies' : c.id = tx[k].base /\ IsCurrent(c)
    BY <1>5 DEF IInv, HeldIsCurrent
  <2> QED BY <1>1, <2>1, <2>2, <2>3, StoppedInv
<1>6. CASE companies' = companies \cup {NewRow(x, 1)}
  <2> DEFINE n == NewRow(x, 1)
  <2>0. DOMAIN n = RowFields /\ n.id = x.id /\ n.version = 1 /\ n.valid_to = NULL
    BY <1>3
  <2> HIDE DEF n
  <2>1. companies' = companies \cup {n}
    BY <1>6 DEF n
  <2>2. RowShape'
    BY <1>1, <1>2, <2>0, <2>1 DEF IInv, RowShape
  <2>3. UniqueIds'
    BY <1>2, <2>0, <2>1 DEF IInv, UniqueIds
  <2>4. TransitionsPairUp'
    BY <2>0, <2>1 DEF IInv, TransitionsPairUp, IsCurrent
  <2>5. \A k \in Loader : k # l /\ pc[k] \in Inserted => \A c \in companies' : c.id # tx[k].id
    BY <1>4, <2>0, <2>1 DEF IInv, StampsAreFresh
  <2>6. \A k \in Loader : k # l /\ pc[k] \in Locking /\ tx[k].base # 0 =>
           \E c \in companies' : c.id = tx[k].base /\ IsCurrent(c)
    BY <2>1 DEF IInv, HeldIsCurrent
  <2> QED BY <1>1, <2>2, <2>3, <2>4, <2>5, <2>6, StoppedInv
<1>7. ASSUME NEW b \in companies, x.base # 0, b.id = x.base, IsCurrent(b),
             companies' = (companies \ {b}) \cup {[b EXCEPT !.valid_to = x.id], NewRow(x, b.version + 1)}
      PROVE  IInv'
  <2> DEFINE o == [b EXCEPT !.valid_to = x.id]
             n == NewRow(x, b.version + 1)
  <2>0. b.version \in Nat /\ b.id \in 1..clock /\ b.id # x.id /\ DOMAIN b = RowFields
    BY <1>2 DEF IInv, RowShape
  <2>1. /\ DOMAIN n = RowFields /\ n.id = x.id /\ n.version = b.version + 1 /\ n.valid_to = NULL
        /\ DOMAIN o = RowFields /\ o.id = b.id /\ o.version = b.version /\ o.valid_to = x.id
    BY <1>3, <2>0 DEF RowFields
  <2> HIDE DEF o, n
  <2>2. companies' = (companies \ {b}) \cup {o, n}
    BY <1>7 DEF o, n
  <2>3. RowShape'
    BY <1>1, <1>2, <2>0, <2>1, <2>2 DEF IInv, RowShape
  <2>4. UniqueIds'
    BY <1>2, <2>0, <2>1, <2>2 DEF IInv, UniqueIds
  <2>5. TransitionsPairUp'
    <3> SUFFICES ASSUME NEW r \in companies'
                 PROVE  /\ r.version > 1 => \E s \in companies' : s.valid_to = r.id /\ s.version + 1 = r.version
                        /\ ~IsCurrent(r) => \E s \in companies' : s.id = r.valid_to /\ s.version = r.version + 1
      BY DEF TransitionsPairUp, IsCurrent
    <3>0. x.id # NULL
      BY <1>2, NullTenantAssumption
    <3>1. CASE r = n
      BY <2>1, <2>2, <3>1 DEF IsCurrent
    <3>2. ASSUME NEW q \in companies, r = IF q = b THEN o ELSE q, r.id = q.id, r.version = q.version
          PROVE  /\ r.version > 1 => \E s \in companies' : s.valid_to = r.id /\ s.version + 1 = r.version
                 /\ ~IsCurrent(r) => \E s \in companies' : s.id = r.valid_to /\ s.version = r.version + 1
      <4>1. ASSUME r.version > 1
            PROVE  \E s \in companies' : s.valid_to = r.id /\ s.version + 1 = r.version
        <5>1. PICK s \in companies : s.valid_to = q.id /\ s.version + 1 = q.version
          BY <3>2, <4>1 DEF IInv, TransitionsPairUp
        <5>2. q.id # NULL
          BY NullTenantAssumption DEF IInv, RowShape
        <5>3. s # b /\ s \in companies'
          BY <1>7, <2>2, <5>1, <5>2 DEF IsCurrent
        <5> QED BY <3>2, <5>1, <5>3
      <4>2. ASSUME q = b
            PROVE  \E s \in companies' : s.id = r.valid_to /\ s.version = r.version + 1
        <5>1. n \in companies' /\ r = o
          BY <2>2, <3>2, <4>2
        <5> QED BY <2>1, <5>1
      <4>3. ASSUME q # b, ~IsCurrent(r)
            PROVE  \E s \in companies' : s.id = r.valid_to /\ s.version = r.version + 1
        <5>1. r = q
          BY <3>2, <4>3
        <5>2. PICK s \in companies : s.id = q.valid_to /\ s.version = q.version + 1
          BY <4>3, <5>1 DEF IInv, TransitionsPairUp
        <5> QED BY <2>1, <2>2, <5>1, <5>2
      <4> QED BY <4>1, <4>2, <4>3
    <3> QED BY <2>1, <2>2, <3>1, <3>2
  <2>6. \A k \in Loader : k # l /\ pc[k] \in Inserted => \A c \in companies' : c.id # tx[k].id
    BY <1>4, <2>1, <2>2 DEF IInv, StampsAreFresh
  <2>7. \A k \in Loader : k # l /\ pc[k] \in Locking /\ tx[k].base # 0 =>
           \E c \in companies' : c.id = tx[k].base /\ IsCurrent(c)
    <3> SUFFICES ASSUME NEW k \in Loader, k # l, pc[k] \in Locking, tx[k].base # 0
                 PROVE  \E c \in companies' : c.id = tx[k].base /\ IsCurrent(c)
      OBVIOUS
    <3>1. PICK c \in companies : c.id = tx[k].base /\ IsCurrent(c)
      BY DEF IInv, HeldIsCurrent
    <3>2. tx[k].base # tx[l].base
      BY <1>1 DEF IInv, LocksExclude, Locking
    <3> QED BY <1>7, <2>2, <3>1, <3>2
  <2> QED BY <1>1, <2>3, <2>4, <2>5, <2>6, <2>7, StoppedInv
<1> HIDE DEF x
<1> QED BY <1>1, <1>5, <1>6, <1>7, CommitWrites DEF x

LEMMA RaisedInv ==
  ASSUME IInv, NEW l \in Loader, DuplicateUpload(l) \/ CommitConflict(l) \/ Raise(l)
  PROVE  IInv'
<1>1. Stop(l, "raised") /\ companies' = companies /\ clock' \in {clock, clock + 1}
  BY DEF DuplicateUpload, CommitConflict, Raise, tables, history, series
<1> QED BY <1>1, StopInv

LEMMA NextInv == IInv /\ [Next]_vars => IInv'
<1> SUFFICES ASSUME IInv, [Next]_vars PROVE IInv'
  OBVIOUS
<1>1. CASE UNCHANGED vars
  BY <1>1 DEF vars, tables, history, series,
              IInv, Shape, RowShape, UniqueIds, BasesAreLocked, StampsAreFresh, HeldIsCurrent,
              LocksExclude, TransitionsPairUp, IsCurrent
<1>2. ASSUME NEW l \in Loader, Proceed(l)
      PROVE  IInv'
  BY <1>2, ReadPreviousInv, InsertUploadInv, RaisedInv, SelectCompanyInv, LockCompanyInv, DropStaleRowInv,
     NoCompanyInv, DeriveInv, CommitInv DEF Proceed, Derive
<1> QED BY <1>1, <1>2, RaisedInv, GateInv, UnreadableInv DEF Next

LEMMA Inductive == Spec => []IInv
BY InitInv, NextInv, PTL DEF Spec

\* Two loads never hold the same company row, whatever row each of them
\* looked for and however often it waited (the FOR UPDATE of
\* _get_or_create_company).
THEOREM Locks == Spec => []LocksExclude
<1>1. IInv => LocksExclude
  BY DEF IInv
<1> QED BY <1>1, Inductive, PTL

\* Every version after the first closed the one before it, and every closed
\* version has its successor: no concurrent load loses or forks a transition,
\* even where the default tenant changes the rows of others.
THEOREM Transitions == Spec => []TransitionsPairUp
<1>1. IInv => TransitionsPairUp
  BY DEF IInv
<1> QED BY <1>1, Inductive, PTL

-----------------------------------------------------------------------------
(* The change log *)

\* A change is logged with the company row it led to, and that row is there.
LogInv == /\ \A c \in changes : \E r \in companies : r.id = c.company
          /\ ChangeLogExplains

\* Nothing but a commit writes company rows or changes.
LEMMA HistorySteps == [Next]_vars => UNCHANGED history \/ \E l \in Loader : Commit(l)
<1> SUFFICES ASSUME [Next]_vars PROVE UNCHANGED history \/ \E l \in Loader : Commit(l)
  OBVIOUS
<1>1. CASE UNCHANGED vars
  BY <1>1 DEF vars, tables
<1>2. ASSUME NEW l \in Loader, Proceed(l)
      PROVE  UNCHANGED history \/ Commit(l)
  BY <1>2 DEF Proceed, ReadPrevious, InsertUpload, DuplicateUpload, SelectCompany, LockCompany, DropStaleRow,
              NoCompany, DetectDelta, CountUploads, FindWatermark, CommitConflict, Go, tables
<1>3. ASSUME NEW l \in Loader, Raise(l)
      PROVE  UNCHANGED history
  BY <1>3 DEF Raise, tables
<1>4. ASSUME NEW l \in Loader, NEW f, NEW t, NEW u, Gate(l, f, t, u) \/ Unreadable(l, f, t, u)
      PROVE  UNCHANGED history
  BY <1>4 DEF Gate, Unreadable, Go, tables
<1> QED BY <1>1, <1>2, <1>3, <1>4 DEF Next

\* What is logged for row r, and what s and r say of the fields that differ.
Logged(log, r) == {<<c.field, c.old, c.new>> : c \in {d \in log : d.company = r.id}}
Differs(s, r) == {<<k, s.attrs[k], r.attrs[k]>> : k \in {j \in Field : s.attrs[j] # r.attrs[j]}}

LEMMA LogCommit ==
  ASSUME IInv, LogInv, NEW l \in Loader, Commit(l)
  PROVE  LogInv'
<1> DEFINE x == tx[l]
           new == {[company |-> x.id, upload |-> x.id, field |-> k,
                    old |-> Row(x.base).attrs[k], new |-> FileAttrs[x.file][k]] : k \in ChangedFields(x)}
<1>1. pc[l] = "committing" /\ companies' = CompanyWrites(x) /\ changes' = changes \cup new
  BY DEF Commit, ChangeWrites
<1>2. x.id \in 1..clock /\ \A r \in companies : r.id # x.id
  BY <1>1 DEF IInv, StampsAreFresh, Inserted
<1>3. \A c \in changes : c.company # x.id
  BY <1>2 DEF LogInv
<1>4. \A c \in new : c.company = x.id
  OBVIOUS
<1>5. \A s \in companies : s.valid_to # x.id
  BY <1>2, NullTenantAssumption DEF IInv, TransitionsPairUp, IsCurrent
<1>6. \A r \in companies : Logged(changes', r) = Logged(changes, r)
  <2> HIDE DEF new, x
  <2> QED BY <1>1, <1>2, <1>4 DEF Logged
<1>7. \A r, s \in companies : s.valid_to = r.id => Logged(changes', r) = Differs(s, r)
  BY <1>6 DEF LogInv, ChangeLogExplains, Logged, Differs
<1>8. SUFFICES /\ \A c \in changes' : \E r \in companies' : r.id = c.company
               /\ \A r, s \in companies' : s.valid_to = r.id => Logged(changes', r) = Differs(s, r)
  BY DEF LogInv, ChangeLogExplains, Logged, Differs
<1>9. CASE x.base = 0 \/ ChangedFields(x) = {}
  <2>1. new = {}
    BY <1>9 DEF ChangedFields
  <2>2. CASE companies' = companies
    BY <1>1, <1>7, <2>1, <2>2 DEF LogInv
  <2>3. CASE companies' = companies \cup {NewRow(x, 1)}
    <3> DEFINE n == NewRow(x, 1)
    <3>1. n.id = x.id /\ n.valid_to = NULL
      BY DEF NewRow
    <3>2. \A r \in companies : r.id # NULL
      BY NullTenantAssumption DEF IInv, RowShape
    <3>3. n.id # NULL
      BY <1>2, <3>1, NullTenantAssumption
    <3> HIDE DEF n, new, x
    <3>4. companies' = companies \cup {n}
      BY <2>3 DEF n
    <3>5. \A r, s \in companies' : s.valid_to = r.id => r \in companies /\ s \in companies
      BY <1>5, <3>1, <3>2, <3>3, <3>4
    <3> QED BY <1>1, <1>7, <2>1, <3>4, <3>5 DEF LogInv
  <2> QED BY <1>1, <1>9, <2>2, <2>3 DEF CompanyWrites
<1>10. ASSUME x.base # 0, ChangedFields(x) # {}
       PROVE  /\ \A c \in changes' : \E r \in companies' : r.id = c.company
              /\ \A r, s \in companies' : s.valid_to = r.id => Logged(changes', r) = Differs(s, r)
  <2>1. PICK b \in companies : b.id = x.base /\ IsCurrent(b)
    BY <1>1, <1>10 DEF IInv, HeldIsCurrent, Locking
  <2>2. Row(x.base) = b
    BY <2>1 DEF IInv, UniqueIds, Row
  <2> DEFINE o == [b EXCEPT !.valid_to = x.id]
             n == NewRow(x, b.version + 1)
  <2>3. /\ n.id = x.id /\ n.valid_to = NULL /\ n.attrs = FileAttrs[x.file]
        /\ o.id = b.id /\ o.valid_to = x.id /\ o.attrs = b.attrs
    BY DEF IInv, RowShape, RowFields, NewRow
  <2>4. companies' = (companies \ {b}) \cup {o, n}
    BY <1>1, <1>10, <2>2 DEF CompanyWrites
  <2>5. Logged(changes', n) = Differs(o, n)
    <3>1. {d \in changes' : d.company = n.id} = new
      <4> HIDE DEF new, x, n
      <4> QED BY <1>1, <1>3, <1>4, <2>3
    <3>2. {<<c.field, c.old, c.new>> : c \in new}
            = {<<k, b.attrs[k], FileAttrs[x.file][k]>> : k \in ChangedFields(x)}
      <4> DEFINE f(k) == [company |-> x.id, upload |-> x.id, field |-> k,
                          old |-> Row(x.base).attrs[k], new |-> FileAttrs[x.file][k]]
      <4>1. \A k : f(k).field = k /\ f(k).old = b.attrs[k] /\ f(k).new = FileAttrs[x.file][k]
        BY <2>2
      <4>2. new = {f(k) : k \in ChangedFields(x)}
        OBVIOUS
      <4> HIDE DEF new, f, x
      <4> QED BY <4>1, <4>2
    <3>3. ChangedFields(x) = {j \in Field : o.attrs[j] # n.attrs[j]}
      BY <1>10, <2>2, <2>3 DEF ChangedFields
    <3> HIDE DEF new, x, n, o
    <3> QED BY <2>3, <3>1, <3>2, <3>3 DEF Logged, Differs
  <2> HIDE DEF n, o, new, x
  <2>6. \A r \in companies : r.id # NULL
    BY NullTenantAssumption DEF IInv, RowShape
  <2>7. x.id # NULL
    BY <1>2, NullTenantAssumption
  <2>8. \A c \in changes' : \E r \in companies' : r.id = c.company
    <3>1. \A r \in companies : \E q \in companies' : q.id = r.id
      BY <2>3, <2>4
    <3>2. n \in companies'
      BY <2>4
    <3> QED BY <1>1, <1>4, <2>3, <3>1, <3>2 DEF LogInv
  <2>9. ASSUME NEW r \in companies', NEW s \in companies', s.valid_to = r.id
        PROVE  Logged(changes', r) = Differs(s, r)
    <3>1. CASE r = n
      <4>1. s = o
        BY <1>5, <2>3, <2>4, <2>7, <2>9, <3>1
      <4> QED BY <2>5, <3>1, <4>1
    <3>2. CASE r # n
      <4>1. PICK q \in companies : r.id = q.id /\ r.attrs = q.attrs
        BY <2>3, <2>4, <3>2
      <4>2. s \in companies
        BY <1>2, <2>3, <2>4, <2>6, <2>9, <4>1
      <4>3. Logged(changes', q) = Differs(s, q)
        BY <1>7, <2>9, <4>1, <4>2
      <4> QED BY <4>1, <4>3 DEF Logged, Differs
    <3> QED BY <3>1, <3>2
  <2> QED BY <2>8, <2>9
<1> QED BY <1>9, <1>10

\* However loads overlap, the change log holds, for each version of a company
\* after the first, exactly the fields in which it differs from the version it
\* replaced, with their old and new values.
THEOREM ChangeLog == Spec => []ChangeLogExplains
<1>1. Init => LogInv
  BY DEF Init, LogInv, ChangeLogExplains
<1>2. IInv /\ LogInv /\ [Next]_vars => LogInv'
  <2>1. UNCHANGED history /\ LogInv => LogInv'
    BY DEF history, LogInv, ChangeLogExplains
  <2> QED BY <2>1, HistorySteps, LogCommit
<1>3. LogInv => ChangeLogExplains
  BY DEF LogInv
<1> QED BY <1>1, <1>2, <1>3, Inductive, PTL DEF Spec

-----------------------------------------------------------------------------
(***************************************************************************)
(* Where every file is submitted for some tenant, a load finds, locks and  *)
(* updates rows of its own tenant and company only, which is what isolates *)
(* the tenants and keeps a current row for every company.  The default     *)
(* tenant breaks the former.  The unique key of the uploads, which exempts *)
(* the default tenant, is what lets a file be processed once only.         *)
(***************************************************************************)


MarkFields == {"id", "tenant", "name", "upload"}

OwnTenant == \A l \in Loader : pc[l] # "idle" => tx[l].tenant \in Tenant

Own(r, l) == r.tenant = tx[l].tenant /\ r.name = FileName[tx[l].file]

FoundAreOwn ==
  \A l \in Loader : pc[l] = "locking" =>
    \A i \in tx[l].found : \E r \in companies : r.id = i /\ Own(r, l)

HeldIsOwn ==
  \A l \in Loader : pc[l] \in Locking /\ tx[l].base # 0 =>
    \E r \in companies : r.id = tx[l].base /\ Own(r, l)

Marked == /\ \A w \in watermarks : DOMAIN w = MarkFields /\ w.id \in 1..clock
          /\ \A v, w \in watermarks : v.id = w.id => v = w
          /\ \A l \in Loader, w \in watermarks : pc[l] \in Inserted => w.id # tx[l].id

MarkIsOwn ==
  \A l \in Loader : pc[l] = "committing" /\ tx[l].mark # 0 =>
    \E w \in watermarks : w.id = tx[l].mark /\ w.tenant = tx[l].tenant

JInv == /\ OwnTenant /\ FoundAreOwn /\ HeldIsOwn
        /\ Marked /\ MarkIsOwn /\ NeverWithoutCurrent

LEMMA InitTenant == Init => JInv
<1> SUFFICES ASSUME Init PROVE JInv
  OBVIOUS
<1>1. companies = {} /\ watermarks = {} /\ \A l \in Loader : pc[l] = "idle"
  BY DEF Init
<1> QED BY <1>1 DEF JInv, OwnTenant, FoundAreOwn, HeldIsOwn, Marked, MarkIsOwn, NeverWithoutCurrent,
                    Locking, Inserted

\* A step of session l that writes no company and no watermark.
LEMMA TenantStepKeeps ==
  ASSUME IInv, JInv, NEW l \in Loader,
         companies' = companies, watermarks' = watermarks, clock' \in Nat, clock <= clock',
         pc' = [pc EXCEPT ![l] = pc'[l]],
         tx' = [tx EXCEPT ![l] = tx'[l]],
         pc'[l] # "idle" => tx'[l].tenant \in Tenant,
         pc'[l] = "locking" => \A i \in tx'[l].found : \E r \in companies : r.id = i /\ Own(r, l)',
         pc'[l] \in Locking /\ tx'[l].base # 0 => \E r \in companies : r.id = tx'[l].base /\ Own(r, l)',
         pc'[l] \in Inserted => \A w \in watermarks : w.id # tx'[l].id,
         pc'[l] = "committing" /\ tx'[l].mark # 0 =>
           \E w \in watermarks : w.id = tx'[l].mark /\ w.tenant = tx'[l].tenant
  PROVE  JInv'
<1>1. \A k \in Loader : k # l => pc'[k] = pc[k] /\ tx'[k] = tx[k]
  BY DEF IInv, Shape
<1>2. OwnTenant'
  BY <1>1 DEF JInv, OwnTenant
<1>3. FoundAreOwn'
  BY <1>1 DEF JInv, FoundAreOwn, Own
<1>4. HeldIsOwn'
  BY <1>1 DEF JInv, HeldIsOwn, Own, Locking
<1>5. Marked'
  BY <1>1 DEF IInv, Shape, JInv, Marked, Inserted
<1>6. MarkIsOwn'
  BY <1>1 DEF JInv, MarkIsOwn
<1>7. NeverWithoutCurrent'
  BY DEF JInv, NeverWithoutCurrent, SameKey, IsCurrent
<1> QED BY <1>2, <1>3, <1>4, <1>5, <1>6, <1>7 DEF JInv

LEMMA TenantStop ==
  ASSUME IInv, JInv, NEW l \in Loader, NEW r, Stop(l, r), companies' = companies, watermarks' = watermarks,
         clock' \in {clock, clock + 1}
  PROVE  JInv'
<1>1. pc'[l] = "idle" /\ tx'[l] = NoTx
  BY DEF IInv, Shape, Stop
<1>2. pc' = [pc EXCEPT ![l] = pc'[l]] /\ tx' = [tx EXCEPT ![l] = tx'[l]]
  BY <1>1 DEF Stop
<1>3. clock' \in Nat /\ clock <= clock'
  BY DEF IInv, Shape
<1> QED BY <1>1, <1>2, <1>3, TenantStepKeeps DEF Locking, Inserted

\* A statement: what it leaves l with is t, of the same tenant and file.
LEMMA TenantGo ==
  ASSUME IInv, JInv, NEW l \in Loader, NEW to, NEW t, Go(l, to, t), clock' \in {clock, clock + 1},
         t.tenant \in Tenant,
         to = "locking" => \A i \in t.found : \E r \in companies :
                             r.id = i /\ r.tenant = t.tenant /\ r.name = FileName[t.file],
         to \in Locking /\ t.base # 0 => \E r \in companies :
                             r.id = t.base /\ r.tenant = t.tenant /\ r.name = FileName[t.file],
         to \in Inserted => \A w \in watermarks : w.id # t.id,
         to = "committing" /\ t.mark # 0 => \E w \in watermarks : w.id = t.mark /\ w.tenant = t.tenant
  PROVE  JInv'
<1>1. pc'[l] = to /\ tx'[l] = t /\ companies' = companies /\ watermarks' = watermarks
  BY DEF IInv, Shape, Go, tables, history, series
<1>2. pc' = [pc EXCEPT ![l] = pc'[l]] /\ tx' = [tx EXCEPT ![l] = tx'[l]]
  BY <1>1 DEF Go
<1>3. clock' \in Nat /\ clock <= clock'
  BY DEF IInv, Shape
<1>4. \A r : Own(r, l)' <=> r.tenant = t.tenant /\ r.name = FileName[t.file]
  BY <1>1 DEF Own
<1> QED BY <1>1, <1>2, <1>3, <1>4, TenantStepKeeps

LEMMA TenantGate ==
  ASSUME IInv, JInv, NEW l \in Loader, NEW f, NEW t \in Tenant, NEW u, Gate(l, f, t, u)
  PROVE  JInv'
<1>1. CASE Stop(l, "skipped") /\ UNCHANGED tables
  BY <1>1, TenantStop DEF Gate, tables, history, series
<1>2. CASE Go(l, "reading", [NoTx EXCEPT !.file = f, !.tenant = t, !.again = u])
  <2> DEFINE x == [NoTx EXCEPT !.file = f, !.tenant = t, !.again = u]
  <2>1. x.tenant = t
    BY DEF NoTx
  <2>2. "reading" \notin Inserted /\ "reading" \notin Locking /\ UNCHANGED clock
    BY DEF Locking, Inserted, Gate
  <2>3. Go(l, "reading", x)
    BY <1>2
  <2> HIDE DEF x
  <2> QED BY <2>1, <2>2, <2>3, TenantGo
<1> QED BY <1>1, <1>2 DEF Gate

\* The statements before the lock.
LEMMA TenantReads ==
  ASSUME NULL \notin Tenant, IInv, JInv, NEW l \in Loader,
         ReadPrevious(l) \/ InsertUpload(l) \/ SelectCompany(l) \/ DropStaleRow(l)
  PROVE  JInv'
<1>1. pc[l] # "idle" /\ tx[l].tenant \in Tenant /\ DOMAIN tx[l] = DOMAIN NoTx
  BY DEF IInv, Shape, JInv, OwnTenant, ReadPrevious, InsertUpload, SelectCompany, DropStaleRow
<1>2. CASE ReadPrevious(l)
  <2> DEFINE x == [tx[l] EXCEPT !.prev = LatestSnapshot(FileName[tx[l].file], tx[l].tenant)]
  <2>1. x.tenant = tx[l].tenant
    BY <1>1 DEF NoTx
  <2>2. Go(l, "inserting", x) /\ UNCHANGED clock
    BY <1>2 DEF ReadPrevious
  <2>3. "inserting" \notin Inserted /\ "inserting" \notin Locking
    BY DEF Locking, Inserted
  <2> HIDE DEF x
  <2> QED BY <1>1, <2>1, <2>2, <2>3, TenantGo
<1>3. CASE InsertUpload(l)
  <2> DEFINE x == [tx[l] EXCEPT !.id = clock + 1]
  <2>1. x.tenant = tx[l].tenant /\ x.id = clock + 1
    BY <1>1 DEF NoTx
  <2>2. Go(l, "selecting", x) /\ clock' = clock + 1
    BY <1>3 DEF InsertUpload
  <2>3. "selecting" \notin Locking
    BY DEF Locking
  <2>4. \A w \in watermarks : w.id # clock + 1
    BY DEF IInv, Shape, JInv, Marked
  <2> HIDE DEF x
  <2> QED BY <1>1, <2>1, <2>2, <2>3, <2>4, TenantGo
<1>4. CASE SelectCompany(l)
  <2> DEFINE n == FileName[tx[l].file]
             x == [tx[l] EXCEPT !.found = CurrentRows(n, tx[l].tenant)]
  <2>1. x.tenant = tx[l].tenant /\ x.file = tx[l].file /\ x.id = tx[l].id
        /\ x.found = CurrentRows(n, tx[l].tenant)
    BY <1>1 DEF NoTx
  <2>2. Go(l, "locking", x) /\ UNCHANGED clock /\ pc[l] \in Inserted
    BY <1>4 DEF SelectCompany, Inserted
  <2>3. \A i \in CurrentRows(n, tx[l].tenant) : \E r \in companies :
          r.id = i /\ r.tenant = tx[l].tenant /\ r.name = n
    BY <1>1 DEF CurrentRows, Sees
  <2>4. "locking" \notin Locking /\ \A w \in watermarks : w.id # tx[l].id
    BY <2>2 DEF Locking, JInv, Marked
  <2> HIDE DEF x
  <2> QED BY <1>1, <2>1, <2>2, <2>3, <2>4, TenantGo
<1>5. CASE DropStaleRow(l)
  <2>1. PICK r \in companies : Go(l, "locking", [tx[l] EXCEPT !.found = @ \ {r.id}])
    BY <1>5 DEF DropStaleRow
  <2> DEFINE x == [tx[l] EXCEPT !.found = @ \ {r.id}]
  <2>2. x.tenant = tx[l].tenant /\ x.file = tx[l].file /\ x.id = tx[l].id /\ x.found \subseteq tx[l].found
    BY <1>1 DEF NoTx
  <2>3. Go(l, "locking", x) /\ UNCHANGED clock /\ pc[l] \in Inserted /\ pc[l] = "locking"
    BY <1>5, <2>1 DEF DropStaleRow, Inserted
  <2>4. "locking" \notin Locking /\ \A w \in watermarks : w.id # tx[l].id
    BY <2>3 DEF Locking, JInv, Marked
  <2>5. \A i \in x.found : \E q \in companies : q.id = i /\ q.tenant = x.tenant /\ q.name = FileName[x.file]
    BY <2>2, <2>3 DEF JInv, FoundAreOwn, Own
  <2> HIDE DEF x
  <2> QED BY <1>1, <2>2, <2>3, <2>4, <2>5, TenantGo
<1> QED BY <1>2, <1>3, <1>4, <1>5

LEMMA TenantHolds ==
  ASSUME NULL \notin Tenant, IInv, JInv, NEW l \in Loader, LockCompany(l) \/ NoCompany(l) \/ Derive(l)
  PROVE  JInv'
<1>1. /\ tx[l].tenant \in Tenant /\ DOMAIN tx[l] = DOMAIN NoTx
      /\ UNCHANGED clock /\ \A w \in watermarks : w.id # tx[l].id
  BY DEF IInv, Shape, JInv, OwnTenant, Marked, Inserted, LockCompany, NoCompany,
         Derive, DetectDelta, CountUploads, FindWatermark
<1>2. CASE LockCompany(l)
  <2>1. PICK r \in companies : r.id \in tx[l].found /\ Go(l, "deriving", [tx[l] EXCEPT !.base = r.id])
    BY <1>2 DEF LockCompany
  <2> DEFINE x == [tx[l] EXCEPT !.base = r.id]
  <2>2. x.tenant = tx[l].tenant /\ x.file = tx[l].file /\ x.id = tx[l].id /\ x.base = r.id
    BY <1>1 DEF NoTx
  <2>3. \E q \in companies : q.id = r.id /\ q.tenant = tx[l].tenant /\ q.name = FileName[tx[l].file]
    BY <1>2, <2>1 DEF LockCompany, JInv, FoundAreOwn, Own
  <2>4. Go(l, "deriving", x)
    BY <2>1
  <2> HIDE DEF x
  <2> QED BY <1>1, <2>2, <2>3, <2>4, TenantGo
<1>3. CASE NoCompany(l)
  <2>1. Go(l, "deriving", tx[l]) /\ tx[l].base = 0
    BY <1>3 DEF NoCompany, IInv, BasesAreLocked, Locking
  <2> QED BY <1>1, <2>1, TenantGo
<1>4. CASE Derive(l)
  <2>1. PICK to \in Locking :
          \E x : /\ Go(l, to, x)
                 /\ x.file = tx[l].file /\ x.tenant = tx[l].tenant /\ x.id = tx[l].id /\ x.base = tx[l].base
                 /\ to = "committing" => x.mark \in {0} \cup Marks(FileName[tx[l].file], tx[l].tenant)
    BY <1>4, Derives
  <2>2. PICK x : /\ Go(l, to, x)
                 /\ x.file = tx[l].file /\ x.tenant = tx[l].tenant /\ x.id = tx[l].id /\ x.base = tx[l].base
                 /\ to = "committing" => x.mark \in {0} \cup Marks(FileName[tx[l].file], tx[l].tenant)
    BY <2>1
  <2>3. to = "committing" /\ x.mark # 0 => \E w \in watermarks : w.id = x.mark /\ w.tenant = x.tenant
    BY <1>1, <2>2 DEF Marks, Sees
  <2>4. to # "locking"
    BY DEF Locking
  <2>5. x.base # 0 => \E r \in companies : r.id = x.base /\ r.tenant = x.tenant /\ r.name = FileName[x.file]
    BY <1>4, <2>2, Derives DEF JInv, HeldIsOwn, Own
  <2> QED BY <1>1, <2>2, <2>3, <2>4, <2>5, TenantGo
<1> QED BY <1>2, <1>3, <1>4

\* The watermarks after a commit: one more, or one of the load's own tenant
\* replaced by itself with another upload.
LEMMA MarkWrites ==
  ASSUME IInv, JInv, NEW l \in Loader, pc[l] = "committing", watermarks' = WatermarkWrites(tx[l])
  PROVE  \E m : /\ DOMAIN m = MarkFields /\ m.id \in 1..clock /\ m.tenant = tx[l].tenant
                /\ \/ m.id = tx[l].id /\ watermarks' = watermarks \cup {m}
                   \/ \E w \in watermarks : /\ w.id = m.id /\ w.tenant = m.tenant
                                            /\ watermarks' = (watermarks \ {w}) \cup {m}
<1>1. tx[l].id \in 1..clock
  BY DEF IInv, StampsAreFresh, Inserted
<1>2. CASE tx[l].mark = 0
  <2> DEFINE m == [id |-> tx[l].id, tenant |-> tx[l].tenant, name |-> FileName[tx[l].file],
                   upload |-> tx[l].id]
  <2>1. DOMAIN m = MarkFields /\ m.id = tx[l].id /\ m.tenant = tx[l].tenant
    BY DEF MarkFields
  <2>2. watermarks' = watermarks \cup {m}
    BY <1>2 DEF WatermarkWrites
  <2> HIDE DEF m
  <2> QED BY <1>1, <2>1, <2>2
<1>3. CASE tx[l].mark # 0
  <2>1. PICK w \in watermarks : w.id = tx[l].mark /\ w.tenant = tx[l].tenant
    BY <1>3 DEF JInv, MarkIsOwn
  <2>2. DOMAIN w = MarkFields /\ w.id \in 1..clock /\ \A v \in watermarks : v.id = w.id => v = w
    BY DEF JInv, Marked
  <2> DEFINE m == [w EXCEPT !.upload = tx[l].id]
  <2>3. DOMAIN m = MarkFields /\ m.id = w.id /\ m.tenant = w.tenant
    BY <2>2 DEF MarkFields
  <2>4. watermarks' = {IF v.id = tx[l].mark THEN [v EXCEPT !.upload = tx[l].id] ELSE v : v \in watermarks}
    BY <1>3 DEF WatermarkWrites
  <2>5. watermarks' = (watermarks \ {w}) \cup {m}
    BY <2>1, <2>2, <2>4
  <2> HIDE DEF m
  <2> QED BY <2>1, <2>2, <2>3, <2>5
<1> QED BY <1>2, <1>3

\* The company rows after a commit, for a load that names its tenant: a row it
\* closes has the key of the row it adds.
LEMMA RowWrites ==
  ASSUME IInv, JInv, NEW l \in Loader, pc[l] = "committing", companies' = CompanyWrites(tx[l])
  PROVE  \/ companies' = companies
         \/ \E n : /\ Own(n, l) /\ IsCurrent(n)
                   /\ \/ companies' = companies \cup {n}
                      \/ \E b \in companies : \E o :
                           /\ Own(b, l) /\ Own(o, l) /\ o.id = b.id
                           /\ companies' = (companies \ {b}) \cup {o, n}
<1>1. \A v : Own(NewRow(tx[l], v), l) /\ IsCurrent(NewRow(tx[l], v))
  BY DEF NewRow, Own, IsCurrent
<1>2. ASSUME NEW b \in companies, tx[l].base # 0, b.id = tx[l].base,
             companies' = (companies \ {b}) \cup {[b EXCEPT !.valid_to = tx[l].id],
                                                  NewRow(tx[l], b.version + 1)}
      PROVE  \E n : /\ Own(n, l) /\ IsCurrent(n)
                    /\ \E c \in companies : \E o : /\ Own(c, l) /\ Own(o, l) /\ o.id = c.id
                                                   /\ companies' = (companies \ {c}) \cup {o, n}
  <2> DEFINE o == [b EXCEPT !.valid_to = tx[l].id]
             n == NewRow(tx[l], b.version + 1)
  <2>1. PICK c \in companies : c.id = tx[l].base /\ Own(c, l)
    BY <1>2 DEF JInv, HeldIsOwn, Locking
  <2>2. Own(b, l) /\ DOMAIN b = RowFields
    BY <1>2, <2>1 DEF IInv, UniqueIds, RowShape
  <2>3. Own(o, l) /\ o.id = b.id
    BY <2>2 DEF Own, RowFields
  <2>4. Own(n, l) /\ IsCurrent(n)
    BY <1>1
  <2>5. companies' = (companies \ {b}) \cup {o, n}
    BY <1>2
  <2> HIDE DEF o, n
  <2> QED BY <2>2, <2>3, <2>4, <2>5
<1> QED BY <1>1, <1>2, CommitWrites

LEMMA TenantCommit ==
  ASSUME IInv, JInv, NEW l \in Loader, Commit(l)
  PROVE  JInv'
<1>1. /\ pc[l] = "committing" /\ Stop(l, tx[l].outcome) /\ UNCHANGED clock
      /\ companies' = CompanyWrites(tx[l]) /\ watermarks' = WatermarkWrites(tx[l])
  BY DEF Commit
<1>2. \A k \in Loader : k # l => pc'[k] = pc[k] /\ tx'[k] = tx[k]
  BY <1>1 DEF IInv, Shape, Stop
<1>3. pc'[l] = "idle"
  BY <1>1 DEF IInv, Shape, Stop
<1>4. PICK m : /\ DOMAIN m = MarkFields /\ m.id \in 1..clock /\ m.tenant = tx[l].tenant
               /\ \/ m.id = tx[l].id /\ watermarks' = watermarks \cup {m}
                  \/ \E w \in watermarks : /\ w.id = m.id /\ w.tenant = m.tenant
                                           /\ watermarks' = (watermarks \ {w}) \cup {m}
  BY <1>1, MarkWrites
<1>5. \/ companies' = companies
      \/ \E n : /\ Own(n, l) /\ IsCurrent(n)
                /\ \/ companies' = companies \cup {n}
                   \/ \E b \in companies : \E o : /\ Own(b, l) /\ Own(o, l) /\ o.id = b.id
                                                  /\ companies' = (companies \ {b}) \cup {o, n}
  BY <1>1, RowWrites
<1>6. \A r \in companies : \E q \in companies' : q.id = r.id /\ q.tenant = r.tenant /\ q.name = r.name
  BY <1>5 DEF Own
<1>7. OwnTenant'
  BY <1>2, <1>3 DEF JInv, OwnTenant
<1>8. FoundAreOwn'
  <2> SUFFICES ASSUME NEW k \in Loader, k # l, pc[k] = "locking", NEW i \in tx[k].found
               PROVE  \E r \in companies' : r.id = i /\ Own(r, k)
    BY <1>2, <1>3 DEF FoundAreOwn, Own
  <2>1. PICK r \in companies : r.id = i /\ Own(r, k)
    BY DEF JInv, FoundAreOwn
  <2> QED BY <1>6, <2>1 DEF Own
<1>9. HeldIsOwn'
  <2> SUFFICES ASSUME NEW k \in Loader, k # l, pc[k] \in Locking, tx[k].base # 0
               PROVE  \E r \in companies' : r.id = tx[k].base /\ Own(r, k)
    BY <1>2, <1>3 DEF HeldIsOwn, Own, Locking
  <2>1. PICK r \in companies : r.id = tx[k].base /\ Own(r, k)
    BY DEF JInv, HeldIsOwn
  <2> QED BY <1>6, <2>1 DEF Own
<1>10. Marked'
  <2>1. \A w \in watermarks : w.id # tx[l].id
    BY <1>1 DEF JInv, Marked, Inserted
  <2>2. \A k \in Loader : k # l /\ pc[k] \in Inserted => tx[k].id # tx[l].id
    BY <1>1 DEF IInv, StampsAreFresh, Inserted
  <2>3. \A w \in watermarks' : DOMAIN w = MarkFields /\ w.id \in 1..clock
    BY <1>4 DEF JInv, Marked
  <2>4. \A v, w \in watermarks' : v.id = w.id => v = w
    BY <1>4, <2>1 DEF JInv, Marked
  <2>5. \A k \in Loader, w \in watermarks' : k # l /\ pc[k] \in Inserted => w.id # tx[k].id
    BY <1>4, <2>2 DEF JInv, Marked
  <2> QED BY <1>1, <1>2, <1>3, <2>3, <2>4, <2>5 DEF Marked, Inserted
<1>11. MarkIsOwn'
  BY <1>2, <1>3, <1>4 DEF JInv, MarkIsOwn
<1>12. NeverWithoutCurrent'
  <2> SUFFICES ASSUME NEW r \in companies'
               PROVE  \E s \in companies' : SameKey(r, s) /\ IsCurrent(s)
    BY DEF NeverWithoutCurrent, SameKey, IsCurrent
  <2>1. CASE companies' = companies
    BY <2>1 DEF JInv, NeverWithoutCurrent
  <2>2. ASSUME NEW n, Own(n, l), IsCurrent(n), companies' = companies \cup {n}
        PROVE  \E s \in companies' : SameKey(r, s) /\ IsCurrent(s)
    BY <2>2 DEF JInv, NeverWithoutCurrent, SameKey
  <2>3. ASSUME NEW n, Own(n, l), IsCurrent(n), NEW b \in companies, NEW o, Own(b, l), Own(o, l),
               companies' = (companies \ {b}) \cup {o, n}
        PROVE  \E s \in companies' : SameKey(r, s) /\ IsCurrent(s)
    <3>1. CASE Own(r, l)
      BY <2>3, <3>1 DEF Own, SameKey
    <3>2. CASE ~Own(r, l)
      <4>1. r \in companies
        BY <2>3, <3>2
      <4>2. PICK s \in companies : SameKey(r, s) /\ IsCurrent(s)
        BY <4>1 DEF JInv, NeverWithoutCurrent
      <4>3. ~Own(s, l)
        BY <3>2, <4>2 DEF Own, SameKey
      <4> QED BY <2>3, <4>2, <4>3
    <3> QED BY <3>1, <3>2
  <2> QED BY <1>5, <2>1, <2>2, <2>3
<1> QED BY <1>7, <1>8, <1>9, <1>10, <1>11, <1>12 DEF JInv

LEMMA TenantNext == NULL \notin Tenant /\ IInv /\ JInv /\ [Next]_vars => JInv'
<1> SUFFICES ASSUME NULL \notin Tenant, IInv, JInv, [Next]_vars PROVE JInv'
  OBVIOUS
<1>1. CASE UNCHANGED vars
  BY <1>1 DEF vars, tables, history, series, JInv, OwnTenant, FoundAreOwn, HeldIsOwn, Marked, MarkIsOwn,
              NeverWithoutCurrent, Own, SameKey, IsCurrent
<1>2. ASSUME NEW l \in Loader, DuplicateUpload(l) \/ CommitConflict(l) \/ Raise(l)
      PROVE  JInv'
  BY <1>2, TenantStop DEF DuplicateUpload, CommitConflict, Raise, tables, history, series
<1>3. ASSUME NEW l \in Loader, Proceed(l)
      PROVE  JInv'
  BY <1>2, <1>3, TenantReads, TenantHolds, TenantCommit DEF Proceed, Derive
<1>4. ASSUME NEW l \in Loader, NEW f \in File, NEW t \in Tenant, NEW u, Unreadable(l, f, t, u)
      PROVE  JInv'
  <2>1. /\ companies' = companies /\ watermarks' = watermarks /\ clock' = clock + 1
        /\ \E r : Stop(l, r)
    BY <1>4 DEF Unreadable, history, series
  <2> QED BY <2>1, TenantStop
<1> QED BY <1>1, <1>2, <1>3, <1>4, TenantGate DEF Next

LEMMA TenantInductive == ASSUME NULL \notin Tenant PROVE Spec => [](IInv /\ JInv)
BY InitInv, InitTenant, NextInv, TenantNext, PTL DEF Spec

\* Where every file is submitted for a tenant, a company that was ever
\* ingested has a current row in that tenant, at every moment and whatever
\* loads overlap: closing a row and adding its successor are one commit.
THEOREM AlwaysCurrent == ASSUME NULL \notin Tenant PROVE Spec => []NeverWithoutCurrent
<1>1. JInv => NeverWithoutCurrent
  BY DEF JInv
<1> QED BY <1>1, TenantInductive, PTL

\* Where every file is submitted for a tenant, the commit of a load leaves the
\* company rows and the watermarks of every other tenant as they were.
THEOREM Isolation == ASSUME NULL \notin Tenant PROVE Spec => TenantsIsolated
<1> DEFINE Isolated(l, t) == Commit(l) /\ t # tx[l].tenant =>
                               /\ RowsOf(companies', t) = RowsOf(companies, t)
                               /\ RowsOf(watermarks', t) = RowsOf(watermarks, t)
<1>1. ASSUME IInv, JInv, NEW l \in Loader, NEW t \in Tenant
      PROVE  Isolated(l, t)
  <2> SUFFICES ASSUME Commit(l), t # tx[l].tenant
               PROVE  /\ RowsOf(companies', t) = RowsOf(companies, t)
                      /\ RowsOf(watermarks', t) = RowsOf(watermarks, t)
    OBVIOUS
  <2>1. /\ pc[l] = "committing"
        /\ companies' = CompanyWrites(tx[l]) /\ watermarks' = WatermarkWrites(tx[l])
    BY DEF Commit
  <2>2. \/ companies' = companies
        \/ \E n : /\ n.tenant = tx[l].tenant
                  /\ \/ companies' = companies \cup {n}
                     \/ \E b \in companies : \E o : /\ b.tenant = tx[l].tenant /\ o.tenant = tx[l].tenant
                                                    /\ companies' = (companies \ {b}) \cup {o, n}
    BY <1>1, <2>1, RowWrites DEF Own
  <2>3. RowsOf(companies', t) = RowsOf(companies, t)
    BY <2>2 DEF RowsOf
  <2>4. \E m : /\ m.tenant = tx[l].tenant
               /\ \/ watermarks' = watermarks \cup {m}
                  \/ \E w \in watermarks : /\ w.tenant = m.tenant
                                           /\ watermarks' = (watermarks \ {w}) \cup {m}
    BY <1>1, <2>1, MarkWrites
  <2>5. RowsOf(watermarks', t) = RowsOf(watermarks, t)
    BY <2>4 DEF RowsOf
  <2> QED BY <2>3, <2>5
<1>2. IInv /\ JInv /\ [Next]_vars => [\A l \in Loader, t \in Tenant : Isolated(l, t)]_vars
  BY <1>1
<1> QED BY <1>2, TenantInductive, PTL DEF Spec, TenantsIsolated

-----------------------------------------------------------------------------
(* Files and their snapshots *)

\* A load in progress has a file.
OwnFile == \A l \in Loader : pc[l] # "idle" => tx[l].file \in File

\* uq_upload_tenant_hash, among the committed uploads and those that loads in
\* progress have flushed.
KeysAreUnique == \A u, v \in uploads : u.tenant = v.tenant /\ u.hash = v.hash => u = v
FreshKeys == \A l \in Loader : pc[l] \in Inserted =>
               \A u \in uploads : ~(u.tenant = tx[l].tenant /\ u.hash = tx[l].file)
KeysExclude == \A k, l \in Loader :
                 k # l /\ pc[k] \in Inserted /\ pc[l] \in Inserted =>
                   ~(tx[k].tenant = tx[l].tenant /\ tx[k].file = tx[l].file)
Keys == KeysAreUnique /\ FreshKeys /\ KeysExclude

Typed == \A r \in companies : r.attrs \in [Field -> Value]

KInv == OwnFile /\ Keys /\ Typed /\ SnapshotKeepsMetadata

Same(l) == tx'[l].tenant = tx[l].tenant /\ tx'[l].file = tx[l].file

\* What the steps of a session do, apart from commits and unreadable files.
Quiet(l) ==
  /\ \A k \in Loader : k # l => pc'[k] = pc[k] /\ tx'[k] = tx[k]
  /\ UNCHANGED <<uploads, companies, snapshots>>
  /\ \/ pc'[l] = "idle"
     \/ pc'[l] = "reading" /\ tx'[l].file \in File
     \/ pc[l] # "idle" /\ Same(l) /\ (pc'[l] \in Inserted => pc[l] \in Inserted)
     \/ InsertUpload(l) /\ Same(l)

LEMMA QuietGo ==
  ASSUME IInv, NEW l \in Loader, NEW to, NEW t, Go(l, to, t), pc[l] # "idle",
         t.tenant = tx[l].tenant, t.file = tx[l].file,
         (to \in Inserted => pc[l] \in Inserted) \/ InsertUpload(l)
  PROVE  Quiet(l)
<1>1. \A k \in Loader : k # l => pc'[k] = pc[k] /\ tx'[k] = tx[k]
  BY DEF IInv, Shape, Go
<1>2. pc'[l] = to /\ tx'[l] = t
  BY DEF IInv, Shape, Go
<1> QED BY <1>1, <1>2 DEF Quiet, Same, Go, tables, history, series

LEMMA QuietStop ==
  ASSUME IInv, NEW l \in Loader, NEW r, Stop(l, r), UNCHANGED tables
  PROVE  Quiet(l)
<1>1. \A k \in Loader : k # l => pc'[k] = pc[k] /\ tx'[k] = tx[k]
  BY DEF IInv, Shape, Stop
<1>2. pc'[l] = "idle"
  BY DEF IInv, Shape, Stop
<1> QED BY <1>1, <1>2 DEF Quiet, tables, history, series

LEMMA Steps ==
  ASSUME IInv, [Next]_vars
  PROVE  \/ UNCHANGED vars
         \/ \E l \in Loader : Quiet(l) \/ Commit(l) \/ \E f \in File, t \in Tenant : \E u : Unreadable(l, f, t, u)
<1>1. ASSUME NEW l \in Loader, Proceed(l)
      PROVE  Quiet(l) \/ Commit(l)
  <2>1. DOMAIN tx[l] = DOMAIN NoTx
    BY DEF IInv, Shape
  <2>2. CASE ReadPrevious(l)
    <3> DEFINE p == LatestSnapshot(FileName[tx[l].file], tx[l].tenant)
               x == [tx[l] EXCEPT !.prev = p]
    <3>1. x.tenant = tx[l].tenant /\ x.file = tx[l].file
      BY <2>1 DEF NoTx
    <3>2. Go(l, "inserting", x) /\ pc[l] = "reading" /\ "inserting" \notin Inserted
      BY <2>2 DEF ReadPrevious, Inserted
    <3> HIDE DEF x
    <3> QED BY <3>1, <3>2, QuietGo
  <2>3. CASE InsertUpload(l)
    <3> DEFINE x == [tx[l] EXCEPT !.id = clock + 1]
    <3>1. x.tenant = tx[l].tenant /\ x.file = tx[l].file
      BY <2>1 DEF NoTx
    <3>2. Go(l, "selecting", x) /\ pc[l] = "inserting"
      BY <2>3 DEF InsertUpload
    <3> HIDE DEF x
    <3> QED BY <2>3, <3>1, <3>2, QuietGo
  <2>4. CASE DuplicateUpload(l) \/ CommitConflict(l)
    BY <2>4, QuietStop DEF DuplicateUpload, CommitConflict
  <2>5. CASE SelectCompany(l)
    <3> DEFINE c == CurrentRows(FileName[tx[l].file], tx[l].tenant)
               x == [tx[l] EXCEPT !.found = c]
    <3>1. x.tenant = tx[l].tenant /\ x.file = tx[l].file
      BY <2>1 DEF NoTx
    <3>2. Go(l, "locking", x) /\ pc[l] = "selecting" /\ pc[l] \in Inserted
      BY <2>5 DEF SelectCompany, Inserted
    <3> HIDE DEF x
    <3> QED BY <3>1, <3>2, QuietGo
  <2>6. CASE LockCompany(l) \/ DropStaleRow(l) \/ NoCompany(l)
    <3>1. PICK to, b, i, x :
            /\ Go(l, to, x)
            /\ x \in {tx[l], [tx[l] EXCEPT !.base = b], [tx[l] EXCEPT !.found = @ \ {i}]}
      BY <2>6 DEF LockCompany, DropStaleRow, NoCompany
    <3>2. x.tenant = tx[l].tenant /\ x.file = tx[l].file
      BY <2>1, <3>1 DEF NoTx
    <3>3. pc[l] # "idle" /\ pc[l] \in Inserted
      BY <2>6 DEF LockCompany, DropStaleRow, NoCompany, Inserted
    <3> QED BY <3>1, <3>2, <3>3, QuietGo
  <2>7. CASE Derive(l)
    <3>1. PICK to, x : Go(l, to, x) /\ x.tenant = tx[l].tenant /\ x.file = tx[l].file
      BY <2>7, Derives
    <3>2. pc[l] # "idle" /\ pc[l] \in Inserted
      BY <2>7, Derives DEF Inserted
    <3> QED BY <3>1, <3>2, QuietGo
  <2> QED BY <1>1, <2>2, <2>3, <2>4, <2>5, <2>6, <2>7 DEF Proceed, Derive
<1>2. ASSUME NEW l \in Loader, Raise(l)
      PROVE  Quiet(l)
  BY <1>2, QuietStop DEF Raise
<1>3. ASSUME NEW l \in Loader, NEW f \in File, NEW t \in Tenant, NEW u, Gate(l, f, t, u)
      PROVE  Quiet(l)
  <2>1. CASE Stop(l, "skipped") /\ UNCHANGED tables
    BY <2>1, QuietStop
  <2>2. CASE Go(l, "reading", [NoTx EXCEPT !.file = f, !.tenant = t, !.again = u])
    <3> DEFINE x == [NoTx EXCEPT !.file = f, !.tenant = t, !.again = u]
    <3>1. x.file = f
      BY DEF NoTx
    <3>2. Go(l, "reading", x)
      BY <2>2
    <3> HIDE DEF x
    <3>3. pc'[l] = "reading" /\ tx'[l] = x /\ \A k \in Loader : k # l => pc'[k] = pc[k] /\ tx'[k] = tx[k]
      BY <3>2 DEF IInv, Shape, Go
    <3> QED BY <3>1, <3>2, <3>3 DEF Quiet, Go, tables, history, series
  <2> QED BY <1>3, <2>1, <2>2 DEF Gate
<1>4. CASE Next
  BY <1>1, <1>2, <1>3, <1>4 DEF Next
<1> QED BY <1>4

LEMMA QuietKeys ==
  ASSUME NULL \notin Tenant, IInv, JInv, KInv, NEW l \in Loader, Quiet(l)
  PROVE  KInv'
<1>1. OwnFile'
  BY DEF KInv, OwnFile, Quiet, Same, InsertUpload
<1>2. Typed' /\ SnapshotKeepsMetadata'
  BY DEF KInv, Typed, SnapshotKeepsMetadata, Quiet
<1>3. ASSUME pc'[l] \in Inserted => pc[l] \in Inserted /\ Same(l) PROVE Keys'
  <2>1. KeysAreUnique'
    BY <1>3 DEF KInv, Keys, KeysAreUnique, Quiet
  <2>2. FreshKeys'
    BY <1>3 DEF KInv, Keys, FreshKeys, Quiet, Same, Inserted
  <2>3. KeysExclude'
    BY <1>3 DEF KInv, Keys, KeysExclude, Quiet, Same, Inserted
  <2> QED BY <2>1, <2>2, <2>3 DEF Keys
<1>4. ASSUME InsertUpload(l) /\ Same(l) PROVE Keys'
  <2>1. tx[l].tenant # NULL
    BY <1>4 DEF JInv, OwnTenant, InsertUpload
  <2>2. \A u \in uploads : ~(u.tenant = tx[l].tenant /\ u.hash = tx[l].file)
    BY <1>4, <2>1 DEF InsertUpload, KeyTaken
  <2>3. \A k \in Loader : pc[k] \in Inserted => ~(tx[k].tenant = tx[l].tenant /\ tx[k].file = tx[l].file)
    BY <1>4, <2>1 DEF InsertUpload, KeyPending
  <2>11. KeysAreUnique'
    BY <1>4, <2>2, <2>3 DEF KInv, Keys, KeysAreUnique, Quiet
  <2>12. FreshKeys'
    BY <1>4, <2>2, <2>3 DEF KInv, Keys, FreshKeys, Quiet, Same, Inserted
  <2>13. KeysExclude'
    BY <1>4, <2>2, <2>3 DEF KInv, Keys, KeysExclude, Quiet, Same, Inserted
  <2> QED BY <2>11, <2>12, <2>13 DEF Keys
<1>5. Keys'
  <2>1. "idle" \notin Inserted /\ "reading" \notin Inserted
    BY DEF Inserted
  <2>2. CASE pc[l] # "idle" /\ Same(l) /\ (pc'[l] \in Inserted => pc[l] \in Inserted)
    BY <2>2, <1>3 DEF KInv
  <2> QED BY <1>3, <1>4, <2>1, <2>2 DEF Quiet, KInv
<1> QED BY <1>1, <1>2, <1>5 DEF KInv

LEMMA UnreadableKeys ==
  ASSUME NULL \notin Tenant, NULL \notin File, IInv, JInv, KInv,
         NEW l \in Loader, NEW f \in File, NEW t \in Tenant, NEW u, Unreadable(l, f, t, u)
  PROVE  KInv'
<1>1. /\ pc'[l] = "idle" /\ \A k \in Loader : k # l => pc'[k] = pc[k] /\ tx'[k] = tx[k]
      /\ companies' = companies /\ snapshots' = snapshots
  BY DEF IInv, Shape, Unreadable, Stop, history, series
<1>2. OwnFile' /\ Typed'
  BY <1>1 DEF KInv, OwnFile, Typed
<1>3. uploads \subseteq uploads'
  BY DEF Unreadable
<1>4. SnapshotKeepsMetadata'
  BY <1>1, <1>3 DEF KInv, SnapshotKeepsMetadata
<1>5. ASSUME uploads' = uploads PROVE Keys'
  <2>1. KeysAreUnique'
    BY <1>1, <1>5 DEF KInv, Keys, KeysAreUnique
  <2>2. FreshKeys'
    BY <1>1, <1>5 DEF KInv, Keys, FreshKeys, Inserted
  <2>3. KeysExclude'
    BY <1>1, <1>5 DEF KInv, Keys, KeysExclude, Inserted
  <2> QED BY <2>1, <2>2, <2>3 DEF Keys
<1>6. ASSUME uploads' # uploads PROVE Keys'
  <2> DEFINE n == [id |-> clock + 1, tenant |-> t, hash |-> NULL, raw |-> f,
                   name |-> NULL, status |-> "failed", from |-> 0]
  <2>1. uploads' = uploads \cup {n} /\ ~KeyTaken(t, NULL)
    BY <1>6 DEF Unreadable
  <2>2. \A v \in uploads : ~(v.tenant = t /\ v.hash = NULL)
    BY <2>1 DEF KeyTaken
  <2>3. n.tenant = t /\ n.hash = NULL
    OBVIOUS
  <2>4. \A k \in Loader : pc[k] \in Inserted => tx[k].file # NULL
    BY DEF KInv, OwnFile, Inserted
  <2> HIDE DEF n
  <2>11. KeysAreUnique'
    BY <1>1, <2>1, <2>2, <2>3, <2>4 DEF KInv, Keys, KeysAreUnique
  <2>12. FreshKeys'
    BY <1>1, <2>1, <2>2, <2>3, <2>4 DEF KInv, Keys, FreshKeys, Inserted
  <2>13. KeysExclude'
    BY <1>1, <2>1, <2>2, <2>3, <2>4 DEF KInv, Keys, KeysExclude, Inserted
  <2> QED BY <2>11, <2>12, <2>13 DEF Keys
<1> QED BY <1>2, <1>4, <1>5, <1>6 DEF KInv

LEMMA CommitKeys ==
  ASSUME IInv, JInv, KInv, NEW l \in Loader, Commit(l)
  PROVE  KInv'
<1> DEFINE x == tx[l]
<1>1. /\ pc[l] = "committing" /\ pc[l] \in Inserted /\ pc[l] \in Locking /\ Stop(l, x.outcome)
      /\ companies' = CompanyWrites(x) /\ uploads' = UploadWrites(x) /\ snapshots' = SnapshotWrites(x)
  BY DEF Commit, Inserted, Locking
<1>2. pc'[l] = "idle" /\ \A k \in Loader : k # l => pc'[k] = pc[k] /\ tx'[k] = tx[k]
  BY <1>1 DEF IInv, Shape, Stop
<1>3. OwnFile'
  BY <1>2 DEF KInv, OwnFile
<1>4. x.file \in File /\ FileAttrs[x.file] \in [Field -> Value]
  BY <1>1, AttrsAssumption DEF KInv, OwnFile
<1>5. PICK u : /\ u.id = x.id /\ u.tenant = x.tenant /\ u.hash = x.file /\ u.raw = x.file
               /\ uploads' = uploads \cup {u}
  BY <1>1 DEF UploadWrites
<1>6. Keys'
  BY <1>1, <1>2, <1>5 DEF KInv, Keys, KeysAreUnique, FreshKeys, KeysExclude, Inserted
<1>7. \A v \in Nat : NewRow(x, v).attrs = FileAttrs[x.file] /\ Own(NewRow(x, v), l) /\ NewRow(x, v).id = x.id
  BY DEF NewRow, Own
<1>8. \A b \in companies : b.version \in Nat /\ DOMAIN b = RowFields
  BY DEF IInv, RowShape
\* A row that is closed keeps what it says, and a new one says what the file says.
<1>9. /\ \A r \in companies : \E q \in companies' :
           q.id = r.id /\ q.tenant = r.tenant /\ q.name = r.name /\ q.attrs = r.attrs
      /\ \A q \in companies' : \/ \E r \in companies : q.attrs = r.attrs
                               \/ q.attrs = FileAttrs[x.file]
  <2>1. CASE companies' = companies
    BY <2>1
  <2>2. CASE companies' = companies \cup {NewRow(x, 1)}
    BY <1>7, <2>2
  <2>3. ASSUME NEW b \in companies,
               companies' = (companies \ {b}) \cup {[b EXCEPT !.valid_to = x.id], NewRow(x, b.version + 1)}
        PROVE  /\ \A r \in companies : \E q \in companies' :
                    q.id = r.id /\ q.tenant = r.tenant /\ q.name = r.name /\ q.attrs = r.attrs
               /\ \A q \in companies' : \/ \E r \in companies : q.attrs = r.attrs
                                        \/ q.attrs = FileAttrs[x.file]
    <3> DEFINE o == [b EXCEPT !.valid_to = x.id]
               n == NewRow(x, b.version + 1)
    <3>1. o.id = b.id /\ o.tenant = b.tenant /\ o.name = b.name /\ o.attrs = b.attrs
      BY <1>8 DEF RowFields
    <3>2. n.attrs = FileAttrs[x.file]
      BY <1>7, <1>8
    <3>3. companies' = (companies \ {b}) \cup {o, n}
      BY <2>3
    <3> HIDE DEF n, o
    <3> QED BY <3>1, <3>2, <3>3
  <2> HIDE DEF x
  <2> QED BY <1>1, <2>1, <2>2, <2>3, CommitWrites DEF x
<1>10. Typed'
  BY <1>4, <1>9 DEF KInv, Typed
\* The row the load ends up with is of its company and says what its file says.
<1>11. \E r \in companies' : r.id = CompanyId(x) /\ Own(r, l) /\ r.attrs = FileAttrs[x.file]
  <2>1. CASE x.base = 0
    <3>1. NewRow(x, 1) \in companies' /\ CompanyId(x) = x.id
      BY <1>1, <2>1 DEF CompanyWrites, CompanyId
    <3> QED BY <1>7, <3>1
  <2>2. ASSUME x.base # 0
        PROVE  \E r \in companies' : r.id = CompanyId(x) /\ Own(r, l) /\ r.attrs = FileAttrs[x.file]
    <3>1. PICK b \in companies : b.id = x.base /\ Own(b, l)
      BY <1>1, <2>2 DEF JInv, HeldIsOwn
    <3>2. Row(x.base) = b
      BY <3>1 DEF IInv, UniqueIds, Row
    <3>3. CASE ChangedFields(x) = {}
      <4>1. \A k \in Field : b.attrs[k] = FileAttrs[x.file][k]
        BY <2>2, <3>2, <3>3 DEF ChangedFields
      <4>2. b.attrs \in [Field -> Value]
        BY DEF KInv, Typed
      <4>3. b.attrs = FileAttrs[x.file]
        BY <1>4, <4>1, <4>2
      <4>4. companies' = companies /\ CompanyId(x) = x.base
        BY <1>1, <2>2, <3>3 DEF CompanyWrites, CompanyId
      <4> QED BY <3>1, <4>3, <4>4
    <3>4. CASE ChangedFields(x) # {}
      <4>1. NewRow(x, b.version + 1) \in companies' /\ CompanyId(x) = x.id
        BY <1>1, <2>2, <3>2, <3>4 DEF CompanyWrites, CompanyId
      <4>2. b.version + 1 \in Nat
        BY <1>8
      <4> QED BY <1>7, <4>1, <4>2
    <3> QED BY <3>3, <3>4
  <2> QED BY <2>1, <2>2
<1>12. SnapshotKeepsMetadata'
  <2> SUFFICES ASSUME NEW s \in snapshots'
               PROVE  \E r \in companies', v \in uploads' :
                        /\ r.id = s.company /\ v.id = s.id
                        /\ r.name = s.name /\ r.tenant = s.tenant
                        /\ r.attrs = FileAttrs[v.raw]
    BY DEF SnapshotKeepsMetadata
  <2>1. CASE s \in snapshots
    BY <1>5, <1>9, <2>1 DEF KInv, SnapshotKeepsMetadata
  <2>2. CASE s \notin snapshots
    <3>1. /\ s.id = x.id /\ s.company = CompanyId(x)
          /\ s.tenant = x.tenant /\ s.name = FileName[x.file]
      BY <1>1, <2>2 DEF SnapshotWrites
    <3> QED BY <1>5, <1>11, <3>1 DEF Own
  <2> QED BY <2>1, <2>2
<1> QED BY <1>3, <1>6, <1>10, <1>12 DEF KInv

LEMMA KeysInductive ==
  ASSUME NULL \notin Tenant, NULL \notin File
  PROVE  Spec => []KInv
<1>1. Init => KInv
  BY DEF Init, KInv, OwnFile, Keys, KeysAreUnique, FreshKeys, KeysExclude, Typed, SnapshotKeepsMetadata, Inserted
<1>2. IInv /\ JInv /\ KInv /\ [Next]_vars => KInv'
  <2>1. UNCHANGED vars /\ KInv => KInv'
    BY DEF vars, tables, history, series, KInv, OwnFile, Keys, KeysAreUnique, FreshKeys, KeysExclude, Typed,
           SnapshotKeepsMetadata
  <2> QED BY <2>1, Steps, QuietKeys, UnreadableKeys, CommitKeys
<1> QED BY <1>1, <1>2, TenantInductive, PTL DEF Spec

\* Where every file is submitted for a tenant, a tenant's file is processed at
\* most once, however many loads of it pass the content-hash gate together.
THEOREM Once == ASSUME NULL \notin Tenant, NULL \notin File PROVE Spec => []ProcessedOnce
<1>1. KInv => ProcessedOnce
  BY DEF KInv, Keys, KeysAreUnique, ProcessedOnce
<1> QED BY <1>1, KeysInductive, PTL

\* Where every file is submitted for a tenant, each snapshot points to a
\* version of its company that holds the metadata of the snapshot's own file,
\* also after that version has been closed.
THEOREM Metadata == ASSUME NULL \notin Tenant, NULL \notin File PROVE Spec => []SnapshotKeepsMetadata
<1>1. KInv => SnapshotKeepsMetadata
  BY DEF KInv
<1> QED BY <1>1, KeysInductive, PTL

-----------------------------------------------------------------------------
(***************************************************************************)
(* Loads that do not overlap (SerialSpec).  What a load has read then      *)
(* still holds when it commits: the row it locked is the one current row   *)
(* of its company, the snapshot it measures the migration and the delta    *)
(* against is the latest, the version it computed is one more than there   *)
(* are snapshots, and no stamp is above its own.                           *)
(***************************************************************************)

\* r is of the tenant and the company that a transaction x loads a file for.
Its(r, x) == r.tenant = x.tenant /\ r.name = FileName[x.file]
ItsRows(x) == {r \in companies : Its(r, x)}
ItsSnapshots(x) == {s \in snapshots : Its(s, x)}

IsLatest(r) == \A q \in snapshots : SameKey(q, r) => q.id <= r.id

\* Every submitter of a row has an upload.
FromUploads == \A r \in companies \cup snapshots \cup watermarks : \E u \in uploads : u.tenant = r.tenant

Dated == /\ \A u \in uploads : u.id \in 1..clock
         /\ \A s \in snapshots : s.id \in 1..clock
         /\ \A m \in migrations : m.to \in 1..clock
         /\ \A w \in watermarks : DOMAIN w = MarkFields /\ w.id \in 1..clock /\ w.upload \in 1..clock

OneEach == /\ \A u, v \in uploads : u.id = v.id => u = v
           /\ \A r, s \in snapshots : r.id = s.id => r = s
           /\ \A v, w \in watermarks : v.id = w.id \/ SameKey(v, w) => v = w

\* The processed uploads are those that have a snapshot.
Processed ==
  /\ \A s \in snapshots : \E u \in uploads : u.id = s.id /\ u.status = "processed" /\ SameKey(u, s)
  /\ \A u \in uploads : u.status = "processed" => \E s \in snapshots : s.id = u.id /\ SameKey(s, u)
  /\ \A u \in uploads : u.name # NULL => u.status # "failed"
  /\ \A s \in snapshots : \E r \in companies : r.id = s.company

CurrentIsLast == \A r, s \in companies : SameKey(r, s) /\ IsCurrent(s) => r.version <= s.version

Finite == IsFiniteSet(uploads) /\ IsFiniteSet(snapshots)

TablesOK == /\ FromUploads /\ Dated /\ OneEach /\ Processed /\ CurrentIsLast /\ Finite
            /\ HistoryIsSound /\ SeriesIsSound /\ MigrationsComplete /\ WatermarkIsLatest

\* Nothing that a load wrote has a later stamp than the one x has taken.
StampIsLast(x) ==
  /\ \A u \in uploads : u.id # x.id /\ (u.status # "failed" => u.id < x.id)
  /\ \A r \in companies : r.id < x.id
  /\ \A s \in snapshots : s.id < x.id
  /\ \A m \in migrations : m.to < x.id
  /\ \A w \in watermarks : w.id < x.id

PrevIsLatest(x) == /\ \A r \in ItsSnapshots(x) : IsLatest(r) => x.prev = r.id
                   /\ ItsSnapshots(x) = {} => x.prev = 0

FoundAreCurrent(x) == x.found = {r.id : r \in {c \in ItsRows(x) : IsCurrent(c)}}

HoldsCurrent(x) == IF x.base = 0 THEN \A r \in ItsRows(x) : ~IsCurrent(r)
                                 ELSE \E r \in ItsRows(x) : r.id = x.base

IsDelta(x) == \A r \in ItsSnapshots(x) : IsLatest(r) => r.content # FileContent[x.file]

DeltaDecided(x) ==
  /\ x.outcome \in Outcome
  /\ x.outcome = "processed" => x.version = Cardinality(ItsSnapshots(x)) + 1 /\ IsDelta(x)

MarkFound(x) == IF x.mark = 0 THEN \A w \in watermarks : ~Its(w, x)
                              ELSE \E w \in watermarks : w.id = x.mark /\ Its(w, x)

\* What a session at position p with transaction x relies on.
SessionOK(p, x) ==
  /\ p \in Inserted => StampIsLast(x)
  /\ p \in {"inserting"} \cup Inserted => PrevIsLatest(x)
  /\ p = "locking" => FoundAreCurrent(x)
  /\ p \in Locking => HoldsCurrent(x)
  /\ p = "counting" => x.outcome = "processed" /\ IsDelta(x)
  /\ p \in {"marking", "committing"} => DeltaDecided(x)
  /\ p = "committing" => MarkFound(x)

SInv == Alone /\ Apart /\ TablesOK /\ \A l \in Loader : SessionOK(pc[l], tx[l])

-----------------------------------------------------------------------------
(* Initial states, and steps that write no table *)

LEMMA InitSerial == Init => SInv
<1> SUFFICES ASSUME Init PROVE SInv
  OBVIOUS
<1>1. /\ uploads = {} /\ companies = {} /\ snapshots = {} /\ migrations = {} /\ watermarks = {}
      /\ \A l \in Loader : pc[l] = "idle"
  BY DEF Init
<1>2. Alone /\ Apart
  BY <1>1 DEF Alone, Apart, Submitters
<1>3. FromUploads /\ Dated /\ OneEach /\ Processed /\ CurrentIsLast
  BY <1>1 DEF FromUploads, Dated, OneEach, Processed, CurrentIsLast
<1>4. Finite
  BY <1>1, FS_EmptySet DEF Finite
<1>5. HistoryIsSound /\ SeriesIsSound /\ MigrationsComplete /\ WatermarkIsLatest
  BY <1>1 DEF HistoryIsSound, OneCurrentRow, NeverWithoutCurrent, HistoryIsAChain,
              SeriesIsSound, SnapshotsTick, VersionsCount, SnapshotInValidity,
              MigrationsComplete, WatermarkIsLatest
<1>6. \A l \in Loader : SessionOK(pc[l], tx[l])
  BY <1>1 DEF SessionOK, Inserted, Locking
<1> QED BY <1>2, <1>3, <1>4, <1>5, <1>6 DEF SInv, TablesOK

\* The tables stay as they are; the clock may go on.
LEMMA TablesKept ==
  ASSUME TablesOK, UNCHANGED tables, clock \in Nat, clock' \in Nat, clock <= clock'
  PROVE  TablesOK'
<1>1. UNCHANGED <<uploads, companies, changes, snapshots, migrations, watermarks>>
  BY DEF tables, history, series
<1>2. FromUploads' /\ OneEach' /\ Processed' /\ CurrentIsLast' /\ Finite'
  BY <1>1 DEF TablesOK, FromUploads, OneEach, Processed, CurrentIsLast, Finite, SameKey, IsCurrent
<1>3. Dated'
  BY <1>1 DEF TablesOK, Dated
<1>4. HistoryIsSound'
  BY <1>1 DEF TablesOK, HistoryIsSound, OneCurrentRow, NeverWithoutCurrent, HistoryIsAChain, SameKey, IsCurrent
<1>5. SeriesIsSound'
  BY <1>1 DEF TablesOK, SeriesIsSound, SnapshotsTick, VersionsCount, SnapshotInValidity, Consecutive,
              SameKey, IsCurrent
<1>6. MigrationsComplete'
  BY <1>1 DEF TablesOK, MigrationsComplete, Consecutive, SameKey
<1>7. WatermarkIsLatest'
  BY <1>1 DEF TablesOK, WatermarkIsLatest, SameKey
<1> QED BY <1>2, <1>3, <1>4, <1>5, <1>6, <1>7 DEF TablesOK

\* A step that writes no table, from what it leaves the sessions with.
LEMMA SessionsKept ==
  ASSUME IInv, SInv, clock' \in {clock, clock + 1}, UNCHANGED tables, Alone', Apart',
         \A k \in Loader : SessionOK(pc'[k], tx'[k])
  PROVE  SInv'
<1>1. clock \in Nat /\ clock' \in Nat /\ clock <= clock'
  BY DEF IInv, Shape
<1>2. TablesOK'
  BY <1>1, TablesKept DEF SInv
<1>3. UNCHANGED <<uploads, companies, snapshots, migrations, watermarks>>
  BY DEF tables, history, series
<1>4. ASSUME NEW k \in Loader
      PROVE  SessionOK(pc[k], tx[k])'
  <2> DEFINE x == tx'[k]
  <2>1. SessionOK(pc'[k], x)
    OBVIOUS
  <2>2. StampIsLast(x) => StampIsLast(tx[k])'
    BY <1>3 DEF StampIsLast
  <2>3. PrevIsLatest(x) => PrevIsLatest(tx[k])'
    BY <1>3 DEF PrevIsLatest, ItsSnapshots, Its, IsLatest, SameKey
  <2>4. FoundAreCurrent(x) => FoundAreCurrent(tx[k])'
    BY <1>3 DEF FoundAreCurrent, ItsRows, Its, IsCurrent
  <2>5. HoldsCurrent(x) => HoldsCurrent(tx[k])'
    BY <1>3 DEF HoldsCurrent, ItsRows, Its, IsCurrent
  <2>6. DeltaDecided(x) => DeltaDecided(tx[k])'
    BY <1>3 DEF DeltaDecided, IsDelta, ItsSnapshots, Its, IsLatest, SameKey
  <2>7. MarkFound(x) => MarkFound(tx[k])'
    BY <1>3 DEF MarkFound, Its
  <2>8. x.outcome = tx[k].outcome' /\ (IsDelta(x) => IsDelta(tx[k])')
    BY <1>3 DEF IsDelta, ItsSnapshots, Its, IsLatest, SameKey
  <2> QED BY <2>1, <2>2, <2>3, <2>4, <2>5, <2>6, <2>7, <2>8 DEF SessionOK, Inserted, Locking
<1> QED BY <1>2, <1>4 DEF SInv

Moves(l, to, t) == pc' = [pc EXCEPT ![l] = to] /\ tx' = [tx EXCEPT ![l] = t]

LEMMA SerialGo ==
  ASSUME IInv, SInv, NEW l \in Loader, NEW to, NEW t, clock' \in {clock, clock + 1}, UNCHANGED tables,
         Moves(l, to, t), SessionOK(to, t), Alone', Apart'
  PROVE  SInv'
<1>1. ASSUME NEW k \in Loader
      PROVE  SessionOK(pc'[k], tx'[k])
  <2>1. CASE k = l
    <3>1. pc'[k] = to /\ tx'[k] = t
      BY <2>1 DEF IInv, Shape, Moves
    <3> QED BY <3>1
  <2>2. CASE k # l
    <3>1. pc'[k] = pc[k] /\ tx'[k] = tx[k]
      BY <2>2 DEF IInv, Shape, Moves
    <3> QED BY <3>1 DEF SInv
  <2> QED BY <2>1, <2>2
<1> QED BY <1>1, SessionsKept

LEMMA SerialStop ==
  ASSUME IInv, SInv, NEW l \in Loader, NEW r, Stop(l, r), clock' \in {clock, clock + 1}, UNCHANGED tables,
         Alone', Apart'
  PROVE  SInv'
<1>1. SessionOK("idle", NoTx)
  BY DEF SessionOK, Inserted, Locking
<1>2. Moves(l, "idle", NoTx)
  BY DEF Stop, Moves
<1> QED BY <1>1, <1>2, SerialGo

-----------------------------------------------------------------------------
(* What a load reads *)

LEMMA SeesIts ==
  ASSUME SInv, NEW l \in Loader, pc[l] # "idle",
         NEW r \in companies \cup snapshots \cup watermarks \cup uploads
  PROVE  Sees(tx[l].tenant, r) <=> r.tenant = tx[l].tenant
<1>1. tx[l].tenant \in Submitters
  BY DEF Submitters
<1>2. r.tenant \in Submitters
  BY DEF SInv, TablesOK, FromUploads, Submitters
<1> QED BY <1>1, <1>2 DEF SInv, Apart, Sees

LEMMA SameLoad ==
  ASSUME NEW x, NEW y, y.tenant = x.tenant, y.file = x.file
  PROVE  /\ \A r : Its(r, y) <=> Its(r, x)
         /\ ItsRows(y) = ItsRows(x)
         /\ ItsSnapshots(y) = ItsSnapshots(x)
BY DEF Its, ItsRows, ItsSnapshots

LEMMA LatestIs ==
  ASSUME IInv, SInv, NEW l \in Loader, pc[l] # "idle", NEW r \in ItsSnapshots(tx[l]), IsLatest(r)
  PROVE  LatestSnapshot(FileName[tx[l].file], tx[l].tenant) = r.id
<1> DEFINE n == FileName[tx[l].file]
           t == tx[l].tenant
           S == {s \in snapshots : s.name = n /\ Sees(t, s)}
           T == {s.id : s \in S} \cup {0}
<1>1. S = ItsSnapshots(tx[l])
  BY SeesIts DEF ItsSnapshots, Its
<1>2. \A s \in snapshots : s.id \in Nat /\ s.id >= 1
  BY DEF IInv, Shape, SInv, TablesOK, Dated
<1>3. \A s \in S : s.id <= r.id
  BY <1>1 DEF IsLatest, SameKey, ItsSnapshots, Its
<1>4. r \in snapshots /\ r.id \in Nat
  BY <1>2 DEF ItsSnapshots
<1>5. r.id \in T
  BY <1>1
<1>6. \A i \in T : i \in Nat /\ r.id >= i
  BY <1>2, <1>3, <1>4
<1> HIDE DEF T
<1>7. \A m \in T : (\A i \in T : m >= i) => m = r.id
  BY <1>5, <1>6
<1>8. Max(T) = r.id
  BY <1>5, <1>6, <1>7 DEF Max
<1> QED BY <1>8 DEF LatestSnapshot, T

LEMMA NoneBefore ==
  ASSUME SInv, NEW l \in Loader, pc[l] # "idle", ItsSnapshots(tx[l]) = {}
  PROVE  LatestSnapshot(FileName[tx[l].file], tx[l].tenant) = 0
<1> DEFINE S == {s \in snapshots : s.name = FileName[tx[l].file] /\ Sees(tx[l].tenant, s)}
<1>1. S = {}
  BY SeesIts DEF ItsSnapshots, Its
<1>2. {s.id : s \in S} \cup {0} = {0}
  BY <1>1
<1>3. Max({0}) = 0
  BY MaxIs
<1> QED BY <1>2, <1>3 DEF LatestSnapshot

LEMMA SerialBegin ==
  ASSUME IInv, SInv, NEW l \in Loader, NEW f, NEW t, NEW u, Gate(l, f, t, u), Alone', Apart'
  PROVE  SInv'
<1>1. CASE Stop(l, "skipped") /\ UNCHANGED tables
  BY <1>1, SerialStop DEF Gate
<1>2. CASE Go(l, "reading", [NoTx EXCEPT !.file = f, !.tenant = t, !.again = u])
  <2> DEFINE x == [NoTx EXCEPT !.file = f, !.tenant = t, !.again = u]
  <2>1. SessionOK("reading", x)
    BY DEF SessionOK, Inserted, Locking
  <2>2. Moves(l, "reading", x) /\ UNCHANGED tables /\ UNCHANGED clock
    BY <1>2 DEF Moves, Go, Gate
  <2> HIDE DEF x
  <2> QED BY <2>1, <2>2, SerialGo
<1> QED BY <1>1, <1>2 DEF Gate

LEMMA SerialReads ==
  ASSUME IInv, SInv, NEW l \in Loader,
         ReadPrevious(l) \/ InsertUpload(l) \/ SelectCompany(l), Alone', Apart'
  PROVE  SInv'
<1>1. DOMAIN tx[l] = DOMAIN NoTx
  BY DEF IInv, Shape
<1>2. CASE ReadPrevious(l)
  <2> DEFINE p == LatestSnapshot(FileName[tx[l].file], tx[l].tenant)
             x == [tx[l] EXCEPT !.prev = p]
  <2>1. x.tenant = tx[l].tenant /\ x.file = tx[l].file /\ x.prev = p
    BY <1>1 DEF NoTx
  <2>2. Moves(l, "inserting", x) /\ UNCHANGED tables /\ UNCHANGED clock /\ pc[l] # "idle"
    BY <1>2 DEF Moves, Go, ReadPrevious
  <2> HIDE DEF x
  <2>3. PrevIsLatest(x)
    BY <2>1, <2>2, SameLoad, LatestIs, NoneBefore DEF PrevIsLatest
  <2>4. SessionOK("inserting", x)
    BY <2>3 DEF SessionOK, Inserted, Locking
  <2> QED BY <2>2, <2>4, SerialGo
<1>3. CASE InsertUpload(l)
  <2> DEFINE x == [tx[l] EXCEPT !.id = clock + 1]
  <2>1. x.tenant = tx[l].tenant /\ x.file = tx[l].file /\ x.prev = tx[l].prev /\ x.id = clock + 1
    BY <1>1 DEF NoTx
  <2>2. Moves(l, "selecting", x) /\ UNCHANGED tables /\ clock' = clock + 1 /\ pc[l] = "inserting"
    BY <1>3 DEF Moves, Go, InsertUpload
  <2> HIDE DEF x
  <2>3. PrevIsLatest(x)
    BY <2>1, <2>2, SameLoad DEF SInv, SessionOK, PrevIsLatest
  <2>4. StampIsLast(x)
    BY <2>1 DEF StampIsLast, IInv, Shape, RowShape, SInv, TablesOK, Dated
  <2>5. SessionOK("selecting", x)
    BY <2>3, <2>4 DEF SessionOK, Locking
  <2> QED BY <2>2, <2>5, SerialGo
<1>4. CASE SelectCompany(l)
  <2> DEFINE c == CurrentRows(FileName[tx[l].file], tx[l].tenant)
             x == [tx[l] EXCEPT !.found = c]
  <2>1. x.tenant = tx[l].tenant /\ x.file = tx[l].file /\ x.prev = tx[l].prev /\ x.id = tx[l].id /\ x.found = c
    BY <1>1 DEF NoTx
  <2>2. Moves(l, "locking", x) /\ UNCHANGED tables /\ UNCHANGED clock /\ pc[l] = "selecting"
    BY <1>4 DEF Moves, Go, SelectCompany
  <2>3. c = {r.id : r \in {q \in ItsRows(tx[l]) : IsCurrent(q)}}
    BY <2>2, SeesIts DEF CurrentRows, ItsRows, Its
  <2> HIDE DEF x
  <2>4. PrevIsLatest(x) /\ StampIsLast(x)
    BY <2>1, <2>2, SameLoad DEF SInv, SessionOK, PrevIsLatest, StampIsLast, Inserted
  <2>5. FoundAreCurrent(x)
    BY <2>1, <2>3, SameLoad DEF FoundAreCurrent
  <2>6. SessionOK("locking", x)
    BY <2>4, <2>5 DEF SessionOK, Locking
  <2> QED BY <2>2, <2>6, SerialGo
<1> QED BY <1>2, <1>3, <1>4

\* version_no counts uploads, the series is one of snapshots: there is one of
\* these for each of those.
LEMMA CountIs ==
  ASSUME SInv, NEW l \in Loader, pc[l] # "idle"
  PROVE  ProcessedCount(FileName[tx[l].file], tx[l].tenant) = Cardinality(ItsSnapshots(tx[l]))
<1> DEFINE x == tx[l]
           S == ItsSnapshots(x)
           U == {u \in uploads : Its(u, x) /\ u.status = "processed"}
           f == [s \in S |-> CHOOSE u \in U : u.id = s.id]
<1>1. ProcessedCount(FileName[x.file], x.tenant) = Cardinality(U)
  <2>1. U = {u \in uploads : u.name = FileName[x.file] /\ u.status = "processed" /\ Sees(x.tenant, u)}
    BY SeesIts DEF Its
  <2> QED BY <2>1 DEF ProcessedCount
<1>2. \A s \in S : \E u \in U : u.id = s.id
  BY DEF SInv, TablesOK, Processed, SameKey, ItsSnapshots, Its
<1>3. \A u \in U : \E s \in S : s.id = u.id
  BY DEF SInv, TablesOK, Processed, SameKey, ItsSnapshots, Its
<1>4. /\ \A r, s \in S : r.id = s.id => r = s
      /\ \A u, v \in U : u.id = v.id => u = v
  BY DEF SInv, TablesOK, OneEach, ItsSnapshots
<1>5. IsFiniteSet(S)
  BY FS_Subset DEF SInv, TablesOK, Finite, ItsSnapshots
<1> HIDE DEF S, U
<1>6. f \in [S -> U] /\ \A s \in S : f[s].id = s.id
  BY <1>2
<1>7. f \in Injection(S, U)
  BY <1>4, <1>6 DEF Injection, IsInjective
<1>8. f \in Surjection(S, U)
  BY <1>3, <1>4, <1>6 DEF Surjection
<1>9. ExistsBijection(S, U)
  BY <1>7, <1>8 DEF ExistsBijection, Bijection
<1>10. Cardinality(U) = Cardinality(S)
  BY <1>5, <1>9, FS_Bijection
<1> QED BY <1>1, <1>10 DEF S

LEMMA SerialHolds ==
  ASSUME IInv, SInv, NEW l \in Loader,
         LockCompany(l) \/ DropStaleRow(l) \/ NoCompany(l), Alone', Apart'
  PROVE  SInv'
<1>1. /\ pc[l] = "locking" /\ UNCHANGED clock
      /\ StampIsLast(tx[l]) /\ PrevIsLatest(tx[l]) /\ FoundAreCurrent(tx[l])
  BY DEF LockCompany, DropStaleRow, NoCompany, SInv, SessionOK, Inserted
<1>2. \A r \in companies : r.id \in tx[l].found => IsCurrent(r) /\ r \in ItsRows(tx[l])
  BY <1>1 DEF FoundAreCurrent, ItsRows, IInv, UniqueIds
<1>3. ~DropStaleRow(l)
  BY <1>2 DEF DropStaleRow
<1>4. DOMAIN tx[l] = DOMAIN NoTx /\ tx[l].base = 0
  BY <1>1 DEF IInv, Shape, BasesAreLocked, Locking
<1>5. CASE LockCompany(l)
  <2>1. PICK r \in companies : r.id \in tx[l].found /\ Go(l, "deriving", [tx[l] EXCEPT !.base = r.id])
    BY <1>5 DEF LockCompany
  <2> DEFINE x == [tx[l] EXCEPT !.base = r.id]
  <2>2. /\ x.tenant = tx[l].tenant /\ x.file = tx[l].file /\ x.prev = tx[l].prev /\ x.id = tx[l].id
        /\ x.base = r.id
    BY <1>4 DEF NoTx
  <2>3. Moves(l, "deriving", x) /\ UNCHANGED tables
    BY <2>1 DEF Moves, Go
  <2>4. r \in ItsRows(tx[l]) /\ r.id # 0
    BY <1>2, <2>1 DEF IInv, Shape, RowShape
  <2> HIDE DEF x
  <2>5. PrevIsLatest(x) /\ StampIsLast(x)
    BY <1>1, <2>2, SameLoad DEF PrevIsLatest, StampIsLast
  <2>6. HoldsCurrent(x)
    BY <2>2, <2>4, SameLoad DEF HoldsCurrent
  <2>7. SessionOK("deriving", x)
    BY <2>5, <2>6 DEF SessionOK
  <2> QED BY <1>1, <2>3, <2>7, SerialGo
<1>6. CASE NoCompany(l)
  <2>1. Moves(l, "deriving", tx[l]) /\ UNCHANGED tables /\ tx[l].found = {}
    BY <1>6 DEF NoCompany, Go, Moves
  <2>2. HoldsCurrent(tx[l])
    BY <1>1, <1>4, <2>1 DEF HoldsCurrent, FoundAreCurrent
  <2>3. SessionOK("deriving", tx[l])
    BY <1>1, <2>2 DEF SessionOK
  <2> QED BY <1>1, <2>1, <2>3, SerialGo
<1> QED BY <1>3, <1>5, <1>6

LEMMA SerialDerive ==
  ASSUME IInv, SInv, NEW l \in Loader, Derive(l), Alone', Apart'
  PROVE  SInv'
<1> DEFINE n == FileName[tx[l].file]
           t == tx[l].tenant
<1>1. /\ pc[l] \in Locking /\ pc[l] # "idle" /\ DOMAIN tx[l] = DOMAIN NoTx
      /\ StampIsLast(tx[l]) /\ PrevIsLatest(tx[l]) /\ HoldsCurrent(tx[l])
  BY Derives DEF SInv, SessionOK, IInv, Shape, Inserted, Locking
\* What the earlier statements have found stays true of the same load.
<1>2. ASSUME NEW x, x.tenant = t, x.file = tx[l].file, x.prev = tx[l].prev, x.id = tx[l].id, x.base = tx[l].base
      PROVE  /\ StampIsLast(x) /\ PrevIsLatest(x) /\ HoldsCurrent(x)
             /\ ItsSnapshots(x) = ItsSnapshots(tx[l])
             /\ IsDelta(x) <=> IsDelta(tx[l])
             /\ \A m : Its(m, x) <=> Its(m, tx[l])
  BY <1>1, <1>2, SameLoad DEF StampIsLast, PrevIsLatest, HoldsCurrent, IsDelta
<1>3. CASE DetectDelta(l)
  <2>1. PICK to \in {"counting", "marking"}, o \in Outcome :
          /\ Go(l, to, [tx[l] EXCEPT !.outcome = o]) /\ UNCHANGED clock
          /\ o = "processed" => to = "counting" /\ ~NoDelta(tx[l])
          /\ to = "counting" => o = "processed"
    BY <1>3 DEF DetectDelta, Outcome
  <2> DEFINE x == [tx[l] EXCEPT !.outcome = o]
  <2>2. /\ x.tenant = t /\ x.file = tx[l].file /\ x.prev = tx[l].prev /\ x.id = tx[l].id
        /\ x.base = tx[l].base /\ x.outcome = o
    BY <1>1 DEF NoTx
  <2>3. Moves(l, to, x) /\ UNCHANGED tables
    BY <2>1 DEF Moves, Go
  <2> HIDE DEF x
  <2>4. ASSUME o = "processed"
        PROVE  IsDelta(x)
    <3> SUFFICES ASSUME NEW r \in ItsSnapshots(tx[l]), IsLatest(r)
                 PROVE  r.content # FileContent[tx[l].file]
      BY <1>2, <2>2 DEF IsDelta
    <3>1. LatestSnapshot(n, t) = r.id /\ r \in snapshots
      BY <1>1, LatestIs DEF ItsSnapshots
    <3>2. r.id # 0 /\ \A q \in snapshots : q.id = r.id => q = r
      BY <3>1 DEF SInv, TablesOK, Dated, OneEach
    <3>3. ContentOf(r.id) = r.content
      BY <3>1, <3>2 DEF ContentOf
    <3> QED BY <2>1, <2>4, <3>1, <3>2, <3>3 DEF NoDelta
  <2>5. to = "marking" => DeltaDecided(x)
    BY <2>1, <2>2 DEF DeltaDecided
  <2>6. SessionOK(to, x)
    BY <1>2, <2>1, <2>2, <2>4, <2>5 DEF SessionOK
  <2> QED BY <2>1, <2>3, <2>6, SerialGo
<1>4. CASE CountUploads(l)
  <2> DEFINE v == ProcessedCount(n, t) + 1
             x == [tx[l] EXCEPT !.version = v]
  <2>1. /\ x.tenant = t /\ x.file = tx[l].file /\ x.prev = tx[l].prev /\ x.id = tx[l].id
        /\ x.base = tx[l].base /\ x.outcome = tx[l].outcome /\ x.version = v
    BY <1>1 DEF NoTx
  <2>2. Moves(l, "marking", x) /\ UNCHANGED tables /\ UNCHANGED clock /\ pc[l] = "counting"
    BY <1>4 DEF Moves, Go, CountUploads
  <2> HIDE DEF x
  <2>3. tx[l].outcome = "processed" /\ IsDelta(tx[l])
    BY <2>2 DEF SInv, SessionOK
  <2>4. v = Cardinality(ItsSnapshots(tx[l])) + 1
    BY <1>1, CountIs
  <2>5. DeltaDecided(x)
    BY <1>2, <2>1, <2>3, <2>4 DEF DeltaDecided, Outcome
  <2>6. SessionOK("marking", x)
    BY <1>2, <2>1, <2>5 DEF SessionOK
  <2> QED BY <2>2, <2>6, SerialGo
<1>5. CASE FindWatermark(l)
  <2> DEFINE M == Marks(n, t)
  <2>1. PICK w \in IF M = {} THEN {0} ELSE M : Go(l, "committing", [tx[l] EXCEPT !.mark = w])
    BY <1>5 DEF FindWatermark
  <2> DEFINE x == [tx[l] EXCEPT !.mark = w]
  <2>2. /\ x.tenant = t /\ x.file = tx[l].file /\ x.prev = tx[l].prev /\ x.id = tx[l].id
        /\ x.base = tx[l].base /\ x.outcome = tx[l].outcome /\ x.version = tx[l].version /\ x.mark = w
    BY <1>1 DEF NoTx
  <2>3. Moves(l, "committing", x) /\ UNCHANGED tables /\ UNCHANGED clock /\ pc[l] = "marking"
    BY <1>5, <2>1 DEF Moves, Go, FindWatermark
  <2> HIDE DEF x
  <2>4. DeltaDecided(x)
    <3>1. DeltaDecided(tx[l])
      BY <2>3 DEF SInv, SessionOK
    <3> QED BY <1>2, <2>2, <3>1 DEF DeltaDecided
  <2>5. M = {v.id : v \in {m \in watermarks : Its(m, tx[l])}}
    BY <1>1, SeesIts DEF Marks, Its
  <2>6. /\ \A m \in watermarks : m.id # 0
        /\ \A m : Its(m, x) <=> Its(m, tx[l])
    BY <1>2, <2>2 DEF SInv, TablesOK, Dated
  <2> HIDE DEF M
  <2>7. MarkFound(x)
    <3>1. CASE w = 0
      <4>1. M = {}
        BY <2>1, <2>5, <2>6, <3>1
      <4> QED BY <2>2, <2>5, <2>6, <3>1, <4>1 DEF MarkFound
    <3>2. CASE w # 0
      <4>1. w \in M
        BY <2>1, <3>2
      <4> QED BY <2>2, <2>5, <2>6, <3>2, <4>1 DEF MarkFound
    <3> QED BY <3>1, <3>2
  <2>8. SessionOK("committing", x)
    BY <1>2, <2>2, <2>4, <2>7 DEF SessionOK
  <2> QED BY <2>3, <2>8, SerialGo
<1> QED BY <1>3, <1>4, <1>5 DEF Derive

\* A failed upload has no name and no snapshot: no series, history or
\* watermark counts it.
LEMMA SerialUnreadable ==
  ASSUME IInv, SInv, NEW l \in Loader, NEW f, NEW t, NEW u, Unreadable(l, f, t, u), Alone', Apart'
  PROVE  SInv'
<1>1. CASE uploads' = uploads
  <2>1. UNCHANGED tables /\ clock' \in {clock, clock + 1} /\ \E r : Stop(l, r)
    BY <1>1 DEF Unreadable, tables
  <2> QED BY <2>1, SerialStop
<1>2. CASE uploads' # uploads
  <2> DEFINE new == [id |-> clock + 1, tenant |-> t, hash |-> NULL, raw |-> f,
                     name |-> NULL, status |-> "failed", from |-> 0]
  <2>1. /\ uploads' = uploads \cup {new} /\ clock' = clock + 1
        /\ UNCHANGED <<companies, changes, snapshots, migrations, watermarks>>
    BY <1>2 DEF Unreadable, history, series
  <2>2. new.id = clock + 1 /\ new.name = NULL /\ new.status = "failed"
    OBVIOUS
  <2> HIDE DEF new
  <2>3. clock \in Nat
    BY DEF IInv, Shape
  <2>4. \A v \in uploads : v.id \in 1..clock
    BY DEF SInv, TablesOK, Dated
  <2>5. FromUploads'
    BY <2>1 DEF SInv, TablesOK, FromUploads
  <2>6. Dated'
    BY <2>1, <2>2, <2>3 DEF SInv, TablesOK, Dated
  <2>7. OneEach'
    BY <2>1, <2>2, <2>3, <2>4 DEF SInv, TablesOK, OneEach, SameKey
  <2>8. Processed'
    BY <2>1, <2>2 DEF SInv, TablesOK, Processed, SameKey
  <2>9. CurrentIsLast' /\ Finite'
    BY <2>1, FS_AddElement DEF SInv, TablesOK, CurrentIsLast, Finite, SameKey, IsCurrent
  <2>10. HistoryIsSound'
    BY <2>1 DEF SInv, TablesOK, HistoryIsSound, OneCurrentRow, NeverWithoutCurrent, HistoryIsAChain,
                SameKey, IsCurrent
  <2>11. SeriesIsSound'
    BY <2>1 DEF SInv, TablesOK, SeriesIsSound, SnapshotsTick, VersionsCount, SnapshotInValidity,
                Consecutive, SameKey, IsCurrent
  <2>12. MigrationsComplete'
    BY <2>1 DEF SInv, TablesOK, MigrationsComplete, Consecutive, SameKey
  <2>13. WatermarkIsLatest'
    BY <2>1, <2>2 DEF SInv, TablesOK, WatermarkIsLatest, SameKey
  <2>14. ASSUME NEW k \in Loader
         PROVE  SessionOK(pc[k], tx[k])'
    <3>1. CASE k = l
      <4>1. pc'[k] = "idle"
        BY <3>1 DEF IInv, Shape, Unreadable, Stop
      <4> QED BY <4>1 DEF SessionOK, Inserted, Locking
    <3>2. CASE k # l
      <4>1. pc'[k] = pc[k] /\ tx'[k] = tx[k] /\ SessionOK(pc[k], tx[k])
        BY <3>2 DEF IInv, Shape, Unreadable, Stop, SInv
      <4>2. StampIsLast(tx[k]) /\ tx[k].id \in 1..clock => StampIsLast(tx[k])'
        BY <2>1, <2>2, <2>3, <4>1 DEF StampIsLast
      <4>3. PrevIsLatest(tx[k]) => PrevIsLatest(tx[k])'
        BY <2>1, <4>1 DEF PrevIsLatest, ItsSnapshots, Its, IsLatest, SameKey
      <4>4. FoundAreCurrent(tx[k]) => FoundAreCurrent(tx[k])'
        BY <2>1, <4>1 DEF FoundAreCurrent, ItsRows, Its, IsCurrent
      <4>5. HoldsCurrent(tx[k]) => HoldsCurrent(tx[k])'
        BY <2>1, <4>1 DEF HoldsCurrent, ItsRows, Its, IsCurrent
      <4>6. DeltaDecided(tx[k]) => DeltaDecided(tx[k])'
        BY <2>1, <4>1 DEF DeltaDecided, IsDelta, ItsSnapshots, Its, IsLatest, SameKey
      <4>7. MarkFound(tx[k]) => MarkFound(tx[k])'
        BY <2>1, <4>1 DEF MarkFound, Its
      <4>8. pc[k] \in Inserted => tx[k].id \in 1..clock
        BY DEF IInv, StampsAreFresh
      <4>9. (IsDelta(tx[k]) => IsDelta(tx[k])') /\ tx'[k].outcome = tx[k].outcome
        BY <2>1, <4>1 DEF IsDelta, ItsSnapshots, Its, IsLatest, SameKey
      <4> QED BY <4>1, <4>2, <4>3, <4>4, <4>5, <4>6, <4>7, <4>8, <4>9 DEF SessionOK, Inserted, Locking
    <3> QED BY <3>1, <3>2
  <2>15. TablesOK'
    BY <2>5, <2>6, <2>7, <2>8, <2>9, <2>10, <2>11, <2>12, <2>13 DEF TablesOK
  <2> QED BY <2>14, <2>15 DEF SInv
<1> QED BY <1>1, <1>2

-----------------------------------------------------------------------------
(* What a commit leaves behind *)

\* What l relied on until now.
LEMMA AtCommit ==
  ASSUME IInv, SInv, NEW l \in Loader, Commit(l)
  PROVE  /\ StampIsLast(tx[l]) /\ PrevIsLatest(tx[l]) /\ HoldsCurrent(tx[l])
         /\ DeltaDecided(tx[l]) /\ MarkFound(tx[l])
         /\ tx[l].id \in 1..clock /\ tx[l].id \in Nat /\ tx[l].id # 0 /\ tx[l].id # NULL
<1>1. pc[l] = "committing" /\ pc[l] \in Inserted /\ pc[l] \in Locking
  BY DEF Commit, Inserted, Locking
<1>2. tx[l].id \in 1..clock /\ clock \in Nat
  BY <1>1 DEF IInv, StampsAreFresh, Shape
<1> QED BY <1>1, <1>2, NullTenantAssumption DEF SInv, SessionOK

\* The company's rows: the current one stays, or the load's row becomes the
\* first, or it replaces the current one and differs from it.
LEMMA SerialRows ==
  ASSUME IInv, SInv, NEW l \in Loader, Commit(l)
  PROVE  LET x == tx[l] IN
         \/ /\ companies' = companies
            /\ \E b \in ItsRows(x) : IsCurrent(b) /\ CompanyId(x) = b.id
         \/ \E n : /\ Its(n, x) /\ IsCurrent(n) /\ n.id = x.id /\ CompanyId(x) = x.id
                   /\ \/ /\ ItsRows(x) = {} /\ n.version = 1
                         /\ companies' = companies \cup {n}
                      \/ \E b \in ItsRows(x) : \E o :
                           /\ IsCurrent(b) /\ Its(o, x)
                           /\ o.id = b.id /\ o.version = b.version /\ o.attrs = b.attrs /\ o.valid_to = x.id
                           /\ n.version = b.version + 1 /\ n.attrs # b.attrs
                           /\ companies' = (companies \ {b}) \cup {o, n}
<1> DEFINE x == tx[l]
<1>1. companies' = CompanyWrites(x) /\ pc[l] \in Locking /\ HoldsCurrent(x)
  BY AtCommit DEF Commit, Locking
<1>2. \A v : LET n == NewRow(x, v) IN /\ Its(n, x) /\ IsCurrent(n) /\ n.id = x.id /\ n.version = v
                                      /\ n.attrs = FileAttrs[x.file]
  BY DEF NewRow, Its, IsCurrent
<1>3. CASE x.base = 0
  <2>1. ItsRows(x) = {}
    <3>1. \A r \in ItsRows(x) : \E s \in ItsRows(x) : IsCurrent(s)
      BY DEF SInv, TablesOK, HistoryIsSound, NeverWithoutCurrent, SameKey, ItsRows, Its
    <3> QED BY <1>1, <1>3, <3>1 DEF HoldsCurrent
  <2>2. CompanyId(x) = x.id /\ companies' = companies \cup {NewRow(x, 1)}
    BY <1>1, <1>3 DEF CompanyId, CompanyWrites
  <2> DEFINE n == NewRow(x, 1)
  <2>3. Its(n, x) /\ IsCurrent(n) /\ n.id = x.id /\ n.version = 1
    BY <1>2
  <2> HIDE DEF n
  <2>4. companies' = companies \cup {n}
    BY <2>2 DEF n
  <2> QED BY <2>1, <2>2, <2>3, <2>4
<1>4. ASSUME x.base # 0
      PROVE  \E b \in ItsRows(x) : b.id = x.base /\ IsCurrent(b) /\ Row(x.base) = b
  <2>1. PICK b \in ItsRows(x) : b.id = x.base
    BY <1>1, <1>4 DEF HoldsCurrent
  <2>2. b \in companies /\ \A r \in companies : r.id = x.base => r = b
    BY <2>1 DEF ItsRows, IInv, UniqueIds
  <2>3. IsCurrent(b)
    BY <1>1, <1>4, <2>2 DEF IInv, HeldIsCurrent
  <2> QED BY <2>1, <2>2, <2>3 DEF Row
<1>5. CASE x.base # 0 /\ ChangedFields(x) = {}
  BY <1>1, <1>4, <1>5 DEF CompanyWrites, CompanyId
<1>6. CASE x.base # 0 /\ ChangedFields(x) # {}
  <2>1. PICK b \in ItsRows(x) : b.id = x.base /\ IsCurrent(b) /\ Row(x.base) = b
    BY <1>4, <1>6
  <2>2. CompanyId(x) = x.id
    BY <1>6 DEF CompanyId
  <2> DEFINE o == [b EXCEPT !.valid_to = x.id]
             n == NewRow(x, b.version + 1)
  <2>3. companies' = (companies \ {b}) \cup {o, n}
    BY <1>1, <1>6, <2>1 DEF CompanyWrites
  <2>4. /\ Its(n, x) /\ IsCurrent(n) /\ n.id = x.id /\ n.version = b.version + 1
        /\ n.attrs = FileAttrs[x.file]
    BY <1>2
  <2>5. DOMAIN b = RowFields /\ Its(b, x)
    BY <2>1 DEF ItsRows, IInv, RowShape
  <2>6. /\ o.tenant = b.tenant /\ o.name = b.name /\ o.id = b.id /\ o.version = b.version
        /\ o.attrs = b.attrs /\ o.valid_to = x.id
    BY <2>5 DEF RowFields
  <2>7. b.attrs # FileAttrs[x.file]
    BY <1>6, <2>1 DEF ChangedFields
  <2>8. Its(o, x)
    BY <2>5, <2>6 DEF Its
  <2> HIDE DEF n, o, x
  <2> QED BY <2>1, <2>2, <2>3, <2>4, <2>6, <2>7, <2>8 DEF x
<1> QED BY <1>3, <1>5, <1>6

LEMMA CommitHistory ==
  ASSUME IInv, SInv, NEW l \in Loader, Commit(l)
  PROVE  HistoryIsSound' /\ CurrentIsLast'
<1> DEFINE x == tx[l]
<1>1. /\ StampIsLast(x) /\ x.id # NULL /\ x.id \in Nat
      /\ \A r \in companies : r.version \in Nat /\ r.id \in Nat /\ r.id < x.id
  BY AtCommit DEF StampIsLast, IInv, RowShape, Shape
<1>2. OneCurrentRow /\ NeverWithoutCurrent /\ HistoryIsAChain /\ CurrentIsLast
  BY DEF SInv, TablesOK, HistoryIsSound
<1>3. CASE companies' = companies
  BY <1>2, <1>3 DEF HistoryIsSound, OneCurrentRow, NeverWithoutCurrent, HistoryIsAChain, CurrentIsLast,
                    SameKey, IsCurrent
<1>4. ASSUME NEW n, Its(n, x), IsCurrent(n), n.id = x.id, ItsRows(x) = {}, n.version = 1,
             companies' = companies \cup {n}
      PROVE  HistoryIsSound' /\ CurrentIsLast'
  <2>1. \A r \in companies : ~SameKey(r, n) /\ ~SameKey(n, r)
    BY <1>4 DEF ItsRows, Its, SameKey
  <2>2. SameKey(n, n)
    BY DEF SameKey
  <2> HIDE DEF x
  <2>3. OneCurrentRow'
    BY <1>2, <1>4, <2>1 DEF OneCurrentRow, SameKey, IsCurrent
  <2>4. NeverWithoutCurrent'
    BY <1>2, <1>4, <2>2 DEF NeverWithoutCurrent, SameKey, IsCurrent
  <2>5. HistoryIsAChain'
    BY <1>2, <1>4, <2>1 DEF HistoryIsAChain, SameKey, IsCurrent
  <2>6. CurrentIsLast'
    BY <1>2, <1>4, <2>1 DEF CurrentIsLast, SameKey, IsCurrent
  <2> QED BY <2>3, <2>4, <2>5, <2>6 DEF HistoryIsSound
<1>5. ASSUME NEW n, Its(n, x), IsCurrent(n), n.id = x.id,
             NEW b \in ItsRows(x), NEW o, IsCurrent(b), Its(o, x),
             o.id = b.id, o.version = b.version, o.attrs = b.attrs, o.valid_to = x.id,
             n.version = b.version + 1, n.attrs # b.attrs,
             companies' = (companies \ {b}) \cup {o, n}
      PROVE  HistoryIsSound' /\ CurrentIsLast'
  <2>1. b \in companies /\ ~IsCurrent(o) /\ b.version \in Nat
    BY <1>1, <1>5 DEF ItsRows, IsCurrent
  <2>2. SameKey(n, b) /\ SameKey(o, b) /\ SameKey(n, o)
    BY <1>5 DEF SameKey, Its, ItsRows
  <2>3. \A r : SameKey(r, b) <=> Its(r, x)
    BY <1>5 DEF SameKey, Its, ItsRows
\* b was the only current row of the company, and the last.
  <2>4. \A r \in companies : SameKey(r, b) => (IsCurrent(r) => r = b) /\ r.version <= b.version
    BY <1>2, <1>5, <2>1 DEF OneCurrentRow, CurrentIsLast, SameKey
  <2>5. \A r \in companies : SameKey(r, b) /\ r.version = b.version => r = b
    BY <1>2, <2>1 DEF HistoryIsAChain, SameKey
  <2> HIDE DEF x
  <2>6. OneCurrentRow'
    <3> SUFFICES ASSUME NEW r \in companies', NEW s \in companies', SameKey(r, s), IsCurrent(r), IsCurrent(s)
                 PROVE  r = s
      BY DEF OneCurrentRow, SameKey, IsCurrent
    <3>1. r # o /\ s # o
      BY <2>1
    <3>2. CASE SameKey(r, b)
      <4>1. SameKey(s, b)
        BY <3>2 DEF SameKey
      <4> QED BY <1>5, <2>4, <3>1, <3>2, <4>1
    <3>3. CASE ~SameKey(r, b)
      <4>1. ~SameKey(s, b)
        BY <3>3 DEF SameKey
      <4> QED BY <1>2, <1>5, <2>2, <3>1, <3>3, <4>1 DEF OneCurrentRow
    <3> QED BY <3>2, <3>3
  <2>7. NeverWithoutCurrent'
    <3> SUFFICES ASSUME NEW r \in companies'
                 PROVE  \E s \in companies' : SameKey(r, s) /\ IsCurrent(s)
      BY DEF NeverWithoutCurrent, SameKey, IsCurrent
    <3>1. CASE SameKey(r, b)
      BY <1>5, <2>2, <3>1 DEF SameKey
    <3>2. CASE ~SameKey(r, b)
      <4>1. r \in companies
        BY <1>5, <2>2, <3>2
      <4>2. PICK s \in companies : SameKey(r, s) /\ IsCurrent(s)
        BY <1>2, <4>1 DEF NeverWithoutCurrent
      <4>3. s # b
        BY <3>2, <4>2
      <4> QED BY <1>5, <4>2, <4>3
    <3> QED BY <3>1, <3>2
  <2>8. CurrentIsLast'
    <3> SUFFICES ASSUME NEW r \in companies', NEW s \in companies', SameKey(r, s), IsCurrent(s)
                 PROVE  r.version <= s.version
      BY DEF CurrentIsLast, SameKey, IsCurrent
    <3>1. s # o
      BY <2>1
    <3>2. CASE SameKey(s, b)
      <4>1. s = n
        BY <1>5, <2>4, <3>1, <3>2
      <4>2. SameKey(r, b)
        BY <3>2 DEF SameKey
      <4>3. r = n \/ r = o \/ r \in companies
        BY <1>5
      <4> QED BY <1>1, <1>5, <2>1, <2>4, <4>1, <4>2, <4>3
    <3>3. CASE ~SameKey(s, b)
      <4>1. ~SameKey(r, b)
        BY <3>3 DEF SameKey
      <4> QED BY <1>2, <1>5, <2>2, <3>3, <4>1 DEF CurrentIsLast
    <3> QED BY <3>2, <3>3
  <2>9. HistoryIsAChain'
    <3> SUFFICES ASSUME NEW r \in companies'
                 PROVE  /\ ~IsCurrent(r) => r.id < r.valid_to
                        /\ \A s \in companies' : SameKey(r, s) /\ r.version = s.version => r = s
                        /\ \/ r.version = 1
                           \/ \E s \in companies' : /\ SameKey(r, s)
                                                    /\ s.version + 1 = r.version
                                                    /\ s.valid_to = r.id
                                                    /\ s.attrs # r.attrs
      BY DEF HistoryIsAChain, SameKey, IsCurrent
    <3>1. ~IsCurrent(r) => r.id < r.valid_to
      BY <1>1, <1>2, <1>5, <2>1 DEF HistoryIsAChain
    <3>2. ASSUME NEW s \in companies', SameKey(r, s), r.version = s.version
          PROVE  r = s
      <4>1. CASE SameKey(r, b)
        <5>1. SameKey(s, b)
          BY <3>2, <4>1 DEF SameKey
        <5>2. \A q \in companies' : q = n \/ q = o \/ (q \in companies /\ q # b)
          BY <1>5
        <5>3. \A q \in companies : SameKey(q, b) /\ q # b => q.version < b.version
          BY <1>1, <2>1, <2>4, <2>5
        <5>4. CASE r \in companies /\ s \in companies
          BY <1>2, <3>2, <5>4 DEF HistoryIsAChain
        <5> QED BY <1>5, <2>1, <3>2, <4>1, <5>1, <5>2, <5>3, <5>4, <1>1
      <4>2. CASE ~SameKey(r, b)
        <5>1. ~SameKey(s, b)
          BY <3>2, <4>2 DEF SameKey
        <5> QED BY <1>2, <1>5, <2>2, <3>2, <4>2, <5>1 DEF HistoryIsAChain
      <4> QED BY <4>1, <4>2
    <3>3. CASE r = n
      <4>1. /\ o \in companies' /\ SameKey(r, o)
            /\ o.version + 1 = r.version /\ o.valid_to = r.id /\ o.attrs # r.attrs
        BY <1>5, <2>2, <3>3
      <4> QED BY <3>1, <3>2, <4>1
    <3>4. ASSUME r # n
          PROVE  \/ r.version = 1
                 \/ \E s \in companies' : /\ SameKey(r, s)
                                          /\ s.version + 1 = r.version
                                          /\ s.valid_to = r.id
                                          /\ s.attrs # r.attrs
      <4>1. PICK q \in companies : /\ q.id = r.id /\ q.version = r.version /\ q.attrs = r.attrs
                                   /\ SameKey(q, r)
        BY <1>5, <2>1, <2>2, <3>4 DEF SameKey
      <4>2. CASE r.version # 1
        <5>1. PICK s \in companies : /\ SameKey(q, s) /\ s.version + 1 = q.version
                                     /\ s.valid_to = q.id /\ s.attrs # q.attrs
          BY <1>2, <4>1, <4>2 DEF HistoryIsAChain
        <5>2. s # b
          BY <1>1, <1>5, <5>1, NullTenantAssumption DEF IsCurrent
        <5>3. s \in companies' /\ SameKey(r, s)
          BY <1>5, <4>1, <5>1, <5>2 DEF SameKey
        <5> QED BY <4>1, <5>1, <5>3
      <4> QED BY <4>2
    <3> QED BY <3>1, <3>2, <3>3, <3>4
  <2> QED BY <2>6, <2>7, <2>8, <2>9 DEF HistoryIsSound
<1> HIDE DEF x
<1> QED BY <1>3, <1>4, <1>5, SerialRows DEF x

\* The upload, the snapshot if there is a delta, and the watermark.
LEMMA SerialWrites ==
  ASSUME IInv, SInv, NEW l \in Loader, Commit(l)
  PROVE  LET x == tx[l] IN
         /\ \E up : /\ Its(up, x) /\ up.id = x.id /\ up.status = x.outcome
                    /\ uploads' = uploads \cup {up}
         /\ x.outcome # "processed" => snapshots' = snapshots
         /\ x.outcome = "processed" =>
              \E new : /\ Its(new, x) /\ new.id = x.id /\ new.company = CompanyId(x)
                       /\ new.version = x.version /\ new.content = FileContent[x.file]
                       /\ snapshots' = snapshots \cup {new}
         /\ \E m : /\ DOMAIN m = MarkFields /\ Its(m, x) /\ m.upload = x.id
                   /\ \/ /\ m.id = x.id /\ \A w \in watermarks : ~Its(w, x)
                         /\ watermarks' = watermarks \cup {m}
                      \/ \E w \in watermarks : /\ Its(w, x) /\ m.id = w.id
                                               /\ watermarks' = (watermarks \ {w}) \cup {m}
<1> DEFINE x == tx[l]
<1>1. /\ uploads' = UploadWrites(x) /\ snapshots' = SnapshotWrites(x) /\ watermarks' = WatermarkWrites(x)
      /\ MarkFound(x)
  BY AtCommit DEF Commit
<1>2. \E up : /\ Its(up, x) /\ up.id = x.id /\ up.status = x.outcome
              /\ uploads' = uploads \cup {up}
  <2> DEFINE up == [id |-> x.id, tenant |-> x.tenant, hash |-> x.file, raw |-> x.file,
                    name |-> FileName[x.file], status |-> x.outcome, from |-> x.again]
  <2>1. Its(up, x) /\ up.id = x.id /\ up.status = x.outcome
    BY DEF Its
  <2>2. uploads' = uploads \cup {up}
    BY <1>1 DEF UploadWrites
  <2> HIDE DEF up
  <2> QED BY <2>1, <2>2
<1>3. x.outcome # "processed" => snapshots' = snapshots
  BY <1>1 DEF SnapshotWrites
<1>4. ASSUME x.outcome = "processed"
      PROVE  \E new : /\ Its(new, x) /\ new.id = x.id /\ new.company = CompanyId(x)
                      /\ new.version = x.version /\ new.content = FileContent[x.file]
                      /\ snapshots' = snapshots \cup {new}
  <2> DEFINE new == [id |-> x.id, tenant |-> x.tenant, name |-> FileName[x.file],
                     company |-> CompanyId(x), version |-> x.version,
                     content |-> FileContent[x.file]]
  <2>1. /\ Its(new, x) /\ new.id = x.id /\ new.company = CompanyId(x)
        /\ new.version = x.version /\ new.content = FileContent[x.file]
    BY DEF Its
  <2>2. snapshots' = snapshots \cup {new}
    BY <1>1, <1>4 DEF SnapshotWrites
  <2> HIDE DEF new
  <2> QED BY <2>1, <2>2
<1>5. \E m : /\ DOMAIN m = MarkFields /\ Its(m, x) /\ m.upload = x.id
             /\ \/ /\ m.id = x.id /\ \A w \in watermarks : ~Its(w, x)
                   /\ watermarks' = watermarks \cup {m}
                \/ \E w \in watermarks : /\ Its(w, x) /\ m.id = w.id
                                         /\ watermarks' = (watermarks \ {w}) \cup {m}
  <2>1. CASE x.mark = 0
    <3> DEFINE m == [id |-> x.id, tenant |-> x.tenant, name |-> FileName[x.file], upload |-> x.id]
    <3>1. DOMAIN m = MarkFields /\ Its(m, x) /\ m.upload = x.id /\ m.id = x.id
      BY DEF MarkFields, Its
    <3>2. watermarks' = watermarks \cup {m} /\ \A w \in watermarks : ~Its(w, x)
      BY <1>1, <2>1 DEF WatermarkWrites, MarkFound
    <3> HIDE DEF m
    <3> QED BY <3>1, <3>2
  <2>2. CASE x.mark # 0
    <3>1. PICK w \in watermarks : w.id = x.mark /\ Its(w, x)
      BY <1>1, <2>2 DEF MarkFound
    <3>2. DOMAIN w = MarkFields /\ \A v \in watermarks : v.id = w.id => v = w
      BY DEF SInv, TablesOK, Dated, OneEach
    <3> DEFINE m == [w EXCEPT !.upload = x.id]
    <3>3. DOMAIN m = MarkFields /\ m.id = w.id /\ m.upload = x.id /\ m.tenant = w.tenant /\ m.name = w.name
      BY <3>2 DEF MarkFields
    <3>4. watermarks' = {IF v.id = x.mark THEN [v EXCEPT !.upload = x.id] ELSE v : v \in watermarks}
      BY <1>1, <2>2 DEF WatermarkWrites
    <3>5. watermarks' = (watermarks \ {w}) \cup {m}
      BY <3>1, <3>2, <3>4
    <3>6. Its(m, x)
      BY <3>1, <3>3 DEF Its
    <3> HIDE DEF m, x
    <3> QED BY <3>1, <3>3, <3>5, <3>6
  <2> QED BY <2>1, <2>2
<1> QED BY <1>2, <1>3, <1>4, <1>5

\* What follows from the new rows for the tables' own consistency.
LEMMA CommitUploads ==
  ASSUME IInv, SInv, NEW l \in Loader, Commit(l)
  PROVE  Processed' /\ Finite' /\ WatermarkIsLatest' /\ OneEach' /\ FromUploads' /\ Dated'
<1> DEFINE x == tx[l]
<1>1. /\ StampIsLast(x) /\ x.id \in 1..clock /\ clock' = clock /\ clock \in Nat /\ x.outcome \in Outcome
      /\ x.outcome # "failed"
  BY AtCommit DEF Commit, DeltaDecided, Outcome, IInv, Shape
<1>2. Processed /\ Finite /\ WatermarkIsLatest /\ OneEach /\ FromUploads /\ Dated
  BY DEF SInv, TablesOK
<1>3. PICK up : /\ Its(up, x) /\ up.id = x.id /\ up.status = x.outcome
                /\ uploads' = uploads \cup {up}
  BY SerialWrites
<1>4. PICK S : /\ snapshots' = snapshots \cup S
               /\ \A s \in S : /\ Its(s, x) /\ s.id = x.id /\ s.company = CompanyId(x)
                               /\ x.outcome = "processed"
               /\ x.outcome = "processed" => S # {}
               /\ IsFiniteSet(S) /\ \A r, s \in S : r = s
  <2>1. CASE x.outcome # "processed"
    <3>1. snapshots' = snapshots \cup {}
      BY <2>1, SerialWrites
    <3> QED BY <2>1, <3>1, FS_EmptySet
  <2>2. CASE x.outcome = "processed"
    <3>1. PICK new : Its(new, x) /\ new.id = x.id /\ new.company = CompanyId(x)
                     /\ snapshots' = snapshots \cup {new}
      BY <2>2, SerialWrites
    <3>2. IsFiniteSet({new})
      BY FS_Singleton
    <3> QED BY <2>2, <3>1, <3>2
  <2> QED BY <2>1, <2>2
<1>5. PICK m : /\ DOMAIN m = MarkFields /\ Its(m, x) /\ m.upload = x.id
               /\ \/ /\ m.id = x.id /\ \A w \in watermarks : ~Its(w, x)
                     /\ watermarks' = watermarks \cup {m}
                  \/ \E w \in watermarks : /\ Its(w, x) /\ m.id = w.id
                                           /\ watermarks' = (watermarks \ {w}) \cup {m}
  BY SerialWrites
<1>6. /\ \A r \in companies : \E q \in companies' : q.id = r.id
      /\ \E q \in companies' : q.id = CompanyId(x)
      /\ \A q \in companies' : Its(q, x) \/ q \in companies
  <2> HIDE DEF x
  <2> QED BY SerialRows DEF x, ItsRows
<1>7. SameKey(up, up) /\ \A r : Its(r, x) => SameKey(r, up) /\ SameKey(up, r) /\ r.tenant = up.tenant
  BY <1>3 DEF Its, SameKey
<1> HIDE DEF x
<1>8. Processed'
  <2>1. \A s \in snapshots' : \E u \in uploads' : u.id = s.id /\ u.status = "processed" /\ SameKey(u, s)
    BY <1>2, <1>3, <1>4, <1>7 DEF Processed
  <2>2. \A u \in uploads' : u.status = "processed" => \E s \in snapshots' : s.id = u.id /\ SameKey(s, u)
    BY <1>2, <1>3, <1>4, <1>7 DEF Processed
  <2>3. \A u \in uploads' : u.name # NULL => u.status # "failed"
    BY <1>1, <1>2, <1>3 DEF Processed
  <2>4. \A s \in snapshots' : \E r \in companies' : r.id = s.company
    BY <1>2, <1>4, <1>6 DEF Processed
  <2> QED BY <2>1, <2>2, <2>3, <2>4 DEF Processed, SameKey
<1>9. Finite'
  BY <1>2, <1>3, <1>4, FS_AddElement, FS_Union DEF Finite
<1>10. FromUploads'
  <2> SUFFICES ASSUME NEW r \in companies' \cup snapshots' \cup watermarks'
               PROVE  \E u \in uploads' : u.tenant = r.tenant
    BY DEF FromUploads
  <2>1. Its(r, x) \/ r \in companies \cup snapshots \cup watermarks
    BY <1>4, <1>5, <1>6
  <2> QED BY <1>2, <1>3, <1>7, <2>1 DEF FromUploads
<1>11. Dated'
  <2>1. \A u \in uploads' : u.id \in 1..clock
    BY <1>1, <1>2, <1>3 DEF Dated
  <2>2. \A s \in snapshots' : s.id \in 1..clock
    BY <1>1, <1>2, <1>4 DEF Dated
  <2>3. \A k \in migrations' : k.to \in 1..clock
    BY <1>1, <1>2 DEF Dated, Commit, MigrationWrites, x
  <2>4. \A w \in watermarks' : DOMAIN w = MarkFields /\ w.id \in 1..clock /\ w.upload \in 1..clock
    BY <1>1, <1>2, <1>5 DEF Dated
  <2> QED BY <1>1, <2>1, <2>2, <2>3, <2>4 DEF Dated
<1>12. OneEach'
  <2>1. \A u, v \in uploads' : u.id = v.id => u = v
    BY <1>1, <1>2, <1>3 DEF OneEach, StampIsLast
  <2>2. \A r, s \in snapshots' : r.id = s.id => r = s
    BY <1>1, <1>2, <1>4 DEF OneEach, StampIsLast
  <2>3. \A w \in watermarks : w.id # x.id
    BY <1>1, <1>2 DEF StampIsLast, Dated
  <2>4. \A v, w \in watermarks' : v.id = w.id => v = w
    BY <1>2, <1>5, <2>3 DEF OneEach
  <2>5. ASSUME NEW v \in watermarks', NEW w \in watermarks', SameKey(v, w)
        PROVE  v = w
    <3>1. CASE Its(v, x)
      <4>1. Its(w, x)
        BY <2>5, <3>1 DEF SameKey, Its
      <4>2. \A y, z \in watermarks : Its(y, x) /\ Its(z, x) => y = z
        BY <1>2 DEF OneEach, SameKey, Its
      <4> QED BY <1>5, <3>1, <4>1, <4>2
    <3>2. CASE ~Its(v, x)
      <4>1. ~Its(w, x)
        BY <2>5, <3>2 DEF SameKey, Its
      <4> QED BY <1>2, <1>5, <2>5, <3>2, <4>1 DEF OneEach
    <3> QED BY <3>1, <3>2
  <2> QED BY <2>1, <2>2, <2>4, <2>5 DEF OneEach, SameKey
<1>13. WatermarkIsLatest'
  <2> SUFFICES ASSUME NEW u \in uploads', u.name # NULL
               PROVE  \E w \in watermarks' : /\ w.tenant = u.tenant /\ w.name = u.name
                                             /\ w.upload >= u.id
                                             /\ \A v \in watermarks' : SameKey(v, w) => v = w
    BY DEF WatermarkIsLatest, SameKey
  <2>1. \A v, w \in watermarks' : SameKey(v, w) => v = w
    BY <1>12 DEF OneEach, SameKey
  <2>2. m \in watermarks'
    BY <1>5
  <2>3. CASE Its(u, x)
    <3>1. m.tenant = u.tenant /\ m.name = u.name
      BY <1>5, <2>3 DEF Its
    <3>2. x.id >= u.id
      <4>1. CASE u = up
        BY <1>1, <1>3, <4>1
      <4>2. CASE u \in uploads
        BY <1>1, <1>2, <4>2 DEF Processed, StampIsLast, Dated
      <4> QED BY <1>3, <4>1, <4>2
    <3> QED BY <1>5, <2>1, <2>2, <3>1, <3>2
  <2>4. CASE ~Its(u, x)
    <3>1. u \in uploads
      BY <1>3, <2>4
    <3>2. PICK w \in watermarks : w.tenant = u.tenant /\ w.name = u.name /\ w.upload >= u.id
      BY <1>2, <3>1 DEF WatermarkIsLatest
    <3>3. ~Its(w, x)
      BY <2>4, <3>2 DEF Its
    <3>4. w \in watermarks'
      BY <1>5, <3>3
    <3> QED BY <2>1, <3>2, <3>4
  <2> QED BY <2>3, <2>4
<1> QED BY <1>8, <1>9, <1>10, <1>11, <1>12, <1>13

\* The snapshots after a commit: what consecutive means for a new one.
LEMMA NewSnapshot ==
  ASSUME IInv, SInv, NEW l \in Loader, Commit(l),
         NEW new, Its(new, tx[l]), new.id = tx[l].id, snapshots' = snapshots \cup {new},
         NEW r \in snapshots', NEW s \in snapshots', Consecutive(r, s)'
  PROVE  \/ r \in snapshots /\ s \in snapshots /\ Consecutive(r, s)
         \/ s = new /\ r \in ItsSnapshots(tx[l]) /\ IsLatest(r)
<1> DEFINE x == tx[l]
<1>1. \A q \in snapshots : q.id \in Nat /\ q.id < x.id
  BY AtCommit DEF StampIsLast, SInv, TablesOK, Dated, IInv, Shape
<1>2. /\ SameKey(r, s) /\ r.id < s.id
      /\ \A q \in snapshots' : SameKey(q, r) => ~(r.id < q.id /\ q.id < s.id)
  BY DEF Consecutive, SameKey
<1>3. r \in snapshots
  <2>1. ASSUME r = new PROVE FALSE
    BY <1>1, <1>2, <2>1, AtCommit
  <2> QED BY <2>1
<1>4. CASE s \in snapshots
  BY <1>2, <1>3, <1>4 DEF Consecutive
<1>5. CASE s = new
  <2>1. Its(r, x)
    BY <1>2, <1>5 DEF SameKey, Its
  <2>2. ASSUME NEW q \in snapshots, SameKey(q, r) PROVE q.id <= r.id
    BY <1>1, <1>2, <1>3, <1>5, <2>2, AtCommit
  <2> QED BY <1>3, <1>5, <2>1, <2>2 DEF IsLatest, ItsSnapshots
<1> QED BY <1>4, <1>5

LEMMA CommitSeries ==
  ASSUME IInv, SInv, NEW l \in Loader, Commit(l)
  PROVE  SeriesIsSound'
<1> DEFINE x == tx[l]
<1>1. /\ StampIsLast(x) /\ DeltaDecided(x) /\ x.id \in Nat /\ x.id # NULL
      /\ \A s \in snapshots : s.id \in Nat /\ s.id < x.id
      /\ \A r \in companies : r.id \in Nat /\ r.id < x.id
  BY AtCommit DEF StampIsLast, SInv, TablesOK, Dated, IInv, Shape, RowShape
<1>2. SnapshotsTick /\ VersionsCount /\ SnapshotInValidity
  BY DEF SInv, TablesOK, SeriesIsSound
<1>3. \A s \in snapshots : \E r \in companies : r.id = s.company
  BY DEF SInv, TablesOK, Processed
<1>4. /\ x.outcome # "processed" => snapshots' = snapshots
      /\ x.outcome = "processed" =>
           \E new : /\ Its(new, x) /\ new.id = x.id /\ new.company = CompanyId(x)
                    /\ new.version = x.version /\ new.content = FileContent[x.file]
                    /\ snapshots' = snapshots \cup {new}
  BY SerialWrites
\* The company rows the snapshots point to.
<1>5. ASSUME NEW s \in snapshots, NEW r \in companies', r.id = s.company
      PROVE  r.id <= s.id /\ (IsCurrent(r) \/ s.id < r.valid_to)
  <2>1. PICK q \in companies : q.id = s.company
    BY <1>3
  <2>2. q.id <= s.id /\ (IsCurrent(q) \/ s.id < q.valid_to)
    BY <1>2, <2>1 DEF SnapshotInValidity
  <2>3. r.id # x.id
    BY <1>1, <1>5, <2>1
  <2>4. r \in companies \/ r.valid_to = x.id
    <3> HIDE DEF x
    <3> QED BY <2>3, SerialRows DEF x
  <2>5. CASE r \in companies
    BY <1>2, <1>5, <2>5 DEF SnapshotInValidity
  <2>6. CASE r.valid_to = x.id
    BY <1>1, <1>5, <2>1, <2>2, <2>6
  <2> QED BY <2>4, <2>5, <2>6
<1>6. ASSUME NEW r \in companies', r.id = CompanyId(x)
      PROVE  r.id <= x.id /\ IsCurrent(r)
  <2>1. CASE /\ companies' = companies
             /\ \E b \in ItsRows(x) : IsCurrent(b) /\ CompanyId(x) = b.id
    <3>1. PICK b \in companies : IsCurrent(b) /\ CompanyId(x) = b.id
      BY <2>1 DEF ItsRows
    <3>2. r = b
      BY <1>6, <2>1, <3>1 DEF IInv, UniqueIds
    <3> QED BY <1>1, <3>1, <3>2
  <2>2. CASE \E n : /\ Its(n, x) /\ IsCurrent(n) /\ n.id = x.id /\ CompanyId(x) = x.id
                    /\ \/ companies' = companies \cup {n}
                       \/ \E b \in companies : \E o : o.id = b.id /\ companies' = (companies \ {b}) \cup {o, n}
    <3>1. PICK n : /\ IsCurrent(n) /\ n.id = x.id /\ CompanyId(x) = x.id
                   /\ \/ companies' = companies \cup {n}
                      \/ \E b \in companies : \E o : o.id = b.id /\ companies' = (companies \ {b}) \cup {o, n}
      BY <2>2
    <3>2. r = n
      <4> HIDE DEF x
      <4> QED BY <1>1, <1>6, <3>1
    <3> QED BY <1>1, <3>1, <3>2
  <2> HIDE DEF x
  <2> QED BY <2>1, <2>2, SerialRows DEF x, ItsRows
<1>7. CASE x.outcome # "processed"
  <2>1. snapshots' = snapshots
    BY <1>4, <1>7
  <2>2. SnapshotsTick' /\ VersionsCount'
    BY <1>2, <2>1 DEF SnapshotsTick, VersionsCount, Consecutive, SameKey
  <2>3. SnapshotInValidity'
    BY <1>5, <2>1 DEF SnapshotInValidity, IsCurrent
  <2> QED BY <2>2, <2>3 DEF SeriesIsSound
<1>8. CASE x.outcome = "processed"
  <2>1. PICK new : /\ Its(new, x) /\ new.id = x.id /\ new.company = CompanyId(x)
                   /\ new.version = x.version /\ new.content = FileContent[x.file]
                   /\ snapshots' = snapshots \cup {new}
    BY <1>4, <1>8
  <2>2. /\ x.version = Cardinality(ItsSnapshots(x)) + 1
        /\ \A r \in ItsSnapshots(x) : IsLatest(r) => r.content # FileContent[x.file]
    BY <1>1, <1>8 DEF DeltaDecided, IsDelta
  <2>3. SnapshotsTick'
    <3> SUFFICES ASSUME NEW r \in snapshots', NEW s \in snapshots', Consecutive(r, s)'
                 PROVE  r.content # s.content
      BY DEF SnapshotsTick, Consecutive, SameKey
    <3>1. \/ r \in snapshots /\ s \in snapshots /\ Consecutive(r, s)
          \/ s = new /\ r \in ItsSnapshots(x) /\ IsLatest(r)
      BY <2>1, NewSnapshot
    <3> QED BY <1>2, <2>1, <2>2, <3>1 DEF SnapshotsTick
  <2>4. VersionsCount'
    <3> SUFFICES ASSUME NEW s \in snapshots'
                 PROVE  s.version = Cardinality({q \in snapshots' : SameKey(q, s) /\ q.id <= s.id})
      BY DEF VersionsCount, SameKey
    <3>1. CASE s \in snapshots
      <4>1. {q \in snapshots' : SameKey(q, s) /\ q.id <= s.id} = {q \in snapshots : SameKey(q, s) /\ q.id <= s.id}
        BY <1>1, <2>1, <3>1
      <4> QED BY <1>2, <3>1, <4>1 DEF VersionsCount
    <3>2. CASE s = new
      <4>1. {q \in snapshots' : SameKey(q, s) /\ q.id <= s.id} = ItsSnapshots(x) \cup {new}
        <5>1. \A q : SameKey(q, s) <=> Its(q, x)
          BY <2>1, <3>2 DEF SameKey, Its
        <5>2. \A q \in snapshots' : Its(q, x) => q.id <= s.id
          BY <1>1, <2>1, <3>2
        <5> QED BY <2>1, <5>1, <5>2 DEF ItsSnapshots
      <4>2. IsFiniteSet(ItsSnapshots(x)) /\ new \notin ItsSnapshots(x)
        <5>1. ItsSnapshots(x) \subseteq snapshots /\ IsFiniteSet(snapshots)
          BY DEF ItsSnapshots, SInv, TablesOK, Finite
        <5>2. new \notin snapshots
          BY <1>1, <2>1
        <5> QED BY <5>1, <5>2, FS_Subset
      <4>3. Cardinality(ItsSnapshots(x) \cup {new}) = Cardinality(ItsSnapshots(x)) + 1
        BY <4>2, FS_AddElement
      <4> QED BY <2>1, <2>2, <3>2, <4>1, <4>3
    <3> QED BY <2>1, <3>1, <3>2
  <2>5. SnapshotInValidity'
    BY <1>5, <1>6, <2>1 DEF SnapshotInValidity, IsCurrent
  <2> QED BY <2>3, <2>4, <2>5 DEF SeriesIsSound
<1> QED BY <1>7, <1>8

LEMMA CommitMigrations ==
  ASSUME IInv, SInv, NEW l \in Loader, Commit(l)
  PROVE  MigrationsComplete'
<1> DEFINE x == tx[l]
           Into(mig, s) == {m \in mig : m.to = s.id}
           Expected(r, s) == IF RatingOf[r.content] = RatingOf[s.content] THEN {}
                             ELSE {[to |-> s.id, from |-> r.id,
                                    old |-> RatingOf[r.content], new |-> RatingOf[s.content]]}
           IsRated(s) == RatingOf[s.content] # NULL
<1>1. /\ StampIsLast(x) /\ PrevIsLatest(x) /\ migrations' = MigrationWrites(x)
      /\ \A s \in snapshots : s.id \in Nat /\ s.id # 0 /\ s.id < x.id /\ s.id # x.id
      /\ \A m \in migrations : m.to # x.id
  BY AtCommit DEF Commit, StampIsLast, SInv, TablesOK, Dated, IInv, Shape
<1>2. \A r, s \in snapshots : Consecutive(r, s) /\ IsRated(r) /\ IsRated(s) => Into(migrations, s) = Expected(r, s)
  BY DEF SInv, TablesOK, MigrationsComplete
<1>3. SUFFICES \A r, s \in snapshots' : Consecutive(r, s)' /\ IsRated(r) /\ IsRated(s) =>
                 Into(migrations', s) = Expected(r, s)
  BY DEF MigrationsComplete, Consecutive, SameKey
<1>4. \A s \in snapshots : Into(migrations', s) = Into(migrations, s)
  BY <1>1 DEF MigrationWrites
<1>5. CASE x.outcome # "processed"
  <2>1. snapshots' = snapshots
    BY <1>5, SerialWrites
  <2>2. \A r, s \in snapshots' : Consecutive(r, s)' => Consecutive(r, s)
    BY <2>1 DEF Consecutive, SameKey
  <2> HIDE DEF Into, Expected, IsRated
  <2> QED BY <1>2, <1>4, <2>1, <2>2
<1>6. CASE x.outcome = "processed"
  <2>1. PICK new : /\ Its(new, x) /\ new.id = x.id /\ new.content = FileContent[x.file]
                   /\ snapshots' = snapshots \cup {new}
    BY <1>6, SerialWrites
  <2>2. ASSUME NEW r \in snapshots', NEW s \in snapshots', Consecutive(r, s)'
        PROVE  \/ r \in snapshots /\ s \in snapshots /\ Consecutive(r, s)
               \/ s = new /\ r \in ItsSnapshots(x) /\ IsLatest(r)
    BY <2>1, <2>2, NewSnapshot
  <2>3. ASSUME NEW r \in ItsSnapshots(x), IsLatest(r), IsRated(r), IsRated(new)
        PROVE  Into(migrations', new) = Expected(r, new)
    <3>1. x.prev = r.id /\ r \in snapshots /\ r.id # 0
      BY <1>1, <2>3 DEF PrevIsLatest, ItsSnapshots
    <3>2. ContentOf(x.prev) = r.content
      BY <3>1 DEF ContentOf, SInv, TablesOK, OneEach
    <3>3. migrations' = IF RatingOf[r.content] = RatingOf[new.content] THEN migrations
                        ELSE migrations \cup {[to |-> x.id, from |-> r.id, old |-> RatingOf[r.content],
                                               new |-> RatingOf[new.content]]}
      BY <1>1, <1>6, <2>1, <2>3, <3>1, <3>2 DEF MigrationWrites
    <3>4. Into(migrations, new) = {}
      BY <1>1, <2>1
    <3> QED BY <2>1, <3>3, <3>4
  <2> HIDE DEF Into, Expected, IsRated
  <2> QED BY <1>2, <1>4, <2>2, <2>3
<1> QED BY <1>5, <1>6

LEMMA SerialCommit ==
  ASSUME IInv, SInv, NEW l \in Loader, Commit(l), Alone', Apart'
  PROVE  SInv'
<1>1. \A k \in Loader : pc'[k] = "idle"
  BY DEF Commit, Stop, SInv, Alone, IInv, Shape
<1>2. \A k \in Loader : SessionOK(pc[k], tx[k])'
  BY <1>1 DEF SessionOK, Inserted, Locking
<1> QED BY <1>2, CommitHistory, CommitUploads, CommitSeries, CommitMigrations DEF SInv, TablesOK

-----------------------------------------------------------------------------

LEMMA SerialNext == IInv /\ SInv /\ [Next /\ Alone' /\ Apart']_vars => SInv'
<1> SUFFICES ASSUME IInv, SInv, [Next /\ Alone' /\ Apart']_vars PROVE SInv'
  OBVIOUS
<1>1. CASE UNCHANGED vars
  <2>1. /\ UNCHANGED tables /\ clock' = clock /\ clock \in Nat
        /\ pc' = pc /\ tx' = tx /\ uploads' = uploads
    BY <1>1 DEF vars, tables, IInv, Shape
  <2>2. Alone' /\ Apart'
    BY <2>1 DEF SInv, Alone, Apart, Submitters
  <2>3. \A k \in Loader : SessionOK(pc'[k], tx'[k])
    BY <2>1 DEF SInv
  <2> QED BY <2>1, <2>2, <2>3, SessionsKept
<1>2. CASE Next /\ Alone' /\ Apart'
  <2>1. ASSUME NEW l \in Loader, DuplicateUpload(l) \/ CommitConflict(l) \/ Raise(l)
        PROVE  SInv'
    <3>1. Stop(l, "raised") /\ clock' \in {clock, clock + 1} /\ UNCHANGED tables
      BY <2>1 DEF DuplicateUpload, CommitConflict, Raise
    <3> QED BY <1>2, <3>1, SerialStop
  <2>2. ASSUME NEW l \in Loader, Proceed(l)
        PROVE  SInv'
    BY <1>2, <2>1, <2>2, SerialReads, SerialHolds, SerialDerive, SerialCommit DEF Proceed, Derive
  <2> QED BY <1>2, <2>1, <2>2, SerialBegin, SerialUnreadable DEF Next
<1> QED BY <1>1, <1>2

LEMMA SerialInductive == SerialSpec => []SInv
<1>1. [Next /\ Alone' /\ Apart']_vars => [Next]_vars
  OBVIOUS
<1> QED BY <1>1, InitInv, InitSerial, NextInv, SerialNext, PTL DEF SerialSpec

\* Where loads follow one another, the versions of each company are one chain
\* with one open end: version numbers have no duplicate, each version after
\* the first begins where its predecessor ends and differs from it
\* (_get_or_create_company).
THEOREM History == SerialSpec => []HistoryIsSound
<1>1. SInv => HistoryIsSound
  BY DEF SInv, TablesOK
<1> QED BY <1>1, SerialInductive, PTL

\* Where loads follow one another, a company's snapshots differ each from the
\* one before, are numbered 1, 2, 3... although version_no counts uploads, and
\* point to the company row that was valid at their snapshot_at.
THEOREM Series == SerialSpec => []SeriesIsSound
<1>1. SInv => SeriesIsSound
  BY DEF SInv, TablesOK
<1> QED BY <1>1, SerialInductive, PTL

\* Where loads follow one another, a rating migration is recorded for a
\* snapshot exactly if its rating differs from that of the one before, and it
\* names both.
THEOREM Migrations == SerialSpec => []MigrationsComplete
<1>1. SInv => MigrationsComplete
  BY DEF SInv, TablesOK
<1> QED BY <1>1, SerialInductive, PTL

\* Where loads follow one another, a company has one watermark and it is the
\* last upload that got as far as its end, skipped ones included.
THEOREM Watermark == SerialSpec => []WatermarkIsLatest
<1>1. SInv => WatermarkIsLatest
  BY DEF SInv, TablesOK
<1> QED BY <1>1, SerialInductive, PTL

\* Where loads follow one another and the default tenant is used alone or not
\* at all, the commit of a load leaves the company rows and the watermarks of
\* every other tenant as they were.
THEOREM SerialIsolation == SerialSpec => TenantsIsolated
<1> DEFINE Isolated(l, t) == Commit(l) /\ t # tx[l].tenant =>
                               /\ RowsOf(companies', t) = RowsOf(companies, t)
                               /\ RowsOf(watermarks', t) = RowsOf(watermarks, t)
<1>1. ASSUME IInv, SInv, NEW l \in Loader, NEW t \in Tenant
      PROVE  Isolated(l, t)
  <2> SUFFICES ASSUME Commit(l), t # tx[l].tenant
               PROVE  /\ RowsOf(companies', t) = RowsOf(companies, t)
                      /\ RowsOf(watermarks', t) = RowsOf(watermarks, t)
    OBVIOUS
  <2>1. \/ companies' = companies
        \/ \E n : /\ n.tenant = tx[l].tenant
                  /\ \/ companies' = companies \cup {n}
                     \/ \E b \in companies : \E o : /\ b.tenant = tx[l].tenant /\ o.tenant = tx[l].tenant
                                                    /\ companies' = (companies \ {b}) \cup {o, n}
    BY <1>1, SerialRows DEF Its, ItsRows
  <2>2. \E m : /\ m.tenant = tx[l].tenant
               /\ \/ watermarks' = watermarks \cup {m}
                  \/ \E w \in watermarks : /\ w.tenant = tx[l].tenant
                                           /\ watermarks' = (watermarks \ {w}) \cup {m}
    BY <1>1, SerialWrites DEF Its
  <2> QED BY <2>1, <2>2 DEF RowsOf
<1>2. IInv /\ SInv /\ [Next /\ Alone' /\ Apart']_vars => [\A l \in Loader, t \in Tenant : Isolated(l, t)]_vars
  BY <1>1
<1>3. [Next /\ Alone' /\ Apart']_vars => [Next]_vars
  OBVIOUS
<1>4. SerialSpec => []IInv
  BY <1>3, InitInv, NextInv, PTL DEF SerialSpec
<1> QED BY <1>2, <1>4, SerialInductive, PTL DEF SerialSpec, TenantsIsolated

-----------------------------------------------------------------------------
(***************************************************************************)
(* What the endpoints derive (ReadModel), where loads follow one another.  *)
(* Their figures come from different tables, so the invariant says how the *)
(* tables refer to each other: every row's company has an upload and every *)
(* upload a company, a change belongs to a later version, and a migration  *)
(* to the snapshot it leads to and to the one before it.                   *)
(***************************************************************************)

RatingAt(s) == RatingOf[s.content]
IsFirst(s) == \A q \in snapshots : SameKey(q, s) => s.id <= q.id

Reported ==
  /\ \A u \in uploads : u.status \in Outcome \cup {"failed"}
  /\ \A u \in uploads : u.name # NULL => \E r \in companies : SameKey(r, u)
  /\ \A r \in companies : r.name # NULL /\ \E u \in uploads : SameKey(u, r)

Pointed == \A s \in snapshots : /\ s.content \in {FileContent[f] : f \in File}
                                /\ \E r \in companies : r.id = s.company /\ SameKey(r, s)

Changed ==
  /\ \A r \in companies : r.version >= 1
  /\ \A c \in changes : /\ c.upload = c.company
                        /\ \A r \in companies : r.id = c.company => r.version > 1

\* Migration m led to snapshot s.
LedTo(m, s) ==
  /\ m.to = s.id /\ m.new = RatingAt(s) /\ m.new # NULL /\ m.old # m.new
  /\ \/ IsFirst(s) /\ m.old = NULL
     \/ \E p \in snapshots : Consecutive(p, s) /\ m.old = RatingAt(p)

Moved ==
  /\ IsFiniteSet(migrations)
  /\ \A m, n \in migrations : m.to = n.to => m = n
  /\ \A m \in migrations : \E s \in snapshots : LedTo(m, s)
  /\ \A s \in snapshots : IsFirst(s) /\ RatingAt(s) # NULL => \E m \in migrations : m.to = s.id

RInv == OwnFile /\ Reported /\ Pointed /\ Changed /\ Moved

\* Only commits and unreadable files write a table.
LEMMA TableSteps ==
  [Next]_vars => \/ UNCHANGED tables
                 \/ \E l \in Loader : Commit(l) \/ \E f \in File, t \in Tenant : \E u : Unreadable(l, f, t, u)
<1> SUFFICES ASSUME [Next]_vars
             PROVE  \/ UNCHANGED tables
                    \/ \E l \in Loader : Commit(l) \/ \E f \in File, t \in Tenant : \E u : Unreadable(l, f, t, u)
  OBVIOUS
<1>1. CASE UNCHANGED vars
  BY <1>1 DEF vars
<1>2. ASSUME NEW l \in Loader, Proceed(l)
      PROVE  UNCHANGED tables \/ Commit(l)
  BY <1>2 DEF Proceed, ReadPrevious, InsertUpload, DuplicateUpload, SelectCompany, LockCompany, DropStaleRow,
              NoCompany, DetectDelta, CountUploads, FindWatermark, CommitConflict, Go
<1>3. ASSUME NEW l \in Loader, Raise(l)
      PROVE  UNCHANGED tables
  BY <1>3 DEF Raise
<1>4. ASSUME NEW l \in Loader, NEW f, NEW t, NEW u, Gate(l, f, t, u)
      PROVE  UNCHANGED tables
  BY <1>4 DEF Gate, Go
<1> QED BY <1>1, <1>2, <1>3, <1>4 DEF Next

LEMMA OwnFileKept ==
  ASSUME IInv, OwnFile, [Next]_vars
  PROVE  OwnFile'
<1>1. CASE UNCHANGED vars
  BY <1>1 DEF vars, OwnFile
<1>2. ASSUME NEW l \in Loader, Quiet(l)
      PROVE  OwnFile'
  BY <1>2 DEF OwnFile, Quiet, Same, InsertUpload
<1>3. ASSUME NEW l \in Loader, NEW r, Stop(l, r)
      PROVE  OwnFile'
  BY <1>3 DEF OwnFile, Stop, IInv, Shape
<1> QED BY <1>1, <1>2, <1>3, Steps DEF Commit, Unreadable

LEMMA InitReports == Init => RInv
<1> SUFFICES ASSUME Init PROVE RInv
  OBVIOUS
<1>1. /\ uploads = {} /\ companies = {} /\ changes = {} /\ snapshots = {} /\ migrations = {}
      /\ \A l \in Loader : pc[l] = "idle"
  BY DEF Init
<1> QED BY <1>1, FS_EmptySet DEF RInv, OwnFile, Reported, Pointed, Changed, Moved

\* An unreadable file adds an upload without a name.
LEMMA QuietReports ==
  ASSUME RInv, UNCHANGED <<companies, changes, snapshots, migrations>>,
         uploads \subseteq uploads', \A u \in uploads' \ uploads : u.status = "failed" /\ u.name = NULL
  PROVE  Reported' /\ Pointed' /\ Changed' /\ Moved'
<1>1. Reported'
  BY DEF RInv, Reported, SameKey
<1>2. Pointed' /\ Changed'
  BY DEF RInv, Pointed, Changed, SameKey
<1>3. \A s : IsFirst(s)' <=> IsFirst(s)
  BY DEF IsFirst, SameKey
<1>4. \A p, s : Consecutive(p, s)' <=> Consecutive(p, s)
  BY DEF Consecutive, SameKey
<1>5. \A m, s : LedTo(m, s)' <=> LedTo(m, s)
  BY <1>3, <1>4 DEF LedTo, RatingAt
<1>6. Moved'
  BY <1>3, <1>5 DEF RInv, Moved, RatingAt
<1> QED BY <1>1, <1>2, <1>6

LEMMA CommitReported ==
  ASSUME IInv, SInv, RInv, NEW l \in Loader, Commit(l)
  PROVE  Reported' /\ Pointed'
<1> DEFINE x == tx[l]
<1>1. /\ x.outcome \in Outcome /\ x.file \in File /\ FileName[x.file] # NULL
      /\ \A r \in companies : r.id # x.id
  BY AtCommit, NamesAssumption DEF RInv, OwnFile, Commit, DeltaDecided, StampIsLast, IInv, StampsAreFresh, Inserted
<1>2. PICK up : /\ Its(up, x) /\ up.id = x.id /\ up.status = x.outcome
                /\ uploads' = uploads \cup {up}
  BY SerialWrites
<1> DEFINE S == snapshots' \ snapshots
<1>3. /\ snapshots' = snapshots \cup S
      /\ \A s \in S : Its(s, x) /\ s.company = CompanyId(x) /\ s.content = FileContent[x.file]
  <2>1. CASE x.outcome # "processed"
    BY <2>1, SerialWrites
  <2>2. CASE x.outcome = "processed"
    <3>1. PICK new : /\ Its(new, x) /\ new.company = CompanyId(x) /\ new.content = FileContent[x.file]
                     /\ snapshots' = snapshots \cup {new}
      BY <2>2, SerialWrites
    <3> QED BY <3>1
  <2> QED BY <2>1, <2>2
\* No company row disappears but for the closed one, which keeps its id and key.
<1>4. /\ \A r \in companies : \E q \in companies' : q.id = r.id /\ SameKey(q, r)
      /\ \A q \in companies' : Its(q, x) \/ q \in companies
      /\ \E q \in companies' : Its(q, x) /\ q.id = CompanyId(x)
  <2>1. CASE companies' = companies /\ \E b \in ItsRows(x) : CompanyId(x) = b.id
    BY <2>1 DEF ItsRows, SameKey
  <2>2. ASSUME NEW n, Its(n, x), n.id = CompanyId(x), companies' = companies \cup {n}
        PROVE  <1>4!:
    BY <2>2 DEF SameKey
  <2>3. ASSUME NEW n, NEW o, NEW b \in ItsRows(x), Its(n, x), Its(o, x), n.id = CompanyId(x), o.id = b.id,
               companies' = (companies \ {b}) \cup {o, n}
        PROVE  <1>4!:
    BY <2>3 DEF SameKey, ItsRows, Its
  <2> HIDE DEF x
  <2> QED BY <2>1, <2>2, <2>3, SerialRows DEF x
<1> HIDE DEF x, S
<1>5. \A u \in uploads' : u.status \in Outcome \cup {"failed"}
  BY <1>1, <1>2 DEF RInv, Reported
<1>6. \A u \in uploads' : u.name # NULL => \E r \in companies' : SameKey(r, u)
  <2>1. \A u \in uploads : u.name # NULL => \E r \in companies' : SameKey(r, u)
    BY <1>4 DEF RInv, Reported, SameKey
  <2> QED BY <1>2, <1>4, <2>1 DEF SameKey, Its
<1>7. \A r \in companies' : r.name # NULL /\ \E u \in uploads' : SameKey(u, r)
  BY <1>1, <1>2, <1>4 DEF RInv, Reported, SameKey, Its
<1>8. ASSUME NEW s \in snapshots'
      PROVE  s.content \in {FileContent[f] : f \in File} /\ \E r \in companies' : r.id = s.company /\ SameKey(r, s)
  <2>1. CASE s \in snapshots
    <3>1. PICK r \in companies : r.id = s.company /\ SameKey(r, s)
      BY <2>1 DEF RInv, Pointed
    <3>2. PICK q \in companies' : q.id = r.id /\ SameKey(q, r)
      BY <1>4
    <3> QED BY <2>1, <3>1, <3>2 DEF RInv, Pointed, SameKey
  <2>2. CASE s \in S
    BY <1>1, <1>3, <1>4, <2>2 DEF SameKey, Its
  <2> QED BY <1>3, <2>1, <2>2
<1>9. Reported'
  BY <1>5, <1>6, <1>7 DEF Reported, SameKey
<1>10. Pointed'
  BY <1>8 DEF Pointed, SameKey
<1> QED BY <1>9, <1>10

LEMMA CommitChanged ==
  ASSUME IInv, SInv, LogInv, RInv, NEW l \in Loader, Commit(l)
  PROVE  Changed'
<1> DEFINE x == tx[l]
           New == changes' \ changes
<1>1. /\ \A r \in companies : r.id \in Nat /\ r.id < x.id /\ r.version \in Nat /\ r.version >= 1
      /\ x.id \in Nat /\ HoldsCurrent(x)
      /\ changes' = ChangeWrites(x)
  BY AtCommit DEF Commit, StampIsLast, IInv, RowShape, Shape, RInv, Changed
<1>2. \A c \in New : c.company = x.id /\ c.upload = x.id /\ ChangedFields(x) # {}
  BY <1>1 DEF ChangeWrites
<1>3. \A c \in changes : c.upload = c.company /\ \E r \in companies : r.id = c.company
  BY DEF LogInv, RInv, Changed
<1>4. \A c \in changes : \A r \in companies : r.id = c.company => r.version > 1
  BY DEF RInv, Changed
<1>5. changes' = changes \cup New
  BY <1>1 DEF ChangeWrites
<1>6. /\ \A r \in companies' : r.version >= 1
      /\ \A r \in companies' : r.id # x.id => \E q \in companies : q.id = r.id /\ q.version = r.version
      /\ ChangedFields(x) # {} => \A r \in companies' : r.id = x.id => r.version > 1
  <2>1. CASE companies' = companies /\ \E b \in ItsRows(x) : CompanyId(x) = b.id
    <3>1. ASSUME ChangedFields(x) # {} PROVE FALSE
      <4>1. CompanyId(x) = x.id
        BY <3>1 DEF CompanyId
      <4>2. PICK b \in companies : CompanyId(x) = b.id
        BY <2>1 DEF ItsRows
      <4> QED BY <1>1, <4>1, <4>2
    <3> QED BY <1>1, <2>1, <3>1
  <2>2. ASSUME NEW n, n.id = x.id, ItsRows(x) = {}, n.version = 1, companies' = companies \cup {n}
        PROVE  <1>6!:
    <3>1. ChangedFields(x) = {}
      BY <1>1, <2>2 DEF HoldsCurrent, ChangedFields
    <3> HIDE DEF x
    <3> QED BY <1>1, <2>2, <3>1
  <2>3. ASSUME NEW n, NEW o, NEW b \in companies, n.id = x.id, o.id = b.id, o.version = b.version,
               n.version = b.version + 1, companies' = (companies \ {b}) \cup {o, n}
        PROVE  <1>6!:
    <3> HIDE DEF x
    <3> QED BY <1>1, <2>3
  <2> HIDE DEF x
  <2> QED BY <2>1, <2>2, <2>3, SerialRows DEF x, ItsRows
<1> HIDE DEF x, New
<1>7. ASSUME NEW c \in changes'
      PROVE  c.upload = c.company /\ \A r \in companies' : r.id = c.company => r.version > 1
  <2>1. CASE c \in New
    BY <1>2, <1>6, <2>1
  <2>2. CASE c \in changes
    BY <1>1, <1>3, <1>4, <1>6, <2>2
  <2> QED BY <1>5, <2>1, <2>2
<1> QED BY <1>6, <1>7 DEF Changed

\* A migration leads from the latest rating to the new one, and a first
\* snapshot with a rating has one, too.
LEMMA CommitMoved ==
  ASSUME IInv, SInv, RInv, NEW l \in Loader, Commit(l)
  PROVE  Moved'
<1> DEFINE x == tx[l]
<1>1. /\ StampIsLast(x) /\ PrevIsLatest(x) /\ migrations' = MigrationWrites(x) /\ x.id \in Nat
      /\ \A s \in snapshots : s.id \in Nat /\ s.id # 0 /\ s.id < x.id
      /\ \A m \in migrations : m.to # x.id
  BY AtCommit DEF Commit, StampIsLast, SInv, TablesOK, Dated, IInv, Shape
<1>2. /\ IsFiniteSet(migrations)
      /\ \A m, n \in migrations : m.to = n.to => m = n
      /\ \A m \in migrations : \E s \in snapshots : LedTo(m, s)
      /\ \A s \in snapshots : IsFirst(s) /\ RatingAt(s) # NULL => \E m \in migrations : m.to = s.id
  BY DEF RInv, Moved
<1>3. CASE x.outcome # "processed"
  <2>1. snapshots' = snapshots /\ migrations' = migrations
    BY <1>1, <1>3, SerialWrites DEF MigrationWrites
  <2>2. \A s : IsFirst(s)' <=> IsFirst(s)
    BY <2>1 DEF IsFirst, SameKey
  <2>3. \A m, s : LedTo(m, s)' <=> LedTo(m, s)
    BY <2>1, <2>2 DEF LedTo, RatingAt, Consecutive, SameKey
  <2> QED BY <1>2, <2>1, <2>2, <2>3 DEF Moved, RatingAt
<1>4. CASE x.outcome = "processed"
  <2>1. PICK new : /\ Its(new, x) /\ new.id = x.id /\ new.content = FileContent[x.file]
                   /\ snapshots' = snapshots \cup {new}
    BY <1>4, SerialWrites
  <2>2. \A s \in snapshots : IsFirst(s)' <=> IsFirst(s)
    BY <1>1, <2>1 DEF IsFirst, SameKey
  <2>3. \A p, s \in snapshots : Consecutive(p, s) => Consecutive(p, s)'
    BY <1>1, <2>1 DEF Consecutive, SameKey
  <2>4. \A m, s : s \in snapshots /\ LedTo(m, s) => LedTo(m, s)'
    BY <2>1, <2>2, <2>3 DEF LedTo, RatingAt
  <2>5. PICK old : /\ migrations' = IF RatingAt(new) # NULL /\ old # RatingAt(new)
                                   THEN migrations \cup {[to |-> x.id, from |-> x.prev, old |-> old,
                                                          new |-> RatingAt(new)]}
                                   ELSE migrations
                   /\ \/ IsFirst(new)' /\ old = NULL
                      \/ \E p \in snapshots : Consecutive(p, new)' /\ old = RatingAt(p)
    <3>1. CASE ItsSnapshots(x) = {}
      <4>1. x.prev = 0
        BY <1>1, <3>1 DEF PrevIsLatest
      <4>2. IsFirst(new)'
        BY <1>1, <2>1, <3>1 DEF IsFirst, SameKey, ItsSnapshots, Its
      <4> QED BY <1>1, <1>4, <2>1, <4>1, <4>2 DEF MigrationWrites, RatingAt
    <3>2. CASE ItsSnapshots(x) # {}
      <4>1. PICK p \in ItsSnapshots(x) : \A q \in ItsSnapshots(x) : q.id <= p.id
        <5> DEFINE D == {s.id : s \in ItsSnapshots(x)}
        <5>1. D \subseteq 1..clock /\ D # {} /\ clock \in Nat
          BY <3>2 DEF ItsSnapshots, SInv, TablesOK, Dated, IInv, Shape
        <5> HIDE DEF D
        <5>2. Max(D) \in D /\ \A e \in D : e <= Max(D)
          BY <5>1, Greatest
        <5> QED BY <5>2 DEF D
      <4>2. IsLatest(p) /\ p \in snapshots
        BY <4>1 DEF IsLatest, ItsSnapshots, SameKey, Its
      <4>3. x.prev = p.id /\ p.id # 0 /\ ContentOf(x.prev) = p.content
        BY <1>1, <4>1, <4>2 DEF PrevIsLatest, ContentOf, SInv, TablesOK, OneEach
      <4>4. Consecutive(p, new)'
        <5>1. SameKey(p, new) /\ p.id < new.id
          BY <1>1, <2>1, <4>1, <4>2 DEF SameKey, ItsSnapshots, Its
        <5>2. ASSUME NEW q \in snapshots', SameKey(q, p), p.id < q.id, q.id < new.id
              PROVE  FALSE
          <6>1. q \in snapshots
            BY <1>1, <2>1, <5>2
          <6> QED BY <1>1, <4>2, <5>2, <6>1 DEF IsLatest
        <5> QED BY <5>1, <5>2 DEF Consecutive, SameKey
      <4> QED BY <1>1, <1>4, <2>1, <4>2, <4>3, <4>4 DEF MigrationWrites, RatingAt
    <3> QED BY <3>1, <3>2
  <2>6. CASE RatingAt(new) # NULL /\ old # RatingAt(new)
    <3>1. PICK mig : mig.to = new.id /\ mig.old = old /\ mig.new = RatingAt(new) /\ migrations' = migrations \cup {mig}
      BY <2>1, <2>5, <2>6
    <3>2. LedTo(mig, new)'
      BY <2>1, <2>5, <3>1, <2>6 DEF LedTo, RatingAt
    <3>3. IsFiniteSet(migrations')
      BY <1>2, <3>1, FS_AddElement
    <3>4. \A m, n \in migrations' : m.to = n.to => m = n
      BY <1>1, <1>2, <2>1, <3>1
    <3>5. \A m \in migrations' : \E s \in snapshots' : LedTo(m, s)'
      BY <1>2, <2>1, <2>4, <3>1, <3>2
    <3>6. \A s \in snapshots' : IsFirst(s)' /\ RatingAt(s) # NULL => \E m \in migrations' : m.to = s.id
      BY <1>2, <2>1, <2>2, <3>1
    <3> QED BY <3>3, <3>4, <3>5, <3>6 DEF Moved, RatingAt
  <2>7. CASE ~(RatingAt(new) # NULL /\ old # RatingAt(new))
    <3>1. migrations' = migrations
      BY <2>5, <2>7
    <3>2. \A m \in migrations' : \E s \in snapshots' : LedTo(m, s)'
      BY <1>2, <2>1, <2>4, <3>1
    <3>3. \A s \in snapshots' : IsFirst(s)' /\ RatingAt(s) # NULL => \E m \in migrations' : m.to = s.id
      <4>1. ASSUME IsFirst(new)', RatingAt(new) # NULL PROVE FALSE
        <5>1. ASSUME NEW p \in snapshots, Consecutive(p, new)' PROVE FALSE
          BY <1>1, <2>1, <4>1, <5>1 DEF IsFirst, Consecutive, SameKey
        <5> QED BY <2>5, <2>7, <4>1, <5>1
      <4> QED BY <1>2, <2>1, <2>2, <3>1, <4>1
    <3> QED BY <1>2, <3>1, <3>2, <3>3 DEF Moved, RatingAt
  <2> QED BY <2>6, <2>7
<1> QED BY <1>3, <1>4

LEMMA ReportsKept ==
  ASSUME IInv, SInv, LogInv, RInv, [Next]_vars
  PROVE  RInv'
<1>1. OwnFile'
  BY OwnFileKept DEF RInv
<1>2. CASE UNCHANGED tables
  <2>1. UNCHANGED <<uploads, companies, changes, snapshots, migrations>>
    BY <1>2 DEF tables, history, series
  <2> QED BY <1>1, <2>1, QuietReports DEF RInv
<1>3. ASSUME NEW l \in Loader, NEW f, NEW t, NEW u, Unreadable(l, f, t, u)
      PROVE  RInv'
  <2>1. UNCHANGED <<companies, changes, snapshots, migrations>>
    BY <1>3 DEF Unreadable, history, series
  <2>2. uploads \subseteq uploads' /\ \A v \in uploads' \ uploads : v.status = "failed" /\ v.name = NULL
    BY <1>3 DEF Unreadable
  <2> QED BY <1>1, <2>1, <2>2, QuietReports DEF RInv
<1>4. ASSUME NEW l \in Loader, Commit(l)
      PROVE  RInv'
  BY <1>1, <1>4, CommitReported, CommitChanged, CommitMoved DEF RInv
<1> QED BY <1>2, <1>3, <1>4, TableSteps

LEMMA ReportsInductive == SerialSpec => [](IInv /\ SInv /\ LogInv /\ RInv)
<1>1. Init => LogInv
  BY DEF Init, LogInv, ChangeLogExplains
<1>2. IInv /\ LogInv /\ [Next]_vars => LogInv'
  <2>1. UNCHANGED history /\ LogInv => LogInv'
    BY DEF history, LogInv, ChangeLogExplains
  <2> QED BY <2>1, HistorySteps, LogCommit
<1>3. [Next /\ Alone' /\ Apart']_vars => [Next]_vars
  OBVIOUS
<1>4. IInv /\ SInv /\ LogInv /\ RInv /\ [Next]_vars => RInv'
  BY ReportsKept
<1> QED BY <1>1, <1>2, <1>3, <1>4, InitInv, NextInv, InitReports, SerialInductive, PTL DEF SerialSpec

-----------------------------------------------------------------------------
(* The statistics *)

LEMMA Stats ==
  ASSUME IInv, SInv, RInv
  PROVE  StatsAddUp
<1> DEFINE Of(status) == {u \in uploads : u.status = status}
<1>1. IsFiniteSet(uploads) /\ \A status : IsFiniteSet(Of(status))
  BY FS_Subset DEF SInv, TablesOK, Finite
<1>2. Cardinality(uploads) = CountOf("processed") + CountOf("failed") + CountOf("skipped_no_delta")
  <2>1. /\ uploads = (Of("processed") \cup Of("failed")) \cup Of("skipped_no_delta")
        /\ Of("processed") \cap Of("failed") = {}
        /\ (Of("processed") \cup Of("failed")) \cap Of("skipped_no_delta") = {}
    BY DEF RInv, Reported, Outcome
  <2> HIDE DEF Of
  <2>2. /\ IsFiniteSet(Of("processed") \cup Of("failed"))
        /\ Cardinality(Of("processed") \cup Of("failed")) = Cardinality(Of("processed")) + Cardinality(Of("failed"))
    BY <1>1, <2>1, Disjoint
  <2>3. Cardinality(uploads) = Cardinality(Of("processed") \cup Of("failed")) + Cardinality(Of("skipped_no_delta"))
    BY <1>1, <2>1, <2>2, Disjoint
  <2> QED BY <2>2, <2>3 DEF Of, CountOf
<1>3. CountOf("processed") = Cardinality(snapshots)
  <2> DEFINE P == Of("processed")
             g == [u \in P |-> CHOOSE s \in snapshots : s.id = u.id]
  <2>1. \A u \in P : g[u] \in snapshots /\ g[u].id = u.id
    BY DEF SInv, TablesOK, Processed
  <2> HIDE DEF g
  <2>2. \A u, v \in P : g[u] = g[v] => u = v
    BY <2>1 DEF SInv, TablesOK, OneEach
  <2>3. \A s \in snapshots : \E u \in P : g[u] = s
    <3> SUFFICES ASSUME NEW s \in snapshots PROVE \E u \in P : g[u] = s
      OBVIOUS
    <3>1. PICK u \in P : u.id = s.id
      BY DEF SInv, TablesOK, Processed
    <3> QED BY <2>1, <3>1 DEF SInv, TablesOK, OneEach
  <2>4. IsFiniteSet(P)
    BY <1>1
  <2> HIDE DEF P
  <2>5. Cardinality(snapshots) = Cardinality(P)
    BY <2>1, <2>2, <2>3, <2>4, Matching
  <2> QED BY <2>5 DEF P, CountOf
<1>4. CompaniesTracked = Cardinality({<<u.tenant, u.name>> : u \in {v \in uploads : v.name # NULL}})
  <2> DEFINE N == {v \in uploads : v.name # NULL}
             K == {<<u.tenant, u.name>> : u \in N}
             C == {r \in companies : IsCurrent(r)}
             h == [u \in N |-> <<u.tenant, u.name>>]
             g == [k \in K |-> CHOOSE r \in C : r.tenant = k[1] /\ r.name = k[2]]
  <2>1. IsFiniteSet(K)
    <3>1. h \in Surjection(N, K)
      BY DEF Surjection
    <3>2. IsFiniteSet(N)
      BY <1>1, FS_Subset
    <3> QED BY <3>1, <3>2, FS_Surjection
  <2>2. \A k \in K : \E r \in C : r.tenant = k[1] /\ r.name = k[2]
    <3> SUFFICES ASSUME NEW u \in N PROVE \E r \in C : r.tenant = u.tenant /\ r.name = u.name
      OBVIOUS
    <3>1. PICK r \in companies : SameKey(r, u)
      BY DEF RInv, Reported
    <3>2. PICK s \in companies : SameKey(r, s) /\ IsCurrent(s)
      BY DEF SInv, TablesOK, HistoryIsSound, NeverWithoutCurrent
    <3> QED BY <3>1, <3>2 DEF SameKey
  <2>3. \A k \in K : g[k] \in C /\ g[k].tenant = k[1] /\ g[k].name = k[2]
    BY <2>2
  <2>4. \A j, k \in K : j[1] = k[1] /\ j[2] = k[2] => j = k
    OBVIOUS
  <2> HIDE DEF g
  <2>5. \A j, k \in K : g[j] = g[k] => j = k
    <3> HIDE DEF K
    <3> QED BY <2>3, <2>4
  <2>6. \A r \in C : \E k \in K : g[k] = r
    <3> SUFFICES ASSUME NEW r \in C PROVE \E k \in K : g[k] = r
      OBVIOUS
    <3>1. PICK u \in N : SameKey(u, r)
      BY DEF RInv, Reported, SameKey
    <3>2. PICK k \in K : k[1] = r.tenant /\ k[2] = r.name
      <4>1. <<u.tenant, u.name>> \in K
        BY <3>1
      <4> QED BY <3>1, <4>1 DEF SameKey
    <3>3. g[k] \in companies /\ IsCurrent(g[k]) /\ SameKey(g[k], r) /\ r \in companies /\ IsCurrent(r)
      BY <2>3, <3>2 DEF SameKey
    <3> QED BY <3>2, <3>3 DEF SInv, TablesOK, HistoryIsSound, OneCurrentRow
  <2> HIDE DEF K, C
  <2>7. \A k \in K : g[k] \in C
    BY <2>3
  <2>8. Cardinality(C) = Cardinality(K)
    BY <2>1, <2>5, <2>6, <2>7, Matching
  <2> QED BY <2>8 DEF C, K, CompaniesTracked
<1> QED BY <1>2, <1>3, <1>4 DEF StatsAddUp

-----------------------------------------------------------------------------
(* Histories and change logs *)

LEMMA Whole ==
  ASSUME IInv, SInv, RInv
  PROVE  HistoryIsWhole
<1> SUFFICES ASSUME NEW r \in companies, NEW d \in Stamp
             PROVE  /\ {s \in snapshots : SameKey(s, r)} \subseteq HistoryOf(r.id)
                    /\ Max({s.id : s \in UNION {Window(i, 1, d) : i \in RelatedIds(r.id)}} \cup {0})
                         = Max({CompareAt(v.id, d) : v \in {c \in companies : c.name = r.name}})
  BY DEF HistoryIsWhole
<1> DEFINE C == {c \in companies : c.name = r.name}
           H == HistoryOf(r.id)
           Of(id) == {s \in snapshots : s.company = id /\ s.id <= d}
           W == UNION {Window(i, 1, d) : i \in RelatedIds(r.id)}
           A == {s.id : s \in W} \cup {0}
           B == {CompareAt(v.id, d) : v \in C}
<1>1. Row(r.id) = r
  BY DEF Row, IInv, UniqueIds
<1>2. RelatedIds(r.id) = {c.id : c \in C}
  BY <1>1 DEF RelatedIds
<1>3. H = {s \in snapshots : \E c \in C : s.company = c.id}
  BY <1>2 DEF HistoryOf
<1>4. \A s \in snapshots : \E c \in companies : c.id = s.company /\ SameKey(c, s)
  BY DEF RInv, Pointed
<1>5. {s \in snapshots : SameKey(s, r)} \subseteq H
  BY <1>3, <1>4 DEF SameKey
<1>6. clock \in Nat /\ d \in Nat /\ \A s \in snapshots : s.id \in 1..clock
  BY LoadsAssumption DEF IInv, Shape, SInv, TablesOK, Dated, Stamp
<1>7. \A id : /\ CompareAt(id, d) \in Nat
              /\ \A s \in Of(id) : s.id <= CompareAt(id, d)
              /\ CompareAt(id, d) = 0 \/ \E s \in Of(id) : s.id = CompareAt(id, d)
  <2> SUFFICES ASSUME NEW id
               PROVE  /\ CompareAt(id, d) \in Nat
                      /\ \A s \in Of(id) : s.id <= CompareAt(id, d)
                      /\ CompareAt(id, d) = 0 \/ \E s \in Of(id) : s.id = CompareAt(id, d)
    OBVIOUS
  <2> DEFINE D == {s.id : s \in Of(id)}
  <2>1. CompareAt(id, d) = Max(D \cup {0})
    BY DEF CompareAt
  <2>2. D \subseteq 1..clock
    BY <1>6
  <2> HIDE DEF D
  <2>3. CASE D = {}
    <3>1. Max(D \cup {0}) = 0
      BY <2>3, MaxIs
    <3> QED BY <2>1, <2>3, <3>1 DEF D
  <2>4. CASE D # {}
    <3>1. PICK m \in D : \A e \in D : e <= m
      BY <1>6, <2>2, <2>4, Greatest
    <3>2. \A e \in D : e \in Nat /\ e >= 1
      BY <1>6, <2>2
    <3>3. D \cup {0} \subseteq Int /\ m \in D \cup {0} /\ \A e \in D \cup {0} : e <= m
      BY <3>1, <3>2
    <3>4. CompareAt(id, d) = m
      BY <2>1, <3>3, MaxIs
    <3> QED BY <3>1, <3>2, <3>4 DEF D
  <2> QED BY <2>3, <2>4
<1>8. W = {s \in snapshots : \E c \in C : s \in Of(c.id)}
  BY <1>2, <1>6 DEF Window
<1> HIDE DEF W
\* The greatest of the greatest is the greatest of all.
<1>9. A \subseteq Int /\ B \subseteq Int
  BY <1>6, <1>7, <1>8
<1>10. ASSUME NEW b \in B, \A e \in B : e <= b
       PROVE  Max(B) = b /\ Max(A) = b
  <2>1. PICK v \in C : b = CompareAt(v.id, d)
    OBVIOUS
  <2>2. b \in A
    <3>1. CASE b = 0
      BY <3>1
    <3>2. ASSUME NEW s \in Of(v.id), s.id = b PROVE b \in A
      BY <1>6, <1>8, <3>2
    <3> QED BY <1>7, <2>1, <3>1, <3>2
  <2>3. \A e \in A : e <= b
    <3>1. 0 <= b
      BY <1>7, <2>1
    <3>2. ASSUME NEW s \in W PROVE s.id <= b
      <4>1. PICK c \in C : s \in Of(c.id)
        BY <1>8
      <4>2. s \in snapshots /\ s.id <= d
        BY <4>1
      <4>3. s \in Of(c.id) /\ CompareAt(c.id, d) \in B
        BY <4>1
      <4>4. s.id <= CompareAt(c.id, d) /\ CompareAt(c.id, d) <= b
        BY <1>7, <1>10, <4>3
      <4> QED BY <1>6, <1>7, <1>9, <4>2, <4>4
    <3> QED BY <3>1, <3>2
  <2> HIDE DEF A, B
  <2> QED BY <1>9, <1>10, <2>2, <2>3, MaxIs
<1>11. \E b \in B : \A e \in B : e <= b
  <2>1. B \subseteq 0..clock /\ B # {}
    <3>1. r \in C
      OBVIOUS
    <3>2. \A v \in C : CompareAt(v.id, d) \in 0..clock
      BY <1>6, <1>7 DEF Of
    <3> QED BY <3>1, <3>2
  <2>2. IsFiniteSet(0..clock)
    BY <1>6, FS_Interval
  <2>3. IsFiniteSet(B)
    BY <2>1, <2>2, FS_Subset
  <2> HIDE DEF B
  <2> QED BY <1>9, <2>1, <2>3, GreatestInt
<1> HIDE DEF A, B
<1>12. Max(A) = Max(B)
  BY <1>10, <1>11
<1> QED BY <1>5, <1>12 DEF A, B, W

\* Later versions of a company have later stamps.
LEMMA VersionsByTime ==
  ASSUME IInv, SInv, RInv
  PROVE  \A a, b \in companies : SameKey(a, b) /\ a.version < b.version => a.id < b.id
<1> DEFINE Bad(v) == \E p, q \in companies : SameKey(p, q) /\ p.version < q.version /\ q.version = v /\ ~(p.id < q.id)
           B == {v \in Nat : Bad(v)}
<1>1. \A r \in companies : r.version \in Nat /\ r.version >= 1 /\ r.id \in Nat /\ r.id # NULL
  BY NullTenantAssumption DEF IInv, RowShape, Shape, RInv, Changed
<1>2. HistoryIsAChain
  BY DEF SInv, TablesOK, HistoryIsSound
<1>3. ASSUME B # {} PROVE FALSE
  <2>1. PICK v \in B : \A w \in B : v <= w
    BY <1>3, Least
  <2>2. PICK p \in companies, q \in companies :
          SameKey(p, q) /\ p.version < q.version /\ q.version = v /\ ~(p.id < q.id)
    OBVIOUS
  <2>3. PICK s \in companies : SameKey(q, s) /\ s.version + 1 = v /\ s.valid_to = q.id
    BY <1>1, <1>2, <2>2 DEF HistoryIsAChain
  <2>4. s.id < q.id
    BY <1>1, <1>2, <2>2, <2>3 DEF HistoryIsAChain, IsCurrent
  <2>5. SameKey(p, s)
    BY <2>2, <2>3 DEF SameKey
  <2>6. CASE p.version = s.version
    BY <1>2, <2>2, <2>4, <2>5, <2>6 DEF HistoryIsAChain
  <2>7. CASE p.version < s.version
    <3>1. s.version \notin B /\ s.version \in Nat
      BY <1>1, <2>1, <2>3
    <3>2. p.id < s.id
      BY <2>5, <2>7, <3>1
    <3> QED BY <1>1, <2>2, <2>4, <3>2
  <2> QED BY <1>1, <2>2, <2>3, <2>6, <2>7
<1> QED BY <1>1, <1>3

LEMMA Replay ==
  ASSUME IInv, SInv, LogInv, RInv
  PROVE  ChangelogReplays
<1> SUFFICES ASSUME NEW r \in companies, IsCurrent(r), OneTenant(r.name), NEW k \in Field
             PROVE  LET log == {c \in ChangelogOf(r.id) : c.field = k}
                    IN  IF log = {}
                        THEN \E s \in companies : SameKey(r, s) /\ s.version = 1 /\ s.attrs[k] = r.attrs[k]
                        ELSE \E c \in log : /\ \A e \in log : e.upload <= c.upload
                                            /\ c.new = r.attrs[k]
  BY DEF ChangelogReplays
<1> DEFINE log == {c \in ChangelogOf(r.id) : c.field = k}
           AsNow(a) == a.attrs[k] = r.attrs[k]
           Since(v) == \A b \in companies : SameKey(b, r) /\ b.version >= v => AsNow(b)
           V == {v \in Nat : v >= 1 /\ Since(v) /\ \E a \in companies : SameKey(a, r) /\ a.version = v}
<1>1. /\ \A q \in companies : q.version \in Nat /\ q.version >= 1 /\ q.id \in Nat /\ q.id # NULL /\ Row(q.id) = q
      /\ HistoryIsAChain /\ CurrentIsLast
  BY NullTenantAssumption DEF IInv, RowShape, Shape, UniqueIds, Row, RInv, Changed, SInv, TablesOK, HistoryIsSound
<1>2. \A a, b \in companies : SameKey(a, r) /\ SameKey(b, r) /\ a.version = b.version => a = b
  BY <1>1 DEF HistoryIsAChain, SameKey
<1>3. \A a \in companies : SameKey(a, r) /\ a.version # 1 =>
        \E p \in companies : SameKey(p, r) /\ p.version + 1 = a.version /\ p.valid_to = a.id
  BY <1>1 DEF HistoryIsAChain, SameKey
<1>4. \A p, q \in companies : p.valid_to = q.id =>
        /\ \A e \in changes : e.company = q.id /\ e.field = k => p.attrs[k] # q.attrs[k] /\ e.new = q.attrs[k]
        /\ p.attrs[k] # q.attrs[k] => \E c \in changes : c.company = q.id /\ c.field = k /\ c.new = q.attrs[k]
  <2> SUFFICES ASSUME NEW p \in companies, NEW q \in companies, p.valid_to = q.id
               PROVE  /\ \A e \in changes : e.company = q.id /\ e.field = k =>
                                              p.attrs[k] # q.attrs[k] /\ e.new = q.attrs[k]
                      /\ p.attrs[k] # q.attrs[k] =>
                           \E c \in changes : c.company = q.id /\ c.field = k /\ c.new = q.attrs[k]
    OBVIOUS
  <2>1. Logged(changes, q) = Differs(p, q)
    BY DEF LogInv, ChangeLogExplains, Logged, Differs
  <2>2. ASSUME NEW e \in changes, e.company = q.id, e.field = k
        PROVE  p.attrs[k] # q.attrs[k] /\ e.new = q.attrs[k]
    <3>1. <<k, e.old, e.new>> \in Differs(p, q)
      BY <2>1, <2>2 DEF Logged
    <3> QED BY <3>1 DEF Differs
  <2>3. ASSUME p.attrs[k] # q.attrs[k]
        PROVE  \E c \in changes : c.company = q.id /\ c.field = k /\ c.new = q.attrs[k]
    <3>1. <<k, p.attrs[k], q.attrs[k]>> \in Logged(changes, q)
      BY <2>1, <2>3 DEF Differs
    <3> QED BY <3>1 DEF Logged
  <2> QED BY <2>2, <2>3
<1>5. \A c : c \in log <=> c \in changes /\ c.field = k /\ \E q \in companies : SameKey(q, r) /\ c.company = q.id
  <2>1. \A c \in changes : c \in ChangelogOf(r.id) <=> Row(c.company).name = r.name
    BY <1>1 DEF ChangelogOf
  <2>2. \A c \in changes : \E q \in companies : c.company = q.id /\ Row(c.company) = q
    BY <1>1 DEF LogInv
  <2>3. \A q \in companies : q.name = r.name <=> SameKey(q, r)
    BY DEF OneTenant, SameKey
  <2>4. \A c \in log : c \in changes /\ c.field = k
    BY DEF ChangelogOf
  <2> QED BY <1>1, <2>1, <2>2, <2>3, <2>4
<1>6. \A c \in changes : /\ c.upload = c.company
                         /\ \A q \in companies : q.id = c.company => q.version > 1
  BY DEF RInv, Changed
\* Since version v of the company the field has been what it is.
<1>7. PICK v \in V : \A w \in V : v <= w
  <2>1. Since(r.version)
    BY <1>1, <1>2 DEF CurrentIsLast, SameKey
  <2>2. r.version \in V
    BY <1>1, <2>1 DEF SameKey
  <2> HIDE DEF V
  <2>3. V \subseteq Nat
    BY DEF V
  <2> QED BY <2>2, <2>3, Least
<1>8. PICK a \in companies : SameKey(a, r) /\ a.version = v
  OBVIOUS
<1>9. v \in Nat /\ v >= 1 /\ Since(v)
  OBVIOUS
\* Nothing was logged after that version.
<1>10. \A e \in log : \E q \in companies : SameKey(q, r) /\ e.company = q.id /\ e.upload = q.id
                                           /\ q.version > 1 /\ q.version <= v
  <2> SUFFICES ASSUME NEW e \in log
               PROVE  \E q \in companies : SameKey(q, r) /\ e.company = q.id /\ e.upload = q.id
                                           /\ q.version > 1 /\ q.version <= v
    OBVIOUS
  <2>1. PICK q \in companies : SameKey(q, r) /\ e.company = q.id
    BY <1>5
  <2>2. e \in changes /\ e.field = k /\ e.upload = q.id /\ q.version > 1
    BY <1>5, <1>6, <2>1
  <2>3. PICK p \in companies : SameKey(p, r) /\ p.version + 1 = q.version /\ p.valid_to = q.id
    BY <1>1, <1>3, <2>1, <2>2
  <2>4. p.attrs[k] # q.attrs[k]
    BY <1>4, <2>1, <2>2, <2>3
  <2>5. ~(p.version >= v)
    BY <1>1, <1>9, <2>1, <2>3, <2>4
  <2> QED BY <1>1, <1>9, <2>1, <2>2, <2>3, <2>5
<1> HIDE DEF log
<1>11. CASE v = 1
  <2>1. log = {}
    BY <1>1, <1>10, <1>11
  <2>2. SameKey(r, a) /\ a.version = 1 /\ a.attrs[k] = r.attrs[k]
    BY <1>1, <1>8, <1>9, <1>11 DEF SameKey
  <2> QED BY <2>1, <2>2 DEF log
<1>12. CASE v # 1
  <2>1. PICK p \in companies : SameKey(p, r) /\ p.version + 1 = v /\ p.valid_to = a.id
    BY <1>3, <1>8, <1>12
  <2>2. p.version \notin V /\ p.version \in Nat /\ p.version >= 1
    BY <1>1, <1>7, <1>9, <2>1
  <2>3. PICK b \in companies : SameKey(b, r) /\ b.version >= p.version /\ ~AsNow(b)
    BY <2>1, <2>2
  <2>4. b = p
    <3>1. ~(b.version >= v)
      BY <1>9, <2>3
    <3>2. b.version = p.version
      BY <1>1, <1>9, <2>1, <2>2, <2>3, <3>1
    <3> QED BY <1>2, <2>1, <2>3, <3>2
  <2>5. p.attrs[k] # a.attrs[k] /\ a.attrs[k] = r.attrs[k]
    BY <1>1, <1>8, <1>9, <2>3, <2>4
  <2>6. PICK c \in changes : c.company = a.id /\ c.field = k /\ c.new = a.attrs[k]
    BY <1>4, <1>8, <2>1, <2>5
  <2>7. c \in log /\ c.upload = a.id
    BY <1>5, <1>6, <1>8, <2>6
  <2>8. ASSUME NEW e \in log PROVE e.upload <= c.upload
    <3>1. PICK q \in companies : SameKey(q, r) /\ e.upload = q.id /\ q.version <= v
      BY <1>10
    <3>2. SameKey(q, a)
      BY <1>8, <3>1 DEF SameKey
    <3>3. CASE q.version = v
      BY <1>1, <1>2, <1>8, <2>7, <3>1, <3>3
    <3>4. CASE q.version < v
      BY <1>1, <1>8, <2>7, <3>1, <3>2, <3>4, VersionsByTime
    <3> QED BY <1>1, <1>9, <3>1, <3>3, <3>4
  <2> QED BY <2>5, <2>6, <2>7, <2>8 DEF log
<1> QED BY <1>11, <1>12

-----------------------------------------------------------------------------
(* The migration matrix *)

Holders(rating, d) ==
  {s \in snapshots : /\ s.id <= d /\ RatingAt(s) = rating
                     /\ ~\E q \in snapshots : SameKey(q, s) /\ s.id < q.id /\ q.id <= d}
Entering(rating, from, to) == {m \in migrations : m.new = rating /\ from <= m.to /\ m.to <= to}
Leaving(rating, from, to) == {m \in migrations : m.old = rating /\ from <= m.to /\ m.to <= to}

\* A company's snapshots are all rated or none is.
RatedOrNot == \A r, s \in snapshots : SameKey(r, s) /\ RatingAt(r) = NULL => RatingAt(s) = NULL

\* The cells of a column and of a row add up to the migrations that enter a
\* rating and those that leave it.
LEMMA Margins ==
  ASSUME RInv, NEW rating, NEW from, NEW to
  PROVE  /\ MatrixColumn(rating, from, to) = Cardinality(Entering(rating, from, to))
         /\ MatrixRow(rating, from, to) = Cardinality(Leaving(rating, from, to))
<1>1. IsFiniteSet(migrations) /\ \A m \in migrations : m.new \in Rated /\ m.old \in Rated \cup {NULL}
  <2> SUFFICES ASSUME NEW m \in migrations PROVE m.new \in Rated /\ m.old \in Rated \cup {NULL}
    BY DEF RInv, Moved
  <2>1. \A s \in snapshots : RatingAt(s) \in Rated \cup {NULL}
    BY DEF RInv, Pointed, RatingAt, Rated
  <2>2. PICK s \in snapshots : LedTo(m, s)
    BY DEF RInv, Moved
  <2> QED BY <2>1, <2>2 DEF LedTo
<1>2. MatrixColumn(rating, from, to) = Cardinality(Entering(rating, from, to))
  <2> DEFINE M == Entering(rating, from, to)
             K == Rated \cup {NULL}
             key == [m \in M |-> m.old]
             size == [k \in K |-> Cell(k, rating, from, to)]
  <2>1. IsFiniteSet(M) /\ \A m \in M : key[m] \in K
    BY <1>1, FS_Subset DEF Entering
  <2>2. ASSUME NEW k \in K PROVE size[k] = Cardinality({m \in M : key[m] = k})
    <3>1. {m \in M : key[m] = k} = {m \in migrations : m.old = k /\ m.new = rating /\ from <= m.to /\ m.to <= to}
      BY DEF Entering
    <3> HIDE DEF M, K, key
    <3> QED BY <3>1 DEF Cell
  <2>3. UNION {{old} \X (1..Cell(old, rating, from, to)) : old \in K} = UNION {{k} \X (1..size[k]) : k \in K}
    OBVIOUS
  <2> HIDE DEF M, K, key, size
  <2>4. Cardinality(UNION {{k} \X (1..size[k]) : k \in K}) = Cardinality(M)
    BY <2>1, <2>2, SumOfClasses
  <2> QED BY <2>3, <2>4 DEF MatrixColumn, M, K
<1>3. MatrixRow(rating, from, to) = Cardinality(Leaving(rating, from, to))
  <2> DEFINE M == Leaving(rating, from, to)
             K == Rated
             key == [m \in M |-> m.new]
             size == [k \in K |-> Cell(rating, k, from, to)]
  <2>1. IsFiniteSet(M) /\ \A m \in M : key[m] \in K
    BY <1>1, FS_Subset DEF Leaving
  <2>2. ASSUME NEW k \in K PROVE size[k] = Cardinality({m \in M : key[m] = k})
    <3>1. {m \in M : key[m] = k} = {m \in migrations : m.old = rating /\ m.new = k /\ from <= m.to /\ m.to <= to}
      BY DEF Leaving
    <3> HIDE DEF M, K, key
    <3> QED BY <3>1 DEF Cell
  <2>3. UNION {{new} \X (1..Cell(rating, new, from, to)) : new \in K} = UNION {{k} \X (1..size[k]) : k \in K}
    OBVIOUS
  <2> HIDE DEF M, K, key, size
  <2>4. Cardinality(UNION {{k} \X (1..size[k]) : k \in K}) = Cardinality(M)
    BY <2>1, <2>2, SumOfClasses
  <2> QED BY <2>3, <2>4 DEF MatrixRow, M, K
<1> QED BY <1>2, <1>3

\* A snapshot that is not the first of its company has one right before it.
LEMMA OneBefore ==
  ASSUME IInv, SInv, NEW s \in snapshots, ~IsFirst(s)
  PROVE  \E p \in snapshots : Consecutive(p, s)
<1> DEFINE D == {q.id : q \in {r \in snapshots : SameKey(r, s) /\ r.id < s.id}}
<1>1. clock \in Nat /\ \A q \in snapshots : q.id \in 1..clock
  BY DEF IInv, Shape, SInv, TablesOK, Dated
<1>2. D \subseteq 1..clock /\ D # {}
  BY <1>1 DEF IsFirst
<1> HIDE DEF D
<1>3. PICK d \in D : \A e \in D : e <= d
  BY <1>1, <1>2, Greatest
<1>4. PICK p \in snapshots : SameKey(p, s) /\ p.id < s.id /\ p.id = d
  BY DEF D
<1>5. ASSUME NEW q \in snapshots, SameKey(q, p), p.id < q.id, q.id < s.id
      PROVE  FALSE
  <2>1. q.id \in D
    BY <1>4, <1>5 DEF D, SameKey
  <2> QED BY <1>1, <1>3, <1>4, <1>5, <2>1
<1> QED BY <1>4, <1>5 DEF Consecutive

\* The next stamp: at most one company gets a snapshot, which takes the place
\* of the one before it.
LEMMA OneStamp ==
  ASSUME IInv, SInv, RInv, RatedOrNot, NEW rating, rating # NULL, NEW d \in Nat
  PROVE  Cardinality(Holders(rating, d + 1)) + Cardinality(Leaving(rating, d + 1, d + 1))
           = Cardinality(Holders(rating, d)) + Cardinality(Entering(rating, d + 1, d + 1))
<1> DEFINE H == Holders(rating, d)
           G == Holders(rating, d + 1)
           E == Entering(rating, d + 1, d + 1)
           L == Leaving(rating, d + 1, d + 1)
<1>1. /\ \A q \in snapshots : q.id \in Nat
      /\ \A q, s \in snapshots : q.id = s.id => q = s
      /\ \A m \in migrations : m.to \in Nat /\ \E s \in snapshots : LedTo(m, s)
      /\ \A m, n \in migrations : m.to = n.to => m = n
      /\ IsFiniteSet(H) /\ Cardinality(H) \in Nat
  <2>1. IsFiniteSet(H)
    BY FS_Subset DEF Holders, SInv, TablesOK, Finite
  <2>2. Cardinality(H) \in Nat
    BY <2>1, FS_CardinalityType
  <2> QED BY <2>1, <2>2 DEF IInv, Shape, SInv, TablesOK, Dated, OneEach, RInv, Moved
<1>2. E = {m \in migrations : m.to = d + 1 /\ m.new = rating}
  BY <1>1 DEF Entering
<1>3. L = {m \in migrations : m.to = d + 1 /\ m.old = rating}
  BY <1>1 DEF Leaving
<1> HIDE DEF E, L
<1>4. Cardinality({}) = 0 /\ \A m : Cardinality({m}) = 1
  BY FS_EmptySet, FS_Singleton
<1>5. CASE \A s \in snapshots : s.id # d + 1
  <2>1. G = H
    BY <1>1, <1>5 DEF Holders
  <2>2. E = {} /\ L = {}
    BY <1>1, <1>2, <1>3, <1>5 DEF LedTo
  <2> QED BY <1>4, <2>1, <2>2 DEF E, L
<1>6. ASSUME NEW s \in snapshots, s.id = d + 1, IsFirst(s)
      PROVE  Cardinality(G) + Cardinality(L) = Cardinality(H) + Cardinality(E)
  <2>1. \A q \in snapshots : q.id <= d => ~SameKey(q, s) /\ ~SameKey(s, q)
    BY <1>1, <1>6 DEF IsFirst, SameKey
  <2>2. s \notin H /\ G = IF RatingAt(s) = rating THEN H \cup {s} ELSE H
    BY <1>1, <1>6, <2>1 DEF Holders, SameKey
  <2>3. Cardinality(G) = IF RatingAt(s) = rating THEN Cardinality(H) + 1 ELSE Cardinality(H)
    BY <1>1, <2>2, FS_AddElement
  <2>4. \A m \in migrations : m.to = d + 1 => m.old = NULL /\ m.new = RatingAt(s) /\ m.new # NULL
    BY <1>1, <1>6, <2>1 DEF LedTo, Consecutive
  <2>5. L = {}
    BY <1>3, <2>4
  <2>6. CASE RatingAt(s) = rating
    <3>1. PICK m \in migrations : m.to = d + 1
      BY <1>6, <2>6 DEF RInv, Moved
    <3>2. E = {m}
      BY <1>1, <1>2, <2>4, <2>6, <3>1
    <3>3. Cardinality(E) = 1 /\ Cardinality(L) = 0
      BY <1>4, <2>5, <3>2
    <3>4. Cardinality(H) \in Nat
      BY <1>1
    <3> HIDE DEF G, H
    <3> QED BY <2>3, <2>6, <3>3, <3>4
  <2>7. CASE RatingAt(s) # rating
    <3>1. E = {}
      BY <1>2, <2>4, <2>7
    <3> QED BY <1>1, <1>4, <2>3, <2>5, <2>7, <3>1
  <2> QED BY <2>6, <2>7
<1>7. ASSUME NEW s \in snapshots, s.id = d + 1, ~IsFirst(s)
      PROVE  Cardinality(G) + Cardinality(L) = Cardinality(H) + Cardinality(E)
  <2>1. PICK p \in snapshots : Consecutive(p, s)
    BY <1>7, OneBefore
  <2>2. /\ SameKey(p, s) /\ p.id <= d
        /\ \A q \in snapshots : SameKey(q, s) /\ q.id <= d => q.id <= p.id
    BY <1>1, <1>7, <2>1 DEF Consecutive, SameKey
  <2>3. p \in H <=> RatingAt(p) = rating
    BY <1>1, <2>2 DEF Holders, SameKey
  <2>4. s \notin H /\ s # p
    BY <1>1, <1>7, <2>2 DEF Holders
  <2>5. G = IF RatingAt(s) = rating THEN (H \ {p}) \cup {s} ELSE H \ {p}
    <3>1. ASSUME NEW q \in snapshots, q # s, q # p
          PROVE  q \in G <=> q \in H
      <4>1. CASE SameKey(q, s)
        BY <1>1, <1>7, <2>2, <3>1, <4>1 DEF Holders, SameKey
      <4>2. CASE ~SameKey(q, s)
        BY <1>1, <1>7, <3>1, <4>2 DEF Holders, SameKey
      <4> QED BY <4>1, <4>2
    <3>2. p \notin G
      BY <1>1, <1>7, <2>2 DEF Holders, SameKey
    <3>3. s \in G <=> RatingAt(s) = rating
      BY <1>1, <1>7 DEF Holders
    <3>4. G \subseteq snapshots /\ H \subseteq snapshots
      BY DEF Holders
    <3> HIDE DEF G, H
    <3> QED BY <2>4, <3>1, <3>2, <3>3, <3>4
  <2> HIDE DEF G, H
  <2>6. /\ IsFiniteSet(H \ {p})
        /\ Cardinality(H \ {p}) = IF RatingAt(p) = rating THEN Cardinality(H) - 1 ELSE Cardinality(H)
    BY <1>1, <2>3, FS_RemoveElement
  <2>7. Cardinality(G) = IF RatingAt(s) = rating THEN Cardinality(H \ {p}) + 1 ELSE Cardinality(H \ {p})
    BY <2>4, <2>5, <2>6, FS_AddElement
  <2>8. \A m \in migrations : m.to = d + 1 => m.new = RatingAt(s) /\ m.new # NULL
    BY <1>1, <1>7 DEF LedTo
  <2>9. CASE RatingAt(s) = NULL \/ RatingAt(p) = NULL
    <3>1. RatingAt(s) = NULL /\ RatingAt(p) = NULL
      BY <2>2, <2>9 DEF RatedOrNot, SameKey
    <3>2. E = {} /\ L = {}
      BY <1>2, <1>3, <2>8, <3>1
    <3> QED BY <1>1, <1>4, <2>6, <2>7, <3>1, <3>2
  <2>10. CASE RatingAt(s) # NULL /\ RatingAt(p) # NULL
    <3>1. {m \in migrations : m.to = d + 1}
            = IF RatingAt(p) = RatingAt(s) THEN {}
              ELSE {[to |-> d + 1, from |-> p.id, old |-> RatingAt(p), new |-> RatingAt(s)]}
      BY <1>7, <2>1, <2>10 DEF SInv, TablesOK, MigrationsComplete, RatingAt
    <3>2. CASE RatingAt(p) = RatingAt(s)
      <4>1. E = {} /\ L = {}
        BY <1>2, <1>3, <3>1, <3>2
      <4> QED BY <1>1, <1>4, <2>6, <2>7, <3>2, <4>1
    <3>3. CASE RatingAt(p) # RatingAt(s)
      <4>1. PICK m : /\ m.old = RatingAt(p) /\ m.new = RatingAt(s)
                     /\ {n \in migrations : n.to = d + 1} = {m}
        BY <3>1, <3>3
      <4>2. /\ E = IF RatingAt(s) = rating THEN {m} ELSE {}
            /\ L = IF RatingAt(p) = rating THEN {m} ELSE {}
        BY <1>2, <1>3, <4>1
      <4>3. /\ Cardinality(E) = IF RatingAt(s) = rating THEN 1 ELSE 0
            /\ Cardinality(L) = IF RatingAt(p) = rating THEN 1 ELSE 0
        BY <1>4, <4>2
      <4>4. Cardinality(H) \in Nat
        BY <1>1
      <4> QED BY <2>6, <2>7, <4>3, <4>4
    <3> QED BY <3>2, <3>3
  <2> QED BY <2>9, <2>10
<1> QED BY <1>5, <1>6, <1>7 DEF E, L

\* What has been entered less what has been left is the growth, up to any
\* later stamp.
LEMMA Flow ==
  ASSUME IInv, SInv, RInv, RatedOrNot, NEW rating, rating # NULL, NEW from \in Nat, from >= 1
  PROVE  \A n \in Nat :
           Cardinality(Holders(rating, from - 1 + n)) + Cardinality(Leaving(rating, from, from - 1 + n))
             = Cardinality(Holders(rating, from - 1)) + Cardinality(Entering(rating, from, from - 1 + n))
<1> DEFINE P(n) == Cardinality(Holders(rating, from - 1 + n)) + Cardinality(Leaving(rating, from, from - 1 + n))
                     = Cardinality(Holders(rating, from - 1)) + Cardinality(Entering(rating, from, from - 1 + n))
           N == {n \in Nat : P(n)}
<1>1. \A m \in migrations : m.to \in Nat
  BY DEF IInv, Shape, SInv, TablesOK, Dated
<1>2. \A a, b : /\ IsFiniteSet(Entering(rating, a, b)) /\ Cardinality(Entering(rating, a, b)) \in Nat
                /\ IsFiniteSet(Leaving(rating, a, b)) /\ Cardinality(Leaving(rating, a, b)) \in Nat
                /\ Cardinality(Holders(rating, a)) \in Nat
  <2> SUFFICES ASSUME NEW a, NEW b
               PROVE  /\ IsFiniteSet(Entering(rating, a, b)) /\ Cardinality(Entering(rating, a, b)) \in Nat
                      /\ IsFiniteSet(Leaving(rating, a, b)) /\ Cardinality(Leaving(rating, a, b)) \in Nat
                      /\ Cardinality(Holders(rating, a)) \in Nat
    OBVIOUS
  <2>1. IsFiniteSet(Entering(rating, a, b)) /\ IsFiniteSet(Leaving(rating, a, b)) /\ IsFiniteSet(Holders(rating, a))
    BY FS_Subset DEF Entering, Leaving, Holders, RInv, Moved, SInv, TablesOK, Finite
  <2> QED BY <2>1, FS_CardinalityType
<1>3. 0 \in N
  <2>1. from - 1 + 0 = from - 1
    OBVIOUS
  <2>2. Entering(rating, from, from - 1) = {} /\ Leaving(rating, from, from - 1) = {}
    BY <1>1 DEF Entering, Leaving
  <2> QED BY <2>1, <2>2
<1>4. ASSUME NEW n \in Nat, n \in N PROVE n + 1 \in N
  <2> DEFINE d == from - 1 + n
  <2>1. d \in Nat /\ from - 1 + (n + 1) = d + 1 /\ from <= d + 1
    OBVIOUS
  <2>2. P(n)
    BY <1>4
  <2> HIDE DEF d
  <2>3. /\ Entering(rating, from, d + 1) = Entering(rating, from, d) \cup Entering(rating, d + 1, d + 1)
        /\ Entering(rating, from, d) \cap Entering(rating, d + 1, d + 1) = {}
        /\ Leaving(rating, from, d + 1) = Leaving(rating, from, d) \cup Leaving(rating, d + 1, d + 1)
        /\ Leaving(rating, from, d) \cap Leaving(rating, d + 1, d + 1) = {}
    BY <1>1, <2>1 DEF Entering, Leaving
  <2>4. Cardinality(Entering(rating, from, d + 1))
          = Cardinality(Entering(rating, from, d)) + Cardinality(Entering(rating, d + 1, d + 1))
    BY <1>2, <2>3, Disjoint
  <2>5. Cardinality(Leaving(rating, from, d + 1))
          = Cardinality(Leaving(rating, from, d)) + Cardinality(Leaving(rating, d + 1, d + 1))
    BY <1>2, <2>3, Disjoint
  <2>6. Cardinality(Holders(rating, d + 1)) + Cardinality(Leaving(rating, d + 1, d + 1))
          = Cardinality(Holders(rating, d)) + Cardinality(Entering(rating, d + 1, d + 1))
    BY <2>1, OneStamp
  <2>7. Cardinality(Holders(rating, d)) + Cardinality(Leaving(rating, from, d))
          = Cardinality(Holders(rating, from - 1)) + Cardinality(Entering(rating, from, d))
    BY <2>2 DEF d
  <2>8. Cardinality(Holders(rating, d + 1)) + Cardinality(Leaving(rating, from, d + 1))
          = Cardinality(Holders(rating, from - 1)) + Cardinality(Entering(rating, from, d + 1))
    <3>1. /\ Cardinality(Holders(rating, d + 1)) \in Nat /\ Cardinality(Holders(rating, d)) \in Nat
          /\ Cardinality(Holders(rating, from - 1)) \in Nat
          /\ Cardinality(Leaving(rating, from, d)) \in Nat /\ Cardinality(Leaving(rating, d + 1, d + 1)) \in Nat
          /\ Cardinality(Entering(rating, from, d)) \in Nat /\ Cardinality(Entering(rating, d + 1, d + 1)) \in Nat
      BY <1>2
    <3> QED BY <2>4, <2>5, <2>6, <2>7, <3>1
  <2> QED BY <2>1, <2>8
<1> HIDE DEF N
<1>5. \A n \in Nat : n \in N
  BY <1>3, <1>4, Successors
<1> QED BY <1>5 DEF N

LEMMA Balance ==
  ASSUME IInv, SInv, RInv
  PROVE  MatrixBalances
<1> SUFFICES ASSUME RatedOrNot, NEW rating \in Rated, NEW from \in Stamp, NEW to \in Stamp, from <= to
             PROVE  MatrixColumn(rating, from, to) - MatrixRow(rating, from, to)
                      = HasRating(rating, to) - HasRating(rating, from - 1)
  BY DEF MatrixBalances, RatedOrNot, RatingAt
<1>1. from \in Nat /\ from >= 1 /\ to \in Nat /\ to - (from - 1) \in Nat /\ from - 1 + (to - (from - 1)) = to
  BY LoadsAssumption DEF Stamp
<1>2. Cardinality(Holders(rating, to)) + Cardinality(Leaving(rating, from, to))
        = Cardinality(Holders(rating, from - 1)) + Cardinality(Entering(rating, from, to))
  <2> DEFINE n == to - (from - 1)
  <2>1. n \in Nat /\ from - 1 + n = to
    BY <1>1
  <2> HIDE DEF n
  <2>2. rating # NULL
    BY DEF Rated
  <2>3. \A k \in Nat :
          Cardinality(Holders(rating, from - 1 + k)) + Cardinality(Leaving(rating, from, from - 1 + k))
            = Cardinality(Holders(rating, from - 1)) + Cardinality(Entering(rating, from, from - 1 + k))
    BY <1>1, <2>2, Flow
  <2>4. Cardinality(Holders(rating, from - 1 + n)) + Cardinality(Leaving(rating, from, from - 1 + n))
          = Cardinality(Holders(rating, from - 1)) + Cardinality(Entering(rating, from, from - 1 + n))
    BY <2>1, <2>3
  <2> QED BY <2>1, <2>4
<1>3. \A d : HasRating(rating, d) = Cardinality(Holders(rating, d))
  BY DEF HasRating, Holders, RatingAt
<1>4. /\ Cardinality(Entering(rating, from, to)) \in Nat /\ Cardinality(Leaving(rating, from, to)) \in Nat
      /\ \A d : Cardinality(Holders(rating, d)) \in Nat
  BY FS_Subset, FS_CardinalityType DEF Entering, Leaving, Holders, RInv, Moved, SInv, TablesOK, Finite
<1> QED BY <1>2, <1>3, <1>4, Margins

\* Where loads follow one another, what the read endpoints derive from
\* different tables agrees: the statistics with the snapshots and companies
\* they count, histories with comparisons, the change log with the current
\* rows, and the migration matrix of every window with how the portfolio grew.
THEOREM Endpoints == SerialSpec => []EndpointsAgree
<1>1. IInv /\ SInv /\ LogInv /\ RInv => EndpointsAgree
  BY Stats, Whole, Replay, Balance DEF EndpointsAgree
<1> QED BY <1>1, ReportsInductive, PTL
=============================================================================
