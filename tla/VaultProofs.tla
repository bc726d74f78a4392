------------------------------ MODULE VaultProofs ------------------------------
(***************************************************************************)
(* Proofs about Vault for every number of callers, contents, versions and  *)
(* indexes.  It is type correct.  Whatever callers do meanwhile, the TTL   *)
(* worker's archive path honours the grace period, its expiry path deletes *)
(* only what is past its own expiry, a run stays within one batch per      *)
(* index and phase, and a dry run writes nothing.  An undisturbed run      *)
(* drops no TTL row before the memory it names, repairs the canonical      *)
(* rows and is idempotent.  To its readers a group is a register           *)
(* (VersionRegister).                                                      *)
(***************************************************************************)
EXTENDS Vault, ClientProofs, FiniteSetTheorems

-------------------------------------------------------------------------------
\* Type correctness of the worker.

LEMMA RowKeysTyped ==
  ASSUME StoreTypeOK, NEW gs \in SUBSET Rows
  PROVE  SupersededKeys(gs) \subseteq Key
  BY DEF StoreTypeOK, SupersededKeys, Rows, Row

LEMMA FoundTyped ==
  ASSUME StoreTypeOK, NEW k \in Key, NEW x \in Find(k)
  PROVE  x \in Addr /\ vec[x] \in Vector
  BY DEF StoreTypeOK, Find, Exists

LEMMA NextIndexTyped ==
  ASSUME windex \in Index, NEW again, NEW done, NextIndex(again, done)
  PROVE  windex' \in Index /\ (wpc' = again \/ wpc' = done)
  BY StoreAssumption DEF NextIndex, Index, Enter

\* A step that only moves within the worker's own reading of the store.
LEMMA PromoteTyped ==
  ASSUME StoreTypeOK, WorkerTypeOK,
         StartRun \/ ScanArchived \/ PromotePut \/ \E k \in Key : PromoteFind(k)
  PROVE  StoreTypeOK' /\ WorkerTypeOK'
<1> USE DEF WorkerTypeOK, Phases
<1>1. CASE StartRun
  <2>1. SupersededKeys(Due) \subseteq Key  BY RowKeysTyped DEF Due
  <2>2. StoreTypeOK'  BY <1>1 DEF StartRun, StoreTypeOK
  <2>3. WorkerTypeOK'  BY <1>1, <2>1, WorkerAssumption DEF StartRun, Enter
  <2>4. QED  BY <2>2, <2>3
<1>2. CASE ScanArchived
  <2>1. SupersededKeys(Rows) \subseteq Key  BY RowKeysTyped
  <2>2. QED  BY <1>2, <2>1, StoreUntouched DEF ScanArchived, Enter
<1>3. CASE PromotePut
  <2>1. whold \in Addr \X Vector /\ clock \in Time
    BY <1>3 DEF PromotePut, StoreTypeOK
  <2>2. \A w \in Vector : \A t \in Time :
          [w EXCEPT !.status = "archived", !.archived_at = t] \in Vector
    BY DEF Vector, Status
  <2>3. whold[1] \in Addr /\ whold[2] \in Vector  BY <2>1
  <2>4. [whold[2] EXCEPT !.status = "archived", !.archived_at = clock] \in Vector
    BY <2>1, <2>2, <2>3
  <2>5. StoreTypeOK'  BY <1>3, <2>3, <2>4, PutVectorTyped DEF PromotePut
  <2>6. WorkerTypeOK'  BY <1>3 DEF PromotePut, Enter
  <2>7. QED  BY <2>5, <2>6
<1>4. ASSUME NEW k \in Key, PromoteFind(k)
      PROVE  StoreTypeOK' /\ WorkerTypeOK'
  <2>1. StoreTypeOK'  BY <1>4, StoreUntouched DEF PromoteFind
  <2>2. wpc' = "promote" => WorkerTypeOK'
    BY <1>4, FoundTyped DEF PromoteFind, Drop, Enter
  <2>3. wpc' = "promote_put" => WorkerTypeOK'
    <3>1. ASSUME wpc' = "promote_put"  PROVE whold' \in Addr \X Vector
      BY <1>4, <3>1, FoundTyped DEF PromoteFind, Drop, Enter
    <3>2. QED  BY <1>4, <3>1 DEF PromoteFind, Drop
  <2>4. wpc' \in {"promote", "promote_put"}  BY <1>4 DEF PromoteFind, Enter
  <2>5. QED  BY <2>1, <2>2, <2>3, <2>4
<1>5. QED  BY <1>1, <1>2, <1>3, <1>4

\* A step of a deletion takes some of the batch, and in a dry run deletes nothing.
LEMMA SomeGoes ==
  ASSUME NEW i, DeleteBatch(i)
  PROVE  \/ wdry /\ wbatch' = wbatch \ Batch(i) /\ UNCHANGED <<vec, lastLive, renewed>>
         \/ /\ ~wdry
            /\ \E ys \in SUBSET Batch(i) : DeleteVectors(ys) /\ wbatch' = wbatch \ ys
  BY DEF DeleteBatch, Chunks

LEMMA BatchTyped ==
  ASSUME StoreTypeOK, NEW i \in Index, DeleteBatch(i), UNCHANGED <<row, ttl, clock>>
  PROVE  StoreTypeOK'
<1>1. CASE wdry
  BY <1>1, SomeGoes, StoreUntouched DEF storeVars
<1>2. CASE ~wdry
  BY <1>2, SomeGoes, DeleteVectorsTyped
<1>3. QED  BY <1>1, <1>2

LEMMA DeletionTyped ==
  ASSUME StoreTypeOK, WorkerTypeOK,
         \/ \E k \in Key : ArchivedFind(k)
         \/ \E i \in Index : DeleteArchived(i) \/ Trip(i)
         \/ EnterExpired \/ QueryExpired \/ DeleteExpired \/ LeaveExpired
         \/ \E r \in wrows \cup wcheck : ExpiredFind(r) \/ CleanTTLRow(r)
  PROVE  StoreTypeOK' /\ WorkerTypeOK'
<1> USE DEF WorkerTypeOK, Phases
<1>1. ASSUME NEW k \in Key, ArchivedFind(k)
      PROVE  StoreTypeOK' /\ WorkerTypeOK'
  BY <1>1, StoreUntouched DEF ArchivedFind, Drop, Find
<1>2. ASSUME NEW i \in Index, DeleteArchived(i)
      PROVE  StoreTypeOK' /\ WorkerTypeOK'
  <2>1. StoreTypeOK'  BY <1>2, BatchTyped DEF DeleteArchived
  <2>2. wbatch' \subseteq wbatch  BY <1>2, SomeGoes DEF DeleteArchived
  <2>3. WorkerTypeOK'  BY <1>2, <2>2 DEF DeleteArchived
  <2>4. QED  BY <2>1, <2>3
<1>3. ASSUME NEW i \in Index, Trip(i)
      PROVE  StoreTypeOK' /\ WorkerTypeOK'
  BY <1>3, StoreUntouched, StoreAssumption DEF Trip, Enter, Index
<1>4. CASE EnterExpired
  BY <1>4, StoreUntouched, StoreAssumption DEF EnterExpired, Enter, Index
<1>5. CASE QueryExpired
  BY <1>5, StoreUntouched DEF QueryExpired, Enter, ExpiredRows
<1>6. CASE DeleteExpired
  <2>1. StoreTypeOK'  BY <1>6, BatchTyped DEF DeleteExpired
  <2>2. wbatch' \subseteq wbatch  BY <1>6, SomeGoes DEF DeleteExpired
  <2>3. WorkerTypeOK'  BY <1>6, <2>2 DEF DeleteExpired, Enter
  <2>4. QED  BY <2>1, <2>3
<1>7. CASE LeaveExpired
  <2>1. windex' \in Index /\ wpc' \in {"query_expired", "scan"}
    BY <1>7, NextIndexTyped DEF LeaveExpired
  <2>2. QED  BY <1>7, <2>1, StoreUntouched DEF LeaveExpired
<1>8. ASSUME NEW r \in wrows \cup wcheck, ExpiredFind(r) \/ CleanTTLRow(r)
      PROVE  StoreTypeOK' /\ WorkerTypeOK'
  <2>1. r.expires_at \in Time /\ r.key \in Key  BY DEF TTLRow
  <2>2. DeleteTTLRow(r) \/ UNCHANGED ttl
    BY <1>8 DEF ExpiredFind, CleanTTLRow
  <2>3. StoreTypeOK'
    BY <1>8, <2>1, <2>2, PutTTLRowTyped DEF ExpiredFind, CleanTTLRow, DeleteTTLRow
  <2>4. <<windex, r.key>> \in Addr  BY <2>1 DEF Addr
  <2>5. WorkerTypeOK'  BY <1>8, <2>4 DEF ExpiredFind, CleanTTLRow
  <2>6. QED  BY <2>3, <2>5
<1>9. QED  BY <1>1, <1>2, <1>3, <1>4, <1>5, <1>6, <1>7, <1>8

LEMMA ReconcileTyped ==
  ASSUME StoreTypeOK, WorkerTypeOK,
         \/ ScanVectors \/ ReconcilePut \/ LeaveReconcile \/ CutOff
         \/ \E x \in wfix : ReconcileGet(x)
  PROVE  StoreTypeOK' /\ WorkerTypeOK'
<1> USE DEF WorkerTypeOK, Phases
<1>1. CASE ScanVectors
  <2> DEFINE groups == {g \in Cid : Members(windex, g) # {}}
  <2>1. PICK first \in [groups -> Key] :
          /\ \A g \in groups : first[g] \in Top(windex, g)
          /\ wfix' = {ActualOf(windex, g, first[g]) : g \in groups}
    BY <1>1 DEF ScanVectors
  <2>2. ASSUME NEW g \in groups
        PROVE  ActualOf(windex, g, first[g]) \in Actual
    <3>1. first[g] \in Members(windex, g)
      BY <2>1 DEF Top, Highest
    <3>2. vec[<<windex, first[g]>>] \in Vector /\ first[g] \in Key
      BY <3>1 DEF Members, Exists, StoreTypeOK, Addr
    <3>3. QED  BY <3>2 DEF ActualOf, Actual, Vector
  <2>3. QED  BY <1>1, <2>1, <2>2, StoreUntouched DEF ScanVectors, Enter
<1>2. CASE ReconcilePut
  <2>1. whold \in Actual  BY <1>2 DEF ReconcilePut
  <2>2. whold.cid \in Cid /\ RepairedRow(whold) \in Row
    BY <2>1 DEF Actual, RepairedRow, Row
  <2>3. StoreTypeOK'  BY <1>2, <2>2, PutRowTyped DEF ReconcilePut
  <2>4. QED  BY <1>2, <2>3 DEF ReconcilePut, Enter
<1>3. CASE LeaveReconcile
  <2>1. windex' \in Index /\ wpc' \in {"scan", "idle"}
    BY <1>3, NextIndexTyped DEF LeaveReconcile
  <2>2. QED  BY <1>3, <2>1, StoreUntouched DEF LeaveReconcile
<1>4. CASE CutOff
  BY <1>4, StoreUntouched, StoreAssumption DEF CutOff, Enter, Index
<1>5. ASSUME NEW x \in wfix, ReconcileGet(x)
      PROVE  StoreTypeOK' /\ WorkerTypeOK'
  <2>1. x \in Actual  OBVIOUS
  <2>2. QED  BY <1>5, <2>1, StoreUntouched DEF ReconcileGet, Enter
<1>6. QED  BY <1>1, <1>2, <1>3, <1>4, <1>5

LEMMA WorkerStepTyped ==
  ASSUME StoreTypeOK, WorkerTypeOK, StartRun \/ ProceedWorker \/ CutOff
  PROVE  StoreTypeOK' /\ WorkerTypeOK'
  BY PromoteTyped, DeletionTyped, ReconcileTyped DEF ProceedWorker
-------------------------------------------------------------------------------
\* Every behaviour keeps every variable in its type: no interleaving of calls,
\* crashes and worker steps lets a caller write an incomplete key, vector or
\* row (what a caller must hold before each call is part of TypeOK).

LEMMA InitTyped == Init => TypeOK
<1> SUFFICES ASSUME Init PROVE TypeOK
  OBVIOUS
<1>1. StoreTypeOK
  BY StoreAssumption DEF Init, StoreInit, StoreTypeOK, Time
<1>2. ClientTypeOK
  BY BlankTyped DEF Init, ClientInit, ClientTypeOK, Labels
<1>3. WorkerTypeOK
  BY StoreAssumption DEF Init, WorkerInit, WorkerTypeOK, Phases, Index
<1>4. QED  BY <1>1, <1>2, <1>3 DEF TypeOK, Init

LEMMA StepTyped == TypeOK /\ [Next]_vars => TypeOK'
<1> SUFFICES ASSUME TypeOK, [Next]_vars PROVE TypeOK'
  OBVIOUS
<1> USE DEF TypeOK
<1>1. CASE Tick
  <2>1. StoreTypeOK'  BY <1>1, StoreAssumption DEF Tick, StoreTypeOK, Time
  <2>2. ClientTypeOK'  BY <1>1 DEF Tick, ClientTypeOK, clientVars
  <2>3. WorkerTypeOK'  BY <1>1 DEF Tick, WorkerTypeOK, workerVars
  <2>4. QED  BY <1>1, <2>1, <2>2, <2>3 DEF Tick
<1>2. ASSUME NEW p \in Proc, Client(p)  PROVE TypeOK'
  <2>1. StoreTypeOK' /\ ClientTypeOK'  BY <1>2, ClientStepTyped DEF Client
  <2>2. WorkerTypeOK'  BY <1>2 DEF Client, WorkerTypeOK, workerVars
  <2>3. QED  BY <1>2, <2>1, <2>2 DEF Client
<1>3. CASE Worker
  <2>1. StoreTypeOK' /\ WorkerTypeOK'
    BY <1>3, WorkerStepTyped DEF Worker, RunBegins, RunProceeds, RunIsCut
  <2>2. ClientTypeOK'
    BY <1>3 DEF Worker, RunBegins, RunProceeds, RunIsCut, ClientTypeOK, clientVars
  <2>3. /\ calm' \in BOOLEAN /\ settled' \in BOOLEAN
        /\ removed' \subseteq Phases \X Addr /\ written' \subseteq Addr
    <3>1. wpc \in Phases /\ Gone \subseteq Addr  BY DEF WorkerTypeOK, Gone
    <3>2. CASE RunBegins  BY <3>2 DEF RunBegins, StartRun
    <3>3. CASE RunProceeds  BY <3>1, <3>3 DEF RunProceeds
    <3>4. CASE RunIsCut  BY <3>4 DEF RunIsCut
    <3>5. QED  BY <1>3, <3>2, <3>3, <3>4 DEF Worker
  <2>4. QED  BY <2>1, <2>2, <2>3
<1>4. CASE UNCHANGED vars
  BY <1>4 DEF vars, storeVars, clientVars, workerVars, histVars, StoreTypeOK,
              ClientTypeOK, WorkerTypeOK
<1>5. QED  BY <1>1, <1>2, <1>3, <1>4 DEF Next

\* Every variable keeps its type, and what a caller or the worker holds is
\* complete for the call it makes next.
THEOREM TypeCorrect == Spec => []TypeOK
  BY InitTyped, StepTyped, PTL DEF Spec

-------------------------------------------------------------------------------
\* The grace period.  GraceInv is inductive together with TypeOK; the writes to
\* the vector index are the only steps that disturb its first two parts, and
\* three kinds of vectors are written: a new active one, one retired by the
\* status "superseded", and one archived now.

LEMMA PutKeepsGrace ==
  ASSUME TypeOK, GraceInv, NEW x \in Addr, NEW v \in Vector, PutVector(x, v),
         v.status = "archived" => v.archived_at = clock,
         UNCHANGED <<clock, windex, wbatch>>,
         wpc' = wpc \/ (wpc' \notin {"archived", "expired"} /\ wbatch = {})
  PROVE  GraceInv'
<1> USE DEF TypeOK, StoreTypeOK, WorkerTypeOK, GraceInv
<1>1. /\ vec' = [vec EXCEPT ![x] = v]
      /\ lastLive' = IF v.status = "active" \/ StatusIs(x, "active")
                       THEN [lastLive EXCEPT ![x] = clock] ELSE lastLive
      /\ renewed' = IF v.status = "active" THEN renewed \cup {x} ELSE renewed
  BY DEF PutVector
<1>2. v # None  BY StoreAssumption
<1>3. clock \in Int /\ \A y \in Addr : lastLive[y] \in Int
  BY StoreAssumption DEF Time
<1>4. \A y \in Addr : lastLive'[y] <= clock'
  BY <1>1, <1>3
<1>5. \A y \in Addr : StatusIs(y, "archived")' => lastLive'[y] <= vec'[y].archived_at
  <2> TAKE y \in Addr
  <2>1. CASE y = x
    BY <1>1, <1>2, <1>4, <2>1 DEF StatusIs, Exists
  <2>2. CASE y # x
    BY <1>1, <2>2 DEF StatusIs, Exists
  <2>3. QED  BY <2>1, <2>2
<1>6. (wpc' = "archived") =>
        \A y \in wbatch : \/ y \in renewed'
                          \/ /\ lastLive'[y] + ArchivedGrace <= clock'
                             /\ ~StatusIs(y, "active")'
  <2> SUFFICES ASSUME wpc' = "archived", NEW y \in wbatch
               PROVE  \/ y \in renewed'
                      \/ /\ lastLive'[y] + ArchivedGrace <= clock'
                         /\ ~StatusIs(y, "active")'
    OBVIOUS
  <2>1. y \in Addr  OBVIOUS
  <2>2. CASE y = x
    BY <1>1, <2>1, <2>2 DEF StatusIs, Exists
  <2>3. CASE y # x
    BY <1>1, <2>1, <2>3 DEF StatusIs, Exists
  <2>4. QED  BY <2>2, <2>3
<1>7. QED  BY <1>4, <1>5, <1>6

LEMMA DeleteKeepsGrace ==
  ASSUME TypeOK, GraceInv, NEW xs, DeleteVectors(xs), clock' = clock,
         wbatch' \subseteq wbatch, windex' = windex,
         wpc' = wpc \/ (wpc' \notin {"archived", "expired"} /\ wbatch' = {})
  PROVE  GraceInv'
<1> USE DEF TypeOK, StoreTypeOK, WorkerTypeOK, GraceInv
<1>1. \A y \in Addr : \A s : StatusIs(y, s)' => StatusIs(y, s) /\ vec'[y] = vec[y]
  BY DEF DeleteVectors, StatusIs, Exists
<1>2. lastLive' = lastLive /\ renewed' = renewed  BY DEF DeleteVectors
<1>3. \A y \in Addr : StatusIs(y, "archived")' => lastLive'[y] <= vec'[y].archived_at
  BY <1>1, <1>2
<1>4. \A y \in wbatch : ~StatusIs(y, "active") => ~StatusIs(y, "active")'
  BY <1>1
<1>5. QED  BY <1>2, <1>3, <1>4

\* A step that writes no vector and leaves the batch alone or empties it.
LEMMA OtherKeepsGrace ==
  ASSUME GraceInv, UNCHANGED <<vec, lastLive, clock>>,
         \/ UNCHANGED <<wpc, windex, wbatch, renewed>>
         \/ wpc' \notin {"archived", "expired"} /\ wbatch' = {}
  PROVE  GraceInv'
  BY DEF GraceInv, StatusIs, Exists

LEMMA ClientKeepsGrace ==
  ASSUME TypeOK, GraceInv, NEW p \in Proc, Client(p)
  PROVE  GraceInv'
<1>l. loc[p] \in Local /\ Complete(pc[p], loc[p])  BY LocTyped DEF TypeOK
<1>w. UNCHANGED <<wpc, windex, wbatch>>  BY DEF Client, workerVars
<1>1. CASE UNCHANGED <<vec, lastLive, clock, renewed>>
  BY <1>w, <1>1, OtherKeepsGrace
<1>2. CASE WriteVector(p)
  <2>1. NewVector(loc[p].cid, loc[p].expires_at) \in Vector /\ Here(p) \in Addr
    BY <1>2, <1>l, NewVectorTyped
    DEF WriteVector, Complete, Local, Here, Addr, TypeOK
  <2>2. NewVector(loc[p].cid, loc[p].expires_at).status = "active"
    BY DEF NewVector
  <2>3. QED
    BY <1>2, <1>w, <2>1, <2>2, PutKeepsGrace DEF WriteVector
<1>3. CASE RewriteOld(p)
  <2>1. loc[p].old \in Vector /\ loc[p].old # None
    BY <1>3, <1>l, StoreAssumption DEF RewriteOld, Complete
  <2>2. Old(p) \in Addr
    BY <1>3, <1>l, <2>1 DEF RewriteOld, Complete, Old, Addr, Local
  <2>3. \A w \in Vector : /\ [w EXCEPT !.status = "superseded"] \in Vector
                          /\ [w EXCEPT !.status = "superseded"].status = "superseded"
    BY DEF Vector, Status
  <2>4. QED  BY <1>3, <1>w, <2>1, <2>2, <2>3, PutKeepsGrace DEF RewriteOld
<1>4. CASE ArchivePut(p)
  <2>1. loc[p].old \in Vector /\ Here(p) \in Addr
    BY <1>4, <1>l DEF ArchivePut, Complete, Here, Addr, Local
  <2>2. \A w \in Vector : \A t \in Time :
          LET v == [w EXCEPT !.status = "archived", !.archived_at = t]
          IN v \in Vector /\ v.archived_at = t
    BY DEF Vector, Status
  <2>3. clock \in Time  BY DEF TypeOK, StoreTypeOK
  <2>4. QED  BY <1>4, <1>w, <2>1, <2>2, <2>3, PutKeepsGrace DEF ArchivePut
<1>5. CASE PurgeVectors(p)
  BY <1>5, <1>w, DeleteKeepsGrace DEF PurgeVectors
<1>6. QED
  <2>1. CASE Request(p)
    BY <1>1, <2>1 DEF Request, RequestStore, RequestSupersede, RequestRestore,
       RequestArchive, RequestUse, RequestPurge, storeVars
  <2>2. CASE Crash(p)
    BY <1>1, <2>2 DEF Crash, storeVars
  <2>3. CASE Store(p)
    BY <1>1, <1>2, <1>3, <2>3 DEF Store, StoreUnchanged, StoreSupersedes,
       StoreNearDuplicate, StoreFresh, GetOld, WriteTTLRow, UpsertRow, storeVars
  <2>4. CASE Archive(p) \/ Purge(p) \/ RestoreReadsRow(p) \/ RecordUse(p)
    BY <1>1, <1>4, <1>5, <2>4 DEF Archive, ArchiveReadsRow, ArchiveUpsert, Purge,
       PurgeRow, RestoreReadsRow, RecordUse, storeVars
  <2>5. QED
    BY <2>1, <2>2, <2>3, <2>4 DEF Client, ClientStep, ProceedClient

\* The worker's own steps.  It collects only what is past the grace period, it
\* stamps what it archives, and a batch never outlives its phase.
LEMMA WorkerPutKeepsGrace ==
  ASSUME TypeOK, GraceInv, PromotePut
  PROVE  GraceInv'
<1>1. whold[1] \in Addr /\ whold[2] \in Vector
  BY DEF TypeOK, WorkerTypeOK, PromotePut
<1>2. \A w \in Vector : \A t \in Time :
        LET v == [w EXCEPT !.status = "archived", !.archived_at = t]
        IN v \in Vector /\ v.archived_at = t
  BY DEF Vector, Status
<1>3. clock \in Time  BY DEF TypeOK, StoreTypeOK
<1>4. wpc' = "promote" /\ wbatch = {}  BY DEF PromotePut, Enter, GraceInv
<1>5. QED  BY <1>1, <1>2, <1>3, <1>4, PutKeepsGrace DEF PromotePut

LEMMA CollectKeepsGrace ==
  ASSUME TypeOK, GraceInv, NEW k \in Key, ArchivedFind(k)
  PROVE  GraceInv'
<1> USE DEF TypeOK, StoreTypeOK, WorkerTypeOK, GraceInv
<1>1. ASSUME NEW x \in Find(k), PastGrace(x)
      PROVE  lastLive[x] + ArchivedGrace <= clock /\ ~StatusIs(x, "active")
  <2>1. x \in Addr /\ StatusIs(x, "archived")  BY <1>1 DEF Find, PastGrace
  <2>2. lastLive[x] <= vec[x].archived_at  BY <2>1
  <2>3. vec[x].archived_at \in Int /\ lastLive[x] \in Int /\ clock \in Int
    BY <2>1, StoreAssumption DEF StatusIs, Exists, Vector, Time
  <2>4. clock - vec[x].archived_at >= ArchivedGrace  BY <1>1 DEF PastGrace
  <2>5. QED  BY <2>1, <2>2, <2>3, <2>4, StoreAssumption DEF StatusIs
<1>2. UNCHANGED <<vec, lastLive, renewed, clock, wpc, windex>> /\ wpc = "archived"
  BY DEF ArchivedFind, storeVars
<1>3. wbatch' = wbatch \cup {x \in Find(k) : PastGrace(x)}  BY DEF ArchivedFind
<1>4. \A x \in wbatch' : \/ x \in renewed
                         \/ /\ lastLive[x] + ArchivedGrace <= clock
                            /\ ~StatusIs(x, "active")
  BY <1>1, <1>2, <1>3
<1>5. QED  BY <1>2, <1>4 DEF StatusIs, Exists

\* Deleting a batch, or in a dry run only dropping it.
LEMMA DeleteBatchKeepsGrace ==
  ASSUME TypeOK, GraceInv, NEW i \in Index, DeleteBatch(i),
         UNCHANGED <<clock, windex>>,
         \/ wpc' = wpc
         \/ wpc' \notin {"archived", "expired"} /\ wbatch' = {}
  PROVE  GraceInv'
<1>1. wbatch' \subseteq wbatch  BY SomeGoes
<1>2. CASE wdry
  BY <1>1, <1>2, SomeGoes DEF GraceInv, StatusIs, Exists
<1>3. CASE ~wdry
  BY <1>1, <1>3, SomeGoes, DeleteKeepsGrace
<1>4. QED  BY <1>2, <1>3

LEMMA WorkerKeepsGrace ==
  ASSUME TypeOK, GraceInv, StartRun \/ ProceedWorker \/ CutOff
  PROVE  GraceInv'
<1> USE DEF Enter, storeVars
<1>e. wpc \notin {"archived", "expired"} => wbatch = {}  BY DEF GraceInv
<1>i. windex \in Index  BY DEF TypeOK, WorkerTypeOK
<1>1. CASE StartRun
  BY <1>1, <1>e, OtherKeepsGrace DEF StartRun
<1>2. ASSUME NEW k \in Key, PromoteFind(k)  PROVE GraceInv'
  BY <1>2, <1>e, OtherKeepsGrace DEF PromoteFind
<1>3. CASE PromotePut
  BY <1>3, WorkerPutKeepsGrace
<1>4. CASE ScanArchived
  BY <1>4, <1>e DEF ScanArchived, GraceInv, StatusIs, Exists
<1>5. ASSUME NEW k \in Key, ArchivedFind(k)  PROVE GraceInv'
  BY <1>5, CollectKeepsGrace
<1>6. ASSUME NEW i \in Index, DeleteArchived(i)  PROVE GraceInv'
  BY <1>6, DeleteBatchKeepsGrace DEF DeleteArchived
<1>7. ASSUME NEW i \in Index, Trip(i)  PROVE GraceInv'
  BY <1>7, OtherKeepsGrace DEF Trip
<1>8. CASE EnterExpired
  BY <1>8, OtherKeepsGrace DEF EnterExpired
<1>9. CASE QueryExpired
  BY <1>9, <1>e DEF QueryExpired, GraceInv, StatusIs, Exists
<1>10. ASSUME NEW r, ExpiredFind(r)  PROVE GraceInv'
  BY <1>10 DEF ExpiredFind, GraceInv, StatusIs, Exists
<1>11. ASSUME NEW r, CleanTTLRow(r)  PROVE GraceInv'
  BY <1>11, OtherKeepsGrace DEF CleanTTLRow
<1>12. CASE DeleteExpired
  BY <1>12, <1>i, DeleteBatchKeepsGrace DEF DeleteExpired
<1>13. CASE LeaveExpired
  BY <1>13, <1>e, OtherKeepsGrace DEF LeaveExpired, NextIndex
<1>14. CASE ScanVectors
  BY <1>14, <1>e, OtherKeepsGrace DEF ScanVectors
<1>15. ASSUME NEW x \in wfix, ReconcileGet(x)  PROVE GraceInv'
  BY <1>15, <1>e, OtherKeepsGrace DEF ReconcileGet
<1>16. CASE ReconcilePut
  BY <1>16, <1>e, OtherKeepsGrace DEF ReconcilePut
<1>17. CASE LeaveReconcile
  BY <1>17, <1>e, OtherKeepsGrace DEF LeaveReconcile, NextIndex
<1>18. CASE CutOff
  BY <1>18, OtherKeepsGrace DEF CutOff
<1>19. QED
  BY <1>1, <1>2, <1>3, <1>4, <1>5, <1>6, <1>7, <1>8, <1>9, <1>10, <1>11, <1>12,
     <1>13, <1>14, <1>15, <1>16, <1>17, <1>18 DEF ProceedWorker

-------------------------------------------------------------------------------
LEMMA InitGrace == Init => GraceInv
  BY StoreAssumption
  DEF Init, StoreInit, WorkerInit, GraceInv, StatusIs, Exists

LEMMA StepKeepsGrace == TypeOK /\ GraceInv /\ [Next]_vars => GraceInv'
<1> SUFFICES ASSUME TypeOK, GraceInv, [Next]_vars PROVE GraceInv'
  OBVIOUS
<1>1. CASE Tick
  <2>1. \A x \in Addr : lastLive[x] \in Int
    BY StoreAssumption DEF TypeOK, StoreTypeOK, Time
  <2>2. clock \in Int  BY StoreAssumption DEF TypeOK, StoreTypeOK, Time
  <2>3. QED
    BY <1>1, <2>1, <2>2 DEF Tick, GraceInv, workerVars, StatusIs, Exists
<1>2. ASSUME NEW p \in Proc, Client(p)  PROVE GraceInv'
  BY <1>2, ClientKeepsGrace
<1>3. CASE Worker
  BY <1>3, WorkerKeepsGrace DEF Worker, RunBegins, RunProceeds, RunIsCut
<1>4. CASE UNCHANGED vars
  BY <1>4 DEF vars, storeVars, workerVars, GraceInv, StatusIs, Exists
<1>5. QED  BY <1>1, <1>2, <1>3, <1>4 DEF Next

\* In every reachable state: an archived vector's deletion clock started no
\* earlier than it was last active, and what delete_archived has collected is
\* past the grace period or was written as active during this run.
THEOREM GraceInvariant == Spec => []GraceInv
  BY TypeCorrect, InitGrace, StepKeepsGrace, PTL DEF Spec

\* One step deletes only what the batch holds.
LEMMA GraceStep ==
  ASSUME TypeOK, GraceInv, Next, WorkerDeletes, wpc = "archived",
         NEW x \in Gone
  PROVE  x \in renewed \/ lastLive[x] + ArchivedGrace <= clock
<1> USE DEF WorkerDeletes
<1>1. CASE Tick
  BY <1>1 DEF Tick
<1>2. ASSUME NEW p \in Proc, Client(p)  PROVE FALSE
  BY <1>2 DEF Client, workerVars
<1>3. CASE Worker
  <2>1. PICK i \in Index : DeleteArchived(i)
    BY <1>3 DEF Worker, RunBegins, RunProceeds, RunIsCut, StartRun, CutOff,
       ProceedWorker, PromoteFind, PromotePut, ScanArchived, ArchivedFind, Trip,
       EnterExpired, QueryExpired, ExpiredFind, CleanTTLRow, DeleteExpired,
       LeaveExpired, ScanVectors, ReconcileGet, ReconcilePut, LeaveReconcile, storeVars
  <2>2. x \in wbatch
    BY <2>1, SomeGoes DEF DeleteArchived, DeleteVectors, Gone, Batch, Exists
  <2>3. QED  BY <2>2 DEF GraceInv
<1>4. QED  BY <1>1, <1>2, <1>3 DEF Next

\* Whatever callers and runs interleave, crash or write back from stale reads,
\* delete_archived removes no vector within the grace period of its last use.
THEOREM GraceHonoured == Spec => ArchiveGraceHonoured
<1>1. TypeOK /\ GraceInv /\ [Next]_vars =>
        [WorkerDeletes /\ wpc = "archived" =>
           \A x \in Gone : \/ x \in renewed
                           \/ lastLive[x] + ArchivedGrace <= clock]_vars
  BY GraceStep
<1>2. QED
  BY <1>1, TypeCorrect, GraceInvariant, PTL DEF Spec, ArchiveGraceHonoured

-------------------------------------------------------------------------------
\* A dry run.  Between a read and the write based on it a phase is not dry.

WritesOnlyWet == wpc \in {"promote_put", "reconcile_put"} => ~wdry

LEMMA StepKeepsWet == WritesOnlyWet /\ [Next]_vars => WritesOnlyWet'
<1> SUFFICES ASSUME WritesOnlyWet, [Next]_vars PROVE WritesOnlyWet'
  OBVIOUS
<1> USE DEF WritesOnlyWet, Enter
<1>1. CASE Tick \/ UNCHANGED vars \/ \E p \in Proc : Client(p)
  BY <1>1 DEF Tick, Client, vars, workerVars
<1>2. CASE RunBegins \/ RunIsCut
  BY <1>2 DEF RunBegins, RunIsCut, StartRun, CutOff
<1>3. CASE RunProceeds
  BY <1>3 DEF RunProceeds, ProceedWorker, PromoteFind, PromotePut, ScanArchived,
     ArchivedFind, DeleteArchived, Trip, EnterExpired, QueryExpired, ExpiredFind,
     CleanTTLRow, DeleteExpired, LeaveExpired, NextIndex, ScanVectors, ReconcileGet,
     ReconcilePut, LeaveReconcile
<1>4. QED  BY <1>1, <1>2, <1>3 DEF Next, Worker

LEMMA DryStep ==
  ASSUME WritesOnlyWet, [Next]_vars
  PROVE  [Worker /\ wdry' => UNCHANGED <<vec, row, ttl>>]_vars
<1> SUFFICES ASSUME Worker, wdry' PROVE UNCHANGED <<vec, row, ttl>>
  OBVIOUS
<1> USE DEF storeVars
<1>1. CASE RunBegins \/ RunIsCut
  BY <1>1 DEF RunBegins, RunIsCut, StartRun, CutOff
<1>2. CASE RunProceeds
  BY <1>2 DEF WritesOnlyWet, RunProceeds, ProceedWorker, PromoteFind, PromotePut,
     ScanArchived, ArchivedFind, DeleteArchived, DeleteBatch, Trip, EnterExpired,
     QueryExpired, ExpiredFind, CleanTTLRow, DeleteTTLRow, DeleteExpired,
     LeaveExpired, ScanVectors, ReconcileGet, ReconcilePut, LeaveReconcile
<1>3. QED  BY <1>1, <1>2 DEF Worker

\* DRY_RUN: in no phase, and however callers move in between, does a run that
\* only logs change a vector, a canonical row or a TTL row.
THEOREM DryRunIsDry == Spec => DryRunTouchesNothing
<1>1. Init => WritesOnlyWet
  BY DEF Init, WorkerInit, WritesOnlyWet
<1>2. WritesOnlyWet /\ [Next]_vars => [Worker /\ wdry' => UNCHANGED <<vec, row, ttl>>]_vars
  BY DryStep
<1>3. QED
  BY <1>1, <1>2, StepKeepsWet, PTL DEF Spec, DryRunTouchesNothing

-------------------------------------------------------------------------------
\* One batch per index and phase.

Deleted(phase, i) == {x \in Addr : x[1] = i /\ <<phase, x>> \in removed}

\* Nothing is deleted yet, or what is deleted and what is left of the batch that
\* passed the breaker are within the cap.
Within(phase, i) ==
  Deleted(phase, i) = {} \/ Cardinality(Deleted(phase, i) \cup Batch(i)) <= MaxDelete

\* Batches are still to be collected only where nothing is deleted yet.
BatchInv ==
  /\ IsFiniteSet(wbatch)
  /\ \A phase \in {"archived", "expired"}, i \in Index :
       /\ IsFiniteSet(Deleted(phase, i))
       /\ Cardinality(Deleted(phase, i)) <= MaxDelete
  /\ wpc \in {"promote", "promote_put"} => removed = {}
  /\ wpc = "archived" => \A i \in Index :
       /\ Deleted("expired", i) = {}
       /\ wkeys # {} => Deleted("archived", i) = {}
       /\ Within("archived", i)
  /\ wpc = "query_expired" =>
       \A i \in Index : i >= windex => Deleted("expired", i) = {}
  /\ wpc = "expired" => /\ wcheck # {} => Deleted("expired", windex) = {}
                        /\ Within("expired", windex)
  /\ wpc \in {"expired", "ttl_rows"} =>
       \A i \in Index : i > windex => Deleted("expired", i) = {}

\* _find_vector returns one vector at most.
LEMMA FindsOne ==
  ASSUME NEW k, NEW x \in Find(k), NEW y \in Find(k)
  PROVE  x = y
<1>1. x \in Addr /\ y \in Addr /\ x[2] = k /\ y[2] = k /\ Exists(x) /\ Exists(y)
  BY DEF Find
<1>2. x = <<x[1], k>> /\ y = <<y[1], k>> /\ x[1] \in Index /\ y[1] \in Index
  BY <1>1 DEF Addr
<1>3. x[1] <= y[1] /\ y[1] <= x[1]  BY <1>1, <1>2 DEF Find
<1>4. x[1] \in Int /\ y[1] \in Int  BY <1>2 DEF Index
<1>5. QED  BY <1>2, <1>3, <1>4

LEMMA FoundIsFinite ==
  ASSUME NEW k, NEW S \in SUBSET Find(k)
  PROVE  IsFiniteSet(S)
<1>1. CASE S = {}
  BY <1>1, FS_EmptySet
<1>2. CASE S # {}
  <2>1. PICK x \in S : TRUE  BY <1>2
  <2>2. S = {x}  BY <2>1, FindsOne
  <2>3. QED  BY <2>2, FS_Singleton
<1>3. QED  BY <1>1, <1>2

\* What the step deletes joins what the phase has deleted in the index.
LEMMA DeletedGrows ==
  ASSUME removed' = removed \cup ({wpc} \X Gone), NEW i \in Index, NEW phase
  PROVE  Deleted(phase, i)' =
           Deleted(phase, i) \cup {x \in Gone : x[1] = i /\ phase = wpc}
  BY DEF Deleted, Gone

LEMMA BatchStep ==
  ASSUME TypeOK, BatchInv, NEW i \in Index, DeleteBatch(i), wpc \in {"archived", "expired"},
         Within(wpc, i), removed' = removed \cup ({wpc} \X Gone)
  PROVE  /\ IsFiniteSet(wbatch') /\ wbatch' \subseteq wbatch
         /\ \A phase \in {"archived", "expired"}, j \in Index :
              /\ phase # wpc \/ j # i => Deleted(phase, j)' = Deleted(phase, j)
              /\ j # i => Batch(j)' = Batch(j)
              /\ phase = wpc /\ j = i => Within(phase, j)'
              /\ IsFiniteSet(Deleted(phase, j)')
              /\ Cardinality(Deleted(phase, j)') <= MaxDelete
<1>1. /\ wbatch' \subseteq wbatch /\ Batch(i)' \subseteq Batch(i)
      /\ \A j \in Index : j # i => Batch(j)' = Batch(j)
  BY SomeGoes DEF Batch
<1>2. IsFiniteSet(wbatch')
  BY <1>1, FS_Subset DEF BatchInv
<1>3. Gone \subseteq Batch(i)
  BY SomeGoes DEF DeleteVectors, Gone, Exists
<1>4. IsFiniteSet(Batch(i)) /\ Cardinality(Batch(i)) \in Nat
  BY FS_Subset, FS_CardinalityType DEF Batch, BatchInv
<1>5. Cardinality(Batch(i)) <= MaxDelete
  BY <1>4, WorkerAssumption DEF DeleteBatch, OverCap
<1> DEFINE all == Deleted(wpc, i) \cup Batch(i)
<1>6. IsFiniteSet(all) /\ Cardinality(all) <= MaxDelete
  <2>1. IsFiniteSet(Deleted(wpc, i))  BY DEF BatchInv
  <2>2. IsFiniteSet(all)  BY <1>4, <2>1, FS_Union
  <2>3. CASE Deleted(wpc, i) = {}
    <3>1. all = Batch(i)  BY <2>3
    <3>2. QED  BY <1>5, <2>2, <3>1
  <2>4. CASE Deleted(wpc, i) # {}
    BY <2>2, <2>4 DEF Within
  <2>5. QED  BY <2>3, <2>4
<1>7. Cardinality(all) \in Nat  BY <1>6, FS_CardinalityType
<1>8. \A x \in Gone : x[1] = i  BY <1>3 DEF Batch
<1>9. ASSUME NEW phase \in {"archived", "expired"}, NEW j \in Index,
             phase # wpc \/ j # i
      PROVE  Deleted(phase, j)' = Deleted(phase, j)
  <2>1. Deleted(phase, j)' =
          Deleted(phase, j) \cup {x \in Gone : x[1] = j /\ phase = wpc}
    BY DeletedGrows
  <2>2. {x \in Gone : x[1] = j /\ phase = wpc} = {}  BY <1>8, <1>9
  <2>3. QED  BY <2>1, <2>2
<1>10. ASSUME NEW phase \in {"archived", "expired"}, phase = wpc
       PROVE  /\ Within(phase, i)' /\ IsFiniteSet(Deleted(phase, i)')
              /\ Cardinality(Deleted(phase, i)') <= MaxDelete
  <2>1. Deleted(phase, i)' = Deleted(phase, i) \cup Gone
    BY <1>8, <1>10, DeletedGrows
  <2>2. Deleted(phase, i)' \subseteq all /\ Deleted(phase, i)' \cup Batch(i)' \subseteq all
    BY <1>1, <1>3, <1>10, <2>1
  <2> HIDE DEF all
  <2>3. \A ys \in SUBSET all : IsFiniteSet(ys) /\ Cardinality(ys) <= MaxDelete
    <3> SUFFICES ASSUME NEW ys \in SUBSET all
                 PROVE  IsFiniteSet(ys) /\ Cardinality(ys) <= MaxDelete
      OBVIOUS
    <3>1. IsFiniteSet(ys) /\ Cardinality(ys) <= Cardinality(all)  BY <1>6, FS_Subset
    <3>2. Cardinality(ys) \in Nat  BY <3>1, FS_CardinalityType
    <3>3. QED  BY <1>6, <1>7, <3>1, <3>2, WorkerAssumption
  <2>4. QED  BY <2>2, <2>3 DEF Within
<1>11. QED
  BY <1>1, <1>2, <1>9, <1>10 DEF BatchInv

\* A step that deletes nothing and leaves the batch empty or as it is.
LEMMA NoBatchKeepsBatches ==
  ASSUME BatchInv, Gone = {}, removed' = removed \cup ({wpc} \X Gone),
         wbatch' = wbatch \/ wbatch' = {},
         \/ wpc' \notin {"promote", "promote_put", "archived", "query_expired",
                          "expired", "ttl_rows"}
         \/ wpc' \in {"promote", "promote_put"} /\ wpc \in {"promote", "promote_put"}
         \/ wpc' = "archived" /\ wpc = "promote"
         \/ wpc' = "query_expired" /\ wpc = "archived"
         \/ wpc' = "query_expired" /\ wpc = "ttl_rows" /\ windex' = windex + 1
         \/ wpc' = "expired" /\ wpc = "query_expired" /\ windex' = windex
         \/ wpc' = wpc /\ wpc = "ttl_rows" /\ windex' = windex,
         windex \in Index
  PROVE  BatchInv'
<1>1. removed' = removed  OBVIOUS
<1>2. \A phase, i : Deleted(phase, i)' = Deleted(phase, i)
  BY <1>1 DEF Deleted
<1>3. IsFiniteSet(wbatch')  BY FS_EmptySet DEF BatchInv
<1>4. removed = {} => \A phase, i : Deleted(phase, i) = {}
  BY DEF Deleted
<1>5. \A i \in Index : i \in Int /\ windex \in Int  BY DEF Index
<1>6. /\ wpc' = "archived" => \A i : Within("archived", i)'
      /\ wpc' = "expired" => Within("expired", windex)'
  <2>1. wpc' = "archived" => \A i : Deleted("archived", i)' = {}
    BY <1>2, <1>4 DEF BatchInv
  <2>2. wpc' = "expired" => windex' = windex /\ Deleted("expired", windex) = {}
    BY <1>5 DEF BatchInv
  <2>3. wpc' = "expired" => Deleted("expired", windex)' = {}
    BY <1>2, <2>2
  <2>4. QED  BY <2>1, <2>3 DEF Within
<1>7. QED
  BY <1>1, <1>2, <1>3, <1>4, <1>5, <1>6 DEF BatchInv

LEMMA CollectKeepsBatches ==
  ASSUME TypeOK, BatchInv, NEW k \in Key, ArchivedFind(k),
         removed' = removed \cup ({wpc} \X Gone)
  PROVE  BatchInv'
<1>1. wpc' = wpc /\ wpc = "archived" /\ wkeys # {} /\ Gone = {}
  BY DEF ArchivedFind, Gone, Exists, storeVars
<1>2. removed' = removed  BY <1>1
<1>3. \A phase, i : Deleted(phase, i)' = Deleted(phase, i)
  BY <1>2 DEF Deleted
<1>4. IsFiniteSet(wbatch')
  <2>1. IsFiniteSet({x \in Find(k) : PastGrace(x)})  BY FoundIsFinite
  <2>2. QED  BY <2>1, FS_Union DEF ArchivedFind, BatchInv
<1>5. QED  BY <1>1, <1>3, <1>4 DEF BatchInv, Within

LEMMA RunKeepsBatches ==
  ASSUME TypeOK, GraceInv, BatchInv, RunProceeds
  PROVE  BatchInv'
<1> USE DEF Enter, storeVars
<1>r. removed' = removed \cup ({wpc} \X Gone)  BY DEF RunProceeds
<1>i. windex \in Index /\ windex \in Int  BY DEF TypeOK, WorkerTypeOK, Index
<1>e. wpc \notin {"archived", "expired"} => wbatch = {}  BY DEF GraceInv
<1>g. vec' = vec => Gone = {}  BY DEF Gone, Exists
<1>1. ASSUME NEW k \in Key, PromoteFind(k)  PROVE BatchInv'
  BY <1>1, <1>r, <1>i, <1>g, NoBatchKeepsBatches DEF PromoteFind
<1>2. CASE PromotePut
  <2>1. whold[2] \in Vector  BY <1>2 DEF PromotePut, TypeOK, WorkerTypeOK
  <2>2. \A w \in Vector : \A t \in Time :
          [w EXCEPT !.status = "archived", !.archived_at = t] # None
    BY StoreAssumption DEF Vector, Status
  <2>3. Gone = {}
    BY <1>2, <2>1, <2>2 DEF PromotePut, PutVector, Gone, Exists, TypeOK, StoreTypeOK
  <2>4. QED  BY <1>2, <1>r, <1>i, <2>3, NoBatchKeepsBatches DEF PromotePut
<1>3. CASE ScanArchived
  BY <1>3, <1>r, <1>i, <1>g, NoBatchKeepsBatches DEF ScanArchived
<1>4. ASSUME NEW k \in Key, ArchivedFind(k)  PROVE BatchInv'
  BY <1>4, <1>r, CollectKeepsBatches
<1>5. ASSUME NEW i \in Index, DeleteArchived(i)  PROVE BatchInv'
  <2>1. /\ Within("archived", i) /\ wpc = "archived" /\ wpc' = wpc
        /\ wkeys' = wkeys /\ wkeys = {}
    BY <1>5 DEF DeleteArchived, BatchInv
  <2>2. /\ IsFiniteSet(wbatch')
        /\ \A phase \in {"archived", "expired"}, j \in Index :
             /\ phase # wpc \/ j # i => Deleted(phase, j)' = Deleted(phase, j)
             /\ j # i => Batch(j)' = Batch(j)
             /\ phase = wpc /\ j = i => Within(phase, j)'
             /\ IsFiniteSet(Deleted(phase, j)')
             /\ Cardinality(Deleted(phase, j)') <= MaxDelete
    BY <1>5, <1>r, <2>1, BatchStep DEF DeleteArchived
  <2>3. \A j \in Index : Within("archived", j)'  BY <2>1, <2>2 DEF BatchInv, Within
  <2>4. QED  BY <2>1, <2>2, <2>3 DEF BatchInv
<1>6. ASSUME NEW i \in Index, Trip(i)  PROVE BatchInv'
  BY <1>6, <1>r, <1>i, <1>g, NoBatchKeepsBatches DEF Trip
<1>7. CASE EnterExpired
  BY <1>7, <1>r, <1>i, <1>g, NoBatchKeepsBatches DEF EnterExpired
<1>8. CASE QueryExpired
  BY <1>8, <1>r, <1>i, <1>g, NoBatchKeepsBatches DEF QueryExpired
<1>9. ASSUME NEW r, ExpiredFind(r)  PROVE BatchInv'
  <2>1. Gone = {} /\ wpc' = wpc /\ wpc = "expired" /\ windex' = windex /\ wcheck # {}
    BY <1>9, <1>g DEF ExpiredFind
  <2>2. removed' = removed  BY <1>r, <2>1
  <2>3. \A phase, i : Deleted(phase, i)' = Deleted(phase, i)  BY <2>2 DEF Deleted
  <2>4. wbatch' = wbatch \/ wbatch' = wbatch \cup {<<windex, r.key>>}
    BY <1>9 DEF ExpiredFind
  <2>5. IsFiniteSet(wbatch')  BY <2>4, FS_AddElement DEF BatchInv
  <2>6. QED  BY <1>i, <2>1, <2>3, <2>5 DEF BatchInv, Within
<1>10. ASSUME NEW r, CleanTTLRow(r)  PROVE BatchInv'
  BY <1>10, <1>r, <1>i, <1>g, NoBatchKeepsBatches DEF CleanTTLRow
<1>11. CASE DeleteExpired
  <2>1. /\ wpc = "expired" /\ wpc' \in {"expired", "ttl_rows"} /\ windex' = windex
        /\ wcheck' = {}
    BY <1>11 DEF DeleteExpired
  <2>2. Within("expired", windex)  BY <1>i, <2>1 DEF BatchInv
  <2>3. /\ IsFiniteSet(wbatch')
        /\ \A phase \in {"archived", "expired"}, j \in Index :
             /\ phase # wpc \/ j # windex => Deleted(phase, j)' = Deleted(phase, j)
             /\ phase = wpc /\ j = windex => Within(phase, j)'
             /\ IsFiniteSet(Deleted(phase, j)')
             /\ Cardinality(Deleted(phase, j)') <= MaxDelete
    BY <1>11, <1>r, <1>i, <2>1, <2>2, BatchStep DEF DeleteExpired
  <2>4. \A j \in Index : j > windex => j >= windex /\ j # windex
    BY <1>i DEF Index
  <2>5. Within("expired", windex)'  BY <1>i, <2>1, <2>3
  <2>6. QED  BY <1>i, <2>1, <2>3, <2>4, <2>5 DEF BatchInv
<1>12. CASE LeaveExpired
  BY <1>12, <1>r, <1>i, <1>g, NoBatchKeepsBatches DEF LeaveExpired, NextIndex
<1>13. CASE ScanVectors
  BY <1>13, <1>r, <1>i, <1>g, NoBatchKeepsBatches DEF ScanVectors
<1>14. ASSUME NEW x \in wfix, ReconcileGet(x)  PROVE BatchInv'
  BY <1>14, <1>r, <1>i, <1>g, NoBatchKeepsBatches DEF ReconcileGet
<1>15. CASE ReconcilePut
  BY <1>15, <1>r, <1>i, <1>g, NoBatchKeepsBatches DEF ReconcilePut
<1>16. CASE LeaveReconcile
  BY <1>16, <1>r, <1>i, <1>g, NoBatchKeepsBatches DEF LeaveReconcile, NextIndex
<1>17. QED
  BY <1>1, <1>2, <1>3, <1>4, <1>5, <1>6, <1>7, <1>8, <1>9, <1>10, <1>11, <1>12,
     <1>13, <1>14, <1>15, <1>16 DEF RunProceeds, ProceedWorker

LEMMA InitBatches == Init => BatchInv
<1> SUFFICES ASSUME Init PROVE BatchInv
  OBVIOUS
<1>1. wbatch = {} /\ removed = {} /\ wpc = "idle"  BY DEF Init, WorkerInit
<1>2. \A phase, i : Deleted(phase, i) = {}  BY <1>1 DEF Deleted
<1>3. QED  BY <1>1, <1>2, FS_EmptySet, WorkerAssumption DEF BatchInv

LEMMA StepKeepsBatches == TypeOK /\ GraceInv /\ BatchInv /\ [Next]_vars => BatchInv'
<1> SUFFICES ASSUME TypeOK, GraceInv, BatchInv, [Next]_vars PROVE BatchInv'
  OBVIOUS
<1>1. CASE Tick \/ UNCHANGED vars \/ \E p \in Proc : Client(p)
  <2>1. UNCHANGED <<wpc, windex, wkeys, wbatch, wcheck, removed>>
    BY <1>1 DEF Tick, Client, vars, workerVars, histVars
  <2>2. QED  BY <2>1 DEF BatchInv, Within, Deleted, Batch
<1>2. CASE RunBegins
  <2>1. removed' = {} /\ wpc' = "promote" /\ wbatch' = wbatch
    BY <1>2 DEF RunBegins, StartRun, Enter
  <2>2. \A phase, i : Deleted(phase, i)' = {}  BY <2>1 DEF Deleted
  <2>3. QED  BY <2>1, <2>2, FS_EmptySet, WorkerAssumption DEF BatchInv
<1>3. CASE RunProceeds
  BY <1>3, RunKeepsBatches
<1>4. CASE RunIsCut
  <2>1. removed' = removed /\ wpc' = "idle" /\ wbatch' = {}
    BY <1>4 DEF RunIsCut, CutOff, Enter
  <2>2. \A phase, i : Deleted(phase, i)' = Deleted(phase, i)  BY <2>1 DEF Deleted
  <2>3. QED  BY <2>1, <2>2, FS_EmptySet DEF BatchInv
<1>5. QED  BY <1>1, <1>2, <1>3, <1>4 DEF Next, Worker

\* MAX_DELETE_ABS bounds what a run deletes in an index by archive and by expiry,
\* whatever the number of indexes, and whatever callers write between the finds
\* and the delete or wherever the run is cut off: no batch is made twice.
THEOREM RunWithinBatches == Spec => []RunWithinItsBatches
<1>1. BatchInv => RunWithinItsBatches
  BY DEF BatchInv, RunWithinItsBatches, Deleted
<1>2. QED
  BY <1>1, TypeCorrect, GraceInvariant, InitBatches, StepKeepsBatches, PTL DEF Spec

-------------------------------------------------------------------------------
\* The expiry path.  It looks a key up in every index and deletes it in the
\* index of the TTL row, so what follows is about vaults that keep no key in two
\* indexes; one index is enough for that.

KeysApart == \A i, j \in Index, k \in Key : Exists(<<i, k>>) /\ Exists(<<j, k>>) => i = j

LEMMA OneIndexKeepsApart == NumIndexes = 1 => KeysApart
  BY DEF KeysApart, Index

\* Then the lookup of a key finds it wherever it is.
LEMMA FindsIt ==
  ASSUME KeysApart, NEW x \in Addr, Exists(x)
  PROVE  Find(x[2]) = {x}
<1>1. PICK i \in Index, k \in Key : x = <<i, k>>  BY DEF Addr
<1>2. i \in Int  BY DEF Index
<1>3. x \in Find(k)  BY <1>1, <1>2 DEF Find, KeysApart
<1>4. QED  BY <1>1, <1>3, FindsOne

\* What the expiry path has collected has expired, or a caller wrote it since.
ExpiryInv ==
  wpc = "expired" =>
    \A x \in wbatch : Exists(x) => x \in written \/ vec[x].expires_at <= clock

LEMMA StepKeepsExpiry ==
  ASSUME TypeOK, GraceInv, KeysApart, ExpiryInv, [Next]_vars
  PROVE  ExpiryInv'
<1> USE DEF ExpiryInv, Exists, Enter, storeVars
<1>t. wbatch \subseteq Addr /\ windex \in Index  BY DEF TypeOK, WorkerTypeOK
<1>1. CASE Tick \/ UNCHANGED vars
  BY <1>1 DEF Tick, vars, workerVars, histVars
<1>2. ASSUME NEW p \in Proc, Client(p)  PROVE ExpiryInv'
  <2>1. UNCHANGED <<wpc, wbatch, clock>>
    BY <1>2 DEF Client, workerVars, ClientStep, Request, RequestStore, RequestSupersede,
       RequestRestore, RequestArchive, RequestUse, RequestPurge, ProceedClient, Store,
       StoreUnchanged, StoreSupersedes, StoreNearDuplicate, StoreFresh, GetOld,
       WriteVector, WriteTTLRow, RewriteOld, UpsertRow, RestoreReadsRow, Archive,
       ArchivePut, ArchiveReadsRow, ArchiveUpsert, Purge, PurgeVectors, PurgeRow,
       RecordUse, Crash
  <2>2. wpc = "expired" => written' = written \cup {x \in Addr : vec'[x] # vec[x]}
    BY <1>2 DEF Client
  <2>3. QED  BY <1>t, <2>1, <2>2
<1>3. CASE RunBegins \/ RunIsCut
  BY <1>3 DEF RunBegins, RunIsCut, StartRun, CutOff
<1>4. CASE RunProceeds
  <2>1. ASSUME NEW r \in wrows \cup wcheck, ExpiredFind(r)  PROVE ExpiryInv'
    <3>1. r.key \in Key  BY DEF TypeOK, WorkerTypeOK, TTLRow
    <3> DEFINE y == <<windex, r.key>>
    <3>2. y \in Addr  BY <1>t, <3>1 DEF Addr
    <3>3. CASE wbatch' = wbatch
      BY <1>4, <2>1, <3>3 DEF RunProceeds, ExpiredFind
    <3>4. CASE /\ wbatch' = wbatch \cup {y}
               /\ \E x \in Find(r.key) : vec[x].expires_at <= clock
      <4>1. Exists(y) => vec[y].expires_at <= clock
        <5>1. Exists(y) => Find(r.key) = {y}  BY <3>2, FindsIt
        <5>2. QED  BY <3>4, <5>1
      <4>2. QED  BY <1>4, <2>1, <3>4, <4>1 DEF RunProceeds, ExpiredFind
    <3>5. QED  BY <2>1, <3>3, <3>4 DEF ExpiredFind
  <2>2. CASE QueryExpired
    BY <2>2 DEF QueryExpired, GraceInv
  <2>3. CASE wpc' # "expired"
    BY <2>3
  <2>d. CASE DeleteExpired
    <3>1. wbatch' \subseteq wbatch /\ \A x \in Addr : vec'[x] # None => vec'[x] = vec[x]
      BY <2>d, SomeGoes DEF DeleteExpired, DeleteVectors
    <3>2. QED  BY <1>4, <1>t, <2>d, <3>1 DEF RunProceeds, DeleteExpired
  <2>4. ASSUME wpc' = "expired", wpc # "query_expired", ~DeleteExpired,
               ~\E r \in wrows \cup wcheck : ExpiredFind(r)
        PROVE  FALSE
    BY <1>4, <2>4 DEF RunProceeds, ProceedWorker, PromoteFind, PromotePut, ScanArchived,
       ArchivedFind, DeleteArchived, Trip, EnterExpired, QueryExpired, CleanTTLRow,
       LeaveExpired, NextIndex, ScanVectors, ReconcileGet, ReconcilePut,
       LeaveReconcile
  <2>5. QED
    BY <1>4, <2>1, <2>2, <2>3, <2>4, <2>d DEF RunProceeds, ProceedWorker, PromoteFind,
       PromotePut, ScanArchived, ArchivedFind, DeleteArchived, Trip, EnterExpired,
       CleanTTLRow, DeleteExpired, LeaveExpired, NextIndex, ScanVectors, ReconcileGet,
       ReconcilePut, LeaveReconcile
<1>5. QED  BY <1>1, <1>2, <1>3, <1>4 DEF Next, Worker

LEMMA ExpiryStep ==
  ASSUME ExpiryInv, Next, WorkerDeletes, wpc = "expired", NEW x \in Gone
  PROVE  x \in written \/ vec[x].expires_at <= clock
<1> USE DEF WorkerDeletes
<1>1. CASE Tick \/ \E p \in Proc : Client(p)
  BY <1>1 DEF Tick, Client, workerVars
<1>2. CASE Worker
  <2>1. DeleteExpired
    BY <1>2 DEF Worker, RunBegins, RunProceeds, RunIsCut, StartRun, CutOff,
       ProceedWorker, PromoteFind, PromotePut, ScanArchived, ArchivedFind, Trip,
       DeleteArchived, EnterExpired, QueryExpired, ExpiredFind, CleanTTLRow,
       LeaveExpired, ScanVectors, ReconcileGet, ReconcilePut, LeaveReconcile, storeVars
  <2>2. x \in wbatch /\ Exists(x)
    BY <2>1, SomeGoes DEF DeleteExpired, DeleteVectors, Gone, Batch, Exists
  <2>3. QED  BY <2>2 DEF ExpiryInv
<1>3. QED  BY <1>1, <1>2 DEF Next

\* hard TTL, expires_at <= now: as long as no key is in two indexes,
\* delete_expired removes only what is past its own expires_at, however stale the
\* TTL row that led to it, but for what a caller wrote after that row was read.
THEOREM ExpiryHonoured == Spec /\ []KeysApart => ExpiryDeletesOnlyExpired
<1>1. Init => ExpiryInv
  BY DEF Init, WorkerInit, ExpiryInv
<1>2. TypeOK /\ GraceInv /\ KeysApart /\ ExpiryInv /\ [Next]_vars => ExpiryInv'
  BY StepKeepsExpiry
<1>3. ExpiryInv /\ [Next]_vars =>
        [WorkerDeletes /\ wpc = "expired" =>
           \A x \in Gone : x \in written \/ vec[x].expires_at <= clock]_vars
  BY ExpiryStep
<1>4. QED
  BY <1>1, <1>2, <1>3, TypeCorrect, GraceInvariant, PTL DEF Spec, ExpiryDeletesOnlyExpired

-------------------------------------------------------------------------------
\* TTL rows in a run beside which no caller moves.

\* What the row's key names has gone, or does not expire when the row says.
RowIsSpent(r) ==
  Exists(<<windex, r.key>>) => vec[<<windex, r.key>>].expires_at # r.expires_at

\* The rows the query returned are those the table still has, and one that is
\* spent neither has its memory in the batch nor is it still to be looked up.
RowsInv ==
  calm =>
    /\ ~wdry
    /\ wpc \in {"expired", "ttl_rows"} => \A r \in wrows \cup wcheck :
         /\ r.expires_at <= clock
         /\ ttl[<<windex, r.expires_at>>] \in {r.key, None}
    /\ wpc = "expired" => \A r \in wrows :
         r \in wcheck \/ <<windex, r.key>> \in wbatch \/ RowIsSpent(r)
    /\ wpc = "ttl_rows" => wcheck = {} /\ \A r \in wrows : RowIsSpent(r)

LEMMA RunKeepsRows ==
  ASSUME TypeOK, GraceInv, KeysApart, RowsInv, RunProceeds
  PROVE  RowsInv'
<1> USE DEF Enter, storeVars
<1>t. /\ windex \in Index /\ clock \in Int /\ wrows \subseteq TTLRow
      /\ wcheck \subseteq TTLRow /\ ttl \in [Index \X Time -> Key \cup {None}]
  BY StoreAssumption DEF TypeOK, StoreTypeOK, WorkerTypeOK, Time
<1>d. wdry' = wdry /\ (calm' => calm)
  BY DEF RunProceeds, ProceedWorker, PromoteFind, PromotePut, ScanArchived,
     ArchivedFind, DeleteArchived, Trip, EnterExpired, QueryExpired, ExpiredFind,
     CleanTTLRow, DeleteExpired, LeaveExpired, ScanVectors, ReconcileGet,
     ReconcilePut, LeaveReconcile
<1> SUFFICES ASSUME calm' PROVE RowsInv'
  BY DEF RowsInv
<1>c. calm /\ ~wdry /\ ~wdry'  BY <1>d DEF RowsInv
<1>1. CASE QueryExpired
  <2>1. /\ wpc' = "expired" /\ windex' = windex /\ ttl' = ttl /\ clock' = clock
        /\ wrows' = ExpiredRows(windex) /\ wcheck' = ExpiredRows(windex)
    BY <1>1 DEF QueryExpired
  <2>2. \A r \in ExpiredRows(windex) :
          r.expires_at <= clock /\ ttl[<<windex, r.expires_at>>] = r.key
    BY DEF ExpiredRows
  <2>3. QED  BY <1>c, <2>1, <2>2 DEF RowsInv
<1>2. ASSUME NEW r \in wrows \cup wcheck, ExpiredFind(r)  PROVE RowsInv'
  <2>1. /\ wpc = "expired" /\ wpc' = wpc /\ r \in wcheck /\ wcheck' = wcheck \ {r}
        /\ UNCHANGED <<vec, clock, windex, wrows>>
    BY <1>2 DEF ExpiredFind
  <2>2. r.key \in Key /\ r.expires_at \in Time  BY <1>t DEF TTLRow
  <2>3. <<windex, r.key>> \in Addr  BY <1>t, <2>2 DEF Addr
  <2>4. \A s \in wrows \cup wcheck : ttl'[<<windex, s.expires_at>>] \in {s.key, None}
    <3>1. ttl' = ttl \/ ttl' = [ttl EXCEPT ![<<windex, r.expires_at>>] = None]
      BY <1>2 DEF ExpiredFind, DeleteTTLRow, PutTTLRow
    <3>2. QED  BY <1>t, <1>c, <2>1, <2>2, <3>1 DEF RowsInv, TTLRow
  <2>5. <<windex, r.key>> \in wbatch' \/ RowIsSpent(r)
    <3>1. CASE ~Exists(<<windex, r.key>>)
      BY <3>1 DEF RowIsSpent
    <3>2. CASE Exists(<<windex, r.key>>)
      <4>1. Find(r.key) = {<<windex, r.key>>}  BY <2>3, <3>2, FindsIt
      <4>2. CASE vec[<<windex, r.key>>].expires_at <= clock
        BY <1>2, <4>1, <4>2 DEF ExpiredFind
      <4>3. CASE ~(vec[<<windex, r.key>>].expires_at <= clock)
        <5>1. r.expires_at <= clock  BY <1>c, <2>1 DEF RowsInv
        <5>2. QED  BY <4>3, <5>1 DEF RowIsSpent
      <4>4. QED  BY <4>2, <4>3
    <3>3. QED  BY <3>1, <3>2
  <2>6. wbatch \subseteq wbatch'  BY <1>2 DEF ExpiredFind
  <2>7. \A s \in wrows : RowIsSpent(s) => RowIsSpent(s)'
    BY <2>1 DEF RowIsSpent, Exists
  <2>8. \A s \in wrows : s \in wcheck' \/ <<windex, s.key>> \in wbatch' \/ RowIsSpent(s)
    BY <1>c, <2>1, <2>5, <2>6 DEF RowsInv
  <2>9. QED  BY <1>c, <2>1, <2>4, <2>7, <2>8 DEF RowsInv
<1>3. CASE DeleteExpired
  <2>1. /\ wpc = "expired" /\ wcheck = {}
        /\ wpc' = IF wbatch' = {} THEN "ttl_rows" ELSE "expired"
        /\ UNCHANGED <<ttl, clock, windex, wrows, wcheck>>
    BY <1>3 DEF DeleteExpired
  <2>2. PICK ys \in SUBSET Batch(windex) :
          /\ vec' = [x \in Addr |-> IF x \in ys THEN None ELSE vec[x]]
          /\ wbatch' = wbatch \ ys
    BY <1>3, <1>c, SomeGoes DEF DeleteExpired, DeleteVectors
  <2>3. \A s \in wrows : <<windex, s.key>> \in wbatch' \/ RowIsSpent(s)'
    <3> SUFFICES ASSUME NEW s \in wrows, <<windex, s.key>> \notin wbatch'
                 PROVE  RowIsSpent(s)'
      OBVIOUS
    <3>1. <<windex, s.key>> \in Addr  BY <1>t DEF Addr, TTLRow
    <3>2. <<windex, s.key>> \in wbatch \/ RowIsSpent(s)
      BY <1>c, <2>1 DEF RowsInv
    <3>3. CASE <<windex, s.key>> \in wbatch
      BY <2>1, <2>2, <3>1, <3>3 DEF RowIsSpent, Exists
    <3>4. CASE RowIsSpent(s)
      BY <2>1, <2>2, <3>1, <3>4 DEF RowIsSpent, Exists
    <3>5. QED  BY <3>2, <3>3, <3>4
  <2>4. QED  BY <1>c, <2>1, <2>3 DEF RowsInv
<1>4. ASSUME NEW r \in wrows \cup wcheck, CleanTTLRow(r)  PROVE RowsInv'
  <2>1. /\ wpc = "ttl_rows" /\ wpc' = wpc /\ wrows' = wrows \ {r}
        /\ UNCHANGED <<vec, clock, windex, wcheck>>
    BY <1>4 DEF CleanTTLRow
  <2>2. \A s \in wrows : RowIsSpent(s) => RowIsSpent(s)'
    BY <2>1 DEF RowIsSpent, Exists
  <2>3. ttl' = ttl \/ ttl' = [ttl EXCEPT ![<<windex, r.expires_at>>] = None]
    BY <1>4 DEF CleanTTLRow, DeleteTTLRow, PutTTLRow
  <2>4. \A s \in wrows \cup wcheck : ttl'[<<windex, s.expires_at>>] \in {s.key, None}
    BY <1>t, <1>c, <2>1, <2>3 DEF RowsInv, TTLRow
  <2>5. QED  BY <1>c, <2>1, <2>2, <2>4 DEF RowsInv
<1>5. CASE wpc' \notin {"expired", "ttl_rows"}
  BY <1>c, <1>5 DEF RowsInv
<1>6. QED
  BY <1>1, <1>2, <1>3, <1>4, <1>5 DEF RunProceeds, ProceedWorker, PromoteFind,
     PromotePut, ScanArchived, ArchivedFind, DeleteArchived, Trip, EnterExpired,
     LeaveExpired, NextIndex, ScanVectors, ReconcileGet, ReconcilePut, LeaveReconcile

LEMMA StepKeepsRows ==
  TypeOK /\ GraceInv /\ KeysApart /\ RowsInv /\ [Next]_vars => RowsInv'
<1> SUFFICES ASSUME TypeOK, GraceInv, KeysApart, RowsInv, [Next]_vars PROVE RowsInv'
  OBVIOUS
<1>1. CASE Tick
  BY <1>1 DEF Tick, workerVars, RowsInv
<1>2. CASE UNCHANGED vars
  BY <1>2 DEF vars, storeVars, workerVars, histVars, RowsInv, RowIsSpent, Exists
<1>3. CASE RunIsCut \/ \E p \in Proc : Client(p)
  BY <1>3 DEF RunIsCut, Client, RowsInv
<1>4. CASE RunBegins
  BY <1>4 DEF RunBegins, StartRun, Enter, RowsInv
<1>5. CASE RunProceeds
  BY <1>5, RunKeepsRows
<1>6. QED  BY <1>1, <1>2, <1>3, <1>4, <1>5 DEF Next, Worker

LEMMA RowStep ==
  ASSUME TypeOK, KeysApart, RowsInv, Worker, calm, NEW i \in Index, NEW e \in Time,
         ttl[<<i, e>>] # None, ttl'[<<i, e>>] = None,
         Exists(<<i, ttl[<<i, e>>]>>)
  PROVE  vec[<<i, ttl[<<i, e>>]>>].expires_at # e
<1>t. /\ windex \in Index /\ wrows \subseteq TTLRow /\ wcheck \subseteq TTLRow
      /\ ttl \in [Index \X Time -> Key \cup {None}]
  BY DEF TypeOK, StoreTypeOK, WorkerTypeOK
<1>1. PICK r \in wrows \cup wcheck : ExpiredFind(r) \/ CleanTTLRow(r)
  BY DEF Worker, RunBegins, RunProceeds, RunIsCut, StartRun, CutOff, ProceedWorker,
     PromoteFind, PromotePut, ScanArchived, ArchivedFind, Trip, DeleteArchived,
     EnterExpired, QueryExpired, DeleteExpired, LeaveExpired, ScanVectors,
     ReconcileGet, ReconcilePut, LeaveReconcile, storeVars
<1>2. r.key \in Key /\ r.expires_at \in Time  BY <1>t DEF TTLRow
<1>3. ttl' = [ttl EXCEPT ![<<windex, r.expires_at>>] = None]
  BY <1>1 DEF ExpiredFind, CleanTTLRow, DeleteTTLRow, PutTTLRow
<1>4. i = windex /\ e = r.expires_at  BY <1>t, <1>2, <1>3
<1>5. ttl[<<i, e>>] = r.key
  BY <1>1, <1>4 DEF RowsInv, ExpiredFind, CleanTTLRow
<1>6. CASE ExpiredFind(r)
  <2>1. ttl' # ttl  OBVIOUS
  <2>2. Find(r.key) = {}  BY <1>6, <2>1 DEF ExpiredFind
  <2>3. <<windex, r.key>> \in Addr  BY <1>t, <1>2 DEF Addr
  <2>4. FALSE  BY <1>4, <1>5, <2>2, <2>3, FindsIt
  <2>5. QED  BY <2>4
<1>7. CASE CleanTTLRow(r)
  <2>1. RowIsSpent(r)  BY <1>7 DEF CleanTTLRow, RowsInv
  <2>2. QED  BY <1>4, <1>5, <2>1 DEF RowIsSpent
<1>8. QED  BY <1>1, <1>6, <1>7

\* A run beside which no caller moves drops a TTL row only when the memory that
\* row names is gone or has another expiry: if the run is cut off anywhere, the
\* next one finds all that is left to delete.
THEOREM RowsOutlive == Spec /\ []KeysApart => RowOutlivesItsMemory
<1>1. Init => RowsInv
  BY DEF Init, RowsInv
<1>2. TypeOK /\ KeysApart /\ RowsInv /\ [Next]_vars =>
        [Worker /\ calm => \A i \in Index, e \in Time :
           ttl[<<i, e>>] # None /\ ttl'[<<i, e>>] = None =>
             LET x == <<i, ttl[<<i, e>>]>> IN Exists(x) => vec[x].expires_at # e]_vars
  BY RowStep
<1>3. QED
  BY <1>1, <1>2, StepKeepsRows, TypeCorrect, GraceInvariant, PTL
  DEF Spec, RowOutlivesItsMemory

-------------------------------------------------------------------------------
\* Runs beside which no caller moves leave the rows in agreement with the vectors,
\* and after them further runs on the same day change nothing.

\* There is one row for each group and a sweep for each index, so the rows can
\* agree with the vectors only where no group has vectors in two indexes.
GroupsApart ==
  \A g \in Cid, i, j \in Index : Members(i, g) # {} /\ Members(j, g) # {} => i = j

Sweeping == {"scan", "reconcile", "reconcile_put"}

\* The sweep's copy of a newest vector of its group.
Current(x) == /\ x.key \in Top(windex, x.cid)
              /\ x.status = vec[<<windex, x.key>>].status

\* The rows of the indexes the sweep has left agree, and in the index it is in
\* each group agrees or is still to be compared.
SweepInv ==
  calm =>
    /\ ~wdry
    /\ wpc \in Sweeping => \A i \in Index, g \in Cid :
         i < windex /\ Members(i, g) # {} => RowAgrees(i, g)
    /\ wpc \in {"reconcile", "reconcile_put"} =>
         /\ \A x \in wfix : Current(x)
         /\ \A g \in Cid : Members(windex, g) # {} =>
              RowAgrees(windex, g) \/ \E x \in wfix : x.cid = g
    /\ wpc = "reconcile_put" => whold \in wfix
    /\ wpc = "idle" => RowsAgree

\* Nothing but a write to a row or a vector changes whether they agree.
LEMMA AgreesStill ==
  ASSUME UNCHANGED <<vec, row>>, NEW i, NEW g
  PROVE  /\ Members(i, g)' = Members(i, g) /\ Top(i, g)' = Top(i, g)
         /\ RowAgrees(i, g)' = RowAgrees(i, g)
<1>1. Members(i, g)' = Members(i, g)  BY DEF Members, Exists
<1>2. Top(i, g)' = Top(i, g)  BY <1>1 DEF Top, Highest, RanksBelow
<1>3. QED  BY <1>1, <1>2 DEF RowAgrees

LEMMA CurrentStill ==
  ASSUME UNCHANGED <<vec, row, windex>>, NEW x
  PROVE  Current(x)' = Current(x)
  BY AgreesStill DEF Current

\* What the listing of an index yields.
LEMMA ScanIsCurrent ==
  ASSUME TypeOK, ScanVectors
  PROVE  /\ UNCHANGED <<vec, row, windex>> /\ wpc = "scan" /\ wpc' = "reconcile"
         /\ \A x \in wfix' : Current(x)
         /\ \A g \in Cid : Members(windex, g) # {} => \E x \in wfix' : x.cid = g
<1>1. UNCHANGED <<vec, row, windex>> /\ wpc = "scan" /\ wpc' = "reconcile"
  BY DEF ScanVectors, storeVars, Enter
<1> DEFINE groups == {g \in Cid : Members(windex, g) # {}}
<1>2. PICK first \in [groups -> Key] :
        /\ \A g \in groups : first[g] \in Top(windex, g)
        /\ wfix' = {ActualOf(windex, g, first[g]) : g \in groups}
  BY DEF ScanVectors
<1>3. \A x \in wfix' : Current(x)
  <2> SUFFICES ASSUME NEW g \in groups PROVE Current(ActualOf(windex, g, first[g]))
    BY <1>2
  <2>1. first[g] \in Top(windex, g)  BY <1>2
  <2>2. QED  BY <2>1 DEF ActualOf, Current
<1>4. ASSUME NEW g \in groups PROVE \E x \in wfix' : x.cid = g
  <2>1. ActualOf(windex, g, first[g]) \in wfix'  BY <1>2
  <2>2. ActualOf(windex, g, first[g]).cid = g  BY DEF ActualOf
  <2>3. QED  BY <2>1, <2>2
<1>5. QED  BY <1>1, <1>3, <1>4

\* The row the sweep writes agrees, and disturbs no other group or index.
LEMMA RepairAgrees ==
  ASSUME TypeOK, GroupsApart, ReconcilePut, Current(whold),
         NEW w, windex = w, NEW y, whold = y
  PROVE  /\ UNCHANGED <<vec, windex>> /\ \A k, g : Members(k, g)' = Members(k, g)
         /\ \A k, g : Top(k, g)' = Top(k, g)
         /\ RowAgrees(w, y.cid)'
         /\ \A i \in Index, g \in Cid : i # w \/ g # y.cid =>
              (Members(i, g) # {} /\ RowAgrees(i, g) => RowAgrees(i, g)')
<1>1. y \in Actual /\ w \in Index
  BY DEF TypeOK, WorkerTypeOK, ReconcilePut
<1>2. row' = [row EXCEPT ![y.cid] = RepairedRow(y)] /\ UNCHANGED <<vec, windex>>
  BY DEF ReconcilePut, PutRow
<1>3. \A i, g : Members(i, g)' = Members(i, g)
  BY <1>2 DEF Members, Exists
<1>4. \A i, g : Top(i, g)' = Top(i, g)
  BY <1>2, <1>3 DEF Top, Highest, RanksBelow
<1>5. y.cid \in Cid /\ row'[y.cid] = RepairedRow(y)
  BY <1>1, <1>2 DEF Actual, TypeOK, StoreTypeOK
<1>6. RepairedRow(y) # None
  <2>1. RepairedRow(y) \in Row
    BY <1>1 DEF RepairedRow, Row, Actual, Status
  <2>2. QED  BY <2>1, StoreAssumption
<1>7. y.key \in Top(w, y.cid) /\ y.status = vec[<<w, y.key>>].status
  BY DEF Current
<1>8. RowAgrees(w, y.cid)'
  BY <1>2, <1>4, <1>5, <1>6, <1>7 DEF RowAgrees, RepairedRow
<1>9. y.key \in Members(w, y.cid)
  BY <1>7 DEF Top, Highest
<1>10. ASSUME NEW i \in Index, NEW g \in Cid, i # w \/ g # y.cid,
             Members(i, g) # {}, RowAgrees(i, g)
      PROVE  RowAgrees(i, g)'
  <2>1. g # y.cid  BY <1>1, <1>5, <1>9, <1>10 DEF GroupsApart
  <2>2. row'[g] = row[g]  BY <1>2, <2>1 DEF TypeOK, StoreTypeOK
  <2>3. QED  BY <1>2, <1>4, <1>10, <2>2 DEF RowAgrees
<1>11. QED  BY <1>2, <1>3, <1>4, <1>8, <1>10

LEMMA RunKeepsSweep ==
  ASSUME TypeOK, GroupsApart, SweepInv, RunProceeds
  PROVE  SweepInv'
<1> USE DEF Enter, storeVars, Sweeping
<1>d. wdry' = wdry /\ (calm' => calm)
  BY DEF RunProceeds, ProceedWorker, PromoteFind, PromotePut, ScanArchived,
     ArchivedFind, DeleteArchived, Trip, EnterExpired, QueryExpired, ExpiredFind,
     CleanTTLRow, DeleteExpired, LeaveExpired, ScanVectors, ReconcileGet,
     ReconcilePut, LeaveReconcile
<1> SUFFICES ASSUME calm' PROVE SweepInv'
  BY DEF SweepInv
<1>c. calm /\ ~wdry /\ ~wdry'  BY <1>d DEF SweepInv
<1>w. windex \in Index /\ windex \in Int /\ Index \subseteq Int /\ wfix \subseteq Actual
  BY DEF TypeOK, WorkerTypeOK, Index
<1>1. CASE LeaveExpired
  <2>1. \A i \in Index : ~(i < 1)  BY DEF Index
  <2>2. wpc' \in {"query_expired", "scan"} /\ (wpc' = "scan" => windex' = 1)
    BY <1>1 DEF LeaveExpired, NextIndex
  <2>3. QED  BY <1>c, <2>1, <2>2 DEF SweepInv
<1>2. CASE ScanVectors
  <2>1. /\ UNCHANGED <<vec, row, windex>> /\ wpc = "scan" /\ wpc' = "reconcile"
        /\ \A x \in wfix' : Current(x)
        /\ \A g \in Cid : Members(windex, g) # {} => \E x \in wfix' : x.cid = g
    BY <1>2, ScanIsCurrent
  <2>2. \A x \in wfix' : Current(x)'  BY <2>1, CurrentStill
  <2>3. QED  BY <1>c, <2>1, <2>2, AgreesStill DEF SweepInv
<1>3. ASSUME NEW x \in wfix, ReconcileGet(x)  PROVE SweepInv'
  <2>1. UNCHANGED <<vec, row, windex>> /\ wpc = "reconcile"
    BY <1>3 DEF ReconcileGet
  <2>2. \A y : Current(y)' = Current(y)  BY <2>1, CurrentStill
  <2>3. CASE Agrees(x)
    <3>1. wfix' = wfix \ {x} /\ wpc' = wpc  BY <1>3, <2>3 DEF ReconcileGet
    <3>2. RowAgrees(windex, x.cid)
      BY <1>c, <2>1, <2>3 DEF SweepInv, Current, Agrees, RowAgrees
    <3>3. QED  BY <1>c, <2>1, <2>2, <3>1, <3>2, AgreesStill DEF SweepInv
  <2>4. CASE ~Agrees(x)
    <3>1. wfix' = wfix /\ wpc' = "reconcile_put" /\ whold' = x
      BY <1>3, <1>c, <2>4 DEF ReconcileGet
    <3>2. QED  BY <1>c, <2>1, <2>2, <3>1, AgreesStill DEF SweepInv
  <2>5. QED  BY <2>3, <2>4
<1>4. CASE ReconcilePut
  <2>1. /\ wpc = "reconcile_put" /\ wpc' = "reconcile" /\ wfix' = wfix \ {whold}
        /\ whold \in wfix /\ Current(whold)
    BY <1>4, <1>c DEF ReconcilePut, SweepInv
  <2> PICK w, y : windex = w /\ whold = y
    OBVIOUS
  <2>2. /\ UNCHANGED <<vec, windex>> /\ \A k, g : Members(k, g)' = Members(k, g)
        /\ \A k, g : Top(k, g)' = Top(k, g)
        /\ RowAgrees(w, y.cid)'
        /\ \A i \in Index, g \in Cid : i # w \/ g # y.cid =>
             (Members(i, g) # {} /\ RowAgrees(i, g) => RowAgrees(i, g)')
    BY <1>4, <2>1, RepairAgrees
  <2>3. \A x : Current(x)' = Current(x)
    BY <2>2 DEF Current
  <2>4. \A i \in Index, g \in Cid : i < w /\ Members(i, g)' # {} => RowAgrees(i, g)'
    <3> SUFFICES ASSUME NEW i \in Index, NEW g \in Cid, i < w, Members(i, g) # {}
                 PROVE  RowAgrees(i, g)'
      BY <2>2
    <3>1. i # w  BY <1>w
    <3>2. RowAgrees(i, g)  BY <1>c, <2>1 DEF SweepInv
    <3>3. QED  BY <2>2, <3>1, <3>2
  <2>5. \A g \in Cid : Members(w, g)' # {} =>
          RowAgrees(w, g)' \/ \E x \in wfix' : x.cid = g
    <3> SUFFICES ASSUME NEW g \in Cid, Members(w, g) # {}, g # y.cid
                 PROVE  RowAgrees(w, g)' \/ \E x \in wfix' : x.cid = g
      BY <2>2
    <3>1. RowAgrees(w, g) \/ \E x \in wfix : x.cid = g
      BY <1>c, <2>1 DEF SweepInv
    <3>2. QED  BY <1>w, <2>1, <2>2, <3>1
  <2>6. \A x \in wfix' : Current(x)'  BY <1>c, <2>1, <2>3 DEF SweepInv
  <2>7. windex' = w  BY <2>2
  <2>8. QED  BY <1>c, <2>1, <2>4, <2>5, <2>6, <2>7 DEF SweepInv
<1>5. CASE LeaveReconcile
  <2>1. UNCHANGED <<vec, row>> /\ wpc = "reconcile" /\ wfix = {}
    BY <1>5 DEF LeaveReconcile
  <2>2. \A i \in Index, g \in Cid : i <= windex /\ Members(i, g) # {} => RowAgrees(i, g)
    BY <1>c, <1>w, <2>1 DEF SweepInv
  <2>3. CASE windex < NumIndexes
    <3>1. wpc' = "scan" /\ windex' = windex + 1  BY <1>5, <2>3 DEF LeaveReconcile, NextIndex
    <3>2. \A i \in Index : i < windex + 1 => i <= windex  BY <1>w
    <3>3. QED  BY <1>c, <2>1, <2>2, <3>1, <3>2, AgreesStill DEF SweepInv
  <2>4. CASE ~(windex < NumIndexes)
    <3>1. wpc' = "idle"  BY <1>5, <2>4 DEF LeaveReconcile, NextIndex
    <3>2. \A i \in Index : i <= windex  BY <2>4, StoreAssumption DEF TypeOK, WorkerTypeOK, Index
    <3>3. RowsAgree'  BY <2>1, <2>2, <3>2, AgreesStill DEF RowsAgree
    <3>4. QED  BY <1>c, <3>1, <3>3 DEF SweepInv
  <2>5. QED  BY <2>3, <2>4
<1>6. CASE \E i \in Index : Trip(i)
  BY <1>6 DEF RunProceeds
<1>7. CASE wpc' \notin Sweeping \cup {"idle"}
  BY <1>c, <1>7 DEF SweepInv
<1>8. QED
  BY <1>1, <1>2, <1>3, <1>4, <1>5, <1>6, <1>7 DEF RunProceeds, ProceedWorker,
     PromoteFind, PromotePut, ScanArchived, ArchivedFind, DeleteArchived,
     EnterExpired, QueryExpired, ExpiredFind, CleanTTLRow, DeleteExpired

LEMMA StepKeepsSweep == TypeOK /\ GroupsApart /\ SweepInv /\ [Next]_vars => SweepInv'
<1> SUFFICES ASSUME TypeOK, GroupsApart, SweepInv, [Next]_vars PROVE SweepInv'
  OBVIOUS
<1>1. CASE Tick
  BY <1>1, AgreesStill DEF Tick, workerVars, SweepInv, Sweeping, RowsAgree
<1>2. CASE UNCHANGED vars
  BY <1>2, AgreesStill, CurrentStill
  DEF vars, storeVars, workerVars, histVars, SweepInv, RowsAgree
<1>3. CASE RunIsCut \/ \E p \in Proc : Client(p)
  BY <1>3 DEF RunIsCut, Client, SweepInv
<1>4. CASE RunBegins
  BY <1>4 DEF RunBegins, StartRun, Enter, SweepInv, Sweeping
<1>5. CASE RunProceeds
  BY <1>5, RunKeepsSweep
<1>6. QED  BY <1>1, <1>2, <1>3, <1>4, <1>5 DEF Next, Worker

\* reconcile: where no group is spread over two indexes, a run beside which no
\* caller moves leaves every canonical row naming a newest vector of its group
\* and its status, whatever was lost, crashed or overwritten before.
THEOREM CalmRunsRepair == Spec /\ []GroupsApart => []CalmRunRepairs
<1>1. Init => SweepInv
  BY DEF Init, SweepInv
<1>2. SweepInv => CalmRunRepairs
  BY DEF SweepInv, CalmRunRepairs
<1>3. QED
  BY <1>1, <1>2, StepKeepsSweep, TypeCorrect, PTL DEF Spec

-------------------------------------------------------------------------------
\* What a run gets done, phase by phase.

\* No vector of the key is waiting to be archived, or to be deleted.
Retired(k) == \A x \in Addr : x[2] = k => ~StatusIs(x, "superseded")

Cleared(k) == \A x \in Addr : x[2] = k => ~PastGrace(x)

NoneExpired(i) == \A e \in Time : e <= clock => ttl[<<i, e>>] = None

Retiring == {"promote", "promote_put"}

Expiring == {"query_expired", "expired", "ttl_rows"}

TidyInv ==
  calm =>
    /\ ~wdry
    /\ wpc = "promote" => \A k \in SupersededKeys(Due) : k \in wkeys \/ Retired(k)
    /\ wpc = "promote_put" =>
         /\ Exists(whold[1])
         /\ \A k \in SupersededKeys(Due) :
              k \in wkeys \/ k = whold[1][2] \/ Retired(k)
    /\ wpc \notin Retiring \cup {"idle"} => \A k \in SupersededKeys(Due) : Retired(k)
    /\ wpc = "archived" => \A k \in SupersededKeys(Rows) :
         k \in wkeys \/ \A x \in Addr : x[2] = k /\ PastGrace(x) => x \in wbatch
    /\ wpc \in Expiring \cup Sweeping => \A k \in SupersededKeys(Rows) : Cleared(k)
    /\ wpc \in Expiring => \A i \in Index : i < windex => NoneExpired(i)
    /\ wpc \in {"expired", "ttl_rows"} => \A e \in Time :
         e <= clock /\ ttl[<<windex, e>>] # None => \E r \in wrows : r.expires_at = e
    /\ wpc \in Sweeping => \A i \in Index : NoneExpired(i)

\* After such a run: nothing is left to retire, to delete or to repair, and a
\* further run finds nothing to collect.
SettledInv ==
  settled =>
    /\ \A k \in SupersededKeys(Due) : Retired(k)
    /\ \A k \in SupersededKeys(Rows) : Cleared(k)
    /\ \A i \in Index : NoneExpired(i)
    /\ RowsAgree
    /\ wpc # "promote_put" /\ wbatch = {}
    /\ wpc = "promote" => \A k \in wkeys : Retired(k)
    /\ wpc = "archived" => \A k \in wkeys : Cleared(k)
    /\ wpc \in {"expired", "ttl_rows"} => wrows = {} /\ wcheck = {}
    /\ wpc \in {"reconcile", "reconcile_put"} => \A x \in wfix : Current(x)
    /\ wpc = "reconcile_put" => Current(whold) /\ ~Agrees(whold)

\* Deleting vectors undoes nothing of this, nor does a step that writes neither
\* a vector nor a row.
LEMMA DeletesKeepTidy ==
  ASSUME UNCHANGED <<row, clock>>, \A x \in Addr : vec'[x] \in {vec[x], None}
  PROVE  /\ SupersededKeys(Due)' = SupersededKeys(Due)
         /\ SupersededKeys(Rows)' = SupersededKeys(Rows)
         /\ \A k : Retired(k) => Retired(k)'
         /\ \A k : Cleared(k) => Cleared(k)'
         /\ \A x \in Addr : PastGrace(x)' => PastGrace(x) /\ vec'[x] # None
  BY DEF SupersededKeys, Due, Rows, Retired, Cleared, StatusIs, PastGrace, Exists

\* Nor does a row the sweep writes: it lists no superseded key.
LEMMA RepairKeepsTidy ==
  ASSUME TypeOK, ReconcilePut
  PROVE  /\ SupersededKeys(Due)' \subseteq SupersededKeys(Due)
         /\ SupersededKeys(Rows)' \subseteq SupersededKeys(Rows)
         /\ \A k : Retired(k)' = Retired(k)
         /\ \A k : Cleared(k)' = Cleared(k)
<1>1. UNCHANGED <<vec, clock>>  BY DEF ReconcilePut
<1>2. PICK g \in Cid : \E x : row' = [row EXCEPT ![g] = RepairedRow(x)]
  BY DEF ReconcilePut, PutRow, TypeOK, WorkerTypeOK, Actual
<1>3. \A h \in Cid : row'[h] = row[h] \/ row'[h].superseded_keys = {}
  BY <1>2 DEF RepairedRow, TypeOK, StoreTypeOK
<1>4. \A k : Retired(k)' = Retired(k) /\ Cleared(k)' = Cleared(k)
  BY <1>1 DEF Retired, Cleared, StatusIs, PastGrace, Exists
<1>5. /\ SupersededKeys(Due)' \subseteq SupersededKeys(Due)
      /\ SupersededKeys(Rows)' \subseteq SupersededKeys(Rows)
  BY <1>1, <1>3 DEF SupersededKeys, Due, Rows
<1>6. QED  BY <1>4, <1>5

LEMMA TTLStill ==
  ASSUME UNCHANGED <<ttl, clock>>, NEW i
  PROVE  NoneExpired(i)' = NoneExpired(i)
  BY DEF NoneExpired

\* The vector found superseded is the only one of its key, and archived now it is
\* within its grace period.
LEMMA PromoteRetires ==
  ASSUME TypeOK, KeysApart', PromotePut
  PROVE  /\ SupersededKeys(Due)' = SupersededKeys(Due)
         /\ \E k : k = whold[1][2] /\ Retired(k)'
         /\ \A k : Retired(k) => Retired(k)'
<1> USE DEF TypeOK, StoreTypeOK, WorkerTypeOK
<1>1. PICK x \in Addr, v \in Vector : whold = <<x, v>>
  BY DEF PromotePut
<1> DEFINE u == [v EXCEPT !.status = "archived", !.archived_at = clock]
<1>2. vec' = [vec EXCEPT ![x] = u] /\ UNCHANGED <<row, clock>>
  BY <1>1 DEF PromotePut, PutVector
<1>3. u.status = "archived"  BY DEF Vector
<1>4. u # None
  <2>1. u \in Vector  BY DEF Vector, Status
  <2>2. QED  BY <2>1, StoreAssumption
<1>5. \A y \in Addr : StatusIs(y, "superseded")' => StatusIs(y, "superseded") /\ y # x
  BY <1>2, <1>3 DEF StatusIs, Exists
<1>6. \A y \in Addr : y[2] = x[2] /\ Exists(y)' => y = x
  <2>1. Exists(x)'  BY <1>2, <1>4 DEF Exists
  <2>2. PICK i \in Index, k \in Key : x = <<i, k>>  BY DEF Addr
  <2>3. ASSUME NEW j \in Index, Exists(<<j, k>>)'  PROVE <<j, k>> = x
    <3>1. Exists(<<i, k>>)'  BY <2>1, <2>2
    <3>2. j = i  BY <2>3, <3>1 DEF KeysApart
    <3>3. QED  BY <2>2, <3>2
  <2>4. ASSUME NEW y \in Addr, y[2] = x[2], Exists(y)'  PROVE y = x
    <3>1. PICK j \in Index, m \in Key : y = <<j, m>>  BY DEF Addr
    <3>2. m = k  BY <2>2, <2>4, <3>1
    <3>3. QED  BY <2>3, <2>4, <3>1, <3>2
  <2>5. QED  BY <2>4
<1>7. \A k : Retired(k) => Retired(k)'  BY <1>5 DEF Retired
<1>8. Retired(x[2])'  BY <1>5, <1>6 DEF Retired, StatusIs
<1>9. SupersededKeys(Due)' = SupersededKeys(Due)
  BY <1>2 DEF SupersededKeys, Due, Rows
<1>10. QED  BY <1>1, <1>7, <1>8, <1>9

LEMMA RunKeepsTidy ==
  ASSUME TypeOK, GraceInv, KeysApart, KeysApart', "ttl" \notin WorkerFaults,
         TidyInv, RunProceeds
  PROVE  TidyInv'
<1> USE DEF Enter, storeVars, Retiring, Expiring, Sweeping
<1>d. wdry' = wdry /\ (calm' => calm)
  BY DEF RunProceeds, ProceedWorker, PromoteFind, PromotePut, ScanArchived,
     ArchivedFind, DeleteArchived, Trip, EnterExpired, QueryExpired, ExpiredFind,
     CleanTTLRow, DeleteExpired, LeaveExpired, ScanVectors, ReconcileGet,
     ReconcilePut, LeaveReconcile
<1> SUFFICES ASSUME calm' PROVE TidyInv'
  BY DEF TidyInv
<1>c. calm /\ ~wdry /\ ~wdry'  BY <1>d DEF TidyInv
<1>w. /\ windex \in Index /\ windex \in Int /\ Index \subseteq Int
      /\ wrows \subseteq TTLRow /\ wcheck \subseteq TTLRow
      /\ ttl \in [Index \X Time -> Key \cup {None}]
  BY DEF TypeOK, StoreTypeOK, WorkerTypeOK, Index
<1>v. UNCHANGED <<vec, row, clock>> =>
        /\ SupersededKeys(Due)' = SupersededKeys(Due)
        /\ SupersededKeys(Rows)' = SupersededKeys(Rows)
        /\ \A k : Retired(k) => Retired(k)'
        /\ \A k : Cleared(k) => Cleared(k)'
        /\ \A x \in Addr : PastGrace(x)' => PastGrace(x) /\ vec'[x] # None
  BY DeletesKeepTidy
<1>1. ASSUME NEW k \in Key, PromoteFind(k)  PROVE TidyInv'
  <2>1. UNCHANGED <<vec, row, clock>> /\ wpc = "promote" /\ wkeys' = wkeys \ {k}
    BY <1>1 DEF PromoteFind, Drop
  <2>2. CASE \E x \in Find(k) : StatusIs(x, "superseded")
    <3>1. PICK x \in Find(k) : whold' = <<x, vec[x]>>
      BY <1>1, <1>c, <2>2 DEF PromoteFind
    <3>2. wpc' = "promote_put"  BY <1>1, <1>c, <2>2 DEF PromoteFind
    <3>3. Exists(x)' /\ x[2] = k  BY <2>1 DEF Find, Exists
    <3>4. QED  BY <1>c, <1>v, <2>1, <3>1, <3>2, <3>3 DEF TidyInv, Exists
  <2>3. CASE ~\E x \in Find(k) : StatusIs(x, "superseded")
    <3>1. wpc' = "promote"  BY <1>1, <2>1, <2>3 DEF PromoteFind
    <3>2. Retired(k)  BY <2>3, FindsIt DEF Retired, StatusIs
    <3>3. QED  BY <1>c, <1>v, <2>1, <3>1, <3>2 DEF TidyInv
  <2>4. QED  BY <2>2, <2>3
<1>2. CASE PromotePut
  <2>1. /\ SupersededKeys(Due)' = SupersededKeys(Due)
        /\ \E k : k = whold[1][2] /\ Retired(k)'
        /\ \A k : Retired(k) => Retired(k)'
    BY <1>2, PromoteRetires
  <2>2. wpc = "promote_put" /\ wpc' = "promote" /\ wkeys' = wkeys
    BY <1>2 DEF PromotePut
  <2>3. QED  BY <1>c, <2>1, <2>2 DEF TidyInv
<1>3. CASE ScanArchived
  BY <1>3, <1>c, <1>v DEF ScanArchived, TidyInv
<1>4. ASSUME NEW k \in Key, ArchivedFind(k)  PROVE TidyInv'
  <2>1. /\ UNCHANGED <<vec, row, clock>> /\ wpc = "archived" /\ wpc' = wpc
        /\ wkeys' = wkeys \ {k} /\ wbatch' = wbatch \cup {x \in Find(k) : PastGrace(x)}
    BY <1>4 DEF ArchivedFind, Drop
  <2>2. \A x \in Addr : x[2] = k /\ PastGrace(x) => x \in wbatch'
    BY <2>1, FindsIt DEF PastGrace, StatusIs
  <2>3. QED  BY <1>c, <1>v, <2>1, <2>2 DEF TidyInv
<1>5. ASSUME NEW i \in Index, DeleteArchived(i)  PROVE TidyInv'
  <2>1. /\ UNCHANGED <<row, clock>> /\ wpc = "archived" /\ wpc' = wpc /\ wkeys' = wkeys
    BY <1>5 DEF DeleteArchived
  <2>y. PICK ys \in SUBSET Batch(i) :
          /\ vec' = [x \in Addr |-> IF x \in ys THEN None ELSE vec[x]]
          /\ wbatch' = wbatch \ ys
    BY <1>5, <1>c, SomeGoes DEF DeleteArchived, DeleteVectors
  <2>2. /\ SupersededKeys(Due)' = SupersededKeys(Due)
        /\ SupersededKeys(Rows)' = SupersededKeys(Rows)
        /\ \A k : Retired(k) => Retired(k)'
        /\ \A x \in Addr : PastGrace(x)' => PastGrace(x) /\ vec'[x] # None
    BY <2>1, <2>y, DeletesKeepTidy
  <2>3. \A x \in Addr : PastGrace(x)' => x \notin ys  BY <2>y, <2>2
  <2>4. QED  BY <1>c, <2>1, <2>y, <2>2, <2>3 DEF TidyInv
<1>6. CASE EnterExpired
  <2>1. /\ UNCHANGED <<vec, row, clock>> /\ wpc = "archived" /\ wpc' = "query_expired"
        /\ wkeys = {} /\ wbatch = {} /\ windex' = 1
    BY <1>6 DEF EnterExpired
  <2>2. \A k \in SupersededKeys(Rows) : Cleared(k)
    BY <1>c, <2>1 DEF TidyInv, Cleared
  <2>3. \A i \in Index : ~(i < 1)  BY DEF Index
  <2>4. QED  BY <1>c, <1>v, <2>1, <2>2, <2>3 DEF TidyInv
<1>7. CASE QueryExpired
  <2>1. /\ UNCHANGED <<vec, row, ttl, clock, windex>> /\ wpc = "query_expired"
        /\ wpc' = "expired" /\ wrows' = ExpiredRows(windex)
    BY <1>7 DEF QueryExpired
  <2>2. ASSUME NEW e \in Time, e <= clock, ttl[<<windex, e>>] # None
        PROVE  \E r \in ExpiredRows(windex) : r.expires_at = e
    <3> DEFINE r == [expires_at |-> e, key |-> ttl[<<windex, e>>]]
    <3>1. r \in TTLRow  BY <1>w, <2>2 DEF TTLRow
    <3>2. r \in ExpiredRows(windex) /\ r.expires_at = e
      BY <2>2, <3>1 DEF ExpiredRows
    <3>3. QED  BY <3>2
  <2>3. QED  BY <1>c, <1>v, <2>1, <2>2, TTLStill DEF TidyInv
<1>8. ASSUME NEW r \in wrows \cup wcheck, ExpiredFind(r) \/ CleanTTLRow(r)
      PROVE  TidyInv'
  <2>1. /\ UNCHANGED <<vec, row, clock, windex>> /\ wpc' = wpc
        /\ wpc \in {"expired", "ttl_rows"}
    BY <1>8 DEF ExpiredFind, CleanTTLRow
  <2>2. r.key \in Key /\ r.expires_at \in Time  BY <1>w DEF TTLRow
  <2>3. ttl' = ttl \/ ttl' = [ttl EXCEPT ![<<windex, r.expires_at>>] = None]
    BY <1>8 DEF ExpiredFind, CleanTTLRow, DeleteTTLRow, PutTTLRow
  <2>4. \A i \in Index : NoneExpired(i) => NoneExpired(i)'
    BY <1>w, <2>1, <2>2, <2>3 DEF NoneExpired
  <2>5. ASSUME NEW e \in Time, e <= clock, ttl'[<<windex, e>>] # None
        PROVE  \E s \in wrows' : s.expires_at = e
    <3>1. ttl[<<windex, e>>] # None  BY <1>w, <2>2, <2>3, <2>5
    <3>2. PICK s \in wrows : s.expires_at = e
      BY <1>c, <2>1, <2>5, <3>1 DEF TidyInv
    <3>3. CASE ExpiredFind(r)
      BY <3>2, <3>3 DEF ExpiredFind
    <3>4. CASE CleanTTLRow(r)
      <4>1. ttl' = [ttl EXCEPT ![<<windex, r.expires_at>>] = None]
        BY <1>c, <3>4 DEF CleanTTLRow, DeleteTTLRow, PutTTLRow
      <4>2. s # r  BY <1>w, <2>2, <2>5, <3>2, <4>1
      <4>3. QED  BY <3>2, <3>4, <4>2 DEF CleanTTLRow
    <3>5. QED  BY <1>8, <3>3, <3>4
  <2>6. QED  BY <1>c, <1>v, <2>1, <2>4, <2>5 DEF TidyInv
<1>9. CASE DeleteExpired
  <2>1. /\ UNCHANGED <<row, ttl, clock, windex, wrows>> /\ wpc = "expired"
        /\ wpc' \in {"expired", "ttl_rows"}
        /\ \A x \in Addr : vec'[x] \in {vec[x], None}
    BY <1>9, <1>c, SomeGoes DEF DeleteExpired, DeleteVectors
  <2>2. /\ SupersededKeys(Due)' = SupersededKeys(Due)
        /\ SupersededKeys(Rows)' = SupersededKeys(Rows)
        /\ \A k : Retired(k) => Retired(k)'
        /\ \A k : Cleared(k) => Cleared(k)'
    BY <2>1, DeletesKeepTidy
  <2>3. QED  BY <1>c, <2>1, <2>2, TTLStill DEF TidyInv
<1>10. CASE LeaveExpired
  <2>1. UNCHANGED <<vec, row, ttl, clock>> /\ wpc = "ttl_rows" /\ wrows = {}
    BY <1>10 DEF LeaveExpired
  <2>2. NoneExpired(windex)  BY <1>c, <2>1 DEF TidyInv, NoneExpired
  <2>3. \A i \in Index : i <= windex => NoneExpired(i)
    BY <1>c, <1>w, <2>1, <2>2 DEF TidyInv
  <2>4. CASE windex < NumIndexes
    <3>1. wpc' = "query_expired" /\ windex' = windex + 1
      BY <1>10, <2>4 DEF LeaveExpired, NextIndex
    <3>2. \A i \in Index : i < windex + 1 => i <= windex  BY <1>w
    <3>3. QED  BY <1>c, <1>v, <2>1, <2>3, <3>1, <3>2, TTLStill DEF TidyInv
  <2>5. CASE ~(windex < NumIndexes)
    <3>1. wpc' = "scan"  BY <1>10, <2>5 DEF LeaveExpired, NextIndex
    <3>2. \A i \in Index : i <= windex
      BY <1>w, <2>5, StoreAssumption DEF Index
    <3>3. QED  BY <1>c, <1>v, <2>1, <2>3, <3>1, <3>2, TTLStill DEF TidyInv
  <2>6. QED  BY <2>4, <2>5
<1>11. CASE ScanVectors \/ LeaveReconcile \/ \E x \in wfix : ReconcileGet(x)
  <2>1. /\ UNCHANGED <<vec, row, ttl, clock>> /\ wpc \in {"scan", "reconcile"}
        /\ wpc' \in Sweeping \cup {"idle"}
    BY <1>11 DEF ScanVectors, LeaveReconcile, NextIndex, ReconcileGet
  <2>2. QED  BY <1>c, <1>v, <2>1, TTLStill DEF TidyInv
<1>12. CASE ReconcilePut
  <2>1. /\ SupersededKeys(Due)' \subseteq SupersededKeys(Due)
        /\ SupersededKeys(Rows)' \subseteq SupersededKeys(Rows)
        /\ \A k : Retired(k)' = Retired(k)
        /\ \A k : Cleared(k)' = Cleared(k)
    BY <1>12, RepairKeepsTidy
  <2>2. UNCHANGED <<ttl, clock>> /\ wpc = "reconcile_put" /\ wpc' = "reconcile"
    BY <1>12 DEF ReconcilePut
  <2>3. QED  BY <1>c, <2>1, <2>2, TTLStill DEF TidyInv
<1>13. QED
  BY <1>1, <1>2, <1>3, <1>4, <1>5, <1>6, <1>7, <1>8, <1>9, <1>10, <1>11, <1>12
  DEF RunProceeds, ProceedWorker

LEMMA StepKeepsTidy ==
  ASSUME TypeOK, GraceInv, KeysApart, KeysApart', "ttl" \notin WorkerFaults,
         TidyInv, [Next]_vars
  PROVE  TidyInv'
<1>1. CASE Tick
  BY <1>1 DEF Tick, workerVars, TidyInv, Retiring, Expiring, Sweeping
<1>2. CASE UNCHANGED vars
  <2>1. UNCHANGED <<vec, row, ttl, clock, workerVars, calm>>
    BY <1>2 DEF vars, storeVars, histVars
  <2>2. /\ SupersededKeys(Due)' = SupersededKeys(Due)
        /\ SupersededKeys(Rows)' = SupersededKeys(Rows)
        /\ \A k : Retired(k) => Retired(k)'
        /\ \A k : Cleared(k) => Cleared(k)'
        /\ \A x \in Addr : PastGrace(x)' => PastGrace(x) /\ vec'[x] # None
    BY <2>1, DeletesKeepTidy
  <2>3. QED  BY <2>1, <2>2, TTLStill DEF workerVars, TidyInv, Exists
<1>3. CASE RunIsCut \/ \E p \in Proc : Client(p)
  BY <1>3 DEF RunIsCut, Client, TidyInv
<1>4. CASE RunBegins
  <2>1. /\ UNCHANGED <<vec, row, clock>> /\ wpc' = "promote"
        /\ wkeys' = SupersededKeys(Due) /\ calm' = ~wdry'
    BY <1>4 DEF RunBegins, StartRun, Enter
  <2>2. SupersededKeys(Due)' = SupersededKeys(Due)  BY <2>1, DeletesKeepTidy
  <2>3. QED  BY <2>1, <2>2 DEF TidyInv, Retiring, Expiring, Sweeping
<1>5. CASE RunProceeds
  BY <1>5, RunKeepsTidy
<1>6. QED  BY <1>1, <1>2, <1>3, <1>4, <1>5 DEF Next, Worker

-------------------------------------------------------------------------------
\* Further runs.

\* In a settled vault a run's steps write no vector and no TTL row, and only the
\* sweep writes a row.
LEMMA SettledIsStill ==
  ASSUME TypeOK, GraceInv, SettledInv, settled, Worker
  PROVE  UNCHANGED <<vec, ttl, clock>> /\ (ReconcilePut \/ UNCHANGED row)
<1> USE DEF Enter, storeVars
<1>1. CASE RunBegins \/ RunIsCut
  BY <1>1 DEF RunBegins, RunIsCut, StartRun, CutOff
<1>2. CASE RunProceeds
  <2>1. ASSUME NEW i \in Index, DeleteArchived(i) PROVE FALSE
    BY <2>1 DEF DeleteArchived, Batch, SettledInv
  <2>2. ASSUME NEW r \in wrows \cup wcheck, ExpiredFind(r) \/ CleanTTLRow(r) PROVE FALSE
    BY <2>2 DEF ExpiredFind, CleanTTLRow, SettledInv
  <2>3. ASSUME DeleteExpired PROVE UNCHANGED <<vec, ttl, row, clock>>
    <3>1. Batch(windex) = {}  BY DEF Batch, SettledInv
    <3>2. vec \in [Addr -> Vector \cup {None}]  BY DEF TypeOK, StoreTypeOK
    <3>3. QED  BY <2>3, <3>1, <3>2, SomeGoes DEF DeleteExpired, DeleteVectors
  <2>4. ~PromotePut  BY DEF PromotePut, SettledInv
  <2>5. QED
    BY <1>2, <2>1, <2>2, <2>3, <2>4 DEF RunProceeds, ProceedWorker, PromoteFind,
       ScanArchived, ArchivedFind, Trip, EnterExpired, QueryExpired, LeaveExpired,
       ScanVectors, ReconcileGet, ReconcilePut, LeaveReconcile
<1>3. QED  BY <1>1, <1>2 DEF Worker

\* What such a run finds in each of its phases.
LEMMA SettledRunFindsNothing ==
  ASSUME TypeOK, GraceInv, SettledInv, settled, Worker, UNCHANGED <<vec, row, ttl, clock>>
  PROVE  /\ wpc' # "promote_put" /\ wbatch' = {}
         /\ wpc' = "promote" => \A k \in wkeys' : Retired(k)
         /\ wpc' = "archived" => \A k \in wkeys' : Cleared(k)
         /\ wpc' \in {"expired", "ttl_rows"} => wrows' = {} /\ wcheck' = {}
<1> USE DEF Enter, storeVars, SettledInv
<1>1. CASE RunBegins
  BY <1>1 DEF RunBegins, StartRun
<1>2. CASE RunIsCut
  BY <1>2 DEF RunIsCut, CutOff
<1>d. ASSUME NEW i, DeleteBatch(i)  PROVE wbatch' = {}
  BY <1>d, SomeGoes
<1>3. ASSUME NEW k \in Key, PromoteFind(k)  PROVE wpc' = "promote" /\ wkeys' = wkeys \ {k}
  <2>1. \A x \in Find(k) : ~StatusIs(x, "superseded")
    BY <1>3 DEF PromoteFind, Retired, Find
  <2>2. QED  BY <1>3, <2>1 DEF PromoteFind, Drop
<1>4. ASSUME NEW k \in Key, ArchivedFind(k)
      PROVE  wpc' = "archived" /\ wkeys' = wkeys \ {k} /\ wbatch' = {}
  <2>1. \A x \in Find(k) : ~PastGrace(x)
    BY <1>4 DEF ArchivedFind, Cleared, Find
  <2>2. QED  BY <1>4, <2>1 DEF ArchivedFind, Drop
<1>5. ASSUME QueryExpired  PROVE wrows' = {} /\ wcheck' = {} /\ wpc' = "expired"
  <2>1. windex \in Index  BY DEF TypeOK, WorkerTypeOK
  <2>2. NoneExpired(windex)  BY <2>1
  <2>3. \A r \in TTLRow : r.expires_at \in Time /\ r.key # None
    BY StoreAssumption DEF TTLRow
  <2>4. ExpiredRows(windex) = {}  BY <2>2, <2>3 DEF ExpiredRows, NoneExpired
  <2>5. QED  BY <1>5, <2>4 DEF QueryExpired
<1>6. CASE RunProceeds
  BY <1>3, <1>4, <1>5, <1>6, <1>d DEF RunProceeds, ProceedWorker, PromoteFind, PromotePut,
     ScanArchived, ArchivedFind, DeleteArchived, Trip, EnterExpired,
     QueryExpired, ExpiredFind, CleanTTLRow, DeleteExpired, LeaveExpired, NextIndex,
     ScanVectors, ReconcileGet, ReconcilePut, LeaveReconcile
<1>7. QED  BY <1>1, <1>2, <1>6 DEF Worker

LEMMA SettledRunStaysCurrent ==
  ASSUME TypeOK, GraceInv, SettledInv, settled, Worker, UNCHANGED <<vec, row, ttl, clock>>
  PROVE  /\ wpc' \in {"reconcile", "reconcile_put"} => \A x \in wfix' : Current(x)'
         /\ wpc' = "reconcile_put" => Current(whold)' /\ ~Agrees(whold)'
<1> USE DEF Enter, storeVars, SettledInv
<1>1. CASE ScanVectors
  <2>1. /\ UNCHANGED <<vec, row, windex>> /\ wpc = "scan" /\ wpc' = "reconcile"
        /\ \A x \in wfix' : Current(x)
    BY <1>1, ScanIsCurrent
  <2>2. QED  BY <2>1, CurrentStill
<1>2. ASSUME NEW x \in wfix, ReconcileGet(x)
      PROVE  /\ \A y \in wfix' : Current(y)'
             /\ wpc' = "reconcile_put" => Current(whold)' /\ ~Agrees(whold)'
  <2>1. /\ UNCHANGED windex /\ wpc = "reconcile" /\ wfix' \subseteq wfix
        /\ wpc' = "reconcile_put" => whold' = x /\ ~Agrees(x)
    BY <1>2 DEF ReconcileGet
  <2>2. \A y : Current(y)' = Current(y)  BY <2>1, CurrentStill
  <2>3. \A y : Current(y) => Current(y)'  BY <2>2
  <2>4. wpc' = "reconcile_put" => Current(whold)'
    BY <2>1, AgreesStill DEF Current
  <2>5. wpc' = "reconcile_put" => ~Agrees(whold)'  BY <2>1 DEF Agrees
  <2>6. QED  BY <2>1, <2>3, <2>4, <2>5
<1>3. CASE wpc' \notin {"reconcile", "reconcile_put"}
  BY <1>3
<1>4. QED
  <2>1. CASE ReconcilePut
    <3>1. /\ UNCHANGED windex /\ wpc' = "reconcile" /\ wfix' \subseteq wfix
          /\ wpc = "reconcile_put"
      BY <2>1 DEF ReconcilePut
    <3>2. \A y : Current(y)' = Current(y)  BY <3>1, CurrentStill
    <3>3. QED  BY <3>1, <3>2
  <2>2. QED
    BY <1>1, <1>2, <1>3, <2>1 DEF Worker, RunBegins, RunIsCut, StartRun, CutOff,
       RunProceeds, ProceedWorker, PromoteFind, PromotePut, ScanArchived,
       ArchivedFind, DeleteArchived, Trip, EnterExpired, QueryExpired, ExpiredFind,
       CleanTTLRow, DeleteExpired, LeaveExpired, NextIndex, LeaveReconcile

LEMMA WorkerKeepsSettled ==
  ASSUME TypeOK, GraceInv, GroupsApart, SettledInv, settled, Worker
  PROVE  SettledInv'
<1>1. UNCHANGED <<vec, ttl, clock>> /\ (ReconcilePut \/ UNCHANGED row)
  BY SettledIsStill
<1>2. \A i : NoneExpired(i)' = NoneExpired(i)  BY <1>1, TTLStill
<1>3. CASE UNCHANGED row
  <2>1. /\ wpc' # "promote_put" /\ wbatch' = {}
        /\ wpc' = "promote" => \A k \in wkeys' : Retired(k)
        /\ wpc' = "archived" => \A k \in wkeys' : Cleared(k)
        /\ wpc' \in {"expired", "ttl_rows"} => wrows' = {} /\ wcheck' = {}
    BY <1>1, <1>3, SettledRunFindsNothing
  <2>2. /\ wpc' \in {"reconcile", "reconcile_put"} => \A x \in wfix' : Current(x)'
        /\ wpc' = "reconcile_put" => Current(whold)' /\ ~Agrees(whold)'
    BY <1>1, <1>3, SettledRunStaysCurrent
  <2>3. /\ SupersededKeys(Due)' = SupersededKeys(Due)
        /\ SupersededKeys(Rows)' = SupersededKeys(Rows)
        /\ \A k : Retired(k) => Retired(k)'
        /\ \A k : Cleared(k) => Cleared(k)'
    BY <1>1, <1>3, DeletesKeepTidy
  <2>4. RowsAgree'  BY <1>1, <1>3, AgreesStill DEF SettledInv, RowsAgree
  <2>5. QED  BY <1>2, <2>1, <2>2, <2>3, <2>4 DEF SettledInv
<1>4. CASE ReconcilePut
  <2> PICK w, y : windex = w /\ whold = y
    OBVIOUS
  <2>1. /\ wpc = "reconcile_put" /\ wpc' = "reconcile" /\ wfix' = wfix \ {y}
        /\ wbatch' = wbatch /\ Current(whold)
    BY <1>4 DEF ReconcilePut, SettledInv, Enter
  <2>2. /\ UNCHANGED <<vec, windex>> /\ \A k, g : Members(k, g)' = Members(k, g)
        /\ \A k, g : Top(k, g)' = Top(k, g)
        /\ RowAgrees(w, y.cid)'
        /\ \A i \in Index, g \in Cid : i # w \/ g # y.cid =>
             (Members(i, g) # {} /\ RowAgrees(i, g) => RowAgrees(i, g)')
    BY <1>4, <2>1, RepairAgrees
  <2>3. RowsAgree'  BY <2>2 DEF SettledInv, RowsAgree
  <2>4. /\ SupersededKeys(Due)' \subseteq SupersededKeys(Due)
        /\ SupersededKeys(Rows)' \subseteq SupersededKeys(Rows)
        /\ \A k : Retired(k)' = Retired(k)
        /\ \A k : Cleared(k)' = Cleared(k)
    BY <1>4, RepairKeepsTidy
  <2>5. \A x : Current(x)' = Current(x)  BY <2>2 DEF Current
  <2>6. QED  BY <1>2, <2>1, <2>3, <2>4, <2>5 DEF SettledInv
<1>5. QED  BY <1>1, <1>3, <1>4

\* A calm run that ends leaves a settled vault.
LEMMA CompletionSettles ==
  ASSUME TypeOK, GraceInv, GroupsApart, SweepInv, TidyInv, RunProceeds,
         calm, LeaveReconcile, wpc' = "idle"
  PROVE  SettledInv'
<1>1. /\ UNCHANGED <<vec, row, ttl, clock>> /\ wpc = "reconcile" /\ wbatch' = wbatch
  BY DEF LeaveReconcile, storeVars
<1>2. wbatch = {}  BY <1>1 DEF GraceInv
<1>3. calm'  BY <1>1 DEF RunProceeds, Trip
<1>4. SweepInv'  BY RunKeepsSweep
<1>5. RowsAgree'  BY <1>3, <1>4 DEF SweepInv
<1>6. /\ \A k \in SupersededKeys(Due) : Retired(k)
      /\ \A k \in SupersededKeys(Rows) : Cleared(k)
      /\ \A i \in Index : NoneExpired(i)
  BY <1>1 DEF TidyInv, Retiring, Sweeping
<1>7. /\ SupersededKeys(Due)' = SupersededKeys(Due)
      /\ SupersededKeys(Rows)' = SupersededKeys(Rows)
      /\ \A k : Retired(k) => Retired(k)'
      /\ \A k : Cleared(k) => Cleared(k)'
  BY <1>1, DeletesKeepTidy
<1>8. QED  BY <1>1, <1>2, <1>5, <1>6, <1>7, TTLStill DEF SettledInv

LEMMA StepKeepsSettled ==
  ASSUME TypeOK, GraceInv, GroupsApart, SweepInv, TidyInv, SettledInv, [Next]_vars
  PROVE  SettledInv'
<1>1. CASE Tick \/ RunIsCut \/ \E p \in Proc : Client(p)
  BY <1>1 DEF Tick, RunIsCut, Client, SettledInv
<1>2. CASE UNCHANGED vars
  <2>1. UNCHANGED <<vec, row, ttl, clock, workerVars, settled>>
    BY <1>2 DEF vars, storeVars, histVars
  <2>2. /\ SupersededKeys(Due)' = SupersededKeys(Due)
        /\ SupersededKeys(Rows)' = SupersededKeys(Rows)
        /\ \A k : Retired(k) => Retired(k)'
        /\ \A k : Cleared(k) => Cleared(k)'
    BY <2>1, DeletesKeepTidy
  <2>3. RowsAgree' = RowsAgree  BY <2>1, AgreesStill DEF RowsAgree
  <2>4. /\ \A x : Current(x)' = Current(x)
        /\ Current(whold)' = Current(whold) /\ Agrees(whold)' = Agrees(whold)
    BY <2>1, AgreesStill DEF workerVars, Current, Agrees
  <2>5. QED  BY <2>1, <2>2, <2>3, <2>4, TTLStill DEF workerVars, SettledInv
<1>3. CASE RunBegins \/ RunProceeds
  <2>1. CASE settled
    BY <1>3, <2>1, WorkerKeepsSettled DEF Worker
  <2>2. CASE ~settled /\ settled'
    BY <1>3, <2>2, CompletionSettles DEF RunBegins, RunProceeds
  <2>3. CASE ~settled'
    BY <2>3 DEF SettledInv
  <2>4. QED  BY <2>1, <2>2, <2>3
<1>4. QED  BY <1>1, <1>2, <1>3 DEF Next, Worker

\* A row that changes now changes between two vectors of equal rank.
LEMMA SettledRowStep ==
  ASSUME TypeOK, GraceInv, SettledInv, settled, Worker, NEW g \in Cid, row'[g] # row[g]
  PROVE  /\ row[g].latest_key # row'[g].latest_key
         /\ \E i \in Index : {row[g].latest_key, row'[g].latest_key}
                               \subseteq Highest(i, Members(i, g))
<1>1. ReconcilePut  BY SettledIsStill
<1>2. /\ whold \in Actual /\ windex \in Index /\ Current(whold) /\ ~Agrees(whold)
      /\ row' = [row EXCEPT ![whold.cid] = RepairedRow(whold)]
  BY <1>1 DEF ReconcilePut, PutRow, TypeOK, WorkerTypeOK, SettledInv
<1>3. g = whold.cid /\ row'[g].latest_key = whold.key
  BY <1>2 DEF RepairedRow, TypeOK, StoreTypeOK
<1>4. whold.key \in Top(windex, g) /\ whold.status = vec[<<windex, whold.key>>].status
  BY <1>2, <1>3 DEF Current
<1>5. Members(windex, g) # {}  BY <1>4 DEF Top, Highest
<1>6. RowAgrees(windex, g)  BY <1>2, <1>5 DEF SettledInv, RowsAgree
<1>7. PICK k \in Top(windex, g) : /\ row[g].latest_key = k
                                  /\ row[g].status = vec[<<windex, k>>].status
  BY <1>6 DEF RowAgrees
<1>8. k # whold.key  BY <1>2, <1>3, <1>4, <1>6, <1>7 DEF Agrees, RowAgrees
<1>9. QED  BY <1>2, <1>3, <1>4, <1>7, <1>8 DEF Top

\* The worker is idempotent: where no key and no group is in two indexes and the
\* deletes of TTL rows succeed, after a run beside which no caller moved and until
\* a caller or the day moves on, further runs delete, retire and clean nothing, be
\* they dry or cut off, and rewrite a row only between vectors of equal rank.
THEOREM RunsAreIdempotent ==
  ASSUME "ttl" \notin WorkerFaults
  PROVE  Spec /\ []KeysApart /\ []GroupsApart => RunIsIdempotent
<1>1. Init => SweepInv /\ TidyInv /\ SettledInv
  BY DEF Init, SweepInv, TidyInv, SettledInv
<1>2. TypeOK /\ GraceInv /\ KeysApart /\ KeysApart' /\ TidyInv /\ [Next]_vars => TidyInv'
  BY StepKeepsTidy
<1>3. TypeOK /\ GraceInv /\ GroupsApart /\ SweepInv /\ TidyInv /\ SettledInv
        /\ [Next]_vars => SettledInv'
  BY StepKeepsSettled
<1>4. TypeOK /\ GraceInv /\ SettledInv /\ [Next]_vars =>
        [settled =>
           /\ Worker => UNCHANGED <<vec, ttl>>
           /\ \A g \in Cid : Worker /\ row'[g] # row[g] =>
                /\ row[g].latest_key # row'[g].latest_key
                /\ \E i \in Index : {row[g].latest_key, row'[g].latest_key}
                                     \subseteq Highest(i, Members(i, g))]_vars
  BY SettledIsStill, SettledRowStep
<1>5. QED
  BY <1>1, <1>2, <1>3, <1>4, StepKeepsSweep, TypeCorrect, GraceInvariant, PTL
  DEF Spec, RunIsIdempotent

-------------------------------------------------------------------------------
LEMMA OneIndexKeepsGroupsApart == NumIndexes = 1 => GroupsApart
  BY DEF GroupsApart, Index

\* While only one index (the shared one) is in use, the conditions on keys and
\* groups hold by themselves.
THEOREM OneIndexIsEnough ==
  ASSUME NumIndexes = 1
  PROVE  Spec => /\ ExpiryDeletesOnlyExpired /\ RowOutlivesItsMemory
                 /\ []CalmRunRepairs
<1>1. KeysApart /\ GroupsApart
  BY OneIndexKeepsApart, OneIndexKeepsGroupsApart
<1>2. QED
  BY <1>1, ExpiryHonoured, RowsOutlive, CalmRunsRepair, PTL

-------------------------------------------------------------------------------
\* The newest version of a group.

\* Newest in terms of the versions of the candidates alone.
NewestOf(keys) ==
  LET vs == {k.version : k \in keys} IN
  IF vs = {} THEN 0 ELSE CHOOSE v \in vs : \A u \in vs : u <= v

\* It bounds the versions and, if there are any, is one of them.
LEMMA NewestOfIs ==
  ASSUME NEW keys \in SUBSET Key
  PROVE  /\ NewestOf(keys) \in 0..MaxVersion
         /\ \A k \in keys : k.version <= NewestOf(keys)
         /\ keys # {} => \E k \in keys : k.version = NewestOf(keys)
<1> DEFINE vs == {k.version : k \in keys}
<1>m. MaxVersion \in Nat  BY StoreAssumption
<1>1. vs \subseteq 1..MaxVersion  BY DEF Key, Version
<1>2. CASE vs = {}
  BY <1>m, <1>2 DEF NewestOf
<1>3. CASE vs # {}
  <2>1. \E v \in vs : \A u \in vs : u <= v  BY <1>m, <1>1, <1>3, HasGreatest
  <2>2. NewestOf(keys) = CHOOSE v \in vs : \A u \in vs : u <= v  BY <1>3 DEF NewestOf
  <2>3. NewestOf(keys) \in vs /\ \A u \in vs : u <= NewestOf(keys)
    BY <2>1, <2>2
  <2>4. QED  BY <1>1, <2>3
<1>4. QED  BY <1>2, <1>3

\* Candidates that go below the newest version leave it as it is.
LEMMA NewestOfLess ==
  ASSUME NEW keys \in SUBSET Key, NEW fewer \in SUBSET keys,
         \A k \in keys \ fewer : k.version < NewestOf(keys)
  PROVE  NewestOf(fewer) = NewestOf(keys)
<1>1. /\ NewestOf(keys) \in Int /\ NewestOf(fewer) \in Int
      /\ \A k \in keys : k.version <= NewestOf(keys)
      /\ keys # {} => \E k \in keys : k.version = NewestOf(keys)
      /\ \A k \in fewer : k.version <= NewestOf(fewer)
      /\ fewer # {} => \E k \in fewer : k.version = NewestOf(fewer)
  BY NewestOfIs
<1>2. CASE keys = {}
  BY <1>2
<1>3. CASE keys # {}
  <2>1. PICK k \in keys : k.version = NewestOf(keys)  BY <1>1, <1>3
  <2>2. k \in fewer  BY <1>1, <2>1
  <2>3. QED  BY <1>1, <2>1, <2>2
<1>4. QED  BY <1>2, <1>3

\* One that comes at most one above it moves it by one or not at all.
LEMMA NewestOfMore ==
  ASSUME NEW keys \in SUBSET Key, NEW k \in Key, k.version <= NewestOf(keys) + 1
  PROVE  /\ k.version <= NewestOf(keys \cup {k})
         /\ \/ NewestOf(keys \cup {k}) = NewestOf(keys)
            \/ NewestOf(keys \cup {k}) = NewestOf(keys) + 1
<1> DEFINE more == keys \cup {k}
<1>1. /\ NewestOf(keys) \in Int /\ NewestOf(more) \in Int /\ k.version \in Int
      /\ NewestOf(keys) >= 0 /\ NewestOf(more) >= 0 /\ k.version >= 1
      /\ \A j \in keys : j.version <= NewestOf(keys)
      /\ keys # {} => \E j \in keys : j.version = NewestOf(keys)
      /\ \A j \in more : j.version <= NewestOf(more)
      /\ more # {} => \E j \in more : j.version = NewestOf(more)
  BY NewestOfIs DEF Key, Version
<1>2. PICK j \in more : j.version = NewestOf(more)  BY <1>1
<1>3. NewestOf(keys) <= NewestOf(more)
  <2>1. CASE keys = {}
    <3>1. NewestOf(keys) = 0  BY <2>1 DEF NewestOf
    <3>2. QED  BY <1>1, <3>1
  <2>2. CASE keys # {}
    BY <1>1, <2>2
  <2>3. QED  BY <2>1, <2>2
<1>4. CASE j = k
  BY <1>1, <1>2, <1>3, <1>4
<1>5. CASE j # k
  <2>1. j \in keys  BY <1>5
  <2>2. NewestOf(more) <= NewestOf(keys)  BY <1>1, <1>2, <2>1
  <2>3. NewestOf(more) = NewestOf(keys)  BY <1>1, <1>3, <2>2
  <2>4. k.version <= NewestOf(more)  BY <1>1
  <2>5. QED  BY <2>3, <2>4
<1>6. QED  BY <1>4, <1>5

LEMMA NewestIsOf == \A i, g : Newest(i, g) = NewestOf(Candidates(i, g))
  BY DEF Newest, NewestOf

LEMMA NewestIsOfNext == \A i, g : Newest(i, g)' = NewestOf(Candidates(i, g)')
  BY DEF Newest, NewestOf

LEMMA CandidatesAreKeys ==
  \A i, g : Candidates(i, g) \subseteq Key /\ Candidates(i, g)' \subseteq Key
  BY DEF Candidates

-------------------------------------------------------------------------------
\* The invariant.

\* Nothing expires: no vector has an expiry, no caller sets one, no TTL row is
\* written and so the worker's expiry path finds nothing.
Perpetual ==
  /\ \A x \in Addr : Exists(x) => vec[x].expires_at = NoExpiry
  /\ \A p \in Proc : /\ loc[p].expires_at = NoExpiry
                     /\ loc[p].old # None => loc[p].old.expires_at = NoExpiry
  /\ wpc = "promote_put" => whold[2].expires_at = NoExpiry
  /\ \A y \in Index \X Time : ttl[y] = None
  /\ wrows = {} /\ wcheck = {}

\* A vector out of use is older than what a reader of its group is given.
Ranked ==
  \A x \in Addr, g \in Cid : Exists(x) /\ vec[x].cid = g =>
    /\ x[2].version <= Newest(x[1], g)
    /\ vec[x].status # "active" => x[2].version < Newest(x[1], g)

\* A caller is about to write the next version of what is there, or to retire a
\* vector when its successor has been written.
CallerRanked(p) ==
  /\ pc[p] \notin {"archive_put", "archive_row", "archive_upsert",
                   "purge_vectors", "purge_row", "ttl"}
  /\ pc[p] = "vector" /\ loc[p].old = None => loc[p].key.version = 1
  /\ \A i \in Index, g \in Cid : loc[p].idx = i /\ loc[p].cid = g =>
       /\ pc[p] = "vector" /\ loc[p].old # None =>
            /\ loc[p].old.cid = g /\ loc[p].key.version = loc[p].sup.version + 1
            /\ loc[p].sup.version <= Newest(i, g)
       /\ pc[p] = "rewrite" =>
            loc[p].old.cid = g /\ loc[p].sup.version < Newest(i, g)

\* So are the vectors the worker is about to retire or to delete.
WorkerRanked ==
  /\ \A x \in Addr, v \in Vector : wpc = "promote_put" /\ whold = <<x, v>> =>
       x[2].version < Newest(x[1], v.cid)
  /\ \A x \in wbatch : Exists(x)
  /\ \A x \in wbatch, g \in Cid : vec[x].cid = g => x[2].version < Newest(x[1], g)

RegInv == Perpetual /\ Ranked /\ (\A p \in Proc : CallerRanked(p)) /\ WorkerRanked

\* No key changes its group.
KeysKeepTheirGroup ==
  \A x \in Addr : Exists(x) /\ Exists(x)' => vec[x].cid = vec'[x].cid

-------------------------------------------------------------------------------
\* What the writes to the vector indexes do to the newest versions.

Forever == \A x \in Addr : Exists(x) => vec[x].expires_at = NoExpiry

Live(i, g) == {k \in Key : StatusIs(<<i, k>>, "active") /\ vec[<<i, k>>].cid = g}

Kept == \A i \in Index, g \in Cid : Newest(i, g)' = Newest(i, g)

Rises == \A i \in Index, g \in Cid : Newest(i, g)' >= Newest(i, g)

\* One group of one index moves to the next version.
OneUp ==
  \E i \in Index, g \in Cid :
    /\ Newest(i, g)' = Newest(i, g) + 1
    /\ \A j \in Index, h \in Cid : j # i \/ h # g => Newest(j, h)' = Newest(j, h)

LEMMA CandidatesLive ==
  ASSUME StoreTypeOK, Forever
  PROVE  \A i \in Index, g \in Cid : Candidates(i, g) = Live(i, g)
<1>1. clock < NoExpiry /\ clock \in Int
  BY StoreAssumption DEF StoreTypeOK, Time, NoExpiry
<1>2. ASSUME NEW i \in Index, NEW g \in Cid, NEW k \in Key
      PROVE  k \in Candidates(i, g) <=> k \in Live(i, g)
  <2>1. Exists(<<i, k>>) => vec[<<i, k>>].expires_at > clock
    BY <1>1 DEF Forever, Addr
  <2>2. QED  BY <2>1 DEF Candidates, Live, StatusIs, Exists
<1>3. QED  BY <1>2 DEF Candidates, Live

LEMMA CandidatesLiveNext ==
  ASSUME StoreTypeOK', Forever'
  PROVE  \A i \in Index, g \in Cid : Candidates(i, g)' = Live(i, g)'
<1>1. clock' < NoExpiry /\ clock' \in Int
  BY StoreAssumption DEF StoreTypeOK, Time, NoExpiry
<1>2. ASSUME NEW i \in Index, NEW g \in Cid, NEW k \in Key
      PROVE  k \in Candidates(i, g)' <=> k \in Live(i, g)'
  <2>1. Exists(<<i, k>>)' => vec'[<<i, k>>].expires_at > clock'
    BY <1>1 DEF Forever, Addr
  <2>2. QED  BY <2>1 DEF Candidates, Live, StatusIs, Exists
<1>3. QED  BY <1>2 DEF Candidates, Live

LEMMA NewestTyped ==
  \A i, g : Newest(i, g) \in 0..MaxVersion /\ Newest(i, g)' \in 0..MaxVersion
<1> TAKE i, g
<1>1. NewestOf(Candidates(i, g)) \in 0..MaxVersion  BY CandidatesAreKeys, NewestOfIs
<1>2. NewestOf(Candidates(i, g)') \in 0..MaxVersion  BY CandidatesAreKeys, NewestOfIs
<1>3. QED  BY <1>1, <1>2, NewestIsOf, NewestIsOfNext

\* Retiring or deleting vectors below the newest version moves nothing.
LEMMA RetiringKeeps ==
  ASSUME StoreTypeOK, StoreTypeOK', Forever, Forever', NEW xs \in SUBSET Addr,
         \A y \in Addr \ xs : vec'[y] = vec[y],
         \A y \in xs : vec'[y] = None \/ vec'[y].status # "active",
         \A y \in xs, g \in Cid : Exists(y) /\ vec[y].cid = g =>
           y[2].version < Newest(y[1], g)
  PROVE  Kept
<1> SUFFICES ASSUME NEW i \in Index, NEW g \in Cid
             PROVE  Newest(i, g)' = Newest(i, g)
  BY DEF Kept
<1>1. \A k \in Key : <<i, k>> \in Addr /\ <<i, k>>[1] = i /\ <<i, k>>[2] = k
  BY DEF Addr
<1>2. Candidates(i, g)' \subseteq Candidates(i, g)
  <2>1. Live(i, g)' \subseteq Live(i, g)
    <3> SUFFICES ASSUME NEW k \in Key, StatusIs(<<i, k>>, "active")', vec'[<<i, k>>].cid = g
                 PROVE  StatusIs(<<i, k>>, "active") /\ vec[<<i, k>>].cid = g
      BY DEF Live
    <3>1. vec'[<<i, k>>] = vec[<<i, k>>]  BY <1>1 DEF StatusIs, Exists
    <3>2. QED  BY <3>1 DEF StatusIs, Exists
  <2>2. QED  BY <2>1, CandidatesLive, CandidatesLiveNext
<1>3. ASSUME NEW k \in Candidates(i, g) \ Candidates(i, g)'
      PROVE  k.version < NewestOf(Candidates(i, g))
  <2>1. k \in Live(i, g) /\ k \notin Live(i, g)'
    BY <1>3, CandidatesLive, CandidatesLiveNext
  <2>2. k \in Key /\ Exists(<<i, k>>) /\ vec[<<i, k>>].cid = g
    BY <2>1 DEF Live, StatusIs
  <2>3. vec'[<<i, k>>] # vec[<<i, k>>]  BY <2>1 DEF Live, StatusIs, Exists
  <2>4. <<i, k>> \in xs  BY <1>1, <2>2, <2>3
  <2>5. k.version < Newest(i, g)  BY <1>1, <2>2, <2>4
  <2>6. QED  BY <2>5, NewestIsOf
<1>4. NewestOf(Candidates(i, g)') = NewestOf(Candidates(i, g))
  BY <1>2, <1>3, NewestOfLess, CandidatesAreKeys
<1>5. QED  BY <1>4, NewestIsOf, NewestIsOfNext

\* Writing an active vector at most one above what is there moves its group to
\* that version, or not at all, and no other group.
LEMMA WritingMoves ==
  ASSUME StoreTypeOK, StoreTypeOK', Forever, Forever', KeysKeepTheirGroup,
         NEW i \in Index, NEW k \in Key, NEW v \in Vector,
         vec' = [vec EXCEPT ![<<i, k>>] = v], v.status = "active",
         k.version <= Newest(i, v.cid) + 1
  PROVE  /\ Kept \/ OneUp
         /\ Rises
         /\ k.version <= Newest(i, v.cid)'
<1> DEFINE x == <<i, k>>
<1>0. x \in Addr /\ v # None /\ v.cid \in Cid
  BY StoreAssumption DEF Addr, Vector
<1>1. vec'[x] = v /\ \A y \in Addr : y # x => vec'[y] = vec[y]
  BY <1>0 DEF StoreTypeOK
<1>2. Exists(x) => vec[x].cid = v.cid
  BY <1>0, <1>1 DEF KeysKeepTheirGroup, Exists
<1>3. ASSUME NEW j \in Index, NEW h \in Cid, j # i \/ h # v.cid
      PROVE  Newest(j, h)' = Newest(j, h)
  <2>1. \A l \in Key : <<j, l>> \in Addr  BY DEF Addr
  <2>2. Live(j, h)' = Live(j, h)
    <3>1. ASSUME NEW l \in Key
          PROVE  StatusIs(<<j, l>>, "active")' /\ vec'[<<j, l>>].cid = h
                   <=> StatusIs(<<j, l>>, "active") /\ vec[<<j, l>>].cid = h
      <4>1. CASE <<j, l>> = x
        <5>1. h # v.cid  BY <1>3, <4>1
        <5>2. QED  BY <1>1, <1>2, <4>1, <5>1 DEF StatusIs
      <4>2. CASE <<j, l>> # x
        BY <1>1, <2>1, <4>2 DEF StatusIs, Exists
      <4>3. QED  BY <4>1, <4>2
    <3>2. QED  BY <3>1 DEF Live
  <2>3. Candidates(j, h)' = Candidates(j, h)
    BY <2>2, CandidatesLive, CandidatesLiveNext
  <2>4. QED  BY <2>3, NewestIsOf, NewestIsOfNext
<1>4. Live(i, v.cid)' = Live(i, v.cid) \cup {k}
  <2>1. \A l \in Key : <<i, l>> \in Addr /\ (l # k => <<i, l>> # x)  BY DEF Addr
  <2>2. ASSUME NEW l \in Key
        PROVE  StatusIs(<<i, l>>, "active")' /\ vec'[<<i, l>>].cid = v.cid
                 <=> l = k \/ (StatusIs(<<i, l>>, "active") /\ vec[<<i, l>>].cid = v.cid)
    <3>1. CASE l = k
      BY <1>0, <1>1, <3>1 DEF StatusIs, Exists
    <3>2. CASE l # k
      BY <1>1, <2>1, <3>2 DEF StatusIs, Exists
    <3>3. QED  BY <3>1, <3>2
  <2>3. QED  BY <2>2 DEF Live
<1>5. Candidates(i, v.cid)' = Candidates(i, v.cid) \cup {k}
  BY <1>0, <1>4, CandidatesLive, CandidatesLiveNext
<1>6. k.version <= NewestOf(Candidates(i, v.cid)) + 1  BY NewestIsOf
<1>7. /\ k.version <= Newest(i, v.cid)'
      /\ \/ Newest(i, v.cid)' = Newest(i, v.cid)
         \/ Newest(i, v.cid)' = Newest(i, v.cid) + 1
  BY <1>5, <1>6, NewestOfMore, CandidatesAreKeys, NewestIsOf, NewestIsOfNext
<1>8. Kept \/ OneUp
  BY <1>0, <1>3, <1>7 DEF Kept, OneUp
<1>9. Rises
  BY <1>0, <1>3, <1>7, NewestTyped DEF Rises
<1>10. QED  BY <1>7, <1>8, <1>9

LEMMA KeptRises == Kept => Rises
  BY NewestTyped DEF Kept, Rises

LEMMA StillKeeps ==
  ASSUME StoreTypeOK, StoreTypeOK', Forever, vec' = vec
  PROVE  Forever' /\ Kept
<1>1. Forever'  BY DEF Forever, Exists
<1>2. /\ \A y \in Addr \ {} : vec'[y] = vec[y]
      /\ \A y \in {} : vec'[y] = None \/ vec'[y].status # "active"
      /\ \A y \in {}, g \in Cid : Exists(y) /\ vec[y].cid = g =>
           y[2].version < Newest(y[1], g)
  OBVIOUS
<1>3. Kept  BY <1>1, <1>2, RetiringKeeps, {} \in SUBSET Addr
<1>4. QED  BY <1>1, <1>3

-------------------------------------------------------------------------------
\* Versions only rise, so what a step does not touch stays ranked.

LEMMA OthersStayRanked ==
  ASSUME Rises, NEW p \in Proc, loc[p] \in Local, Complete(pc[p], loc[p]),
         CallerRanked(p), pc'[p] = pc[p], loc'[p] = loc[p]
  PROVE  CallerRanked(p)'
<1>1. pc[p] = "vector" /\ loc[p].old # None => loc[p].sup.version \in Int
  BY DEF Complete, Key, Version
<1>2. pc[p] = "rewrite" /\ loc[p].old # None => loc[p].sup.version \in Int
  BY DEF Complete, Key, Version
<1>3. pc[p] = "rewrite" => loc[p].old # None
  BY StoreAssumption DEF Complete
<1>4. \A i \in Index, g \in Cid :
        /\ Newest(i, g) \in Int /\ Newest(i, g)' \in Int
        /\ Newest(i, g)' >= Newest(i, g)
  BY NewestTyped DEF Rises
<1>5. QED  BY <1>1, <1>2, <1>3, <1>4 DEF CallerRanked

LEMMA VectorsStayRanked ==
  ASSUME Rises, Ranked, NEW xs,
         \A y \in Addr \ xs : vec'[y] = vec[y],
         \A y \in xs \cap Addr, g \in Cid : Exists(y)' /\ vec'[y].cid = g =>
           /\ y[2].version <= Newest(y[1], g)'
           /\ vec'[y].status # "active" => y[2].version < Newest(y[1], g)'
  PROVE  Ranked'
<1>1. \A i \in Index, g \in Cid :
        /\ Newest(i, g) \in Int /\ Newest(i, g)' \in Int
        /\ Newest(i, g)' >= Newest(i, g)
  BY NewestTyped DEF Rises
<1> SUFFICES ASSUME NEW y \in Addr, NEW g \in Cid, Exists(y)', vec'[y].cid = g
             PROVE  /\ y[2].version <= Newest(y[1], g)'
                    /\ vec'[y].status # "active" => y[2].version < Newest(y[1], g)'
  BY DEF Ranked
<1>2. CASE y \in xs
  BY <1>2
<1>3. CASE y \notin xs
  <2>1. vec'[y] = vec[y] /\ Exists(y)  BY <1>3 DEF Exists
  <2>2. y[2].version \in Int /\ y[1] \in Index  BY DEF Addr, Key, Version
  <2>3. /\ y[2].version <= Newest(y[1], g)
        /\ vec[y].status # "active" => y[2].version < Newest(y[1], g)
    BY <2>1 DEF Ranked
  <2>4. QED  BY <1>1, <2>1, <2>2, <2>3
<1>4. QED  BY <1>2, <1>3

LEMMA WorkerStaysRanked ==
  ASSUME Rises, WorkerRanked, KeysKeepTheirGroup, wbatch \subseteq Addr,
         \A y \in wbatch' : y \in wbatch /\ vec'[y] # None,
         wpc' = "promote_put" => wpc = "promote_put" /\ whold' = whold
  PROVE  WorkerRanked'
<1>1. \A i \in Index, g \in Cid :
        /\ Newest(i, g) \in Int /\ Newest(i, g)' \in Int
        /\ Newest(i, g)' >= Newest(i, g)
  BY NewestTyped DEF Rises
<1>2. \A y \in Addr : y[2].version \in Int /\ y[1] \in Index  BY DEF Addr, Key, Version
<1>3. ASSUME NEW x \in Addr, NEW v \in Vector, wpc' = "promote_put", whold' = <<x, v>>
      PROVE  x[2].version < Newest(x[1], v.cid)'
  <2>1. x[2].version < Newest(x[1], v.cid)  BY <1>3 DEF WorkerRanked
  <2>2. v.cid \in Cid  BY DEF Vector
  <2>3. QED  BY <1>1, <1>2, <2>1, <2>2
<1>4. \A x \in wbatch' : Exists(x)'
  BY DEF Exists
<1>5. ASSUME NEW x \in wbatch', NEW g \in Cid, vec'[x].cid = g
      PROVE  x[2].version < Newest(x[1], g)'
  <2>1. x \in wbatch /\ x \in Addr /\ Exists(x) /\ Exists(x)'
    BY <1>4 DEF WorkerRanked
  <2>2. vec[x].cid = g  BY <1>5, <2>1 DEF KeysKeepTheirGroup
  <2>3. x[2].version < Newest(x[1], g)  BY <2>1, <2>2 DEF WorkerRanked
  <2>4. QED  BY <1>1, <1>2, <2>1, <2>3
<1>6. QED  BY <1>3, <1>4, <1>5 DEF WorkerRanked

-------------------------------------------------------------------------------
\* The callers' steps.

Corrections == /\ Ops \subseteq {"store", "supersede", "restore", "use"}
               /\ Expiries \subseteq {NoExpiry}

\* Where a caller holds nothing that needs a rank.
Unranked == {"idle", "dedup", "get_old", "upsert", "restore_row", "use_row"}

LEMMA CallerMoves ==
  ASSUME TypeOK, TypeOK', RegInv, KeysKeepTheirGroup, NEW p \in Proc, Rises,
         NEW label, NEW l, Goto(p, label), Keep(p, l),
         l.expires_at = NoExpiry, l.old # None => l.old.expires_at = NoExpiry,
         label \in Unranked \/ CallerRanked(p)',
         UNCHANGED <<ttl, workerVars>>, Forever', Ranked',
         \A x \in wbatch : vec'[x] # None
  PROVE  RegInv'
<1>1. pc'[p] = label /\ loc'[p] = l
  BY DEF TypeOK, ClientTypeOK, Goto, Keep
<1>2. \A q \in Proc : q # p => pc'[q] = pc[q] /\ loc'[q] = loc[q]
  BY DEF TypeOK, ClientTypeOK, Goto, Keep
<1>3. Perpetual'
  BY <1>1, <1>2 DEF RegInv, Perpetual, Forever, workerVars
<1>4. ASSUME NEW q \in Proc  PROVE CallerRanked(q)'
  <2>1. CASE q # p
    <3>1. loc[q] \in Local /\ Complete(pc[q], loc[q]) /\ CallerRanked(q)
      BY LocTyped DEF TypeOK, RegInv
    <3>2. QED  BY <1>2, <2>1, <3>1, OthersStayRanked
  <2>2. CASE q = p
    BY <1>1, <2>2 DEF CallerRanked, Unranked
  <2>3. QED  BY <2>1, <2>2
<1>5. WorkerRanked'
  <2>1. wbatch' = wbatch /\ wpc' = wpc /\ whold' = whold  BY DEF workerVars
  <2>2. wbatch \subseteq Addr /\ WorkerRanked  BY DEF TypeOK, WorkerTypeOK, RegInv
  <2>3. QED  BY <2>1, <2>2, WorkerStaysRanked
<1>6. QED  BY <1>3, <1>4, <1>5 DEF RegInv

LEMMA RegForever == RegInv => Forever
  BY DEF RegInv, Perpetual, Forever

\* A step of a caller that writes no vector.
LEMMA CallerReads ==
  ASSUME TypeOK, TypeOK', RegInv, KeysKeepTheirGroup, NEW p \in Proc,
         NEW label, NEW l, Goto(p, label), Keep(p, l),
         l.expires_at = NoExpiry, l.old # None => l.old.expires_at = NoExpiry,
         label \in Unranked \/ (Kept => CallerRanked(p)'),
         UNCHANGED <<vec, ttl, workerVars>>
  PROVE  RegInv' /\ Kept
<1>1. StoreTypeOK /\ StoreTypeOK' /\ Forever  BY RegForever DEF TypeOK
<1>2. Forever' /\ Kept /\ Rises  BY <1>1, StillKeeps, KeptRises
<1>3. Ranked'
  <2>1. \A y \in Addr \ {} : vec'[y] = vec[y]  OBVIOUS
  <2>2. \A y \in {} \cap Addr, g \in Cid : Exists(y)' /\ vec'[y].cid = g =>
           /\ y[2].version <= Newest(y[1], g)'
           /\ vec'[y].status # "active" => y[2].version < Newest(y[1], g)'
    OBVIOUS
  <2>3. QED  BY <1>2, <2>1, <2>2, VectorsStayRanked DEF RegInv
<1>4. \A x \in wbatch : vec'[x] # None
  BY DEF RegInv, WorkerRanked, Exists
<1>5. label \in Unranked \/ CallerRanked(p)'  BY <1>2
<1>6. RegInv'  BY <1>2, <1>3, <1>4, <1>5, CallerMoves
<1>7. QED  BY <1>2, <1>6

Asks(p) ==
  \E op, label, l : /\ Begin(p, op, label, l) /\ UNCHANGED storeVars
                     /\ l.expires_at = NoExpiry /\ l.old = None
                     /\ label \in Unranked

LEMMA RequestKeepsRanked ==
  ASSUME TypeOK, TypeOK', RegInv, KeysKeepTheirGroup, Corrections,
         NEW p \in Proc, Request(p), UNCHANGED workerVars
  PROVE  RegInv' /\ Kept
<1>1. Asks(p)
  <2> PICK i \in Index :
        \/ \E c \in Content, e \in Expiries :
             \/ \E g \in CallerCid, m \in Modes : RequestStore(p, i, c, g, e, m)
             \/ \E k \in Key : RequestSupersede(p, i, c, e, k)
        \/ \E k \in Key :
             RequestRestore(p, i, k) \/ RequestArchive(p, i, k) \/ RequestUse(p, i, k)
        \/ \E g \in Cid : RequestPurge(p, i, g)
    BY DEF Request
  <2>1. ASSUME NEW c \in Content, NEW e \in Expiries, NEW g \in CallerCid,
               NEW m \in Modes, RequestStore(p, i, c, g, e, m)
        PROVE  Asks(p)
    <3> DEFINE l == [Blank EXCEPT !.idx = i, !.content = c, !.cid = g,
                                  !.expires_at = e, !.mode = m]
    <3>1. l.expires_at = NoExpiry /\ l.old = None  BY DEF Blank, Corrections
    <3>2. Begin(p, "store", "dedup", l) /\ UNCHANGED storeVars  BY <2>1 DEF RequestStore
    <3> HIDE DEF l
    <3>3. QED  BY <3>1, <3>2 DEF Unranked, Asks
  <2>2. ASSUME NEW c \in Content, NEW e \in Expiries, NEW k \in Key,
               RequestSupersede(p, i, c, e, k)
        PROVE  Asks(p)
    <3> DEFINE l == [Blank EXCEPT !.idx = i, !.content = c, !.expires_at = e, !.sup = k]
    <3>1. l.expires_at = NoExpiry /\ l.old = None  BY DEF Blank, Corrections
    <3>2. Begin(p, "supersede", "dedup", l) /\ UNCHANGED storeVars
      BY <2>2 DEF RequestSupersede
    <3> HIDE DEF l
    <3>3. QED  BY <3>1, <3>2 DEF Unranked, Asks
  <2>3. ASSUME NEW k \in Key, RequestRestore(p, i, k)
        PROVE  Asks(p)
    <3> DEFINE l == [Blank EXCEPT !.idx = i, !.content = k.content, !.key = k,
                                  !.cid = vec[<<i, k>>].cid]
    <3>1. l.expires_at = NoExpiry /\ l.old = None  BY DEF Blank
    <3>2. Begin(p, "restore", "restore_row", l) /\ UNCHANGED storeVars
      BY <2>3 DEF RequestRestore
    <3> HIDE DEF l
    <3>3. QED  BY <3>1, <3>2 DEF Unranked, Asks
  <2>4. ASSUME NEW k \in Key, RequestUse(p, i, k)
        PROVE  Asks(p)
    <3> DEFINE l == [Blank EXCEPT !.idx = i, !.cid = vec[<<i, k>>].cid]
    <3>1. l.expires_at = NoExpiry /\ l.old = None  BY DEF Blank
    <3>2. Begin(p, "use", "use_row", l) /\ UNCHANGED storeVars  BY <2>4 DEF RequestUse
    <3> HIDE DEF l
    <3>3. QED  BY <3>1, <3>2 DEF Unranked, Asks
  <2>5. ASSUME NEW k \in Key, RequestArchive(p, i, k)
        PROVE  FALSE
    BY <2>5 DEF RequestArchive, Begin, Corrections
  <2>6. ASSUME NEW g \in Cid, RequestPurge(p, i, g)
        PROVE  FALSE
    BY <2>6 DEF RequestPurge, Begin, Corrections
  <2>7. QED  BY <2>1, <2>2, <2>3, <2>4, <2>5, <2>6
<1>2. PICK op, label, l : /\ Begin(p, op, label, l) /\ UNCHANGED storeVars
                          /\ l.expires_at = NoExpiry /\ l.old = None
                          /\ label \in Unranked
  BY <1>1 DEF Asks
<1>3. Goto(p, label) /\ Keep(p, l) /\ UNCHANGED <<vec, ttl>>
  BY <1>2 DEF Begin, storeVars
<1>4. QED  BY <1>2, <1>3, CallerReads

\* Retiring the old vector, once its successor is there.
LEMMA RewriteKeepsRanked ==
  ASSUME TypeOK, TypeOK', RegInv, KeysKeepTheirGroup, NEW p \in Proc,
         RewriteOld(p), UNCHANGED workerVars
  PROVE  RegInv' /\ Kept
<1>l. loc[p] \in Local /\ Complete(pc[p], loc[p])  BY LocTyped DEF TypeOK
<1>1. loc[p].idx \in Index /\ loc[p].cid \in Cid /\ loc[p].sup \in Key /\ loc[p].old \in Vector
  BY <1>l, StoreAssumption DEF RewriteOld, Complete, Local
<1> PICK i \in Index, k \in Key, g \in Cid, w \in Vector :
      i = loc[p].idx /\ k = loc[p].sup /\ g = loc[p].cid /\ w = loc[p].old
  BY <1>1
<1> DEFINE x == <<i, k>>
           v == [w EXCEPT !.status = "superseded"]
<1>x. x \in Addr /\ x[1] = i /\ x[2] = k  BY DEF Addr
<1>2. w.cid = g /\ k.version < Newest(i, g) /\ w.expires_at = NoExpiry
  BY <1>1, StoreAssumption DEF RegInv, CallerRanked, Perpetual, RewriteOld
<1>3. /\ v \in Vector /\ v.cid = g /\ v.expires_at = NoExpiry
      /\ v.status = "superseded" /\ v # None
  BY <1>2, StoreAssumption DEF Vector, Status
<1> HIDE DEF v
<1>4. vec' = [vec EXCEPT ![x] = v] /\ Goto(p, "upsert") /\ Keep(p, loc[p]) /\ ttl' = ttl
  BY DEF RewriteOld, PutVector, Old, Keep, TypeOK, ClientTypeOK, v
<1>5. vec'[x] = v /\ \A y \in Addr : y # x => vec'[y] = vec[y]
  BY <1>x, <1>4 DEF TypeOK, StoreTypeOK
<1> HIDE DEF x
<1>6. StoreTypeOK /\ StoreTypeOK' /\ Forever  BY RegForever DEF TypeOK
<1>7. Forever'
  BY <1>3, <1>5, <1>6 DEF Forever, Exists
<1>8. Kept
  <2>1. \A y \in Addr \ {x} : vec'[y] = vec[y]  BY <1>5
  <2>2. \A y \in {x} : vec'[y] = None \/ vec'[y].status # "active"  BY <1>3, <1>5
  <2>3. \A y \in {x}, h \in Cid : Exists(y) /\ vec[y].cid = h => y[2].version < Newest(y[1], h)
    <3>1. Exists(x) => vec[x].cid = g
      BY <1>3, <1>5, <1>x DEF KeysKeepTheirGroup, Exists
    <3>2. QED  BY <1>2, <1>x, <3>1
  <2>4. {x} \in SUBSET Addr  BY <1>x
  <2>5. QED  BY <1>6, <1>7, <2>1, <2>2, <2>3, <2>4, RetiringKeeps
<1>9. Rises  BY <1>8, KeptRises
<1>10. Ranked'
  <2>1. \A y \in Addr \ {x} : vec'[y] = vec[y]  BY <1>5
  <2>2. k.version \in Int /\ Newest(i, g)' = Newest(i, g) /\ Newest(i, g) \in Int
    BY <1>8, NewestTyped DEF Kept, Key, Version
  <2>3. \A y \in {x} \cap Addr, h \in Cid : Exists(y)' /\ vec'[y].cid = h =>
           /\ y[2].version <= Newest(y[1], h)'
           /\ vec'[y].status # "active" => y[2].version < Newest(y[1], h)'
    BY <1>2, <1>3, <1>5, <1>x, <2>2
  <2>4. QED  BY <1>9, <2>1, <2>3, VectorsStayRanked DEF RegInv
<1>11. \A y \in wbatch : vec'[y] # None
  BY <1>3, <1>5 DEF RegInv, WorkerRanked, Exists, TypeOK, WorkerTypeOK
<1>12. loc[p].expires_at = NoExpiry /\ (loc[p].old # None => loc[p].old.expires_at = NoExpiry)
  BY DEF RegInv, Perpetual
<1>13. "upsert" \in Unranked  BY DEF Unranked
<1>14. RegInv'
  BY <1>4, <1>7, <1>9, <1>10, <1>11, <1>12, <1>13, CallerMoves
<1>15. QED  BY <1>8, <1>14

\* Writing the next version: the only step that moves the register.
LEMMA WriteKeepsRanked ==
  ASSUME TypeOK, TypeOK', RegInv, KeysKeepTheirGroup, NEW p \in Proc,
         WriteVector(p), UNCHANGED workerVars
  PROVE  RegInv' /\ (Kept \/ OneUp)
<1>l. loc[p] \in Local /\ Complete(pc[p], loc[p])  BY LocTyped DEF TypeOK
<1>1. loc[p].idx \in Index /\ loc[p].cid \in Cid /\ loc[p].key \in Key
  BY <1>l DEF WriteVector, Complete, Local
<1> PICK i \in Index, k \in Key, g \in Cid : i = loc[p].idx /\ k = loc[p].key /\ g = loc[p].cid
  BY <1>1
<1> DEFINE x == <<i, k>>
           v == NewVector(g, NoExpiry)
<1>x. x \in Addr /\ x[1] = i /\ x[2] = k  BY DEF Addr
<1>e. loc[p].expires_at = NoExpiry  BY DEF RegInv, Perpetual
<1>n. /\ Newest(i, g) \in Int /\ Newest(i, g) >= 0 /\ Newest(i, g)' \in Int
      /\ k.version \in Int
  BY NewestTyped DEF Key, Version
<1>2. k.version <= Newest(i, g) + 1
  <2>1. CASE loc[p].old = None
    <3>1. k.version = 1  BY <2>1 DEF RegInv, CallerRanked, WriteVector
    <3>2. QED  BY <1>n, <3>1
  <2>2. CASE loc[p].old # None
    <3>1. loc[p].sup.version \in Int  BY <1>l, <2>2 DEF WriteVector, Complete, Key, Version
    <3>2. k.version = loc[p].sup.version + 1 /\ loc[p].sup.version <= Newest(i, g)
      BY <2>2 DEF RegInv, CallerRanked, WriteVector
    <3>3. QED  BY <1>n, <3>1, <3>2
  <2>3. QED  BY <2>1, <2>2
<1>3. v \in Vector  BY NewVectorTyped DEF TypeOK
<1>4. v.cid = g /\ v.expires_at = NoExpiry /\ v.status = "active" /\ v # None
  BY <1>3, StoreAssumption DEF NewVector
<1>5. /\ vec' = [vec EXCEPT ![x] = v] /\ Goto(p, AfterTTL(loc[p])) /\ Keep(p, loc[p])
      /\ ttl' = ttl
  <2>1. AfterVector(loc[p]) = AfterTTL(loc[p])
    BY <1>e, StoreAssumption DEF AfterVector, NoExpiry
  <2>2. QED  BY <1>e, <2>1 DEF WriteVector, PutVector, Here, Keep, TypeOK, ClientTypeOK
<1> HIDE DEF v
<1>6. vec'[x] = v /\ \A y \in Addr : y # x => vec'[y] = vec[y]
  BY <1>x, <1>5 DEF TypeOK, StoreTypeOK
<1>7. StoreTypeOK /\ StoreTypeOK' /\ Forever  BY RegForever DEF TypeOK
<1>8. Forever'
  BY <1>4, <1>6, <1>7 DEF Forever, Exists
<1>9. (Kept \/ OneUp) /\ Rises /\ k.version <= Newest(i, g)'
  BY <1>2, <1>3, <1>4, <1>5, <1>7, <1>8, WritingMoves
<1> HIDE DEF x
<1>10. Ranked'
  <2>1. \A y \in Addr \ {x} : vec'[y] = vec[y]  BY <1>6
  <2>2. \A y \in {x} \cap Addr, h \in Cid : Exists(y)' /\ vec'[y].cid = h =>
           /\ y[2].version <= Newest(y[1], h)'
           /\ vec'[y].status # "active" => y[2].version < Newest(y[1], h)'
    BY <1>4, <1>6, <1>9, <1>x
  <2>3. QED  BY <1>9, <2>1, <2>2, VectorsStayRanked DEF RegInv
<1>11. \A y \in wbatch : vec'[y] # None
  BY <1>4, <1>6 DEF RegInv, WorkerRanked, Exists, TypeOK, WorkerTypeOK
<1>12. loc[p].old # None => loc[p].old.expires_at = NoExpiry
  BY DEF RegInv, Perpetual
<1>13. AfterTTL(loc[p]) \in Unranked \/ CallerRanked(p)'
  <2>1. CASE loc[p].old = None
    BY <2>1 DEF AfterTTL, Unranked
  <2>2. CASE loc[p].old # None
    <3>1. pc'[p] = "rewrite" /\ loc'[p] = loc[p]
      BY <1>5, <2>2 DEF AfterTTL, Goto, Keep, TypeOK, ClientTypeOK
    <3>2. loc[p].old.cid = g /\ k.version = loc[p].sup.version + 1
      BY <2>2 DEF RegInv, CallerRanked, WriteVector
    <3>3. loc[p].sup.version \in Int  BY <1>l, <2>2 DEF WriteVector, Complete, Key, Version
    <3>4. loc[p].sup.version < Newest(i, g)'  BY <1>9, <1>n, <3>2, <3>3
    <3>5. QED  BY <3>1, <3>2, <3>4 DEF CallerRanked
  <2>3. QED  BY <2>1, <2>2
<1>14. RegInv'
  BY <1>5, <1>8, <1>9, <1>10, <1>11, <1>12, <1>13, <1>e, CallerMoves
<1>15. QED  BY <1>9, <1>14

\* The other steps of an operation read, or write a row.
LEMMA LearningKeepsRanked ==
  ASSUME TypeOK, TypeOK', RegInv, KeysKeepTheirGroup, NEW p \in Proc,
         StoreFresh(p) \/ GetOld(p), UNCHANGED workerVars
  PROVE  RegInv' /\ Kept
<1>l. loc[p] \in Local /\ Complete(pc[p], loc[p])  BY LocTyped DEF TypeOK
<1>k. loc[p].expires_at = NoExpiry /\ (loc[p].old # None => loc[p].old.expires_at = NoExpiry)
  BY DEF RegInv, Perpetual
<1>1. CASE StoreFresh(p)
  <2> DEFINE k == BuildVectorKey(AgentOf[p], loc[p].content, 1)
             g == IF loc[p].cid = None THEN loc[p].content ELSE loc[p].cid
             l == [loc[p] EXCEPT !.key = k, !.cid = g]
  <2>1. loc[p].old = None  BY <1>1, <1>l DEF StoreFresh, Complete
  <2>2. l.expires_at = NoExpiry /\ l.old = None /\ l.key = k
    BY <1>l, <1>k, <2>1 DEF Local
  <2>3. k.version = 1  BY DEF BuildVectorKey
  <2>4. Goto(p, "vector") /\ Keep(p, l) /\ UNCHANGED <<vec, ttl>>
    BY <1>1 DEF StoreFresh, storeVars
  <2> HIDE DEF l, k
  <2>5. CallerRanked(p)'
    <3>1. pc'[p] = "vector" /\ loc'[p] = l
      BY <2>4 DEF Goto, Keep, TypeOK, ClientTypeOK
    <3>2. QED  BY <2>2, <2>3, <3>1 DEF CallerRanked
  <2>6. QED  BY <2>2, <2>4, <2>5, CallerReads
<1>2. CASE GetOld(p) /\ Exists(Old(p)) /\ loc[p].sup.version + 1 \in Version
  <2>1. Old(p) \in Addr /\ loc[p].idx \in Index /\ loc[p].sup \in Key
    BY <1>2, <1>l DEF GetOld, Complete, Local, Old, Addr
  <2> PICK x \in Addr, v \in Vector :
        x = Old(p) /\ v = vec[x] /\ Exists(x) /\ x[1] = loc[p].idx /\ x[2] = loc[p].sup
    BY <1>2, <2>1 DEF Exists, TypeOK, StoreTypeOK, Old
  <2> DEFINE k == BuildVectorKey(AgentOf[p], loc[p].content, loc[p].sup.version + 1)
             l == [loc[p] EXCEPT !.old = v, !.cid = v.cid, !.key = k]
  <2>2. /\ l.expires_at = NoExpiry /\ l.old = v /\ l.cid = v.cid /\ l.key = k
        /\ l.sup = x[2] /\ l.idx = x[1]
    BY <1>l, <1>k DEF Local
  <2>3. v.expires_at = NoExpiry /\ v.cid \in Cid /\ v # None
    BY StoreAssumption DEF RegInv, Perpetual, Vector
  <2>4. k.version = x[2].version + 1  BY DEF BuildVectorKey
  <2>5. Goto(p, "vector") /\ Keep(p, l) /\ UNCHANGED <<vec, ttl>>
    BY <1>2 DEF GetOld, storeVars
  <2>6. x[2].version <= Newest(x[1], v.cid) /\ x[1] \in Index
    BY <2>3 DEF RegInv, Ranked, Addr
  <2> HIDE DEF l, k
  <2>7. Kept => CallerRanked(p)'
    <3>1. pc'[p] = "vector" /\ loc'[p] = l
      BY <2>5 DEF Goto, Keep, TypeOK, ClientTypeOK
    <3>2. ASSUME Kept  PROVE x[2].version <= Newest(x[1], v.cid)'
      BY <2>3, <2>6, <3>2 DEF Kept
    <3>3. QED  BY <2>2, <2>3, <2>4, <3>1, <3>2 DEF CallerRanked
  <2>8. QED  BY <2>2, <2>3, <2>5, <2>7, CallerReads
<1>3. CASE GetOld(p) /\ ~(Exists(Old(p)) /\ loc[p].sup.version + 1 \in Version)
  <2>1. Goto(p, "idle") /\ Keep(p, Blank) /\ UNCHANGED <<vec, ttl>>
    BY <1>3 DEF GetOld, Finish, storeVars
  <2>2. "idle" \in Unranked /\ Blank.expires_at = NoExpiry /\ Blank.old = None
    BY DEF Unranked, Blank
  <2>3. QED  BY <2>1, <2>2, CallerReads
<1>4. QED  BY <1>1, <1>2, <1>3

LEMMA ReadingKeepsRanked ==
  ASSUME TypeOK, TypeOK', RegInv, KeysKeepTheirGroup, NEW p \in Proc,
         \/ StoreUnchanged(p) \/ StoreNearDuplicate(p) \/ UpsertRow(p)
         \/ RecordUse(p) \/ Crash(p) \/ StoreSupersedes(p) \/ RestoreReadsRow(p),
         UNCHANGED workerVars
  PROVE  RegInv' /\ Kept
<1>l. loc[p] \in Local  BY LocTyped DEF TypeOK
<1>k. loc[p].expires_at = NoExpiry /\ (loc[p].old # None => loc[p].old.expires_at = NoExpiry)
  BY DEF RegInv, Perpetual
<1>1. CASE \/ StoreUnchanged(p) \/ StoreNearDuplicate(p) \/ UpsertRow(p)
           \/ RecordUse(p) \/ Crash(p)
  <2>1. Goto(p, "idle") /\ Keep(p, Blank) /\ UNCHANGED <<vec, ttl>>
    BY <1>1 DEF StoreUnchanged, StoreNearDuplicate, UpsertRow, RecordUse, Crash,
                Finish, storeVars
  <2>2. "idle" \in Unranked /\ Blank.expires_at = NoExpiry /\ Blank.old = None
    BY DEF Unranked, Blank
  <2>3. QED  BY <2>1, <2>2, CallerReads
<1>2. CASE StoreSupersedes(p)
  <2>1. Goto(p, "get_old") /\ Keep(p, loc[p]) /\ UNCHANGED <<vec, ttl>>
    BY <1>2 DEF StoreSupersedes, Keep, TypeOK, ClientTypeOK, storeVars
  <2>2. "get_old" \in Unranked  BY DEF Unranked
  <2>3. QED  BY <1>k, <2>1, <2>2, CallerReads
<1>3. CASE RestoreReadsRow(p)
  <2> PICK r \in RowReads(loc[p].cid) :
        Keep(p, [loc[p] EXCEPT
                   !.sup = IF r = None THEN loc[p].key ELSE r.latest_key,
                   !.key = None])
    BY <1>3 DEF RestoreReadsRow
  <2> DEFINE l == [loc[p] EXCEPT
                     !.sup = IF r = None THEN loc[p].key ELSE r.latest_key,
                     !.key = None]
  <2>1. l.expires_at = loc[p].expires_at /\ l.old = loc[p].old  BY <1>l DEF Local
  <2>2. Goto(p, "dedup") /\ Keep(p, l) /\ UNCHANGED <<vec, ttl>>
    BY <1>3 DEF RestoreReadsRow, storeVars
  <2> HIDE DEF l
  <2>3. "dedup" \in Unranked  BY DEF Unranked
  <2>4. QED  BY <1>k, <2>1, <2>2, <2>3, CallerReads
<1>4. QED  BY <1>1, <1>2, <1>3

LEMMA ClientKeepsRanked ==
  ASSUME TypeOK, TypeOK', RegInv, KeysKeepTheirGroup, Corrections,
         NEW p \in Proc, Client(p)
  PROVE  RegInv' /\ (Kept \/ OneUp)
<1>w. UNCHANGED workerVars  BY DEF Client
<1>1. CASE Request(p)  BY <1>1, <1>w, RequestKeepsRanked
<1>2. CASE WriteVector(p)  BY <1>2, <1>w, WriteKeepsRanked
<1>3. CASE RewriteOld(p)  BY <1>3, <1>w, RewriteKeepsRanked
<1>4. CASE StoreFresh(p) \/ GetOld(p)  BY <1>4, <1>w, LearningKeepsRanked
<1>5. CASE \/ StoreUnchanged(p) \/ StoreNearDuplicate(p) \/ UpsertRow(p)
           \/ RecordUse(p) \/ Crash(p) \/ StoreSupersedes(p) \/ RestoreReadsRow(p)
  BY <1>5, <1>w, ReadingKeepsRanked
<1>6. CASE WriteTTLRow(p) \/ Archive(p) \/ Purge(p)
  BY <1>6 DEF RegInv, CallerRanked, WriteTTLRow, Archive, ArchivePut, ArchiveReadsRow,
              ArchiveUpsert, Purge, PurgeVectors, PurgeRow
<1>7. QED
  BY <1>1, <1>2, <1>3, <1>4, <1>5, <1>6 DEF Client, ClientStep, ProceedClient, Store

-------------------------------------------------------------------------------
\* The worker's steps.

\* The worker moves; the callers stay where they are.
LEMMA WorkerMoves ==
  ASSUME TypeOK, RegInv, UNCHANGED <<ttl, clientVars>>, Rises, Forever', Ranked',
         wrows' = {}, wcheck' = {}, WorkerRanked',
         wpc' = "promote_put" => whold'[2].expires_at = NoExpiry
  PROVE  RegInv'
<1>1. ASSUME NEW q \in Proc  PROVE CallerRanked(q)'
  <2>1. loc[q] \in Local /\ Complete(pc[q], loc[q]) /\ CallerRanked(q)
    BY LocTyped DEF TypeOK, RegInv
  <2>2. QED  BY <2>1, OthersStayRanked DEF clientVars
<1>2. Perpetual'
  BY DEF RegInv, Perpetual, Forever, clientVars
<1>3. QED  BY <1>1, <1>2 DEF RegInv

\* It writes no vector.
LEMMA WorkerReads ==
  ASSUME TypeOK, TypeOK', RegInv, UNCHANGED <<vec, ttl, clientVars>>,
         wrows' = {}, wcheck' = {}, Kept => WorkerRanked',
         wpc' = "promote_put" => whold'[2].expires_at = NoExpiry
  PROVE  RegInv' /\ Kept
<1>1. StoreTypeOK /\ StoreTypeOK' /\ Forever  BY RegForever DEF TypeOK
<1>2. Forever' /\ Kept /\ Rises  BY <1>1, StillKeeps, KeptRises
<1>3. Ranked'
  <2>1. \A y \in Addr \ {} : vec'[y] = vec[y]  OBVIOUS
  <2>2. \A y \in {} \cap Addr, g \in Cid : Exists(y)' /\ vec'[y].cid = g =>
           /\ y[2].version <= Newest(y[1], g)'
           /\ vec'[y].status # "active" => y[2].version < Newest(y[1], g)'
    OBVIOUS
  <2>3. QED  BY <1>2, <2>1, <2>2, VectorsStayRanked DEF RegInv
<1>4. RegInv'  BY <1>2, <1>3, WorkerMoves
<1>5. QED  BY <1>2, <1>4

LEMMA PromoteFindKeepsRanked ==
  ASSUME TypeOK, TypeOK', RegInv, NEW k \in Key, PromoteFind(k), UNCHANGED clientVars
  PROVE  RegInv' /\ Kept
<1>1. /\ UNCHANGED <<vec, ttl, wbatch>> /\ wrows' = {} /\ wcheck' = {}
      /\ wbatch \subseteq Addr
  BY DEF PromoteFind, storeVars, RegInv, Perpetual, TypeOK, WorkerTypeOK
<1>2. wpc' = "promote_put" => \E x \in Find(k) : whold' = <<x, vec[x]>> /\ ~wdry
  BY DEF PromoteFind, Enter
<1>3. ASSUME wpc' = "promote_put"
      PROVE  \E x \in Addr : /\ whold' = <<x, vec[x]>> /\ StatusIs(x, "superseded")
  <2>1. PICK x \in Find(k) : whold' = <<x, vec[x]>>  BY <1>2, <1>3
  <2>2. PICK y \in Find(k) : StatusIs(y, "superseded")
    BY <1>3 DEF PromoteFind, Enter
  <2>3. x = y
    <3>1. x \in Addr /\ y \in Addr /\ x[2] = k /\ y[2] = k /\ Exists(x) /\ Exists(y)
          /\ (\A j \in Index : Exists(<<j, k>>) => x[1] <= j)
          /\ (\A j \in Index : Exists(<<j, k>>) => y[1] <= j)
      BY DEF Find
    <3>2. /\ x[1] \in Index /\ y[1] \in Index
          /\ x = <<x[1], k>> /\ y = <<y[1], k>>
      BY <3>1 DEF Addr
    <3>3. x[1] <= y[1] /\ y[1] <= x[1]  BY <3>1, <3>2
    <3>4. x[1] = y[1]  BY <3>2, <3>3, StoreAssumption DEF Index
    <3>5. QED  BY <3>2, <3>4
  <2>4. QED  BY <2>1, <2>2, <2>3 DEF Find
<1>4. wpc' = "promote_put" => whold'[2].expires_at = NoExpiry
  BY <1>3 DEF RegInv, Perpetual, StatusIs
<1>5. ASSUME Kept  PROVE WorkerRanked'
  <2>1. ASSUME NEW x \in Addr, NEW v \in Vector, wpc' = "promote_put", whold' = <<x, v>>
        PROVE  x[2].version < Newest(x[1], v.cid)'
    <3>1. v = vec[x] /\ Exists(x) /\ v.status = "superseded"
      BY <1>3, <2>1 DEF StatusIs
    <3>2. v.cid \in Cid /\ x[1] \in Index  BY DEF Vector, Addr
    <3>3. x[2].version < Newest(x[1], v.cid)
      BY <3>1, <3>2 DEF RegInv, Ranked
    <3>4. QED  BY <1>5, <3>2, <3>3 DEF Kept
  <2>2. \A x \in wbatch' : Exists(x)'
    BY <1>1 DEF RegInv, WorkerRanked, Exists
  <2>3. ASSUME NEW x \in wbatch', NEW g \in Cid, vec'[x].cid = g
        PROVE  x[2].version < Newest(x[1], g)'
    <3>1. x[1] \in Index  BY <1>1 DEF Addr
    <3>2. x[2].version < Newest(x[1], g)
      BY <1>1, <2>3 DEF RegInv, WorkerRanked
    <3>3. QED  BY <1>5, <3>1, <3>2 DEF Kept
  <2>4. QED  BY <2>1, <2>2, <2>3 DEF WorkerRanked
<1>6. QED  BY <1>1, <1>4, <1>5, WorkerReads

LEMMA ArchivedFindKeepsRanked ==
  ASSUME TypeOK, TypeOK', RegInv, NEW k \in Key, ArchivedFind(k), UNCHANGED clientVars
  PROVE  RegInv' /\ Kept
<1>1. /\ UNCHANGED <<vec, ttl>> /\ wrows' = {} /\ wcheck' = {}
      /\ wpc' = "archived"
  BY DEF ArchivedFind, storeVars, RegInv, Perpetual
<1>2. ASSUME NEW x \in wbatch', x \notin wbatch
      PROVE  StatusIs(x, "archived")
  BY <1>2 DEF ArchivedFind, PastGrace
<1>3. ASSUME Kept  PROVE WorkerRanked'
  <2>1. wbatch' \subseteq Addr  BY DEF TypeOK, WorkerTypeOK
  <2>2. \A x \in wbatch' : Exists(x)'
    BY <1>1, <1>2 DEF RegInv, WorkerRanked, Exists, StatusIs
  <2>3. ASSUME NEW x \in wbatch', NEW g \in Cid, vec'[x].cid = g
        PROVE  x[2].version < Newest(x[1], g)'
    <3>1. x[1] \in Index /\ x \in Addr  BY <2>1 DEF Addr
    <3>2. x[2].version < Newest(x[1], g)
      BY <1>1, <1>2, <2>3, <3>1 DEF RegInv, WorkerRanked, Ranked, StatusIs
    <3>3. QED  BY <1>3, <3>1, <3>2 DEF Kept
  <2>4. QED  BY <1>1, <2>2, <2>3 DEF WorkerRanked
<1>4. QED  BY <1>1, <1>3, WorkerReads

LEMMA PromotePutKeepsRanked ==
  ASSUME TypeOK, TypeOK', RegInv, KeysKeepTheirGroup, PromotePut, UNCHANGED clientVars
  PROVE  RegInv' /\ Kept
<1> PICK x \in Addr, w \in Vector : whold = <<x, w>>
  BY DEF PromotePut, TypeOK, WorkerTypeOK
<1> DEFINE v == [w EXCEPT !.status = "archived", !.archived_at = clock]
<1>1. x[2].version < Newest(x[1], w.cid) /\ w.expires_at = NoExpiry /\ w.cid \in Cid
  BY DEF RegInv, WorkerRanked, Perpetual, PromotePut, Vector
<1>2. /\ v \in Vector /\ v.cid = w.cid /\ v.expires_at = NoExpiry
      /\ v.status = "archived" /\ v # None
  BY <1>1, StoreAssumption DEF Vector, Status, TypeOK, StoreTypeOK
<1>3. vec' = [vec EXCEPT ![x] = v] /\ UNCHANGED <<ttl, wbatch, wrows, wcheck>>
      /\ wpc' = "promote"
  BY DEF PromotePut, PutVector, Enter
<1> HIDE DEF v
<1>4. vec'[x] = v /\ \A y \in Addr : y # x => vec'[y] = vec[y]
  BY <1>3 DEF TypeOK, StoreTypeOK
<1>5. StoreTypeOK /\ StoreTypeOK' /\ Forever  BY RegForever DEF TypeOK
<1>6. Forever'
  BY <1>2, <1>4, <1>5 DEF Forever, Exists
<1>7. Kept
  <2>1. \A y \in Addr \ {x} : vec'[y] = vec[y]  BY <1>4
  <2>2. \A y \in {x} : vec'[y] = None \/ vec'[y].status # "active"  BY <1>2, <1>4
  <2>3. \A y \in {x}, h \in Cid : Exists(y) /\ vec[y].cid = h => y[2].version < Newest(y[1], h)
    <3>1. Exists(x) => vec[x].cid = w.cid
      BY <1>2, <1>4 DEF KeysKeepTheirGroup, Exists
    <3>2. QED  BY <1>1, <3>1
  <2>4. QED  BY <1>5, <1>6, <2>1, <2>2, <2>3, RetiringKeeps, {x} \in SUBSET Addr
<1>8. Rises  BY <1>7, KeptRises
<1>9. Ranked'
  <2>1. \A y \in Addr \ {x} : vec'[y] = vec[y]  BY <1>4
  <2>2. /\ x[2].version \in Int /\ Newest(x[1], w.cid)' = Newest(x[1], w.cid)
        /\ Newest(x[1], w.cid) \in Int
    BY <1>1, <1>7, NewestTyped DEF Kept, Addr, Key, Version
  <2>3. \A y \in {x} \cap Addr, h \in Cid : Exists(y)' /\ vec'[y].cid = h =>
           /\ y[2].version <= Newest(y[1], h)'
           /\ vec'[y].status # "active" => y[2].version < Newest(y[1], h)'
    BY <1>1, <1>2, <1>4, <2>2
  <2>4. QED  BY <1>8, <2>1, <2>3, VectorsStayRanked DEF RegInv
<1>10. WorkerRanked'
  <2>1. \A y \in wbatch' : y \in wbatch /\ vec'[y] # None
    BY <1>2, <1>3, <1>4 DEF RegInv, WorkerRanked, Exists, TypeOK, WorkerTypeOK
  <2>2. wpc' # "promote_put" /\ wbatch \subseteq Addr /\ WorkerRanked
    BY <1>3 DEF TypeOK, WorkerTypeOK, RegInv
  <2>3. QED  BY <1>8, <2>1, <2>2, WorkerStaysRanked
<1>11. wrows' = {} /\ wcheck' = {} /\ wpc' # "promote_put"
  BY <1>3 DEF RegInv, Perpetual
<1>12. RegInv'
  BY <1>3, <1>6, <1>8, <1>9, <1>10, <1>11, WorkerMoves
<1>13. QED  BY <1>7, <1>12

LEMMA BatchKeepsRanked ==
  ASSUME TypeOK, TypeOK', RegInv, KeysKeepTheirGroup, NEW i \in Index,
         DeleteBatch(i), UNCHANGED <<ttl, clientVars, wrows, wcheck>>,
         wpc' # "promote_put"
  PROVE  RegInv' /\ Kept
<1>1. wbatch \subseteq Addr /\ WorkerRanked  BY DEF TypeOK, WorkerTypeOK, RegInv
<1>0. PICK xs \in SUBSET Batch(i) :
        /\ wbatch' \subseteq wbatch /\ \A y \in wbatch' : y \notin xs
        /\ \A y \in Addr : vec'[y] = IF y \in xs THEN None ELSE vec[y]
  <2>1. CASE wdry
    <3>1. {} \in SUBSET Batch(i) /\ vec' = vec /\ wbatch' \subseteq wbatch
      BY <2>1, SomeGoes
    <3>2. QED  BY <3>1
  <2>2. CASE ~wdry
    BY <2>2, SomeGoes DEF DeleteVectors
  <2>3. QED  BY <2>1, <2>2
<1>2. /\ xs \in SUBSET Addr /\ xs \subseteq wbatch
      /\ \A y \in xs : y \in Batch(i)
  BY <1>1 DEF Batch
<1>3. wbatch' \subseteq wbatch /\ \A y \in wbatch' : y \notin xs
  BY <1>0
<1>4. \A y \in Addr : vec'[y] = IF y \in xs THEN None ELSE vec[y]
  BY <1>0
<1>5. StoreTypeOK /\ StoreTypeOK' /\ Forever  BY RegForever DEF TypeOK
<1>6. Forever'
  BY <1>4, <1>5 DEF Forever, Exists
<1>7. Kept
  <2>1. \A y \in Addr \ xs : vec'[y] = vec[y]  BY <1>4
  <2>2. \A y \in xs : vec'[y] = None \/ vec'[y].status # "active"  BY <1>2, <1>4
  <2>3. \A y \in xs, h \in Cid : Exists(y) /\ vec[y].cid = h => y[2].version < Newest(y[1], h)
    BY <1>1, <1>2 DEF WorkerRanked
  <2>4. QED  BY <1>2, <1>5, <1>6, <2>1, <2>2, <2>3, RetiringKeeps
<1>8. Rises  BY <1>7, KeptRises
<1>9. Ranked'
  <2>1. \A y \in Addr \ xs : vec'[y] = vec[y]  BY <1>4
  <2>2. \A y \in xs \cap Addr, h \in Cid : Exists(y)' /\ vec'[y].cid = h =>
           /\ y[2].version <= Newest(y[1], h)'
           /\ vec'[y].status # "active" => y[2].version < Newest(y[1], h)'
    BY <1>4 DEF Exists
  <2>3. QED  BY <1>8, <2>1, <2>2, VectorsStayRanked DEF RegInv
<1>10. WorkerRanked'
  <2>1. \A y \in wbatch' : y \in wbatch /\ vec'[y] # None
    BY <1>1, <1>3, <1>4 DEF WorkerRanked, Exists
  <2>2. QED  BY <1>1, <1>8, <2>1, WorkerStaysRanked
<1>11. wrows' = {} /\ wcheck' = {}
  BY DEF RegInv, Perpetual
<1>12. RegInv'
  BY <1>6, <1>8, <1>9, <1>10, <1>11, WorkerMoves
<1>13. QED  BY <1>7, <1>12

\* A worker step that leaves the vectors alone and collects nothing.
LEMMA IdlingKeepsRanked ==
  ASSUME TypeOK, TypeOK', RegInv, UNCHANGED <<vec, ttl, clientVars>>,
         wrows' = {}, wcheck' = {}, wbatch' \subseteq wbatch, wpc' # "promote_put"
  PROVE  RegInv' /\ Kept
<1>1. ASSUME Kept  PROVE WorkerRanked'
  <2>1. KeysKeepTheirGroup  BY DEF KeysKeepTheirGroup
  <2>2. \A y \in wbatch' : y \in wbatch /\ vec'[y] # None
    BY DEF RegInv, WorkerRanked, Exists
  <2>3. wbatch \subseteq Addr /\ WorkerRanked  BY DEF TypeOK, WorkerTypeOK, RegInv
  <2>4. QED  BY <1>1, KeptRises, <2>1, <2>2, <2>3, WorkerStaysRanked
<1>2. QED  BY <1>1, WorkerReads

LEMMA WorkerKeepsRanked ==
  ASSUME TypeOK, TypeOK', RegInv, KeysKeepTheirGroup, UNCHANGED clientVars,
         StartRun \/ ProceedWorker \/ CutOff
  PROVE  RegInv' /\ Kept
<1> USE DEF Enter, storeVars
<1>r. wrows = {} /\ wcheck = {}  BY DEF RegInv, Perpetual
<1>1. ASSUME NEW k \in Key, PromoteFind(k)  PROVE RegInv' /\ Kept
  BY <1>1, PromoteFindKeepsRanked
<1>2. ASSUME NEW k \in Key, ArchivedFind(k)  PROVE RegInv' /\ Kept
  BY <1>2, ArchivedFindKeepsRanked
<1>3. CASE PromotePut  BY <1>3, PromotePutKeepsRanked
<1>4. ASSUME NEW i \in Index, DeleteArchived(i)  PROVE RegInv' /\ Kept
  BY <1>4, BatchKeepsRanked DEF DeleteArchived
<1>5. CASE DeleteExpired
  <2>1. windex \in Index  BY DEF TypeOK, WorkerTypeOK
  <2>2. QED  BY <1>5, <2>1, BatchKeepsRanked DEF DeleteExpired
<1>6. ASSUME NEW r \in wrows \cup wcheck  PROVE FALSE
  BY <1>r, <1>6
<1>7. CASE QueryExpired
  <2>1. ExpiredRows(windex) = {}
    BY StoreAssumption DEF ExpiredRows, TTLRow, RegInv, Perpetual, TypeOK, WorkerTypeOK
  <2>2. QED  BY <1>7, <2>1, IdlingKeepsRanked DEF QueryExpired
<1>8. CASE StartRun \/ ScanArchived \/ EnterExpired \/ CutOff
  BY <1>r, <1>8, IdlingKeepsRanked DEF StartRun, ScanArchived, EnterExpired, CutOff
<1>9. ASSUME NEW i \in Index, Trip(i)  PROVE RegInv' /\ Kept
  BY <1>r, <1>9, IdlingKeepsRanked DEF Trip
<1>10. CASE LeaveExpired \/ LeaveReconcile
  BY <1>r, <1>10, IdlingKeepsRanked DEF LeaveExpired, LeaveReconcile, NextIndex
<1>11. CASE ScanVectors \/ ReconcilePut
  BY <1>r, <1>11, IdlingKeepsRanked DEF ScanVectors, ReconcilePut
<1>12. ASSUME NEW y \in wfix, ReconcileGet(y)  PROVE RegInv' /\ Kept
  BY <1>r, <1>12, IdlingKeepsRanked DEF ReconcileGet
<1>13. QED
  BY <1>1, <1>2, <1>3, <1>4, <1>5, <1>6, <1>7, <1>8, <1>9, <1>10, <1>11, <1>12
  DEF ProceedWorker

-------------------------------------------------------------------------------
\* The refinement.

LEMMA InitRanked == Init => RegInv
<1> SUFFICES ASSUME Init PROVE RegInv
  OBVIOUS
<1> USE DEF Init, StoreInit, ClientInit, WorkerInit
<1>1. Perpetual  BY DEF Perpetual, Exists, Blank
<1>2. Ranked  BY DEF Ranked, Exists
<1>3. \A p \in Proc : CallerRanked(p)  BY DEF CallerRanked
<1>4. WorkerRanked  BY DEF WorkerRanked
<1>5. QED  BY <1>1, <1>2, <1>3, <1>4 DEF RegInv

LEMMA StepKeepsRanked ==
  ASSUME TypeOK, TypeOK', RegInv, Corrections,
         [Next]_vars, [KeysKeepTheirGroup]_vars
  PROVE  RegInv' /\ (Kept \/ OneUp)
<1>1. CASE UNCHANGED vars
  <2>1. /\ UNCHANGED <<vec, ttl, clientVars, wrows, wcheck, wbatch, wpc, whold>>
        /\ wrows' = {} /\ wcheck' = {}
    BY <1>1 DEF vars, storeVars, clientVars, workerVars, RegInv, Perpetual
  <2>2. KeysKeepTheirGroup  BY <2>1 DEF KeysKeepTheirGroup
  <2>3. ASSUME Kept  PROVE WorkerRanked'
    <3>1. \A y \in wbatch' : y \in wbatch /\ vec'[y] # None
      BY <2>1 DEF RegInv, WorkerRanked, Exists
    <3>2. wbatch \subseteq Addr /\ WorkerRanked  BY DEF TypeOK, WorkerTypeOK, RegInv
    <3>3. QED  BY <2>1, <2>2, <2>3, <3>1, <3>2, KeptRises, WorkerStaysRanked
  <2>4. wpc' = "promote_put" => whold'[2].expires_at = NoExpiry
    BY <2>1 DEF RegInv, Perpetual
  <2>5. QED  BY <2>1, <2>3, <2>4, WorkerReads
<1>2. CASE Next /\ KeysKeepTheirGroup
  <2>1. CASE Tick
    <3>1. KeysKeepTheirGroup  BY <2>1 DEF Tick, KeysKeepTheirGroup
    <3>2. /\ UNCHANGED <<vec, ttl, clientVars, wrows, wcheck, wbatch>>
          /\ wrows' = {} /\ wcheck' = {} /\ wpc' # "promote_put"
      BY <2>1 DEF Tick, workerVars, RegInv, Perpetual
    <3>3. QED  BY <3>2, IdlingKeepsRanked
  <2>2. ASSUME NEW p \in Proc, Client(p)  PROVE RegInv' /\ (Kept \/ OneUp)
    BY <1>2, <2>2, ClientKeepsRanked
  <2>3. CASE Worker
    BY <1>2, <2>3, WorkerKeepsRanked
    DEF Worker, RunBegins, RunProceeds, RunIsCut, StartRun, CutOff, clientVars
  <2>4. QED  BY <1>2, <2>1, <2>2, <2>3 DEF Next
<1>3. QED  BY <1>1, <1>2

newestOf == [s \in Index \X Cid |-> Newest(s[1], s[2])]

\* A step of the vault is a step of the register, or none.
LEMMA KeptIsNoStep == Kept => newestOf' = newestOf
  BY DEF Kept, newestOf

LEMMA OneUpIsAStep == OneUp => Register!Next
<1> SUFFICES ASSUME OneUp PROVE Register!Next
  OBVIOUS
<1> PICK i \in Index, g \in Cid :
      /\ Newest(i, g)' = Newest(i, g) + 1
      /\ \A j \in Index, h \in Cid : j # i \/ h # g => Newest(j, h)' = Newest(j, h)
  BY DEF OneUp
<1> DEFINE s == <<i, g>>
<1>s. s \in Index \X Cid /\ s[1] = i /\ s[2] = g  OBVIOUS
<1>n. newestOf[s] = Newest(i, g)  BY <1>s DEF newestOf
<1>1. newestOf'[s] = newestOf[s] + 1 /\ newestOf'[s] <= MaxVersion
  <2>1. /\ Newest(i, g) \in 0..MaxVersion
        /\ Newest(i, g)' \in 0..MaxVersion
    BY NewestTyped
  <2>2. MaxVersion \in Int  BY StoreAssumption
  <2>3. newestOf'[s] = Newest(i, g)'  BY <1>s DEF newestOf
  <2>4. QED  BY <1>n, <2>1, <2>2, <2>3
<1>2. newestOf' = [newestOf EXCEPT ![s] = newestOf[s] + 1]
  <2>1. newestOf' = [t \in Index \X Cid |-> Newest(t[1], t[2])']  BY DEF newestOf
  <2>2. ASSUME NEW t \in Index \X Cid
        PROVE  Newest(t[1], t[2])' = IF t = s THEN newestOf[s] + 1 ELSE newestOf[t]
    <3>1. CASE t = s
      BY <1>s, <1>n, <3>1
    <3>2. CASE t # s
      <4>1. PICK j \in Index, h \in Cid : t = <<j, h>>  OBVIOUS
      <4>2. j # i \/ h # g  BY <3>2, <4>1
      <4>3. Newest(j, h)' = Newest(j, h)  BY <4>2
      <4>4. newestOf[t] = Newest(j, h)  BY <4>1 DEF newestOf
      <4>5. QED  BY <3>2, <4>1, <4>3, <4>4
    <3>3. QED  BY <3>1, <3>2
  <2>3. QED  BY <2>1, <2>2 DEF newestOf
<1>3. Register!Advance(s)
  BY <1>1, <1>2 DEF Register!Advance, newestOf
<1>4. QED  BY <1>s, <1>3 DEF Register!Next

\* A reader of a group sees a register that starts empty and only moves to the
\* next version, whatever callers race, crash or lose row writes and whatever
\* the worker does: for every number of callers, contents, versions and indexes,
\* as long as callers store, supersede, restore and use memories, nothing expires
\* and no key changes its group (see OneGroupIsARegister for when it cannot).
THEOREM GroupsAreRegisters ==
  ASSUME Corrections
  PROVE  Spec /\ [][KeysKeepTheirGroup]_vars => ReaderSeesARegister
<1>1. Init => Register!Init
  <2> SUFFICES ASSUME Init PROVE Register!Init
    OBVIOUS
  <2>1. \A i \in Index, g \in Cid : Candidates(i, g) = {}
    BY DEF Init, StoreInit, Candidates, StatusIs, Exists, Addr
  <2>2. QED  BY <2>1, NewestIsOf DEF NewestOf, Register!Init
<1>2. TypeOK /\ TypeOK' /\ RegInv /\ [Next]_vars /\ [KeysKeepTheirGroup]_vars =>
        RegInv' /\ [Register!Next]_newestOf
  BY StepKeepsRanked, KeptIsNoStep, OneUpIsAStep
<1>3. QED
  BY <1>1, <1>2, InitRanked, TypeCorrect, PTL DEF Spec, ReaderSeesARegister, Register!Spec, newestOf

-------------------------------------------------------------------------------
\* When callers name the group themselves, all vectors are of that group, and
\* then no key changes it.

Gathered(g) ==
  /\ \A x \in Addr : Exists(x) => vec[x].cid = g
  /\ \A p \in Proc : /\ loc[p].old # None => loc[p].old.cid = g
                     /\ loc[p].cid # None => loc[p].cid = g
                     /\ pc[p] = "dedup" /\ loc[p].sup = None => loc[p].cid = g
  /\ wpc = "promote_put" => whold[2].cid = g

LEMMA CallerStaysGathered ==
  ASSUME TypeOK, NEW g \in Cid, Gathered(g), NEW p \in Proc, NEW label, NEW l,
         Goto(p, label), Keep(p, l), UNCHANGED workerVars,
         l.old # None => l.old.cid = g, l.cid # None => l.cid = g,
         label = "dedup" /\ l.sup = None => l.cid = g,
         \/ vec' = vec
         \/ \E x \in Addr, v \in Vector : v.cid = g /\ vec' = [vec EXCEPT ![x] = v]
  PROVE  Gathered(g)'
<1>1. /\ pc'[p] = label /\ loc'[p] = l
      /\ \A q \in Proc : q # p => pc'[q] = pc[q] /\ loc'[q] = loc[q]
  BY DEF TypeOK, ClientTypeOK, Goto, Keep
<1>2. \A x \in Addr : Exists(x)' => vec'[x].cid = g
  BY DEF TypeOK, StoreTypeOK, Gathered, Exists
<1>3. \A q \in Proc : /\ loc'[q].old # None => loc'[q].old.cid = g
                      /\ loc'[q].cid # None => loc'[q].cid = g
                      /\ pc'[q] = "dedup" /\ loc'[q].sup = None => loc'[q].cid = g
  BY <1>1 DEF Gathered
<1>4. QED  BY <1>2, <1>3 DEF Gathered, workerVars

LEMMA FinishStaysGathered ==
  ASSUME TypeOK, NEW g \in Cid, Gathered(g), NEW p \in Proc, Finish(p),
         UNCHANGED workerVars, vec' = vec
  PROVE  Gathered(g)'
<1>1. Goto(p, "idle") /\ Keep(p, Blank) /\ Blank.old = None /\ Blank.cid = None
  BY DEF Finish, Blank
<1>2. QED  BY <1>1, CallerStaysGathered

LEMMA RequestStaysGathered ==
  ASSUME TypeOK, NEW g \in Cid, Gathered(g), Corrections, CallerCid = {g},
         NEW p \in Proc, Request(p), UNCHANGED workerVars
  PROVE  Gathered(g)'
<1> PICK i \in Index :
      \/ \E c \in Content, e \in Expiries :
           \/ \E h \in CallerCid, m \in Modes : RequestStore(p, i, c, h, e, m)
           \/ \E k \in Key : RequestSupersede(p, i, c, e, k)
      \/ \E k \in Key :
           RequestRestore(p, i, k) \/ RequestArchive(p, i, k) \/ RequestUse(p, i, k)
      \/ \E h \in Cid : RequestPurge(p, i, h)
  BY DEF Request
<1>n. None \notin Cid /\ None \notin Key  BY StoreAssumption DEF Cid
<1>v. ASSUME NEW k \in Key, Exists(<<i, k>>)  PROVE vec[<<i, k>>].cid = g
  BY <1>v DEF Gathered, Addr
<1>1. ASSUME NEW c \in Content, NEW e \in Expiries, NEW m \in Modes,
             RequestStore(p, i, c, g, e, m)
      PROVE  Gathered(g)'
  <2> DEFINE l == [Blank EXCEPT !.idx = i, !.content = c, !.cid = g,
                                !.expires_at = e, !.mode = m]
  <2>1. l.cid = g /\ l.old = None  BY DEF Blank
  <2>2. Goto(p, "dedup") /\ Keep(p, l) /\ vec' = vec
    BY <1>1 DEF RequestStore, Begin, storeVars
  <2> HIDE DEF l
  <2>3. QED  BY <2>1, <2>2, CallerStaysGathered
<1>2. ASSUME NEW c \in Content, NEW e \in Expiries, NEW k \in Key,
             RequestSupersede(p, i, c, e, k)
      PROVE  Gathered(g)'
  <2> DEFINE l == [Blank EXCEPT !.idx = i, !.content = c, !.expires_at = e, !.sup = k]
  <2>1. l.cid = None /\ l.old = None /\ l.sup # None  BY <1>n DEF Blank
  <2>2. Goto(p, "dedup") /\ Keep(p, l) /\ vec' = vec
    BY <1>2 DEF RequestSupersede, Begin, storeVars
  <2> HIDE DEF l
  <2>3. QED  BY <2>1, <2>2, CallerStaysGathered
<1>3. ASSUME NEW k \in Key, RequestRestore(p, i, k)  PROVE Gathered(g)'
  <2> DEFINE l == [Blank EXCEPT !.idx = i, !.content = k.content, !.key = k,
                                !.cid = vec[<<i, k>>].cid]
  <2>1. l.cid = g /\ l.old = None  BY <1>3, <1>v DEF Blank, RequestRestore
  <2>2. Goto(p, "restore_row") /\ Keep(p, l) /\ vec' = vec
    BY <1>3 DEF RequestRestore, Begin, storeVars
  <2> HIDE DEF l
  <2>3. QED  BY <2>1, <2>2, CallerStaysGathered
<1>4. ASSUME NEW k \in Key, RequestUse(p, i, k)  PROVE Gathered(g)'
  <2> DEFINE l == [Blank EXCEPT !.idx = i, !.cid = vec[<<i, k>>].cid]
  <2>1. l.cid = g /\ l.old = None  BY <1>4, <1>v DEF Blank, RequestUse
  <2>2. Goto(p, "use_row") /\ Keep(p, l) /\ vec' = vec
    BY <1>4 DEF RequestUse, Begin, storeVars
  <2> HIDE DEF l
  <2>3. QED  BY <2>1, <2>2, CallerStaysGathered
<1>5. ASSUME NEW k \in Key, RequestArchive(p, i, k)  PROVE FALSE
  BY <1>5 DEF RequestArchive, Begin, Corrections
<1>6. ASSUME NEW h \in Cid, RequestPurge(p, i, h)  PROVE FALSE
  BY <1>6 DEF RequestPurge, Begin, Corrections
<1>7. QED  BY <1>1, <1>2, <1>3, <1>4, <1>5, <1>6

\* Every vector a caller writes has the group it holds.
LEMMA ProceedStaysGathered ==
  ASSUME TypeOK, NEW g \in Cid, Gathered(g), NEW p \in Proc,
         Store(p) \/ Archive(p) \/ RestoreReadsRow(p) \/ RecordUse(p) \/ Crash(p),
         UNCHANGED workerVars
  PROVE  Gathered(g)'
<1>l. loc[p] \in Local /\ Complete(pc[p], loc[p])  BY LocTyped DEF TypeOK
<1>n. None \notin Cid /\ None \notin Vector /\ g # None  BY StoreAssumption DEF Cid
<1>g. /\ loc[p].old # None => loc[p].old.cid = g
      /\ loc[p].cid # None => loc[p].cid = g
      /\ pc[p] = "dedup" /\ loc[p].sup = None => loc[p].cid = g
  BY DEF Gathered
<1>k. UNCHANGED loc => Keep(p, loc[p])  BY DEF Keep, TypeOK, ClientTypeOK
<1>v. ASSUME NEW w \in Vector, NEW s \in Status, NEW t \in Time
      PROVE  /\ [w EXCEPT !.status = s] \in Vector
             /\ [w EXCEPT !.status = s].cid = w.cid
             /\ [w EXCEPT !.status = s, !.archived_at = t] \in Vector
             /\ [w EXCEPT !.status = s, !.archived_at = t].cid = w.cid
  BY DEF Vector
<1>1. CASE \/ StoreUnchanged(p) \/ StoreNearDuplicate(p) \/ UpsertRow(p)
           \/ RecordUse(p) \/ Crash(p) \/ ArchiveUpsert(p)
  BY <1>1, FinishStaysGathered
  DEF StoreUnchanged, StoreNearDuplicate, UpsertRow, RecordUse, Crash, ArchiveUpsert,
      storeVars
<1>2. CASE StoreSupersedes(p)
  <2>1. Goto(p, "get_old") /\ Keep(p, loc[p]) /\ vec' = vec
    BY <1>2, <1>k DEF StoreSupersedes, storeVars
  <2>2. QED  BY <1>g, <2>1, CallerStaysGathered
<1>3. CASE WriteTTLRow(p)
  <2>1. Goto(p, AfterTTL(loc[p])) /\ Keep(p, loc[p]) /\ vec' = vec
        /\ AfterTTL(loc[p]) # "dedup"
    BY <1>3, <1>k DEF WriteTTLRow, AfterTTL
  <2>2. QED  BY <1>g, <2>1, CallerStaysGathered
<1>4. CASE RestoreReadsRow(p)
  <2> PICK r \in RowReads(loc[p].cid) :
        Keep(p, [loc[p] EXCEPT
                   !.sup = IF r = None THEN loc[p].key ELSE r.latest_key,
                   !.key = None])
    BY <1>4 DEF RestoreReadsRow
  <2> DEFINE l == [loc[p] EXCEPT
                     !.sup = IF r = None THEN loc[p].key ELSE r.latest_key,
                     !.key = None]
  <2>1. l.cid = g /\ l.old = loc[p].old
    BY <1>l, <1>g, <1>n, <1>4 DEF Local, RestoreReadsRow, Complete
  <2>2. Goto(p, "dedup") /\ Keep(p, l) /\ vec' = vec
    BY <1>4 DEF RestoreReadsRow, storeVars
  <2> HIDE DEF l
  <2>3. QED  BY <1>g, <2>1, <2>2, CallerStaysGathered
<1>5. CASE StoreFresh(p)
  <2> DEFINE k == BuildVectorKey(AgentOf[p], loc[p].content, 1)
             h == IF loc[p].cid = None THEN loc[p].content ELSE loc[p].cid
             l == [loc[p] EXCEPT !.key = k, !.cid = h]
  <2>1. l.cid = g /\ l.old = loc[p].old  BY <1>l, <1>g, <1>n, <1>5 DEF Local, StoreFresh
  <2>2. Goto(p, "vector") /\ Keep(p, l) /\ vec' = vec  BY <1>5 DEF StoreFresh, storeVars
  <2> HIDE DEF l
  <2>3. QED  BY <1>g, <2>1, <2>2, CallerStaysGathered
<1>6. CASE GetOld(p)
  <2>1. CASE Finish(p)
    BY <1>6, <2>1, FinishStaysGathered DEF GetOld, storeVars
  <2>2. CASE ~Finish(p)
    <3> DEFINE k == BuildVectorKey(AgentOf[p], loc[p].content, loc[p].sup.version + 1)
               l == [loc[p] EXCEPT !.old = vec[Old(p)], !.cid = vec[Old(p)].cid, !.key = k]
    <3>1. /\ Goto(p, "vector") /\ Keep(p, l) /\ vec' = vec /\ Exists(Old(p))
      BY <1>6, <2>2 DEF GetOld, storeVars
    <3>2. Old(p) \in Addr  BY <1>6, <1>l DEF GetOld, Complete, Local, Old, Addr
    <3>3. vec[Old(p)].cid = g  BY <3>1, <3>2 DEF Gathered
    <3>4. l.cid = g /\ l.old.cid = g  BY <1>l, <3>3 DEF Local
    <3> HIDE DEF l
    <3>5. QED  BY <3>1, <3>4, CallerStaysGathered
  <2>3. QED  BY <2>1, <2>2
<1>7. CASE WriteVector(p)
  <2>1. /\ Goto(p, AfterVector(loc[p])) /\ Keep(p, loc[p])
        /\ AfterVector(loc[p]) # "dedup"
        /\ vec' = [vec EXCEPT ![Here(p)] = NewVector(loc[p].cid, loc[p].expires_at)]
    BY <1>7, <1>k DEF WriteVector, AfterVector, AfterTTL, PutVector
  <2>2. Here(p) \in Addr /\ loc[p].cid = g /\ loc[p].expires_at \in Time \cup {NoExpiry}
    BY <1>7, <1>l, <1>g, <1>n DEF WriteVector, Complete, Local, Here, Addr
  <2>3. NewVector(g, loc[p].expires_at) \in Vector /\ NewVector(g, loc[p].expires_at).cid = g
    BY <2>2, NewVectorTyped DEF TypeOK, NewVector
  <2>4. QED  BY <1>g, <2>1, <2>2, <2>3, CallerStaysGathered
<1>8. CASE RewriteOld(p)
  <2> DEFINE v == [loc[p].old EXCEPT !.status = "superseded"]
  <2>1. Goto(p, "upsert") /\ Keep(p, loc[p]) /\ vec' = [vec EXCEPT ![Old(p)] = v]
    BY <1>8, <1>k DEF RewriteOld, PutVector
  <2>2. Old(p) \in Addr /\ loc[p].old \in Vector
    BY <1>8, <1>l, <1>n DEF RewriteOld, Complete, Local, Old, Addr
  <2>3. v \in Vector /\ v.cid = g  BY <1>g, <1>n, <1>v, <2>2, StoreAssumption DEF Status, Vector
  <2> HIDE DEF v
  <2>4. QED  BY <1>g, <2>1, <2>2, <2>3, CallerStaysGathered
<1>9. CASE ArchivePut(p)
  <2> DEFINE v == [loc[p].old EXCEPT !.status = "archived", !.archived_at = clock]
  <2>1. Goto(p, "archive_row") /\ Keep(p, loc[p]) /\ vec' = [vec EXCEPT ![Here(p)] = v]
    BY <1>9, <1>k DEF ArchivePut, PutVector
  <2>2. Here(p) \in Addr /\ loc[p].old \in Vector /\ clock \in Time
    BY <1>9, <1>l DEF ArchivePut, Complete, Local, Here, Addr, TypeOK, StoreTypeOK
  <2>3. v \in Vector /\ v.cid = g  BY <1>g, <1>n, <1>v, <2>2 DEF Status
  <2> HIDE DEF v
  <2>4. QED  BY <1>g, <2>1, <2>2, <2>3, CallerStaysGathered
<1>10. CASE ArchiveReadsRow(p)
  <2> PICK r \in RowReads(loc[p].cid) :
        IF r = None THEN Finish(p)
        ELSE Goto(p, "archive_upsert") /\ Keep(p, [loc[p] EXCEPT !.row = r])
    BY <1>10 DEF ArchiveReadsRow
  <2> DEFINE l == [loc[p] EXCEPT !.row = r]
  <2>1. l.cid = loc[p].cid /\ l.old = loc[p].old  BY <1>l DEF Local
  <2>2. vec' = vec  BY <1>10 DEF ArchiveReadsRow, storeVars
  <2> HIDE DEF l
  <2>3. CASE r = None
    BY <2>2, <2>3, FinishStaysGathered
  <2>4. CASE r # None
    <3>1. Goto(p, "archive_upsert") /\ Keep(p, l)  BY <2>4 DEF l
    <3>2. QED  BY <1>g, <2>1, <2>2, <3>1, CallerStaysGathered
  <2>5. QED  BY <2>3, <2>4
<1>11. QED
  BY <1>1, <1>2, <1>3, <1>4, <1>5, <1>6, <1>7, <1>8, <1>9, <1>10 DEF Store, Archive

\* The worker writes what it has read, and deletes.
LEMMA WorkerStaysGathered ==
  ASSUME TypeOK, NEW g \in Cid, Gathered(g), StartRun \/ ProceedWorker \/ CutOff,
         UNCHANGED clientVars
  PROVE  Gathered(g)'
<1> USE DEF Enter, storeVars
<1>g. \A p \in Proc : /\ loc'[p].old # None => loc'[p].old.cid = g
                      /\ loc'[p].cid # None => loc'[p].cid = g
                      /\ pc'[p] = "dedup" /\ loc'[p].sup = None => loc'[p].cid = g
  BY DEF Gathered, clientVars
<1>m. ASSUME \A x \in Addr : vec'[x] = vec[x] \/ vec'[x] = None,
             wpc' = "promote_put" => wpc = "promote_put" /\ whold' = whold
      PROVE  Gathered(g)'
  BY <1>g, <1>m DEF Gathered, Exists
<1>1. ASSUME NEW k \in Key, PromoteFind(k)  PROVE Gathered(g)'
  <2>1. ASSUME wpc' = "promote_put"  PROVE whold'[2].cid = g
    <3>1. PICK x \in Find(k) : whold' = <<x, vec[x]>>
      BY <1>1, <2>1 DEF PromoteFind
    <3>2. QED  BY <3>1 DEF Find, Gathered
  <2>2. vec' = vec  BY <1>1 DEF PromoteFind
  <2>3. QED  BY <1>g, <2>1, <2>2 DEF Gathered, Exists
<1>2. CASE PromotePut
  <2> PICK x \in Addr, w \in Vector : whold = <<x, w>>
    BY <1>2 DEF PromotePut, TypeOK, WorkerTypeOK
  <2> DEFINE v == [w EXCEPT !.status = "archived", !.archived_at = clock]
  <2>1. w.cid = g  BY <1>2 DEF Gathered, PromotePut
  <2>2. v.cid = g  BY <2>1 DEF Vector
  <2>3. vec' = [vec EXCEPT ![x] = v] /\ wpc' = "promote"
    BY <1>2 DEF PromotePut, PutVector
  <2> HIDE DEF v
  <2>4. \A y \in Addr : Exists(y)' => vec'[y].cid = g
    BY <2>2, <2>3 DEF Gathered, Exists, TypeOK, StoreTypeOK
  <2>5. QED  BY <1>g, <2>3, <2>4 DEF Gathered
<1>3. ASSUME NEW i, DeleteBatch(i), wpc' # "promote_put"  PROVE Gathered(g)'
  BY <1>3, <1>m, SomeGoes DEF DeleteVectors
<1>4. ASSUME vec' = vec, wpc' # "promote_put"  PROVE Gathered(g)'
  BY <1>4, <1>m
<1>5. ASSUME NEW i \in Index, DeleteArchived(i) \/ Trip(i)  PROVE Gathered(g)'
  BY <1>3, <1>4, <1>5 DEF DeleteArchived, Trip
<1>6. CASE DeleteExpired
  BY <1>3, <1>6 DEF DeleteExpired
<1>7. CASE StartRun \/ ScanArchived \/ EnterExpired \/ QueryExpired \/ CutOff
  BY <1>4, <1>7 DEF StartRun, ScanArchived, EnterExpired, QueryExpired, CutOff
<1>8. CASE LeaveExpired \/ ScanVectors \/ ReconcilePut \/ LeaveReconcile
  BY <1>4, <1>8 DEF LeaveExpired, ScanVectors, ReconcilePut, LeaveReconcile, NextIndex
<1>9. ASSUME NEW r, ExpiredFind(r) \/ CleanTTLRow(r)  PROVE Gathered(g)'
  BY <1>4, <1>9 DEF ExpiredFind, CleanTTLRow
<1>10. ASSUME NEW y, ReconcileGet(y)  PROVE Gathered(g)'
  BY <1>4, <1>10 DEF ReconcileGet
<1>11. ASSUME NEW k, ArchivedFind(k)  PROVE Gathered(g)'
  BY <1>4, <1>11 DEF ArchivedFind
<1>12. QED
  BY <1>1, <1>2, <1>5, <1>6, <1>7, <1>8, <1>9, <1>10, <1>11 DEF ProceedWorker

\* Callers that all name one group and neither retract, purge nor set an expiry
\* see it as a register, with no further assumption.
THEOREM OneGroupIsARegister ==
  ASSUME Corrections, NEW g \in Cid, CallerCid = {g}
  PROVE  Spec => ReaderSeesARegister
<1>1. Init => Gathered(g)
  BY DEF Init, StoreInit, ClientInit, WorkerInit, Gathered, Exists, Blank
<1>2. TypeOK /\ Gathered(g) /\ [Next]_vars => Gathered(g)'
  <2> SUFFICES ASSUME TypeOK, Gathered(g), [Next]_vars PROVE Gathered(g)'
    OBVIOUS
  <2>1. CASE Tick \/ UNCHANGED vars
    BY <2>1 DEF Tick, vars, storeVars, clientVars, workerVars, Gathered, Exists
  <2>2. ASSUME NEW p \in Proc, Client(p)  PROVE Gathered(g)'
    <3>1. UNCHANGED workerVars  BY <2>2 DEF Client
    <3>2. CASE Purge(p)
      <4>1. \A x \in Addr : vec'[x] = vec[x] \/ vec'[x] = None
        BY <3>2 DEF Purge, PurgeVectors, PurgeRow, DeleteVectors
      <4>2. CASE Finish(p)
        <5>1. /\ Blank.old = None /\ Blank.cid = None
              /\ \A q \in Proc : q # p => pc'[q] = pc[q] /\ loc'[q] = loc[q]
              /\ pc'[p] = "idle" /\ loc'[p] = Blank
          BY <4>2 DEF Finish, Goto, Keep, Blank, TypeOK, ClientTypeOK
        <5>2. QED  BY <3>1, <4>1, <5>1 DEF Gathered, Exists, workerVars
      <4>3. CASE Goto(p, "purge_row") /\ loc' = loc
        <5>1. \A q \in Proc : pc'[q] = "dedup" => pc[q] = "dedup"
          BY <4>3 DEF Goto, TypeOK, ClientTypeOK
        <5>2. QED  BY <3>1, <4>1, <4>3, <5>1 DEF Gathered, Exists, workerVars
      <4>4. QED  BY <3>2, <4>2, <4>3 DEF Purge, PurgeVectors, PurgeRow
    <3>3. QED
      BY <2>2, <3>1, <3>2, RequestStaysGathered, ProceedStaysGathered
      DEF Client, ClientStep, ProceedClient
  <2>3. CASE Worker
    BY <2>3, WorkerStaysGathered DEF Worker, RunBegins, RunProceeds, RunIsCut
  <2>4. QED  BY <2>1, <2>2, <2>3 DEF Next
<1>3. Gathered(g) /\ Gathered(g)' => KeysKeepTheirGroup
  BY DEF Gathered, KeysKeepTheirGroup
<1>4. Spec => [](TypeOK /\ Gathered(g))
  BY <1>1, <1>2, TypeCorrect, PTL DEF Spec
<1>5. Spec => [][KeysKeepTheirGroup]_vars
  BY <1>3, <1>4, PTL
<1>6. QED  BY <1>5, GroupsAreRegisters, PTL
===============================================================================
