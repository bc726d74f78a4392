----------------------------- MODULE ClientProofs -----------------------------
(***************************************************************************)
(* Lemmas, for every number of callers, contents, versions and indexes, on *)
(* the type correctness of the remote calls and of the write side, which   *)
(* the proofs about the modules built on MemoryClient rest on.             *)
(***************************************************************************)
EXTENDS MemoryClient, TLAPS, WellFoundedInduction

-------------------------------------------------------------------------------
\* Type correctness of the remote calls.

LEMMA PutVectorTyped ==
  ASSUME StoreTypeOK, NEW x \in Addr, NEW v \in Vector, PutVector(x, v),
         UNCHANGED <<row, ttl, clock>>
  PROVE  StoreTypeOK'
  BY DEF StoreTypeOK, PutVector

LEMMA DeleteVectorsTyped ==
  ASSUME StoreTypeOK, NEW xs, DeleteVectors(xs), UNCHANGED <<row, ttl, clock>>
  PROVE  StoreTypeOK'
  BY DEF StoreTypeOK, DeleteVectors

LEMMA PutRowTyped ==
  ASSUME StoreTypeOK, NEW g \in Cid, NEW r \in Row \cup {None},
         PutRow(g, r) \/ UNCHANGED row,
         UNCHANGED <<vec, ttl, clock, lastLive, renewed>>
  PROVE  StoreTypeOK'
  BY DEF StoreTypeOK, PutRow

LEMMA PutTTLRowTyped ==
  ASSUME StoreTypeOK, NEW i \in Index, NEW e \in Time, NEW k \in Key \cup {None},
         PutTTLRow(i, e, k) \/ UNCHANGED ttl,
         UNCHANGED <<vec, row, clock, lastLive, renewed>>
  PROVE  StoreTypeOK'
  BY DEF StoreTypeOK, PutTTLRow

LEMMA StoreUntouched ==
  ASSUME StoreTypeOK, UNCHANGED storeVars
  PROVE  StoreTypeOK'
  BY DEF StoreTypeOK, storeVars

LEMMA NewVectorTyped ==
  ASSUME StoreTypeOK, NEW g \in Cid, NEW e \in Time \cup {NoExpiry}
  PROVE  NewVector(g, e) \in Vector
  BY DEF StoreTypeOK, NewVector, Vector, Status

\* The constants the client is parameterised by.
LEMMA BlankTyped == Blank \in Local /\ Complete("idle", Blank)
  BY StoreAssumption DEF Blank, Local, Complete, Index

-------------------------------------------------------------------------------
\* Type correctness of the callers.

\* One caller moves; what it holds is complete for where it goes.
LEMMA Moves ==
  ASSUME ClientTypeOK, NEW p \in Proc, NEW label \in Labels, NEW l \in Local,
         Goto(p, label), Keep(p, l), requests' \in Nat, Complete(label, l)
  PROVE  ClientTypeOK'
  BY DEF ClientTypeOK, Goto, Keep

LEMMA Finishes ==
  ASSUME ClientTypeOK, NEW p \in Proc, Finish(p), UNCHANGED requests
  PROVE  ClientTypeOK'
<1>1. "idle" \in Labels  BY DEF Labels
<1>2. requests' \in Nat  BY DEF ClientTypeOK
<1>3. QED  BY <1>1, <1>2, BlankTyped, Moves DEF Finish

LEMMA Begins ==
  ASSUME ClientTypeOK, NEW p \in Proc, NEW op, NEW label \in Labels,
         NEW l \in Local, Begin(p, op, label, l), Complete(label, l)
  PROVE  ClientTypeOK'
<1>1. requests' \in Nat  BY DEF ClientTypeOK, Begin
<1>2. QED  BY <1>1, Moves DEF Begin

LEMMA LocTyped ==
  ASSUME ClientTypeOK, NEW p \in Proc
  PROVE  loc[p] \in Local /\ Complete(pc[p], loc[p])
  BY DEF ClientTypeOK

\* A request only fills in what the caller passed and, for some, one read.
LEMMA ReadTyped ==
  ASSUME StoreTypeOK, NEW i \in Index, NEW k \in Key, Exists(<<i, k>>)
  PROVE  vec[<<i, k>>] \in Vector /\ vec[<<i, k>>].cid \in Cid
  BY DEF StoreTypeOK, Exists, Vector, Addr

LEMMA RequestStoreTyped ==
  ASSUME StoreTypeOK, ClientTypeOK, NEW p \in Proc, NEW i \in Index,
         NEW c \in Content, NEW g \in Cid \cup {None},
         NEW e \in Time \cup {NoExpiry}, NEW m \in {"auto", "new"}, RequestStore(p, i, c, g, e, m)
  PROVE  StoreTypeOK' /\ ClientTypeOK'
<1> USE DEF Labels
<1> DEFINE l == [Blank EXCEPT !.idx = i, !.content = c, !.cid = g,
                              !.expires_at = e, !.mode = m]
<1>1. l \in Local /\ Complete("dedup", l)
  BY BlankTyped, ClientAssumption DEF Local, Complete, Blank
<1>2. Begin(p, "store", "dedup", l) /\ UNCHANGED storeVars
  BY DEF RequestStore
<1>3. QED  BY <1>1, <1>2, Begins, StoreUntouched

LEMMA RequestSupersedeTyped ==
  ASSUME StoreTypeOK, ClientTypeOK, NEW p \in Proc, NEW i \in Index,
         NEW c \in Content, NEW e \in Time \cup {NoExpiry}, NEW k \in Key,
         RequestSupersede(p, i, c, e, k)
  PROVE  StoreTypeOK' /\ ClientTypeOK'
<1> USE DEF Labels
<1> DEFINE l == [Blank EXCEPT !.idx = i, !.content = c, !.expires_at = e, !.sup = k]
<1>1. l \in Local /\ Complete("dedup", l)
  BY BlankTyped, ClientAssumption DEF Local, Complete, Blank
<1>2. Begin(p, "supersede", "dedup", l) /\ UNCHANGED storeVars
  BY DEF RequestSupersede
<1>3. QED  BY <1>1, <1>2, Begins, StoreUntouched

LEMMA RequestRestoreTyped ==
  ASSUME StoreTypeOK, ClientTypeOK, NEW p \in Proc, NEW i \in Index,
         NEW k \in Key, RequestRestore(p, i, k)
  PROVE  StoreTypeOK' /\ ClientTypeOK'
<1> USE DEF Labels
<1> DEFINE l == [Blank EXCEPT !.idx = i, !.content = k.content, !.key = k,
                              !.cid = vec[<<i, k>>].cid]
<1>1. l \in Local /\ Complete("restore_row", l)
  BY BlankTyped, ReadTyped DEF Local, Complete, Blank, Key, RequestRestore
<1>2. Begin(p, "restore", "restore_row", l) /\ UNCHANGED storeVars
  BY DEF RequestRestore
<1>3. QED  BY <1>1, <1>2, Begins, StoreUntouched

LEMMA RequestArchiveTyped ==
  ASSUME StoreTypeOK, ClientTypeOK, NEW p \in Proc, NEW i \in Index,
         NEW k \in Key, RequestArchive(p, i, k)
  PROVE  StoreTypeOK' /\ ClientTypeOK'
<1> USE DEF Labels
<1> DEFINE l == [Blank EXCEPT !.idx = i, !.key = k, !.old = vec[<<i, k>>],
                              !.cid = vec[<<i, k>>].cid]
<1>1. l \in Local /\ Complete("archive_put", l)
  BY BlankTyped, ReadTyped DEF Local, Complete, Blank, RequestArchive
<1>2. Begin(p, "archive", "archive_put", l) /\ UNCHANGED storeVars
  BY DEF RequestArchive
<1>3. QED  BY <1>1, <1>2, Begins, StoreUntouched

LEMMA RequestUseTyped ==
  ASSUME StoreTypeOK, ClientTypeOK, NEW p \in Proc, NEW i \in Index,
         NEW k \in Key, RequestUse(p, i, k)
  PROVE  StoreTypeOK' /\ ClientTypeOK'
<1> USE DEF Labels
<1> DEFINE l == [Blank EXCEPT !.idx = i, !.cid = vec[<<i, k>>].cid]
<1>1. l \in Local /\ Complete("use_row", l)
  BY BlankTyped, ReadTyped DEF Local, Complete, Blank, RequestUse
<1>2. Begin(p, "use", "use_row", l) /\ UNCHANGED storeVars
  BY DEF RequestUse
<1>3. QED  BY <1>1, <1>2, Begins, StoreUntouched

LEMMA RowReadsTyped ==
  ASSUME StoreTypeOK, NEW g \in Cid, NEW r \in RowReads(g)
  PROVE  r \in Row \cup {None}
  BY DEF StoreTypeOK, RowReads

LEMMA RequestPurgeTyped ==
  ASSUME StoreTypeOK, ClientTypeOK, NEW p \in Proc, NEW i \in Index,
         NEW g \in Cid, RequestPurge(p, i, g)
  PROVE  StoreTypeOK' /\ ClientTypeOK'
<1> USE DEF Labels
<1> PICK r \in RowReads(g) :
      Begin(p, "purge",
            IF r # None /\ (r.latest_key # None \/ r.superseded_keys # {})
              THEN "purge_vectors" ELSE "purge_row",
            [Blank EXCEPT !.idx = i, !.cid = g, !.row = r])
  BY DEF RequestPurge
<1> DEFINE l == [Blank EXCEPT !.idx = i, !.cid = g, !.row = r]
           label == IF r # None /\ (r.latest_key # None \/ r.superseded_keys # {})
                      THEN "purge_vectors" ELSE "purge_row"
<1>1. r \in Row \cup {None}  BY RowReadsTyped
<1>2. l \in Local /\ Complete(label, l) /\ label \in Labels
  BY BlankTyped, <1>1 DEF Local, Complete, Blank
<1>3. Begin(p, "purge", label, l)  OBVIOUS
<1>4. UNCHANGED storeVars  BY DEF RequestPurge
<1>5. QED  BY <1>2, <1>3, <1>4, Begins, StoreUntouched

LEMMA RequestTyped ==
  ASSUME StoreTypeOK, ClientTypeOK, NEW p \in Proc, Request(p)
  PROVE  StoreTypeOK' /\ ClientTypeOK'
<1> PICK i \in Index :
      \/ \E c \in Content, e \in Expiries :
           \/ \E g \in CallerCid, m \in Modes : RequestStore(p, i, c, g, e, m)
           \/ \E k \in Key : RequestSupersede(p, i, c, e, k)
      \/ \E k \in Key :
           RequestRestore(p, i, k) \/ RequestArchive(p, i, k) \/ RequestUse(p, i, k)
      \/ \E g \in Cid : RequestPurge(p, i, g)
  BY DEF Request
<1>1. /\ CallerCid \subseteq Cid \cup {None} /\ Modes \subseteq {"auto", "new"}
      /\ Expiries \subseteq Time \cup {NoExpiry}
  BY ClientAssumption
<1>2. QED
  BY <1>1, RequestStoreTyped, RequestSupersedeTyped, RequestRestoreTyped,
     RequestArchiveTyped, RequestUseTyped, RequestPurgeTyped

\* What two of the store's steps learn: the key and group of the write, and for
\* a supersession the vector it replaces.
LEMMA LearnsTarget ==
  ASSUME NEW l \in Local, NEW k \in Key, NEW g \in Cid, l.old = None
  PROVE  /\ [l EXCEPT !.key = k, !.cid = g] \in Local
         /\ Complete("vector", [l EXCEPT !.key = k, !.cid = g])
<1> DEFINE m == [l EXCEPT !.key = k, !.cid = g]
<1>1. m \in Local /\ m.key = k /\ m.cid = g /\ m.old = None  BY DEF Local
<1> HIDE DEF m
<1>2. Complete("vector", m)  BY <1>1 DEF Complete
<1>3. QED  BY <1>1, <1>2 DEF m

LEMMA LearnsOld ==
  ASSUME NEW l \in Local, NEW v \in Vector, NEW g \in Cid, NEW k \in Key,
         l.sup \in Key
  PROVE  /\ [l EXCEPT !.old = v, !.cid = g, !.key = k] \in Local
         /\ Complete("vector", [l EXCEPT !.old = v, !.cid = g, !.key = k])
<1> DEFINE m == [l EXCEPT !.old = v, !.cid = g, !.key = k]
<1>1. m \in Local /\ m.key = k /\ m.cid = g /\ m.sup = l.sup  BY DEF Local
<1> HIDE DEF m
<1>2. Complete("vector", m)  BY <1>1 DEF Complete
<1>3. QED  BY <1>1, <1>2 DEF m

LEMMA StoreStepTyped ==
  ASSUME StoreTypeOK, ClientTypeOK, NEW p \in Proc, Store(p)
  PROVE  StoreTypeOK' /\ ClientTypeOK'
<1> USE DEF Labels
<1>r. requests \in Nat  BY DEF ClientTypeOK
<1>l. loc[p] \in Local /\ Complete(pc[p], loc[p])  BY LocTyped
<1>h. ASSUME pc[p] \in {"vector", "ttl", "rewrite", "upsert"}
      PROVE  Here(p) \in Addr /\ loc[p].key \in Key /\ loc[p].cid \in Cid
  BY <1>h, <1>l DEF Complete, Here, Addr, Local
<1>1. CASE StoreUnchanged(p) \/ StoreNearDuplicate(p)
  BY <1>1, Finishes, StoreUntouched DEF StoreUnchanged, StoreNearDuplicate
<1>2. CASE StoreSupersedes(p)
  <2>1. Complete("get_old", loc[p])
    BY <1>2, <1>l DEF Complete, StoreSupersedes, Local
  <2>2. Goto(p, "get_old") /\ Keep(p, loc[p]) /\ requests' \in Nat
    BY <1>2, <1>r DEF StoreSupersedes, Keep, ClientTypeOK
  <2>3. QED  BY <1>2, <1>l, <2>1, <2>2, Moves, StoreUntouched DEF StoreSupersedes
<1>3. CASE StoreFresh(p)
  <2> DEFINE l == [loc[p] EXCEPT
                     !.key = BuildVectorKey(AgentOf[p], loc[p].content, 1),
                     !.cid = IF loc[p].cid = None THEN loc[p].content ELSE loc[p].cid]
  <2>1. BuildVectorKey(AgentOf[p], loc[p].content, 1) \in Key
    BY <1>3, <1>l, StoreAssumption, ClientAssumption
    DEF StoreFresh, Complete, BuildVectorKey, Key, Version
  <2>2. (IF loc[p].cid = None THEN loc[p].content ELSE loc[p].cid) \in Cid
    BY <1>3, <1>l DEF StoreFresh, Complete, Local, Cid
  <2>3. loc[p].old = None
    BY <1>3, <1>l DEF StoreFresh, Complete
  <2>4. loc[p] \in Local  BY <1>l
  <2>5. l \in Local /\ Complete("vector", l)
    BY <2>1, <2>2, <2>3, <2>4, LearnsTarget
  <2>6. Goto(p, "vector") /\ Keep(p, l) /\ requests' \in Nat
    BY <1>3, <1>r DEF StoreFresh
  <2>7. QED  BY <1>3, <2>5, <2>6, Moves, StoreUntouched DEF StoreFresh
<1>4. CASE GetOld(p)
  <2>1. CASE Exists(Old(p)) /\ loc[p].sup.version + 1 \in Version
    <3> DEFINE k == BuildVectorKey(AgentOf[p], loc[p].content, loc[p].sup.version + 1)
               l == [loc[p] EXCEPT !.old = vec[Old(p)], !.cid = vec[Old(p)].cid,
                                   !.key = k]
    <3>1. k \in Key
      BY <1>4, <1>l, <2>1, ClientAssumption
      DEF GetOld, Complete, BuildVectorKey, Key
    <3>2. loc[p].sup \in Key /\ Old(p) \in Addr
      BY <1>4, <1>l DEF GetOld, Complete, Old, Addr, Local
    <3>3. vec[Old(p)] \in Vector /\ vec[Old(p)].cid \in Cid
      BY <2>1, <3>2 DEF StoreTypeOK, Exists, Vector
    <3>4. l \in Local /\ Complete("vector", l)
      <4>1. loc[p] \in Local /\ loc[p].sup \in Key  BY <1>l, <3>2
      <4>2. QED  BY <3>1, <3>3, <4>1, LearnsOld
    <3>5. Goto(p, "vector") /\ Keep(p, l) /\ requests' \in Nat
      BY <1>4, <1>r, <2>1 DEF GetOld
    <3>6. QED  BY <1>4, <3>4, <3>5, Moves, StoreUntouched DEF GetOld
  <2>2. CASE ~(Exists(Old(p)) /\ loc[p].sup.version + 1 \in Version)
    BY <1>4, <2>2, Finishes, StoreUntouched DEF GetOld
  <2>3. QED  BY <2>1, <2>2
<1>5. CASE WriteVector(p)
  <2>1. NewVector(loc[p].cid, loc[p].expires_at) \in Vector
    BY <1>5, <1>h, <1>l, NewVectorTyped DEF WriteVector, Local
  <2>2. StoreTypeOK'
    BY <1>5, <1>h, <2>1, PutVectorTyped DEF WriteVector
  <2>3. loc[p].expires_at < NoExpiry => loc[p].expires_at \in Time
    BY <1>l, StoreAssumption DEF Local, Time, NoExpiry
  <2>4. loc[p].old # None => loc[p].old \in Vector  BY <1>l DEF Local
  <2>5. Complete(AfterVector(loc[p]), loc[p])
    BY <1>5, <1>l, <2>3, <2>4 DEF WriteVector, Complete, AfterVector, AfterTTL
  <2>6. AfterVector(loc[p]) \in Labels  BY DEF AfterVector, AfterTTL
  <2>7. Goto(p, AfterVector(loc[p])) /\ Keep(p, loc[p]) /\ requests' \in Nat
    BY <1>5, <1>r DEF WriteVector, Keep, ClientTypeOK
  <2>8. QED  BY <1>l, <2>2, <2>5, <2>6, <2>7, Moves
<1>6. CASE WriteTTLRow(p)
  <2>1. StoreTypeOK'
    <3>1. loc[p].idx \in Index /\ loc[p].expires_at \in Time /\ loc[p].key \in Key
      BY <1>6, <1>l DEF WriteTTLRow, Complete, Local
    <3>2. QED  BY <1>6, <3>1, PutTTLRowTyped DEF WriteTTLRow, BestEffort
  <2>2. loc[p].old # None => loc[p].old \in Vector  BY <1>l DEF Local
  <2>3. Complete(AfterTTL(loc[p]), loc[p])
    BY <1>6, <1>l, <2>2 DEF WriteTTLRow, Complete, AfterTTL
  <2>4. AfterTTL(loc[p]) \in Labels  BY DEF AfterTTL
  <2>5. Goto(p, AfterTTL(loc[p])) /\ Keep(p, loc[p]) /\ requests' \in Nat
    BY <1>6, <1>r DEF WriteTTLRow, Keep, ClientTypeOK
  <2>6. QED  BY <1>l, <2>1, <2>3, <2>4, <2>5, Moves
<1>7. CASE RewriteOld(p)
  <2>1. loc[p].old \in Vector /\ loc[p].sup \in Key /\ Old(p) \in Addr
    <3>1. loc[p].old \in Vector /\ loc[p].old # None
      BY <1>7, <1>l, StoreAssumption DEF RewriteOld, Complete
    <3>2. QED  BY <1>7, <1>l, <3>1 DEF RewriteOld, Complete, Old, Addr, Local
  <2>2. [loc[p].old EXCEPT !.status = "superseded"] \in Vector
    BY <2>1 DEF Vector, Status
  <2>3. StoreTypeOK'  BY <1>7, <2>1, <2>2, PutVectorTyped DEF RewriteOld
  <2>4. Complete("upsert", loc[p])  BY <1>7, <1>l DEF RewriteOld, Complete
  <2>5. Goto(p, "upsert") /\ Keep(p, loc[p]) /\ requests' \in Nat
    BY <1>7, <1>r DEF RewriteOld, Keep, ClientTypeOK
  <2>6. QED  BY <1>l, <2>3, <2>4, <2>5, Moves
<1>8. CASE UpsertRow(p)
  <2> DEFINE r == [latest_key |-> loc[p].key, created_at |-> clock,
                   status |-> "active",
                   superseded_keys |-> IF loc[p].old = None THEN {} ELSE {loc[p].sup},
                   listed |-> TRUE]
  <2>1. loc[p].old # None => loc[p].sup \in Key
    BY <1>8, <1>l DEF UpsertRow, Complete
  <2>2. r \in Row
    BY <1>8, <1>h, <2>1 DEF UpsertRow, Row, Status, StoreTypeOK
  <2>3. StoreTypeOK'
    BY <1>8, <1>h, <2>2, PutRowTyped DEF UpsertRow, BestEffort
  <2>4. QED  BY <1>8, <2>3, Finishes DEF UpsertRow
<1>9. QED
  BY <1>1, <1>2, <1>3, <1>4, <1>5, <1>6, <1>7, <1>8 DEF Store
LEMMA ArchiveStepTyped ==
  ASSUME StoreTypeOK, ClientTypeOK, NEW p \in Proc, Archive(p)
  PROVE  StoreTypeOK' /\ ClientTypeOK'
<1> USE DEF Labels
<1>l. loc[p] \in Local /\ Complete(pc[p], loc[p])  BY LocTyped
<1>h. Here(p) \in Addr /\ loc[p].key \in Key /\ loc[p].cid \in Cid /\ loc[p].old \in Vector
  BY <1>l DEF Archive, ArchivePut, ArchiveReadsRow, ArchiveUpsert, Complete, Here,
              Addr, Local
<1>1. CASE ArchivePut(p)
  <2> DEFINE v == [loc[p].old EXCEPT !.status = "archived", !.archived_at = clock]
  <2>1. v \in Vector
    <3>1. \A w \in Vector : \A t \in Time :
            [w EXCEPT !.status = "archived", !.archived_at = t] \in Vector
      BY DEF Vector, Status
    <3>2. clock \in Time  BY DEF StoreTypeOK
    <3>3. QED  BY <1>h, <3>1, <3>2
  <2>2. StoreTypeOK'  BY <1>1, <1>h, <2>1, PutVectorTyped DEF ArchivePut
  <2>3. Complete("archive_row", loc[p])  BY <1>1, <1>l DEF ArchivePut, Complete
  <2>4. Goto(p, "archive_row") /\ Keep(p, loc[p]) /\ requests' \in Nat
    BY <1>1 DEF ArchivePut, Keep, ClientTypeOK
  <2>5. QED  BY <1>l, <2>2, <2>3, <2>4, Moves
<1>2. CASE ArchiveReadsRow(p)
  <2>1. PICK r \in RowReads(loc[p].cid) :
          IF r = None THEN Finish(p)
          ELSE Goto(p, "archive_upsert") /\ Keep(p, [loc[p] EXCEPT !.row = r])
    BY <1>2 DEF ArchiveReadsRow
  <2>2. CASE r = None
    BY <1>2, <2>1, <2>2, Finishes, StoreUntouched DEF ArchiveReadsRow
  <2>3. CASE r # None
    <3>1. r \in Row  BY <1>h, <2>3, RowReadsTyped
    <3>2. [loc[p] EXCEPT !.row = r] \in Local  BY <1>l, <3>1 DEF Local
    <3>3. Complete("archive_upsert", [loc[p] EXCEPT !.row = r])
      BY <1>l, <1>h, <3>1 DEF Complete, Local
    <3>4. Goto(p, "archive_upsert") /\ Keep(p, [loc[p] EXCEPT !.row = r])
          /\ requests' \in Nat
      BY <1>2, <2>1, <2>3 DEF ArchiveReadsRow, ClientTypeOK
    <3>5. QED  BY <1>2, <3>2, <3>3, <3>4, Moves, StoreUntouched DEF ArchiveReadsRow
  <2>4. QED  BY <2>2, <2>3
<1>3. CASE ArchiveUpsert(p)
  <2> DEFINE l == loc[p]
             r == [latest_key |-> IF l.row.latest_key = None THEN l.key
                                                             ELSE l.row.latest_key,
                   created_at |-> IF l.row.latest_key = None THEN l.old.created_at
                                                             ELSE l.row.created_at,
                   status |-> "archived",
                   superseded_keys |-> l.row.superseded_keys, listed |-> TRUE]
  <2>1. l.row \in Row  BY <1>3, <1>l DEF ArchiveUpsert, Complete
  <2>2. r \in Row  BY <1>h, <2>1 DEF Row, Vector, Status
  <2>3. PutRow(l.cid, r) \/ UNCHANGED row
    BY <1>3 DEF ArchiveUpsert, BestEffort
  <2> HIDE DEF r
  <2>4. StoreTypeOK'  BY <1>3, <1>h, <2>2, <2>3, PutRowTyped DEF ArchiveUpsert
  <2>5. QED  BY <1>3, <2>4, Finishes DEF ArchiveUpsert
<1>4. QED  BY <1>1, <1>2, <1>3 DEF Archive

LEMMA PurgeStepTyped ==
  ASSUME StoreTypeOK, ClientTypeOK, NEW p \in Proc, Purge(p)
  PROVE  StoreTypeOK' /\ ClientTypeOK'
<1> USE DEF Labels
<1>l. loc[p] \in Local /\ Complete(pc[p], loc[p])  BY LocTyped
<1>1. CASE PurgeVectors(p)
  <2>1. StoreTypeOK'  BY <1>1, DeleteVectorsTyped DEF PurgeVectors
  <2>2. Complete("purge_row", loc[p])  BY <1>1, <1>l DEF PurgeVectors, Complete
  <2>3. Goto(p, "purge_row") /\ Keep(p, loc[p]) /\ requests' \in Nat
    BY <1>1 DEF PurgeVectors, Keep, ClientTypeOK
  <2>4. QED  BY <1>l, <2>1, <2>2, <2>3, Moves
<1>2. CASE PurgeRow(p)
  <2>1. loc[p].cid \in Cid  BY <1>2, <1>l DEF PurgeRow, Complete
  <2>2. StoreTypeOK'  BY <1>2, <2>1, PutRowTyped DEF PurgeRow, BestEffort
  <2>3. QED  BY <1>2, <2>2, Finishes DEF PurgeRow
<1>3. QED  BY <1>1, <1>2 DEF Purge

LEMMA RestoreStepTyped ==
  ASSUME StoreTypeOK, ClientTypeOK, NEW p \in Proc, RestoreReadsRow(p)
  PROVE  StoreTypeOK' /\ ClientTypeOK'
<1> USE DEF Labels
<1>l. loc[p] \in Local /\ Complete(pc[p], loc[p])  BY LocTyped
<1>1. PICK r \in RowReads(loc[p].cid) :
        Keep(p, [loc[p] EXCEPT
                   !.sup = IF r = None THEN loc[p].key ELSE r.latest_key,
                   !.key = None])
  BY DEF RestoreReadsRow
<1> DEFINE s == IF r = None THEN loc[p].key ELSE r.latest_key
<1>2. r \in Row \cup {None}
  BY <1>l, RowReadsTyped DEF RestoreReadsRow, Complete
<1>3. s \in Key \cup {None}
  BY <1>2, <1>l DEF RestoreReadsRow, Complete, Row
<1>4. loc[p].content \in Content /\ loc[p].old = None
  BY <1>l DEF RestoreReadsRow, Complete
<1>5. \A l \in Local : \A k \in Key \cup {None} :
        l.content \in Content /\ l.old = None =>
          /\ [l EXCEPT !.sup = k, !.key = None] \in Local
          /\ Complete("dedup", [l EXCEPT !.sup = k, !.key = None])
  BY DEF Local, Complete
<1>6. /\ [loc[p] EXCEPT !.sup = s, !.key = None] \in Local
      /\ Complete("dedup", [loc[p] EXCEPT !.sup = s, !.key = None])
  BY <1>l, <1>3, <1>4, <1>5
<1>7. Goto(p, "dedup") /\ requests' \in Nat  BY DEF RestoreReadsRow, ClientTypeOK
<1>8. QED  BY <1>1, <1>6, <1>7, Moves, StoreUntouched DEF RestoreReadsRow

LEMMA UseStepTyped ==
  ASSUME StoreTypeOK, ClientTypeOK, NEW p \in Proc, RecordUse(p)
  PROVE  StoreTypeOK' /\ ClientTypeOK'
<1>l. loc[p].cid \in Cid  BY LocTyped DEF RecordUse, Complete
<1> DEFINE r == IF row[loc[p].cid] = None THEN PhantomRow ELSE row[loc[p].cid]
<1>1. r \in Row  BY <1>l DEF PhantomRow, Row, StoreTypeOK
<1>2. StoreTypeOK'  BY <1>l, <1>1, PutRowTyped DEF RecordUse, BestEffort
<1>3. QED  BY <1>2, Finishes DEF RecordUse

LEMMA ClientStepTyped ==
  ASSUME StoreTypeOK, ClientTypeOK, NEW p \in Proc, ClientStep(p)
  PROVE  StoreTypeOK' /\ ClientTypeOK'
<1>1. CASE Request(p)  BY <1>1, RequestTyped
<1>2. CASE Crash(p)  BY <1>2, Finishes, StoreUntouched DEF Crash
<1>3. CASE ProceedClient(p)
  BY <1>3, StoreStepTyped, ArchiveStepTyped, PurgeStepTyped, RestoreStepTyped,
     UseStepTyped DEF ProceedClient
<1>4. QED  BY <1>1, <1>2, <1>3 DEF ClientStep

-------------------------------------------------------------------------------
\* A bounded set of numbers has a greatest element: the distances to the bound
\* have a least one.
LEMMA HasGreatest ==
  ASSUME NEW n \in Nat, NEW S \in SUBSET (1..n), S # {}
  PROVE  \E v \in S : \A u \in S : u <= v
<1> DEFINE T == {n - v : v \in S}
<1>1. T \subseteq Nat /\ \A v \in S : n - v \in T  OBVIOUS
<1> PICK w \in S : TRUE  OBVIOUS
<1> HIDE DEF T
<1>2. T # {}  BY <1>1
<1>3. PICK d \in T : \A c \in T : ~(<<c, d>> \in OpToRel(<, Nat))
  BY <1>1, <1>2, NatLessThanWellFounded, WFMin
<1>4. \A c \in T : ~(c < d)  BY <1>1, <1>3 DEF OpToRel
<1>5. PICK v \in S : d = n - v  BY <1>3 DEF T
<1>6. \A u \in S : u <= v
  <2> TAKE u \in S
  <2>1. ~(n - u < n - v)  BY <1>1, <1>4, <1>5
  <2>2. QED  BY <2>1
<1>7. QED  BY <1>6
===============================================================================
