--------------------------- MODULE WorkingSetsProofs ---------------------------
(***************************************************************************)
(* Proofs about the working set of one name, for every number of callers,  *)
(* contents and versions, and whatever crashes, row writes lost and        *)
(* archivals come between.                                                 *)
(***************************************************************************)
EXTENDS WorkingSets, ClientProofs

-------------------------------------------------------------------------------
\* The inductive invariant.

StoreLabels == {"dedup", "get_old", "vector", "ttl", "rewrite", "upsert"}

PinLabels == {"idle", "archive_put", "archive_row", "archive_upsert"} \cup StoreLabels

PinTypeOK ==
  /\ stage \in [Proc -> Stages] /\ held \in [Proc -> Holding] /\ disturbed \in SUBSET Proc
  /\ seen \in [Proc -> SUBSET Key] /\ steady \in [Proc -> SUBSET Key]
  /\ \A p \in Proc : /\ pc[p] \in PinLabels
                     /\ stage[p] # "none" => pc[p] = "idle"
                     /\ stage[p] = "pin_read" => held[p].content \in Content

\* Nothing was created later than now.
AgesInv ==
  /\ \A x \in Addr : Exists(x) => vec[x].created_at <= clock
  /\ \A p \in Proc : loc[p].old # None => loc[p].old.created_at <= clock

Lasts(k) == Exists(<<Shared, k>>) /\ vec[<<Shared, k>>].expires_at > clock

Readable(k) == Lasts(k) /\ StatusIs(<<Shared, k>>, "active")

\* A pin the name has kept standing for is among those listed, and outranks any
\* other of these that could still be taken for it and was not seen to stand.
FetchInv(p) ==
  stage[p] = "fetch_read" =>
    \A n \in steady[p] :
      /\ n \in Current /\ n \in held[p].keys
      /\ \A k \in held[p].keys : Readable(k) /\ k \notin seen[p] => RanksBelow(Shared, k, n)

\* The pins that are listed and have not expired.
Lives == {k \in Listing : Lasts(k)}

\* What a pin beside which nobody moved relies on: the list is as it was read,
\* what it supersedes is not outranked, and what it writes outranks the rest.
AloneInv(p) ==
  p \notin disturbed =>
    /\ stage[p] = "pin_read" => held[p].keys = Listing
    /\ pc[p] \in StoreLabels => loc[p].idx = Shared
    /\ pc[p] \in {"dedup", "get_old"} =>
         IF loc[p].sup = None THEN Lives = {}
         ELSE \A k \in Lives : k.version <= loc[p].sup.version
    /\ pc[p] = "vector" => \A k \in Lives : k.version < loc[p].key.version
    /\ pc[p] \in {"vector", "ttl", "rewrite", "upsert"} /\ loc[p].old # None =>
         loc[p].sup.version < loc[p].key.version
    /\ pc[p] \in {"ttl", "rewrite", "upsert"} =>
         \A n \in {loc[p].key} :
            /\ loc[p].expires_at > clock => Readable(n)
            /\ \A k \in Lives : k # n => k.version < n.version

WSInv == /\ StoreTypeOK /\ ClientTypeOK /\ PinTypeOK /\ AgesInv
         /\ \A p \in Proc : FetchInv(p) /\ AloneInv(p)
-------------------------------------------------------------------------------
\* Typing.

LEMMA UnexpiredIs == \A keys : Unexpired(keys) = {k \in keys : Lasts(k)}
  BY DEF Unexpired, Lasts

LEMMA CurrentIs ==
  Current = {k \in Listing :
               Readable(k) /\ \A l \in Listing : Readable(l) => ~RanksBelow(Shared, k, l)}
  BY DEF Current, ToFetch, Unexpired, Highest, Readable, Lasts

LEMMA ListingTyped == StoreTypeOK => Listing \subseteq Key
<1> SUFFICES ASSUME StoreTypeOK PROVE Listing \subseteq Key  OBVIOUS
<1>1. \A g \in Cid : row[g] # None => row[g].latest_key \in Key \cup {None}
  BY DEF StoreTypeOK, Row
<1>2. QED  BY <1>1 DEF Listing

LEMMA StandingTyped == StoreTypeOK /\ ClientTypeOK => Current \subseteq Key /\ Standing \subseteq Key
<1> SUFFICES ASSUME StoreTypeOK, ClientTypeOK
             PROVE  Current \subseteq Key /\ Standing \subseteq Key
  OBVIOUS
<1>1. Current \subseteq Key
  BY ListingTyped DEF Current, ToFetch, Unexpired, Highest
<1>2. \A p \in Proc : pc[p] \in {"ttl", "rewrite", "upsert"} => loc[p].key \in Key
  BY LocTyped DEF Complete
<1>3. QED  BY <1>1, <1>2 DEF Standing

LEMMA HoldingTyped ==
  /\ Nothing \in Holding
  /\ \A keys \in SUBSET Key, c \in Content, e \in Time \cup {NoExpiry} :
       [Nothing EXCEPT !.keys = keys, !.content = c, !.expires_at = e] \in Holding
  /\ \A keys \in SUBSET Key : [Nothing EXCEPT !.keys = keys] \in Holding
  /\ \A k \in Key : [Nothing EXCEPT !.pin = k] \in Holding
  BY DEF Nothing, Holding

LEMMA SharedIsIndex == Shared \in Index
  BY StoreAssumption DEF Shared, Index

\* A step of the caller within a store or an archival.
LEMMA LabelsKept ==
  ASSUME ClientTypeOK, NEW p \in Proc, pc[p] \in PinLabels, ProceedClient(p) \/ Crash(p)
  PROVE  /\ pc[p] # "idle" /\ pc'[p] \in PinLabels
         /\ \A q \in Proc : q # p => pc'[q] = pc[q] /\ loc'[q] = loc[q]
<1> USE DEF PinLabels, StoreLabels, Goto, Finish, Keep, ClientTypeOK
<1>1. CASE Crash(p)  BY <1>1 DEF Crash
<1>2. CASE StoreUnchanged(p)  BY <1>2 DEF StoreUnchanged
<1>3. CASE StoreSupersedes(p)  BY <1>3 DEF StoreSupersedes
<1>4. CASE StoreNearDuplicate(p)  BY <1>4 DEF StoreNearDuplicate
<1>5. CASE StoreFresh(p)  BY <1>5 DEF StoreFresh
<1>6. CASE GetOld(p)  BY <1>6 DEF GetOld
<1>7. CASE WriteVector(p)  BY <1>7 DEF WriteVector, AfterVector, AfterTTL
<1>8. CASE WriteTTLRow(p)  BY <1>8 DEF WriteTTLRow, AfterTTL
<1>9. CASE RewriteOld(p)  BY <1>9 DEF RewriteOld
<1>10. CASE UpsertRow(p)  BY <1>10 DEF UpsertRow
<1>11. CASE Archive(p)  BY <1>11 DEF Archive, ArchivePut, ArchiveReadsRow, ArchiveUpsert
<1>12. ~(RestoreReadsRow(p) \/ Purge(p) \/ RecordUse(p))
  BY DEF RestoreReadsRow, Purge, PurgeVectors, PurgeRow, RecordUse
<1>13. QED
  BY <1>1, <1>2, <1>3, <1>4, <1>5, <1>6, <1>7, <1>8, <1>9, <1>10, <1>11, <1>12
  DEF ProceedClient, Store

\* What a caller's own steps do to what it and the others hold.
Types == StoreTypeOK /\ ClientTypeOK /\ PinTypeOK

LEMMA PinListsTyped ==
  ASSUME Types, NEW p \in Proc, NEW c \in Content, NEW e \in Expiries, PinLists(p, c, e)
  PROVE  /\ StoreTypeOK' /\ ClientTypeOK' /\ held' \in [Proc -> Holding]
         /\ stage' \in [Proc -> Stages]
         /\ pc' = pc /\ stage' = [stage EXCEPT ![p] = "pin_read"]
         /\ held'[p].content \in Content /\ \A q \in Proc : q # p => held'[q] = held[q]
<1> DEFINE h == [Nothing EXCEPT !.keys = Listing, !.content = c, !.expires_at = e]
<1>1. StoreTypeOK' /\ ClientTypeOK' /\ pc' = pc
  BY StoreUntouched DEF PinLists, Types, ClientTypeOK, clientVars, storeVars
<1>2. h \in Holding /\ h.content \in Content
  BY ListingTyped, HoldingTyped, ClientAssumption DEF Types, Holding
<1>3. stage' = [stage EXCEPT ![p] = "pin_read"] /\ held' = [held EXCEPT ![p] = h]
  BY DEF PinLists, To
<1> HIDE DEF h
<1>4. held \in [Proc -> Holding] /\ stage \in [Proc -> Stages]
  BY DEF Types, PinTypeOK
<1>5. QED  BY <1>1, <1>2, <1>3, <1>4 DEF Stages

LEMMA PinStoresTyped ==
  ASSUME Types, NEW p \in Proc, PinStores(p)
  PROVE  /\ StoreTypeOK' /\ ClientTypeOK' /\ held' \in [Proc -> Holding]
         /\ stage' \in [Proc -> Stages]
         /\ pc[p] = "idle" /\ pc'[p] = "dedup" /\ \A q \in Proc : q # p => pc'[q] = pc[q]
         /\ stage' = [stage EXCEPT ![p] = "none"]
         /\ \A q \in Proc : q # p => held'[q] = held[q]
<1>1. /\ stage[p] = "pin_read" /\ held[p] \in Holding /\ held[p].content \in Content
      /\ pc[p] = "idle" /\ held \in [Proc -> Holding] /\ stage \in [Proc -> Stages]
      /\ pc \in [Proc -> Labels]
  BY DEF PinStores, Types, PinTypeOK, ClientTypeOK
<1>2. held[p].expires_at \in Time \cup {NoExpiry} /\ held[p].keys \subseteq Key
  BY <1>1 DEF Holding
<1>3. \/ RequestStore(p, Shared, held[p].content, None, held[p].expires_at, "new")
      \/ \E k \in Key :
           RequestSupersede(p, Shared, held[p].content, held[p].expires_at, k)
  BY <1>2 DEF PinStores, ToSupersede, Unexpired, Highest
<1>4. StoreTypeOK' /\ ClientTypeOK'
  BY <1>1, <1>2, <1>3, SharedIsIndex, RequestStoreTyped, RequestSupersedeTyped DEF Types
<1>5. pc' = [pc EXCEPT ![p] = "dedup"]
  BY <1>3 DEF RequestStore, RequestSupersede, Begin, Goto
<1>6. stage' = [stage EXCEPT ![p] = "none"] /\ held' = [held EXCEPT ![p] = Nothing]
  BY DEF PinStores, To
<1>7. QED  BY <1>1, <1>4, <1>5, <1>6, HoldingTyped DEF Stages

LEMMA FetchTyped ==
  ASSUME Types, NEW p \in Proc, Fetch(p)
  PROVE  /\ StoreTypeOK' /\ ClientTypeOK' /\ held' \in [Proc -> Holding]
         /\ stage' \in [Proc -> Stages]
         /\ UNCHANGED <<storeVars, clientVars>> /\ pc[p] = "idle"
         /\ \E s \in {"none", "fetch_read", "fetch_body"} : stage' = [stage EXCEPT ![p] = s]
         /\ \A q \in Proc : q # p => held'[q] = held[q]
<1>1. UNCHANGED <<storeVars, clientVars>> /\ pc[p] = "idle"
  BY DEF Fetch, FetchLists, FetchReads, FetchBody, Free, Types, PinTypeOK
<1>2. StoreTypeOK' /\ ClientTypeOK'
  BY <1>1, StoreUntouched DEF Types, ClientTypeOK, clientVars
<1>3. \E s \in {"none", "fetch_read", "fetch_body"}, h \in Holding : To(p, s, h)
  <2>1. CASE FetchLists(p)
    BY <2>1, HoldingTyped, ListingTyped DEF FetchLists, Types
  <2>2. CASE FetchReads(p)
    <3>1. ToFetch(held[p].keys) \subseteq Key
      BY DEF ToFetch, Unexpired, Highest, Types, PinTypeOK, Holding
    <3>2. QED  BY <2>2, <3>1, HoldingTyped DEF FetchReads
  <2>3. CASE FetchBody(p)  BY <2>3, HoldingTyped DEF FetchBody
  <2>4. QED  BY <2>1, <2>2, <2>3 DEF Fetch
<1>4. PICK s \in {"none", "fetch_read", "fetch_body"}, h \in Holding : To(p, s, h)
  BY <1>3
<1>5. held \in [Proc -> Holding] /\ stage \in [Proc -> Stages]
  BY DEF Types, PinTypeOK
<1>6. QED  BY <1>1, <1>2, <1>4, <1>5 DEF To, Stages

LEMMA OtherTyped ==
  ASSUME Types, NEW p \in Proc, Other(p)
  PROVE  /\ StoreTypeOK' /\ ClientTypeOK' /\ UNCHANGED <<stage, held>>
         /\ stage[p] = "none" /\ pc'[p] \in PinLabels
         /\ \A q \in Proc : q # p => pc'[q] = pc[q] /\ loc'[q] = loc[q]
<1>1. UNCHANGED <<stage, held>>  BY DEF Other
<1>2. /\ pc[p] \in PinLabels /\ (stage[p] # "none" => pc[p] = "idle")
      /\ ClientTypeOK /\ StoreTypeOK
  BY DEF Types, PinTypeOK
<1>3. CASE ProceedClient(p) \/ Crash(p)
  <2>1. StoreTypeOK' /\ ClientTypeOK'  BY <1>2, <1>3, ClientStepTyped DEF ClientStep
  <2>2. QED  BY <1>1, <1>2, <1>3, <2>1, LabelsKept
<1>4. ASSUME NEW k \in Key, stage[p] = "none", RequestArchive(p, Shared, k)
      PROVE  /\ StoreTypeOK' /\ ClientTypeOK' /\ pc'[p] \in PinLabels
             /\ \A q \in Proc : q # p => pc'[q] = pc[q] /\ loc'[q] = loc[q]
  <2>1. StoreTypeOK' /\ ClientTypeOK'  BY <1>2, <1>4, SharedIsIndex, RequestArchiveTyped
  <2>2. QED  BY <1>2, <1>4, <2>1 DEF RequestArchive, Begin, Goto, Keep, PinLabels, ClientTypeOK
<1>5. QED  BY <1>1, <1>3, <1>4 DEF Other

\* A step of a caller: only its own place changes, and the store by its call.
LEMMA CallerTyped ==
  ASSUME Types, NEW p \in Proc, Caller(p)
  PROVE  /\ StoreTypeOK' /\ ClientTypeOK' /\ held' \in [Proc -> Holding]
         /\ stage' \in [Proc -> Stages]
         /\ \A q \in Proc : q # p => /\ pc'[q] = pc[q] /\ stage'[q] = stage[q]
                                     /\ held'[q] = held[q] /\ loc'[q] = loc[q]
         /\ pc'[p] \in PinLabels /\ (stage'[p] # "none" => pc'[p] = "idle")
         /\ stage'[p] = "pin_read" => held'[p].content \in Content
<1>1. /\ stage \in [Proc -> Stages] /\ held \in [Proc -> Holding] /\ pc \in [Proc -> Labels]
      /\ loc \in [Proc -> Local] /\ pc[p] \in PinLabels
  BY DEF Types, PinTypeOK, ClientTypeOK
<1>2. ASSUME NEW c \in Content, NEW e \in Expiries, PinLists(p, c, e)
      PROVE  /\ pc' = pc /\ loc' = loc /\ pc[p] = "idle"
  BY <1>2 DEF PinLists, Free, clientVars
<1>3. CASE \E c \in Content, e \in Expiries : PinLists(p, c, e)
  BY <1>1, <1>2, <1>3, PinListsTyped
<1>4. CASE PinStores(p)
  <2>1. \A q \in Proc : q # p => loc'[q] = loc[q]
    BY <1>1, <1>4 DEF PinStores, RequestStore, RequestSupersede, Begin, Keep
  <2>2. pc'[p] = "dedup" /\ stage'[p] = "none"  BY <1>1, <1>4, PinStoresTyped
  <2>3. QED  BY <1>1, <1>4, <2>1, <2>2, PinStoresTyped DEF PinLabels, StoreLabels
<1>5. CASE Fetch(p)  BY <1>1, <1>5, FetchTyped DEF clientVars
<1>6. CASE Other(p)  BY <1>1, <1>6, OtherTyped DEF Types, PinTypeOK
<1>7. QED  BY <1>3, <1>4, <1>5, <1>6 DEF Caller

LEMMA TypesKept ==
  ASSUME Types, [WSNext]_wsVars
  PROVE  Types'
<1>1. CASE UNCHANGED wsVars
  BY <1>1, StoreUntouched DEF wsVars, clientVars, pinVars, Types, PinTypeOK, ClientTypeOK
<1>2. CASE Day
  <2>1. StoreTypeOK'
    BY <1>2, StoreAssumption DEF Day, Types, StoreTypeOK, Time
  <2>2. QED  BY <1>2, <2>1 DEF Day, clientVars, pinVars, Types, PinTypeOK, ClientTypeOK
<1>3. ASSUME NEW p \in Proc, Caller(p)  PROVE Types'
  <2>1. StoreTypeOK' /\ ClientTypeOK'  BY <1>3, CallerTyped
  <2>2. Standing \subseteq Key /\ Current \subseteq Key  BY StandingTyped DEF Types
  <2>3. Standing' \subseteq Key /\ Current' \subseteq Key
    <3>1. (StoreTypeOK /\ ClientTypeOK => Current \subseteq Key /\ Standing \subseteq Key)'
      BY StandingTyped, PTL
    <3>2. QED  BY <2>1, <3>1
  <2>4. Watch /\ disturbed' \in SUBSET Proc  BY <1>3 DEF Caller
  <2>5. seen' \in [Proc -> SUBSET Key] /\ steady' \in [Proc -> SUBSET Key]
    BY <2>2, <2>3, <2>4 DEF Watch, Types, PinTypeOK
  <2>6. \A q \in Proc : /\ pc'[q] \in PinLabels
                        /\ stage'[q] # "none" => pc'[q] = "idle"
                        /\ stage'[q] = "pin_read" => held'[q].content \in Content
    BY <1>3, CallerTyped DEF Types, PinTypeOK
  <2>7. held' \in [Proc -> Holding] /\ stage' \in [Proc -> Stages]  BY <1>3, CallerTyped
  <2>8. QED  BY <2>1, <2>4, <2>5, <2>6, <2>7 DEF Types, PinTypeOK
<1>4. QED  BY <1>1, <1>2, <1>3 DEF WSNext

-------------------------------------------------------------------------------
\* The rank of a pin, (version, created_at).
Born(k) == vec[<<Shared, k>>].created_at

LEMMA BornTyped ==
  ASSUME StoreTypeOK, NEW k \in Key, Exists(<<Shared, k>>)
  PROVE  /\ Born(k) \in Time /\ Born(k) \in Nat /\ k.version \in Nat /\ k.version \in Version
         /\ vec[<<Shared, k>>].expires_at \in Nat /\ vec[<<Shared, k>>] \in Vector
<1>1. vec[<<Shared, k>>] \in Vector
  BY SharedIsIndex DEF StoreTypeOK, Addr, Exists
<1>2. QED  BY <1>1, StoreAssumption DEF Born, Vector, Time, NoExpiry, Key, Version

\* Where one pin is not outranked by another, what is below the other is below it.
LEMMA RankIsAnOrder ==
  ASSUME StoreTypeOK, NEW k \in Key, NEW l \in Key, NEW n \in Key,
         Exists(<<Shared, k>>), Exists(<<Shared, l>>), Exists(<<Shared, n>>),
         ~RanksBelow(Shared, n, l), RanksBelow(Shared, k, l)
  PROVE  RanksBelow(Shared, k, n)
<1>1. /\ Born(k) \in Nat /\ Born(l) \in Nat /\ Born(n) \in Nat
      /\ k.version \in Nat /\ l.version \in Nat /\ n.version \in Nat
  BY BornTyped
<1>2. \A x, y \in Key : RanksBelow(Shared, x, y) <=>
        x.version < y.version \/ (x.version = y.version /\ Born(x) < Born(y))
  BY DEF RanksBelow, Born
<1>3. QED  BY <1>1, <1>2

LEMMA HighestExists ==
  ASSUME StoreTypeOK, NEW us \in SUBSET Key, us # {}, \A k \in us : Exists(<<Shared, k>>)
  PROVE  Highest(Shared, us) # {}
<1>1. \A k \in us : Born(k) \in Time /\ k.version \in Version  BY BornTyped
<1> DEFINE V == {k.version : k \in us}
<1>2. MaxVersion \in Nat /\ V \in SUBSET (1..MaxVersion) /\ V # {}
  BY <1>1, StoreAssumption DEF Version
<1>3. PICK v \in V : \A u \in V : u <= v  BY <1>2, HasGreatest
<1> DEFINE T == {Born(k) + 1 : k \in {l \in us : l.version = v}}
<1>4. T \in SUBSET (1..(MaxTime + 1)) /\ T # {} /\ MaxTime + 1 \in Nat
  BY <1>1, StoreAssumption DEF Time
<1>5. PICK t \in T : \A u \in T : u <= t
  <2> HIDE DEF T
  <2> DEFINE n == MaxTime + 1
  <2>1. n \in Nat /\ T \in SUBSET (1..n) /\ T # {}  BY <1>4
  <2> HIDE DEF n
  <2>2. QED  BY <2>1, HasGreatest
<1>6. PICK k \in us : k.version = v /\ t = Born(k) + 1  BY <1>5
<1>7. \A l \in us : ~RanksBelow(Shared, k, l)
  <2> SUFFICES ASSUME NEW l \in us  PROVE ~RanksBelow(Shared, k, l)  OBVIOUS
  <2>1. l.version <= v  BY <1>3
  <2>2. l.version = v => Born(l) + 1 <= Born(k) + 1  BY <1>5, <1>6
  <2>3. /\ Born(l) \in Nat /\ Born(k) \in Nat /\ l.version \in Nat /\ v \in Nat
    BY <1>6, BornTyped
  <2>4. ~(v < l.version) /\ ~(v = l.version /\ Born(k) < Born(l))  BY <2>1, <2>2, <2>3
  <2>5. QED  BY <1>6, <2>4 DEF RanksBelow, Born
<1>8. QED  BY <1>6, <1>7 DEF Highest

-------------------------------------------------------------------------------
\* What a caller does to the vectors: it leaves one alone, leaves it inactive, or
\* writes it now, and then its key stands for the name until its row is written.
Rewritten(k) ==
  LET x == <<Shared, k>> IN
  vec'[x] # vec[x] =>
    \/ ~StatusIs(x, "active")'
    \/ Born(k)' = clock /\ Exists(x)' /\ k \in Standing'

LEMMA PutTouches ==
  ASSUME StoreTypeOK, NEW x \in Addr, NEW v, PutVector(x, v)
  PROVE  /\ vec'[x] = v /\ \A y \in Addr : y # x => vec'[y] = vec[y]
  BY DEF PutVector, StoreTypeOK

LEMMA Rewrites ==
  ASSUME Types, NEW p \in Proc, Caller(p), NEW k \in Key
  PROVE  Rewritten(k) /\ clock' = clock
<1>0. StoreTypeOK /\ ClientTypeOK /\ loc[p] \in Local /\ Complete(pc[p], loc[p]) /\ pc[p] \in PinLabels
      /\ <<Shared, k>> \in Addr
  BY LocTyped, SharedIsIndex DEF Types, PinTypeOK, Addr
<1>1. CASE UNCHANGED vec /\ UNCHANGED clock  BY <1>1 DEF Rewritten
<1>2. CASE WriteVector(p)
  <2>1. Here(p) \in Addr /\ clock' = clock /\ loc' = loc
    BY <1>0, <1>2 DEF Complete, Here, Addr, Local, WriteVector
  <2>2. /\ vec'[Here(p)] = NewVector(loc[p].cid, loc[p].expires_at)
        /\ \A y \in Addr : y # Here(p) => vec'[y] = vec[y]
    BY <1>0, <1>2, <2>1, PutTouches DEF WriteVector
  <2>3. pc'[p] \in {"ttl", "rewrite", "upsert"}
    BY <1>0, <1>2 DEF WriteVector, Goto, AfterVector, AfterTTL, ClientTypeOK
  <2>4. CASE Here(p) = <<Shared, k>>
    <3>1. loc'[p].key = k  BY <2>1, <2>4 DEF Here
    <3>2. k \in Standing'  BY <2>3, <3>1 DEF Standing
    <3>3. NewVector(loc[p].cid, loc[p].expires_at) \in Vector
      BY <1>0, <1>2, NewVectorTyped DEF Complete, Local, WriteVector
    <3>4. vec'[<<Shared, k>>].created_at = clock /\ vec'[<<Shared, k>>] # None
      BY <2>2, <2>4, <3>3, StoreAssumption DEF NewVector
    <3>5. QED  BY <2>1, <3>2, <3>4 DEF Rewritten, Born, Exists
  <2>5. CASE Here(p) # <<Shared, k>>  BY <1>0, <2>1, <2>2, <2>5 DEF Rewritten
  <2>6. QED  BY <2>4, <2>5
<1>3. CASE RewriteOld(p)
  <2>1. Old(p) \in Addr /\ clock' = clock /\ loc[p].old \in Vector
    BY <1>0, <1>3, StoreAssumption DEF Complete, Old, Addr, Local, RewriteOld
  <2>2. /\ vec'[Old(p)] = [loc[p].old EXCEPT !.status = "superseded"]
        /\ \A y \in Addr : y # Old(p) => vec'[y] = vec[y]
    BY <1>0, <1>3, <2>1, PutTouches DEF RewriteOld
  <2>3. vec'[Old(p)].status = "superseded"  BY <2>1, <2>2 DEF Vector
  <2>4. QED  BY <1>0, <2>1, <2>2, <2>3 DEF Rewritten, StatusIs
<1>4. CASE ArchivePut(p)
  <2>1. Here(p) \in Addr /\ clock' = clock /\ loc[p].old \in Vector
    BY <1>0, <1>4 DEF Complete, Here, Addr, Local, ArchivePut
  <2>2. /\ vec'[Here(p)] = [loc[p].old EXCEPT !.status = "archived", !.archived_at = clock]
        /\ \A y \in Addr : y # Here(p) => vec'[y] = vec[y]
    BY <1>0, <1>4, <2>1, PutTouches DEF ArchivePut
  <2>3. vec'[Here(p)].status = "archived"  BY <2>1, <2>2 DEF Vector
  <2>4. QED  BY <1>0, <2>1, <2>2, <2>3 DEF Rewritten, StatusIs
<1>5. ASSUME ProceedClient(p) \/ Crash(p)
      PROVE  \/ WriteVector(p) \/ RewriteOld(p) \/ ArchivePut(p)
             \/ UNCHANGED vec /\ UNCHANGED clock
  <2>1. ~(RestoreReadsRow(p) \/ Purge(p) \/ RecordUse(p))
    BY <1>0 DEF RestoreReadsRow, Purge, PurgeVectors, PurgeRow, RecordUse, PinLabels, StoreLabels
  <2>2. QED
    BY <1>5, <2>1 DEF ProceedClient, Crash, Store, Archive, StoreUnchanged, StoreSupersedes,
       StoreNearDuplicate, StoreFresh, GetOld, WriteTTLRow, UpsertRow, ArchiveReadsRow,
       ArchiveUpsert, storeVars
<1>6. CASE Other(p)
  BY <1>1, <1>2, <1>3, <1>4, <1>5, <1>6 DEF Other, RequestArchive, storeVars
<1>7. QED
  BY <1>1, <1>6 DEF Caller, PinLists, PinStores, Fetch, FetchLists, FetchReads, FetchBody,
     RequestStore, RequestSupersede, storeVars

-------------------------------------------------------------------------------
LEMMA AgesKept ==
  ASSUME Types, AgesInv, [WSNext]_wsVars
  PROVE  AgesInv'
<1>0. /\ StoreTypeOK /\ ClientTypeOK /\ clock \in Nat
      /\ vec \in [Addr -> Vector \cup {None}] /\ loc \in [Proc -> Local]
      /\ \A v \in Vector : v.created_at \in Nat
      /\ \A q \in Proc : loc[q].old \in Vector \cup {None}
  BY StoreAssumption DEF Types, StoreTypeOK, ClientTypeOK, Time, Vector, Local
<1>1. ASSUME UNCHANGED <<vec, loc>>, clock' \in {clock, clock + 1}  PROVE AgesInv'
  <2>1. \A x \in Addr : Exists(x) => vec[x] \in Vector  BY <1>0 DEF Exists
  <2>2. QED  BY <1>0, <1>1, <2>1 DEF AgesInv, Exists
<1>2. ASSUME NEW p \in Proc, NEW x \in Addr, NEW v \in Vector, PutVector(x, v),
             v.created_at <= clock, UNCHANGED <<clock, loc>>
      PROVE  AgesInv'
  BY <1>0, <1>2, PutTouches DEF AgesInv, Exists
<1>3. ASSUME NEW p \in Proc, NEW l \in Local, Keep(p, l), UNCHANGED <<vec, clock>>,
             l.old # None => l.old.created_at <= clock
      PROVE  AgesInv'
  BY <1>0, <1>3 DEF AgesInv, Exists, Keep
<1>4. ASSUME NEW p \in Proc, Finish(p), UNCHANGED <<vec, clock>>  PROVE AgesInv'
  BY <1>3, <1>4, BlankTyped DEF Finish, Blank
<1>5. ASSUME NEW p \in Proc, ProceedClient(p) \/ Crash(p), pc[p] \in PinLabels
      PROVE  AgesInv'
  <2>0. loc[p] \in Local /\ Complete(pc[p], loc[p]) /\ (loc[p].old # None => loc[p].old.created_at <= clock)
    BY <1>0, LocTyped DEF AgesInv
  <2>1. CASE WriteVector(p)
    <3>1. Here(p) \in Addr /\ loc[p].cid \in Cid /\ loc[p].expires_at \in Time \cup {NoExpiry}
      BY <2>0, <2>1 DEF Complete, Here, Addr, Local, WriteVector
    <3>2. NewVector(loc[p].cid, loc[p].expires_at) \in Vector
      BY <1>0, <3>1, NewVectorTyped
    <3>3. NewVector(loc[p].cid, loc[p].expires_at).created_at = clock  BY DEF NewVector
    <3>4. QED  BY <1>0, <1>2, <2>1, <3>1, <3>2, <3>3 DEF WriteVector
  <2>2. CASE RewriteOld(p)
    <3>1. Old(p) \in Addr /\ loc[p].old \in Vector /\ loc[p].old # None
      BY <2>0, <2>2, StoreAssumption DEF Complete, Old, Addr, Local, RewriteOld
    <3> DEFINE v == [loc[p].old EXCEPT !.status = "superseded"]
    <3>2. v \in Vector /\ v.created_at = loc[p].old.created_at  BY <3>1 DEF Vector, Status
    <3> HIDE DEF v
    <3>3. PutVector(Old(p), v) /\ UNCHANGED <<clock, loc>>  BY <2>2 DEF RewriteOld, v
    <3>4. QED  BY <1>2, <2>0, <3>1, <3>2, <3>3
  <2>3. CASE ArchivePut(p)
    <3>1. Here(p) \in Addr /\ loc[p].old \in Vector /\ loc[p].old # None
      BY <2>0, <2>3, StoreAssumption DEF Complete, Here, Addr, Local, ArchivePut
    <3> DEFINE v == [loc[p].old EXCEPT !.status = "archived", !.archived_at = clock]
    <3>2. v \in Vector /\ v.created_at = loc[p].old.created_at
      BY <1>0, <3>1 DEF Vector, Status, StoreTypeOK
    <3> HIDE DEF v
    <3>3. PutVector(Here(p), v) /\ UNCHANGED <<clock, loc>>  BY <2>3 DEF ArchivePut, v
    <3>4. QED  BY <1>2, <2>0, <3>1, <3>2, <3>3
  <2>4. CASE GetOld(p)
    <3>1. CASE Finish(p)  BY <1>4, <2>4, <3>1 DEF GetOld, storeVars
    <3>2. CASE ~Finish(p)
      <4>1. Exists(Old(p)) /\ Old(p) \in Addr
        BY <2>0, <2>4, <3>2 DEF GetOld, Complete, Old, Local, Addr
      <4>2. vec[Old(p)] \in Vector /\ vec[Old(p)].created_at <= clock
        BY <1>0, <4>1 DEF AgesInv, Exists
      <4>3. \E g, n : Keep(p, [loc[p] EXCEPT !.old = vec[Old(p)], !.cid = g, !.key = n])
        BY <2>4, <3>2 DEF GetOld
      <4>4. loc'[p].old = vec[Old(p)] /\ \A q \in Proc : q # p => loc'[q] = loc[q]
        BY <1>0, <2>0, <4>3 DEF Keep, Local
      <4>5. \A q \in Proc : loc'[q].old # None => loc'[q].old.created_at <= clock
        BY <1>0, <4>2, <4>4 DEF AgesInv
      <4>6. QED  BY <2>4, <4>5 DEF GetOld, storeVars, AgesInv, Exists
    <3>3. QED  BY <3>1, <3>2
  <2>5. CASE StoreFresh(p)
    <3>1. ClientTypeOK'  BY <1>0, <1>5, ClientStepTyped DEF ClientStep
    <3>2. loc'[p] \in Local /\ loc'[p].old = loc[p].old /\ \A q \in Proc : q # p => loc'[q] = loc[q]
      BY <1>0, <2>0, <2>5, <3>1 DEF StoreFresh, Keep, ClientTypeOK, Local
    <3>3. QED  BY <2>5, <3>2 DEF StoreFresh, storeVars, AgesInv, Exists
  <2>6. CASE ArchiveReadsRow(p)
    <3>1. CASE Finish(p)  BY <1>4, <2>6, <3>1 DEF ArchiveReadsRow, storeVars
    <3>2. CASE ~Finish(p)
      <4>1. loc'[p].old = loc[p].old /\ \A q \in Proc : q # p => loc'[q] = loc[q]
        BY <1>0, <2>0, <2>6, <3>2 DEF ArchiveReadsRow, Keep, Local
      <4>2. QED  BY <2>6, <4>1 DEF ArchiveReadsRow, storeVars, AgesInv, Exists
    <3>3. QED  BY <3>1, <3>2
  <2>7. CASE StoreUnchanged(p) \/ StoreNearDuplicate(p) \/ UpsertRow(p) \/ ArchiveUpsert(p) \/ Crash(p)
    BY <1>4, <2>7 DEF StoreUnchanged, StoreNearDuplicate, UpsertRow, ArchiveUpsert, Crash, storeVars
  <2>8. CASE StoreSupersedes(p) \/ WriteTTLRow(p)
    BY <1>1, <2>8 DEF StoreSupersedes, WriteTTLRow, storeVars
  <2>9. ~(RestoreReadsRow(p) \/ Purge(p) \/ RecordUse(p))
    BY <1>5 DEF RestoreReadsRow, Purge, PurgeVectors, PurgeRow, RecordUse, PinLabels, StoreLabels
  <2>10. QED
    BY <1>5, <2>1, <2>2, <2>3, <2>4, <2>5, <2>6, <2>7, <2>8, <2>9 DEF ProceedClient, Store, Archive
<1>6. ASSUME NEW p \in Proc, NEW k \in Key, RequestArchive(p, Shared, k)  PROVE AgesInv'
  <2>1. <<Shared, k>> \in Addr /\ vec[<<Shared, k>>] \in Vector
        /\ vec[<<Shared, k>>].created_at <= clock
    BY <1>0, <1>6, SharedIsIndex DEF RequestArchive, Exists, Addr, AgesInv
  <2>2. loc'[p].old = vec[<<Shared, k>>] /\ \A q \in Proc : q # p => loc'[q] = loc[q]
    BY <1>0, <1>6 DEF RequestArchive, Begin, Keep, Blank
  <2>3. QED  BY <1>6, <2>1, <2>2 DEF RequestArchive, storeVars, AgesInv, Exists
<1>7. ASSUME NEW p \in Proc, PinStores(p)  PROVE AgesInv'
  <2>1. loc'[p].old = None /\ \A q \in Proc : q # p => loc'[q] = loc[q]
    BY <1>0, <1>7 DEF PinStores, RequestStore, RequestSupersede, Begin, Keep, Blank
  <2>2. UNCHANGED storeVars  BY <1>7 DEF PinStores, RequestStore, RequestSupersede
  <2>3. QED  BY <2>1, <2>2 DEF storeVars, AgesInv, Exists
<1>8. ASSUME NEW p \in Proc, Caller(p)  PROVE AgesInv'
  <2>1. CASE Other(p)  BY <1>5, <1>6, <2>1 DEF Other, Types, PinTypeOK
  <2>2. CASE PinStores(p)  BY <1>7, <2>2
  <2>3. CASE Fetch(p) \/ \E c \in Content, e \in Expiries : PinLists(p, c, e)
    BY <1>1, <2>3 DEF Fetch, FetchLists, FetchReads, FetchBody, PinLists, storeVars, clientVars
  <2>4. QED  BY <1>8, <2>1, <2>2, <2>3 DEF Caller
<1>9. QED
  BY <1>1, <1>8 DEF WSNext, Day, wsVars, storeVars, clientVars

-------------------------------------------------------------------------------
\* A pin the name keeps standing for is found: kept by every step.
LEMMA FetchKept ==
  ASSUME Types, Types', AgesInv, NEW q \in Proc, FetchInv(q), [WSNext]_wsVars
  PROVE  FetchInv(q)'
<1> USE DEF FetchInv
<1>0. /\ StoreTypeOK /\ Current \subseteq Listing /\ Listing \subseteq Key
      /\ Current \subseteq Standing /\ seen[q] \subseteq Key
      /\ \A n \in Current : Readable(n)
  BY ListingTyped, CurrentIs DEF Types, PinTypeOK, Standing
<1>1. CASE UNCHANGED wsVars
  BY <1>1 DEF wsVars, storeVars, clientVars, pinVars, Current, Listing, ToFetch, Unexpired,
     Highest, RanksBelow, Readable, Lasts, Exists, StatusIs
<1>2. CASE Day  BY <1>2 DEF Day, pinVars
<1>3. ASSUME NEW p \in Proc, Caller(p), stage'[q] = "fetch_read"  PROVE FetchInv(q)'
  <2>0. /\ seen'[q] = seen[q] \cup Standing \cup Standing'
        /\ steady'[q] = Current' \cap IF InFetch(q) THEN steady[q] ELSE Current
    BY <1>3 DEF Caller, Watch, InFetch
  <2>1. (Current \subseteq Listing /\ \A n \in Current : Readable(n))'
    <3>1. (Current = {k \in Listing :
               Readable(k) /\ \A l \in Listing : Readable(l) => ~RanksBelow(Shared, k, l)})'
      BY CurrentIs, PTL
    <3>2. QED  BY <3>1
  <2>2. CASE stage[q] = "fetch_read"
    <3>1. held'[q] = held[q] /\ held[q].keys \subseteq Key
      <4>1. CASE q = p
        <5>1. ~FetchReads(p)
          <6>1. FetchReads(p) => \E s \in {"none", "fetch_body"} : \E h : To(p, s, h)
            BY DEF FetchReads
          <6>2. stage \in [Proc -> Stages]  BY DEF Types, PinTypeOK
          <6>3. QED  BY <1>3, <4>1, <6>1, <6>2 DEF To
        <5>2. Other(p)
          BY <1>3, <2>2, <4>1, <5>1
          DEF Caller, Fetch, FetchLists, FetchBody, PinLists, PinStores, Free
        <5>3. QED  BY <4>1, <5>2 DEF Other, Types, PinTypeOK, Holding
      <4>2. QED  BY <1>3, <4>1, CallerTyped DEF Types, PinTypeOK, Holding
    <3>2. SUFFICES ASSUME NEW n \in steady'[q]
                   PROVE  /\ n \in Current' /\ n \in held'[q].keys
                          /\ \A k \in held'[q].keys :
                               Readable(k)' /\ k \notin seen'[q] => RanksBelow(Shared, k, n)'
      BY <1>3
    <3>3. n \in Current' /\ n \in steady[q] /\ n \in Current /\ n \in held'[q].keys /\ n \in Key
      BY <1>0, <2>0, <2>2, <3>1 DEF InFetch
    <3>4. ASSUME NEW k \in held'[q].keys, Readable(k)', k \notin seen'[q]
          PROVE  RanksBelow(Shared, k, n)'
      <4>1. k \in Key /\ k \in held[q].keys /\ k \notin seen[q] /\ k \notin Standing'
        BY <2>0, <3>1, <3>4
      <4>2. UNCHANGED vec[<<Shared, k>>] /\ clock' = clock
        BY <1>3, <3>4, <4>1, Rewrites DEF Rewritten, Readable
      <4>3. Readable(k)  BY <3>4, <4>2 DEF Readable, Lasts, Exists, StatusIs
      <4>4. RanksBelow(Shared, k, n)  BY <2>2, <3>3, <4>1, <4>3
      <4>5. Rewritten(n)  BY <1>3, <3>3, Rewrites
      <4>6. Readable(n)' /\ Readable(n)  BY <1>0, <2>1, <3>3
      <4>7. Born(n)' = Born(n) \/ Born(n)' = clock
        BY <4>5, <4>6 DEF Rewritten, Readable, Born
      <4>8. Born(k) <= clock /\ Born(k) \in Nat /\ Born(n) \in Nat /\ Born(k)' = Born(k)
            /\ k.version \in Nat /\ n.version \in Nat /\ clock \in Nat
            /\ Born(n) <= clock
        <5>1. <<Shared, k>> \in Addr /\ <<Shared, n>> \in Addr
              /\ Exists(<<Shared, k>>) /\ Exists(<<Shared, n>>)
          BY <3>3, <4>1, <4>3, <4>6, SharedIsIndex DEF Addr, Readable, Lasts
        <5>2. Born(k)' = Born(k)  BY <4>2 DEF Born
        <5>3. clock \in Nat  BY <1>0, StoreAssumption DEF StoreTypeOK, Time
        <5>4. QED  BY <1>0, <3>3, <4>1, <5>1, <5>2, <5>3, BornTyped DEF AgesInv, Born
      <4>9. QED
        <5>1. k.version < n.version \/ (k.version = n.version /\ Born(k) < Born(n))
          BY <4>4 DEF RanksBelow, Born
        <5>2. k.version < n.version \/ (k.version = n.version /\ Born(k)' < Born(n)')
          BY <4>7, <4>8, <5>1
        <5>3. QED  BY <5>2 DEF RanksBelow, Born
    <3>5. QED  BY <3>3, <3>4
  <2>3. CASE stage[q] # "fetch_read"
    <3>1. q = p /\ FetchLists(p)
      <4>1. q = p  BY <1>3, <2>3, CallerTyped
      <4>2. (\E c \in Content, e \in Expiries : PinLists(p, c, e)) \/ PinStores(p)
            \/ FetchReads(p) \/ FetchBody(p)
              => \E s \in {"pin_read", "none", "fetch_body"} : \E h : To(p, s, h)
        BY DEF PinLists, PinStores, FetchReads, FetchBody
      <4>3. stage \in [Proc -> Stages]  BY DEF Types, PinTypeOK
      <4>4. QED  BY <1>3, <2>3, <4>1, <4>2, <4>3 DEF Caller, Fetch, Other, To
    <3>2. /\ UNCHANGED <<storeVars, clientVars>> /\ held'[q].keys = Listing /\ ~InFetch(q)
      BY <3>1 DEF FetchLists, To, Nothing, Types, PinTypeOK, Free, InFetch
    <3>3. /\ Current' = Current /\ Listing' = Listing
          /\ \A k : Readable(k)' = Readable(k)
          /\ \A k, n : RanksBelow(Shared, k, n)' = RanksBelow(Shared, k, n)
      BY <3>2 DEF storeVars, Current, Listing, ToFetch, Unexpired, Highest, RanksBelow,
         Readable, Lasts, Exists, StatusIs
    <3>4. steady'[q] = Current /\ Current \subseteq seen'[q]  BY <1>0, <2>0, <3>2, <3>3
    <3>5. ASSUME NEW n \in Current, NEW k \in Listing, Readable(k), k \notin Current
          PROVE  RanksBelow(Shared, k, n)
      <4>1. PICK l \in Listing : Readable(l) /\ RanksBelow(Shared, k, l)  BY <3>5, CurrentIs
      <4>2. Readable(n) /\ ~RanksBelow(Shared, n, l)  BY <4>1, CurrentIs
      <4>3. k \in Key /\ l \in Key /\ n \in Key  BY <1>0
      <4>4. QED  BY <1>0, <3>5, <4>1, <4>2, <4>3, RankIsAnOrder DEF Readable, Lasts
    <3>6. QED  BY <1>0, <3>2, <3>3, <3>4, <3>5
  <2>4. QED  BY <2>2, <2>3
<1>4. QED  BY <1>1, <1>2, <1>3 DEF WSNext

-------------------------------------------------------------------------------
LEMMA NotOutranked ==
  ASSUME NEW us \in SUBSET Key, NEW n \in Highest(Shared, us)
  PROVE  n \in us /\ \A k \in us : k.version <= n.version
<1>1. n \in us /\ \A k \in us : ~(n.version < k.version)  BY DEF Highest, RanksBelow
<1>2. n.version \in Nat /\ \A k \in us : k.version \in Nat
  BY <1>1, StoreAssumption DEF Key, Version
<1>3. QED  BY <1>1, <1>2

\* What a pin hands to the store.
LEMMA PinBegins ==
  ASSUME Types, NEW p \in Proc, PinStores(p)
  PROVE  /\ pc'[p] = "dedup" /\ loc'[p].idx = Shared
         /\ loc'[p].expires_at = held[p].expires_at /\ UNCHANGED storeVars
         /\ IF ToSupersede(held[p].keys) = {} THEN loc'[p].sup = None
            ELSE loc'[p].sup \in ToSupersede(held[p].keys)
<1>0. pc \in [Proc -> Labels] /\ loc \in [Proc -> Local]  BY DEF Types, ClientTypeOK
<1>1. CASE ToSupersede(held[p].keys) = {}
  <2>1. RequestStore(p, Shared, held[p].content, None, held[p].expires_at, "new")
    BY <1>1 DEF PinStores
  <2>2. QED  BY <1>0, <1>1, <2>1 DEF RequestStore, Begin, Goto, Keep, Blank
<1>2. CASE ToSupersede(held[p].keys) # {}
  <2>1. PICK k \in ToSupersede(held[p].keys) :
          RequestSupersede(p, Shared, held[p].content, held[p].expires_at, k)
    BY <1>2 DEF PinStores
  <2>2. QED  BY <1>0, <1>2, <2>1 DEF RequestSupersede, Begin, Goto, Keep, Blank
<1>3. QED  BY <1>1, <1>2

\* What reading the vector to supersede leaves with the caller.
LEMMA GetOldLearns ==
  ASSUME Types, NEW p \in Proc, GetOld(p), ~Finish(p)
  PROVE  /\ pc'[p] = "vector" /\ loc'[p].idx = loc[p].idx
         /\ loc'[p].expires_at = loc[p].expires_at /\ loc'[p].sup = loc[p].sup
         /\ loc'[p].key.version = loc[p].sup.version + 1
         /\ UNCHANGED storeVars
<1>0. /\ pc \in [Proc -> Labels] /\ loc \in [Proc -> Local] /\ loc[p] \in Local
  BY DEF Types, ClientTypeOK
<1> DEFINE n == BuildVectorKey(AgentOf[p], loc[p].content, loc[p].sup.version + 1)
<1>1. \E v : \E g : Keep(p, [loc[p] EXCEPT !.old = v, !.cid = g, !.key = n])
  BY DEF GetOld
<1>2. n.version = loc[p].sup.version + 1  BY DEF BuildVectorKey
<1> HIDE DEF n
<1>3. QED  BY <1>0, <1>1, <1>2 DEF GetOld, Goto, Keep, Local

\* What a pin beside which nobody moves relies on: kept by every step.
LEMMA AloneKept ==
  ASSUME Types, Types', NEW q \in Proc, AloneInv(q), [WSNext]_wsVars
  PROVE  AloneInv(q)'
<1> USE DEF AloneInv
<1>0. /\ StoreTypeOK /\ ClientTypeOK /\ clock \in Nat
      /\ Listing \subseteq Key /\ Lives = {k \in Listing : Lasts(k)} /\ Lives \subseteq Key
      /\ loc[q] \in Local /\ Complete(pc[q], loc[q]) /\ pc[q] \in PinLabels
      /\ pc \in [Proc -> Labels] /\ loc \in [Proc -> Local]
      /\ stage \in [Proc -> Stages] /\ held \in [Proc -> Holding]
      /\ stage[q] # "none" => pc[q] = "idle"
  BY ListingTyped, LocTyped, StoreAssumption
  DEF Types, PinTypeOK, ClientTypeOK, Lives, StoreTypeOK, Time
\* Nobody is anywhere, or is not writing a pin.
<1>1. ASSUME stage'[q] # "pin_read", pc'[q] \notin StoreLabels  PROVE AloneInv(q)'
  BY <1>1 DEF StoreLabels
<1>2. CASE UNCHANGED wsVars
  BY <1>2 DEF wsVars, storeVars, clientVars, pinVars, Listing, Lives, Readable, Lasts, Exists,
     StatusIs
<1>3. CASE Day
  BY <1>1, <1>3 DEF Day, Quiet, clientVars, pinVars, StoreLabels
<1>4. ASSUME NEW p \in Proc, p # q, Caller(p), q \notin disturbed'  PROVE AloneInv(q)'
  <2>1. Free(q)  BY <1>4 DEF Caller, Busy
  <2>2. stage'[q] = "none" /\ pc'[q] = "idle"  BY <1>4, <2>1, CallerTyped DEF Free
  <2>3. QED  BY <1>1, <2>2 DEF StoreLabels
<1>5. ASSUME Caller(q), q \notin disturbed'  PROVE AloneInv(q)'
  <2>0. Free(q) \/ q \notin disturbed  BY <1>5 DEF Caller, Busy
  <2>1. CASE Fetch(q)
    <3>1. pc'[q] = "idle" /\ stage'[q] # "pin_read"
      BY <1>0, <2>1, FetchTyped DEF clientVars
    <3>2. QED  BY <1>1, <3>1 DEF StoreLabels
  <2>2. ASSUME NEW c \in Content, NEW e \in Expiries, PinLists(q, c, e)  PROVE AloneInv(q)'
    <3>1. /\ pc'[q] = "idle" /\ stage'[q] = "pin_read" /\ held'[q].keys = Listing
          /\ UNCHANGED storeVars
      BY <1>0, <2>2 DEF PinLists, To, Nothing, Free, clientVars
    <3>2. Listing' = Listing /\ clock' = clock  BY <3>1 DEF storeVars, Listing
    <3>3. QED  BY <3>1, <3>2 DEF StoreLabels
  <2>3. CASE PinStores(q)
    <3>0. /\ stage[q] = "pin_read" /\ q \notin disturbed /\ held[q].keys = Listing
          /\ stage'[q] = "none"
      BY <1>0, <2>0, <2>3 DEF PinStores, Free, To
    <3>1. ToSupersede(held[q].keys) = Highest(Shared, Lives)
      BY <1>0, <3>0, UnexpiredIs DEF ToSupersede
    <3>2. UNCHANGED storeVars  BY <2>3, PinBegins
    <3>3. Lives' = Lives /\ clock' = clock
      BY <3>2 DEF storeVars, Lives, Listing, Lasts, Exists
    <3>4. pc'[q] = "dedup" /\ loc'[q].idx = Shared
      BY <2>3, <3>0, PinBegins
    <3>5. CASE Highest(Shared, Lives) = {}
      <4>1. Lives = {}  BY <1>0, <3>5, HighestExists DEF Lasts
      <4>2. loc'[q].sup = None  BY <2>3, <3>1, <3>5, PinBegins
      <4>3. QED  BY <3>0, <3>3, <3>4, <4>1, <4>2
    <3>6. CASE Highest(Shared, Lives) # {}
      <4>1. PICK n \in Highest(Shared, Lives) : loc'[q].sup = n
        BY <2>3, <3>1, <3>6, PinBegins
      <4>2. n \in Key /\ n # None /\ \A k \in Lives : k.version <= n.version
        BY <1>0, NotOutranked, StoreAssumption
      <4>3. QED  BY <3>0, <3>3, <3>4, <4>1, <4>2
    <3>7. QED  BY <3>5, <3>6
  <2>4. CASE Other(q)
    <3>1. stage'[q] = "none" /\ stage[q] = "none"  BY <2>4, OtherTyped
    <3>2. ASSUME NEW k \in Key, RequestArchive(q, Shared, k)  PROVE AloneInv(q)'
      <4>1. pc'[q] = "archive_put"  BY <1>0, <3>2 DEF RequestArchive, Begin, Goto
      <4>2. QED  BY <1>1, <3>1, <4>1 DEF StoreLabels
    <3>3. CASE pc'[q] = "idle"  BY <1>1, <3>1, <3>3 DEF StoreLabels
    <3>4. CASE Crash(q)  BY <1>0, <3>3, <3>4 DEF Crash, Finish, Goto
    <3>5. CASE ProceedClient(q)
      <4>1. pc[q] # "idle" /\ q \notin disturbed
        BY <1>0, <2>0, <3>5, LabelsKept DEF Free
      <4>2. CASE Archive(q)
        <5>1. pc'[q] \in {"idle", "archive_row", "archive_upsert"}
          BY <1>0, <4>2 DEF Archive, ArchivePut, ArchiveReadsRow, ArchiveUpsert, Finish, Goto
        <5>2. QED  BY <1>1, <3>1, <5>1 DEF StoreLabels
      <4>3. CASE StoreUnchanged(q) \/ StoreNearDuplicate(q) \/ UpsertRow(q)
        BY <1>0, <3>3, <4>3 DEF StoreUnchanged, StoreNearDuplicate, UpsertRow, Finish, Goto
      <4>4. ASSUME UNCHANGED storeVars
            PROVE  Lives' = Lives /\ clock' = clock /\ (\A k : Readable(k)' = Readable(k))
        BY <4>4 DEF storeVars, Lives, Listing, Lasts, Exists, Readable, StatusIs
      <4>5. CASE StoreSupersedes(q)
        BY <1>0, <3>1, <4>1, <4>4, <4>5 DEF StoreSupersedes, Goto, StoreLabels
      <4>6. CASE StoreFresh(q)
        <5>1. /\ pc'[q] = "vector" /\ loc'[q].old = None /\ loc'[q].idx = Shared
          BY <1>0, <4>1, <4>6 DEF StoreFresh, Goto, Keep, StoreLabels, Complete, Local
        <5>2. Lives = {}  BY <4>1, <4>6 DEF StoreFresh
        <5>3. QED  BY <3>1, <4>4, <4>6, <5>1, <5>2 DEF StoreFresh
      <4>7. CASE GetOld(q)
        <5>1. CASE Finish(q)  BY <1>0, <3>3, <5>1 DEF Finish, Goto
        <5>2. CASE ~Finish(q)
          <6>1. /\ loc[q].sup \in Key /\ loc[q].sup # None /\ loc[q].sup.version \in Nat
                /\ \A k \in Lives : k.version \in Nat
            BY <1>0, <4>7, StoreAssumption DEF GetOld, Complete, Key, Version
          <6>2. /\ pc'[q] = "vector" /\ loc'[q].idx = Shared
                /\ loc'[q].sup = loc[q].sup /\ loc'[q].key.version = loc[q].sup.version + 1
            BY <4>1, <4>7, <5>2, GetOldLearns DEF GetOld, StoreLabels
          <6>3. \A k \in Lives : k.version <= loc[q].sup.version
            BY <4>1, <4>7, <6>1 DEF GetOld
          <6>4. \A k \in Lives : k.version < loc'[q].key.version  BY <6>1, <6>2, <6>3
          <6>5. loc'[q].sup.version < loc'[q].key.version  BY <6>1, <6>2
          <6>6. QED  BY <3>1, <4>4, <4>7, <6>2, <6>4, <6>5 DEF GetOld
        <5>3. QED  BY <5>1, <5>2
      <4>8. CASE WriteVector(q)
        <5> DEFINE n == loc[q].key
        <5>1. /\ loc' = loc /\ UNCHANGED <<row, clock>> /\ n \in Key
              /\ Here(q) = <<Shared, n>> /\ Here(q) \in Addr
              /\ pc'[q] \in {"ttl", "rewrite", "upsert"}
          BY <1>0, <4>1, <4>8, SharedIsIndex
          DEF WriteVector, Here, Complete, Addr, StoreLabels, Goto, AfterVector, AfterTTL
        <5>2. /\ vec'[<<Shared, n>>] = NewVector(loc[q].cid, loc[q].expires_at)
              /\ \A y \in Addr : y # <<Shared, n>> => vec'[y] = vec[y]
          BY <1>0, <4>8, <5>1, PutTouches DEF WriteVector
        <5>3. NewVector(loc[q].cid, loc[q].expires_at) \in Vector
          BY <1>0, <4>8, NewVectorTyped DEF WriteVector, Complete, Local
        <5>4. loc[q].expires_at > clock => \A m \in {n} : Readable(m)'
          BY <5>1, <5>2, <5>3, StoreAssumption DEF Readable, Lasts, StatusIs, Exists, NewVector
        <5>5. Listing' = Listing  BY <5>1 DEF Listing
        <5>6. \A k \in Lives' : k # n => k \in Lives
          BY <1>0, <5>1, <5>2, <5>5, SharedIsIndex DEF Lives, Lasts, Exists, Addr
        <5>7. \A k \in Lives : k.version < n.version  BY <4>1, <4>8 DEF WriteVector
        <5>8. loc[q].old # None => loc[q].sup.version < loc[q].key.version
          BY <4>1, <4>8 DEF WriteVector
        <5>9. \A m \in {loc'[q].key} :
                 /\ loc'[q].expires_at > clock' => Readable(m)'
                 /\ \A k \in Lives' : k # m => k.version < m.version
          BY <5>1, <5>4, <5>6, <5>7
        <5>10. loc[q].idx = Shared  BY <4>1, <4>8 DEF WriteVector, StoreLabels
        <5>11. QED  BY <3>1, <5>1, <5>8, <5>9, <5>10
      <4>9. CASE WriteTTLRow(q)
        <5>1. /\ loc' = loc /\ UNCHANGED <<vec, row, clock>> /\ pc[q] = "ttl"
              /\ pc'[q] \in {"rewrite", "upsert"}
          BY <1>0, <4>9 DEF WriteTTLRow, AfterTTL, Goto
        <5>2. Lives' = Lives /\ (\A k : Readable(k)' = Readable(k))
          BY <5>1 DEF Lives, Listing, Lasts, Exists, Readable, StatusIs
        <5>3. QED  BY <3>1, <4>1, <5>1, <5>2 DEF StoreLabels
      <4>10. CASE RewriteOld(q)
        <5> DEFINE n == loc[q].key  o == loc[q].sup
        <5>1. /\ loc' = loc /\ UNCHANGED <<row, clock>> /\ pc[q] = "rewrite" /\ pc'[q] = "upsert"
              /\ loc[q].old # None /\ o \in Key /\ n \in Key /\ Old(q) = <<Shared, o>>
          BY <1>0, <4>1, <4>10, StoreAssumption
          DEF RewriteOld, Goto, Complete, Old, StoreLabels
        <5>2. o.version < n.version /\ n # o
          <6>1. o.version < n.version  BY <4>1, <5>1
          <6>2. n.version \in Nat  BY <5>1, StoreAssumption DEF Key, Version
          <6>3. QED  BY <6>1, <6>2
        <5>3. \A y \in Addr : y # <<Shared, o>> => vec'[y] = vec[y]
          BY <1>0, <4>10, <5>1, SharedIsIndex, PutTouches DEF RewriteOld, Addr
        <5>4. \A k \in Key : k # o => Lasts(k)' = Lasts(k) /\ Readable(k)' = Readable(k)
          BY <5>1, <5>3, SharedIsIndex DEF Lasts, Exists, Readable, StatusIs, Addr
        <5>5. Listing' = Listing  BY <5>1 DEF Listing
        <5>6. \A k \in Lives' : k # o => k \in Lives  BY <1>0, <5>4, <5>5 DEF Lives
        <5>7. /\ loc[q].expires_at > clock => Readable(n)
              /\ \A k \in Lives : k # n => k.version < n.version
          BY <4>1, <5>1
        <5>8. loc[q].expires_at > clock => \A m \in {n} : Readable(m)'
          BY <5>1, <5>2, <5>4, <5>7
        <5>9. \A k \in Lives' : k # n => k.version < n.version  BY <5>2, <5>6, <5>7
        <5>10. loc[q].idx = Shared  BY <4>1, <5>1 DEF StoreLabels
        <5>11. QED  BY <3>1, <5>1, <5>2, <5>8, <5>9, <5>10
      <4>11. ~(RestoreReadsRow(q) \/ Purge(q) \/ RecordUse(q))
        BY <1>0 DEF RestoreReadsRow, Purge, PurgeVectors, PurgeRow, RecordUse, PinLabels, StoreLabels
      <4>12. QED
        BY <3>5, <4>2, <4>3, <4>5, <4>6, <4>7, <4>8, <4>9, <4>10, <4>11 DEF ProceedClient, Store
    <3>6. QED  BY <2>4, <3>2, <3>4, <3>5 DEF Other
  <2>5. QED  BY <1>5, <2>1, <2>2, <2>3, <2>4 DEF Caller
<1>6. CASE q \in disturbed'  BY <1>6
<1>7. QED  BY <1>2, <1>3, <1>4, <1>5, <1>6 DEF WSNext

-------------------------------------------------------------------------------
\* The invariant is inductive.
LEMMA WSStart == WSInit => WSInv
<1> SUFFICES ASSUME WSInit PROVE WSInv  OBVIOUS
<1> USE DEF WSInit, StoreInit, ClientInit
<1>1. StoreTypeOK  BY StoreAssumption DEF StoreTypeOK, Time
<1>2. ClientTypeOK  BY BlankTyped DEF ClientTypeOK, Labels
<1>3. PinTypeOK  BY HoldingTyped DEF PinTypeOK, PinLabels, Stages
<1>4. AgesInv  BY DEF AgesInv, Exists, Blank
<1>5. \A p \in Proc : FetchInv(p) /\ AloneInv(p)  BY DEF FetchInv, AloneInv, StoreLabels
<1>6. QED  BY <1>1, <1>2, <1>3, <1>4, <1>5 DEF WSInv

LEMMA WSKept == WSInv /\ [WSNext]_wsVars => WSInv'
<1> SUFFICES ASSUME WSInv, [WSNext]_wsVars  PROVE WSInv'  OBVIOUS
<1>1. Types /\ AgesInv /\ \A p \in Proc : FetchInv(p) /\ AloneInv(p)  BY DEF WSInv, Types
<1>2. Types'  BY <1>1, TypesKept
<1>3. AgesInv'  BY <1>1, AgesKept
<1>4. \A p \in Proc : FetchInv(p)' /\ AloneInv(p)'  BY <1>1, <1>2, FetchKept, AloneKept
<1>5. QED  BY <1>2, <1>3, <1>4 DEF WSInv, Types

LEMMA WSInvariant == WSSpec => []WSInv
<1>1. WSInit => WSInv  BY WSStart
<1>2. WSInv /\ [WSNext]_wsVars => WSInv'  BY WSKept
<1>3. QED  BY <1>1, <1>2, PTL DEF WSSpec

-------------------------------------------------------------------------------
\* A pin (pin_working_set) beside which no other caller moved is, once its row is
\* written, the one thing its name stands for, if its expiry is still to come:
\* every pin listed that has not expired is of a lower version than it.
THEOREM PinsStand == WSSpec => WrittenPinIsCurrent
<1> DEFINE Wrote(p) == /\ pc[p] = "upsert" /\ pc'[p] = "idle" /\ row' # row /\ p \notin disturbed
                       /\ loc[p].expires_at > clock
<1>1. ASSUME WSInv, WSInv', [WSNext]_wsVars, NEW p \in Proc, Wrote(p)
      PROVE  Current' = {loc[p].key}
  <2>0. /\ Types /\ Types' /\ StoreTypeOK /\ AloneInv(p) /\ loc[p] \in Local /\ pc[p] = "upsert"
        /\ Complete(pc[p], loc[p]) /\ Listing \subseteq Key
    BY <1>1, LocTyped, ListingTyped DEF WSInv, Types
  <2>1. PICK q \in Proc : Caller(q)
    BY <1>1 DEF WSNext, Day, wsVars, storeVars
  <2>2. q = p /\ Other(p)
    <3>1. q = p  BY <1>1, <2>0, <2>1, CallerTyped
    <3>2. stage[p] = "none"  BY <2>0 DEF Types, PinTypeOK
    <3>3. QED
      BY <2>0, <2>1, <3>1, <3>2
      DEF Caller, PinLists, PinStores, Fetch, FetchLists, FetchReads, FetchBody, Free
  <2>3. UpsertRow(p)
    <3>1. ~Crash(p)  BY <1>1 DEF Crash, storeVars
    <3>2. QED
      BY <2>0, <2>2, <3>1
      DEF Other, RequestArchive, Begin, ProceedClient, Store, StoreUnchanged, StoreSupersedes,
          StoreNearDuplicate, StoreFresh, GetOld, WriteVector, WriteTTLRow, RewriteOld, Archive,
          ArchivePut, ArchiveReadsRow, ArchiveUpsert, Purge, PurgeVectors, PurgeRow,
          RestoreReadsRow, RecordUse
  <2>4. PICK r \in Row : /\ r.latest_key = loc[p].key /\ r.status = "active" /\ r.listed
                         /\ PutRow(loc[p].cid, r)
    <3> DEFINE r == [latest_key |-> loc[p].key, created_at |-> clock, status |-> "active",
                     superseded_keys |-> IF loc[p].old = None THEN {} ELSE {loc[p].sup},
                     listed |-> TRUE]
    <3>1. PutRow(loc[p].cid, r)
      BY <1>1, <2>3 DEF UpsertRow, BestEffort
    <3>2. r \in Row
      BY <2>0 DEF Complete, Row, Status, StoreTypeOK
    <3>3. QED  BY <3>1, <3>2
  <2>5. PICK n \in Key : n = loc[p].key  BY <2>0 DEF Complete
  <2>6. loc[p].cid \in Cid /\ n # None /\ r # None
    BY <2>0, <2>5, StoreAssumption DEF Complete
  <2>7. n \in Listing' /\ Listing' \subseteq Listing \cup {n}
    <3>1. row' = [row EXCEPT ![loc[p].cid] = r] /\ row \in [Cid -> Row \cup {None}]
      BY <2>0, <2>4 DEF PutRow, StoreTypeOK
    <3>2. QED  BY <2>4, <2>5, <2>6, <3>1 DEF Listing
  <2>8. Readable(n) /\ \A k \in Lives : k # n => k.version < n.version
    BY <1>1, <2>0, <2>5 DEF AloneInv
  <2>9. UNCHANGED <<vec, clock>>  BY <2>3 DEF UpsertRow
  <2>10. /\ \A k : Readable(k)' = Readable(k) /\ (Readable(k) => Lasts(k))
         /\ \A k, l : RanksBelow(Shared, k, l)' = RanksBelow(Shared, k, l)
    BY <2>9 DEF Readable, Lasts, Exists, StatusIs, RanksBelow
  <2>11. \A k \in Listing' : Readable(k) => k = n \/ k.version < n.version
    BY <2>7, <2>8, <2>10 DEF Lives
  <2>12. n.version \in Nat /\ \A k \in Listing' : k.version \in Nat
    BY <2>0, <2>5, <2>7, StoreAssumption DEF Key, Version
  <2>13. Born(n) \in Nat
    BY <2>0, <2>5, <2>8, BornTyped DEF Readable, Lasts
  <2>14. \A k \in Listing' : Readable(k) => ~RanksBelow(Shared, n, k)
    BY <2>11, <2>12, <2>13 DEF RanksBelow, Born
  <2>15. \A k \in Listing' : Readable(k) /\ k # n => RanksBelow(Shared, k, n)
    BY <2>11 DEF RanksBelow
  <2>16. (Current = {k \in Listing :
              Readable(k) /\ \A l \in Listing : Readable(l) => ~RanksBelow(Shared, k, l)})'
    BY CurrentIs, PTL
  <2>17. Current' = {n}  BY <2>7, <2>8, <2>10, <2>14, <2>15, <2>16
  <2>18. QED  BY <2>5, <2>17
<1>2. WSInv /\ WSInv' /\ [WSNext]_wsVars =>
        [\A p \in Proc : Wrote(p) => Current' = {loc[p].key}]_wsVars
  BY <1>1
<1>3. QED  BY <1>2, WSInvariant, PTL DEF WSSpec, WrittenPinIsCurrent

\* A fetch (fetch_working_set) of a name that keeps standing for some pin finds
\* a pin, and one the name stood for at a moment of the fetch or was about to:
\* whatever is taken outranks the pin that stood all along, or is that pin.
THEOREM FetchesAreRegular == WSSpec => FetchedWasCurrent
<1>1. ASSUME WSInv, WSInv', [WSNext]_wsVars, NEW p \in Proc, FetchReads(p), steady[p] # {}
      PROVE  held'[p].pin \in seen[p]
  <2>0. /\ Types /\ StoreTypeOK /\ FetchInv(p) /\ held \in [Proc -> Holding]
        /\ stage[p] = "fetch_read"
    BY <1>1 DEF WSInv, Types, PinTypeOK, FetchReads
  <2>1. PICK n \in steady[p] : TRUE  BY <1>1
  <2>2. /\ n \in Current /\ n \in held[p].keys
        /\ \A k \in held[p].keys : Readable(k) /\ k \notin seen[p] => RanksBelow(Shared, k, n)
    BY <2>0, <2>1 DEF FetchInv
  <2> DEFINE us == {k \in held[p].keys : Readable(k)}
  <2>3. us \in SUBSET Key /\ n \in us /\ \A k \in us : Exists(<<Shared, k>>)
    BY <2>0, <2>2, CurrentIs DEF Holding, Readable, Lasts
  <2>4. ToFetch(held[p].keys) = Highest(Shared, us)
    <3>1. {k \in Unexpired(held[p].keys) : StatusIs(<<Shared, k>>, "active")} = us
      BY UnexpiredIs DEF Readable
    <3>2. QED  BY <3>1 DEF ToFetch
  <2>5. Highest(Shared, us) # {}  BY <2>0, <2>3, HighestExists
  <2>6. PICK k \in Highest(Shared, us) : To(p, "fetch_body", [Nothing EXCEPT !.pin = k])
    BY <1>1, <2>4, <2>5 DEF FetchReads
  <2>7. held'[p].pin = k  BY <2>0, <2>6 DEF To, Nothing
  <2>8. k \in us /\ ~RanksBelow(Shared, k, n)  BY <2>3, <2>6 DEF Highest
  <2>9. QED  BY <2>2, <2>7, <2>8
<1>2. WSInv /\ WSInv' /\ [WSNext]_wsVars =>
        [\A p \in Proc : FetchReads(p) /\ steady[p] # {} => held'[p].pin \in seen[p]]_wsVars
  BY <1>1
<1>3. QED  BY <1>2, WSInvariant, PTL DEF WSSpec, FetchedWasCurrent
===============================================================================
