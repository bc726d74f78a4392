------------------------------- MODULE TTLWorker -------------------------------
(***************************************************************************)
(* One run after another of the scheduled TTL worker over the shared       *)
(* tables: promote superseded vectors, delete archived ones past their     *)
(* grace period, delete expired ones, then reconcile the canonical rows    *)
(* with the vectors.  A read and the write based on it are separate        *)
(* actions, so clients may write in between.                               *)
(*                                                                         *)
(* Abstracted: a table scan, a TTL query and a vector listing are one page *)
(* each, and the per-index reads of _find_vector are one step.  The        *)
(* percentage term of the breaker's cap is left out: it multiplies index   *)
(* sizes that are recorded in reconcile, after the last delete of a run,   *)
(* and handler() makes a new worker for each run.                          *)
(***************************************************************************)
EXTENDS VaultStore

CONSTANTS
  Deployed,      \* whether the TTL worker is scheduled at all
  DryRuns,       \* the values of DRY_RUN a run may find; the default is TRUE
  MaxDelete,     \* MAX_DELETE_ABS: the cap of one delete batch
  ChunkSize,     \* how many keys one delete_vectors call takes (500)
  WorkerFaults   \* "worker": the run may be cut off; "ttl": row deletes fail

ASSUME WorkerAssumption ==
  /\ Deployed \in BOOLEAN /\ DryRuns \subseteq BOOLEAN /\ MaxDelete \in Nat
  /\ ChunkSize \in Nat \ {0}
  /\ WorkerFaults \subseteq {"worker", "ttl"}

VARIABLES
  wpc,      \* the worker's phase
  windex,   \* the index being worked on, in the phases that go by index
  wkeys,    \* superseded keys the scan listed, still to be looked up
  whold,    \* <<address, metadata>> read and about to be written back
  wbatch,   \* addresses collected for deletion
  wrows,    \* TTL rows the query returned, still to be deleted
  wcheck,   \* those of them whose vectors are still to be looked up
  wfix,     \* groups of the listing still to be compared with their rows
  wdry      \* whether the run only logs what it would do

workerVars == <<wpc, windex, wkeys, whold, wbatch, wrows, wcheck, wfix, wdry>>

Phases == {"idle", "promote", "promote_put", "archived", "query_expired",
           "expired", "ttl_rows", "scan", "reconcile", "reconcile_put"}

TTLRow == [expires_at : Time, key : Key]

Actual == [cid : Cid, key : Key, status : Status, created_at : Time]

\* Where _find_vector finds a key: in the first index, in order, that has it.
Find(k) == {x \in Addr : /\ x[2] = k /\ Exists(x)
                         /\ \A j \in Index : Exists(<<j, k>>) => x[1] <= j}

Rows == {g \in Cid : row[g] # None}

SupersededKeys(gs) == UNION {row[g].superseded_keys : g \in gs}

\* The row's created_at stands for the time of the supersession.
Due == {g \in Rows : clock - row[g].created_at >= SupersededGrace}

Enter(phase) == wpc' = phase

Drop(k) == wkeys' = wkeys \ {k}

-------------------------------------------------------------------------------
\* superseded -> archived

StartRun ==
  /\ Deployed /\ wpc = "idle" /\ Enter("promote")
  /\ wdry' \in DryRuns
  /\ wkeys' = SupersededKeys(Due)
  /\ renewed' = {}
  /\ UNCHANGED <<vec, row, ttl, clock, lastLive>>
  /\ UNCHANGED <<windex, whold, wbatch, wrows, wcheck, wfix>>

PromoteFind(k) ==
  /\ wpc = "promote" /\ k \in wkeys /\ Drop(k)
  /\ IF \E x \in Find(k) : StatusIs(x, "superseded") /\ ~wdry
       THEN /\ \E x \in Find(k) : whold' = <<x, vec[x]>>
            /\ Enter("promote_put")
       ELSE UNCHANGED <<whold, wpc>>
  /\ UNCHANGED storeVars /\ UNCHANGED <<windex, wbatch, wrows, wcheck, wfix, wdry>>

\* Wrong on purpose (mutant of PromotePut): the deletion clock is not started.
PromotePutUnstamped ==
  /\ wpc = "promote_put"
  /\ PutVector(whold[1], [whold[2] EXCEPT !.status = "archived"])
  /\ Enter("promote") /\ whold' = None
  /\ UNCHANGED <<row, ttl, clock, windex, wkeys, wbatch, wrows, wcheck, wfix, wdry>>

\* Written back from the metadata as read.
PromotePut ==
  /\ wpc = "promote_put"
  /\ PutVector(whold[1], [whold[2] EXCEPT !.status = "archived",
                                          !.archived_at = clock])
  /\ Enter("promote") /\ whold' = None
  /\ UNCHANGED <<row, ttl, clock, windex, wkeys, wbatch, wrows, wcheck, wfix, wdry>>

-------------------------------------------------------------------------------
\* archived -> deleted

ScanArchived ==
  /\ wpc = "promote" /\ wkeys = {}
  /\ Enter("archived") /\ wkeys' = SupersededKeys(Rows)
  /\ UNCHANGED storeVars
  /\ UNCHANGED <<windex, whold, wbatch, wrows, wcheck, wfix, wdry>>

\* Wrong on purpose (mutant of PastGrace): a day early.
PastGraceEarly(x) == /\ StatusIs(x, "archived")
                     /\ clock - vec[x].archived_at >= ArchivedGrace - 1

PastGrace(x) == /\ StatusIs(x, "archived")
                /\ clock - vec[x].archived_at >= ArchivedGrace

ArchivedFind(k) ==
  /\ wpc = "archived" /\ k \in wkeys /\ Drop(k)
  /\ wbatch' = wbatch \cup {x \in Find(k) : PastGrace(x)}
  /\ UNCHANGED storeVars /\ UNCHANGED <<wpc, windex, whold, wrows, wcheck, wfix, wdry>>

Batch(i) == {x \in wbatch : x[1] = i}

\* Wrong on purpose (mutant of OverCap): off by one.
OverCapByOne(i) == Cardinality(Batch(i)) > MaxDelete + 1

OverCap(i) == Cardinality(Batch(i)) > MaxDelete

\* What one call deletes of a batch: a full chunk, or all that is left.
Chunks(xs) == {ys \in SUBSET xs : \/ Cardinality(ys) = ChunkSize
                                  \/ ys = xs /\ Cardinality(xs) < ChunkSize}

\* A batch within the cap is deleted, chunk by chunk; in a dry run it is only
\* counted.  (Chunks of different indexes may come in any order here.)
DeleteBatch(i) ==
  /\ ~OverCap(i)
  /\ \/ /\ wdry /\ UNCHANGED <<vec, lastLive, renewed>>
        /\ wbatch' = wbatch \ Batch(i)
     \/ /\ ~wdry
        /\ \E ys \in Chunks(Batch(i)) : DeleteVectors(ys) /\ wbatch' = wbatch \ ys

DeleteArchived(i) ==
  /\ wpc = "archived" /\ wkeys = {} /\ Batch(i) # {}
  /\ DeleteBatch(i)
  /\ UNCHANGED <<row, ttl, clock, wpc, windex, wkeys, whold, wrows, wcheck, wfix, wdry>>

\* CircuitBreakerError: the run ends, what it has done already stays done.
Trip(i) ==
  /\ \/ wpc = "archived" /\ wkeys = {}
     \/ wpc = "expired" /\ wcheck = {}
  /\ OverCap(i)
  /\ Enter("idle") /\ wbatch' = {} /\ wrows' = {} /\ windex' = 1
  /\ UNCHANGED storeVars /\ UNCHANGED <<wkeys, whold, wcheck, wfix, wdry>>

-------------------------------------------------------------------------------
\* hard TTL: expires_at <= now

EnterExpired ==
  /\ wpc = "archived" /\ wkeys = {} /\ wbatch = {}
  /\ Enter("query_expired") /\ windex' = 1
  /\ UNCHANGED storeVars /\ UNCHANGED <<wkeys, whold, wbatch, wrows, wcheck, wfix, wdry>>

ExpiredRows(i) ==
  {r \in TTLRow : r.expires_at <= clock /\ ttl[<<i, r.expires_at>>] = r.key}

QueryExpired ==
  /\ wpc = "query_expired" /\ Enter("expired")
  /\ wrows' = ExpiredRows(windex) /\ wcheck' = ExpiredRows(windex)
  /\ UNCHANGED storeVars /\ UNCHANGED <<windex, wkeys, whold, wbatch, wfix, wdry>>

\* The query answers in the order of the table's sort key, and the loops keep it.
Earliest(r, rows) == \A other \in rows : r.expires_at <= other.expires_at

\* delete_item by (index, expires_at), whichever key the row names by now.
DeleteTTLRow(r) ==
  \/ ~wdry /\ PutTTLRow(windex, r.expires_at, None)
  \/ (wdry \/ "ttl" \in WorkerFaults) /\ UNCHANGED ttl

\* Wrong on purpose (mutant of ExpiredFind): the TTL row is taken at its word.
ExpiredFindUnconfirmed(r) ==
  /\ wpc = "expired" /\ r \in wcheck /\ Earliest(r, wcheck)
  /\ wcheck' = wcheck \ {r}
  /\ wbatch' = wbatch \cup {<<windex, r.key>>}
  /\ UNCHANGED storeVars /\ UNCHANGED <<wpc, windex, wkeys, whold, wrows, wfix, wdry>>

\* The vector found decides, in whichever index it was found; what is
\* deleted is the key in the index of the TTL row.
ExpiredFind(r) ==
  /\ wpc = "expired" /\ r \in wcheck /\ Earliest(r, wcheck)
  /\ wcheck' = wcheck \ {r}
  /\ IF Find(r.key) = {} THEN DeleteTTLRow(r) /\ UNCHANGED wbatch
     ELSE /\ UNCHANGED ttl
          /\ wbatch' = IF \E x \in Find(r.key) : vec[x].expires_at <= clock
                         THEN wbatch \cup {<<windex, r.key>>} ELSE wbatch
  /\ UNCHANGED <<vec, row, clock, lastLive, renewed>>
  /\ UNCHANGED <<wpc, windex, wkeys, whold, wrows, wfix, wdry>>

DeleteExpired ==
  /\ wpc = "expired" /\ wcheck = {}
  /\ DeleteBatch(windex)
  /\ Enter(IF wbatch' = {} THEN "ttl_rows" ELSE "expired")
  /\ UNCHANGED <<row, ttl, clock, windex, wkeys, whold, wrows, wcheck, wfix, wdry>>

\* Wrong on purpose (mutant of CleanTTLRow): a row may go before its vector.
CleanTTLRowEarly(r) ==
  /\ wpc \in {"expired", "ttl_rows"} /\ r \in wrows /\ Earliest(r, wrows)
  /\ wrows' = wrows \ {r}
  /\ DeleteTTLRow(r)
  /\ UNCHANGED <<vec, row, clock, lastLive, renewed>>
  /\ UNCHANGED <<wpc, windex, wkeys, whold, wbatch, wcheck, wfix, wdry>>

CleanTTLRow(r) ==
  /\ wpc = "ttl_rows" /\ r \in wrows /\ Earliest(r, wrows)
  /\ wrows' = wrows \ {r}
  /\ DeleteTTLRow(r)
  /\ UNCHANGED <<vec, row, clock, lastLive, renewed>>
  /\ UNCHANGED <<wpc, windex, wkeys, whold, wbatch, wcheck, wfix, wdry>>

NextIndex(again, done) ==
  IF windex < NumIndexes THEN windex' = windex + 1 /\ Enter(again)
                         ELSE windex' = 1 /\ Enter(done)

LeaveExpired ==
  /\ wpc = "ttl_rows" /\ wrows = {} /\ NextIndex("query_expired", "scan")
  /\ UNCHANGED storeVars /\ UNCHANGED <<wkeys, whold, wbatch, wrows, wcheck, wfix, wdry>>

-------------------------------------------------------------------------------
\* reconciliation sweep

Members(i, g) == {k \in Key : Exists(<<i, k>>) /\ vec[<<i, k>>].cid = g}

\* Wrong on purpose (mutant of Top): whichever member is listed last wins.
AnyMember(i, g) == Members(i, g)

\* The first of the highest (version, created_at) in listing order, which is
\* the service's.
Top(i, g) == LET listed == Members(i, g) IN Highest(i, listed)

ActualOf(i, g, k) == [cid |-> g, key |-> k, status |-> vec[<<i, k>>].status,
                      created_at |-> vec[<<i, k>>].created_at]

\* Wrong on purpose (mutant of ScanVectors): only groups without a row are compared.
ScanVectorsWithoutRow ==
  /\ wpc = "scan" /\ Enter("reconcile")
  /\ LET groups == {g \in Cid : Members(windex, g) # {} /\ row[g] = None} IN
     \E first \in [groups -> Key] :
       /\ \A g \in groups : first[g] \in Top(windex, g)
       /\ wfix' = {ActualOf(windex, g, first[g]) : g \in groups}
  /\ UNCHANGED storeVars /\ UNCHANGED <<windex, wkeys, whold, wbatch, wrows, wcheck, wdry>>

ScanVectors ==
  /\ wpc = "scan" /\ Enter("reconcile")
  /\ LET groups == {g \in Cid : Members(windex, g) # {}} IN
     \E first \in [groups -> Key] :
       /\ \A g \in groups : first[g] \in Top(windex, g)
       /\ wfix' = {ActualOf(windex, g, first[g]) : g \in groups}
  /\ UNCHANGED storeVars /\ UNCHANGED <<windex, wkeys, whold, wbatch, wrows, wcheck, wdry>>

\* Wrong on purpose (mutant of Agrees): only the key is compared.
AgreesOnKey(x) == row[x.cid] # None /\ row[x.cid].latest_key = x.key

Agrees(x) == /\ row[x.cid] # None
             /\ row[x.cid].latest_key = x.key /\ row[x.cid].status = x.status

\* Wrong on purpose (mutant of ReconcileGet): the dry run is forgotten.
ReconcileGetAlways(x) ==
  /\ wpc = "reconcile" /\ x \in wfix
  /\ IF Agrees(x)
       THEN wfix' = wfix \ {x} /\ UNCHANGED <<whold, wpc>>
       ELSE whold' = x /\ Enter("reconcile_put") /\ UNCHANGED wfix
  /\ UNCHANGED storeVars /\ UNCHANGED <<windex, wkeys, wbatch, wrows, wcheck, wdry>>

ReconcileGet(x) ==
  /\ wpc = "reconcile" /\ x \in wfix
  /\ IF Agrees(x) \/ wdry
       THEN wfix' = wfix \ {x} /\ UNCHANGED <<whold, wpc>>
       ELSE whold' = x /\ Enter("reconcile_put") /\ UNCHANGED wfix
  /\ UNCHANGED storeVars /\ UNCHANGED <<windex, wkeys, wbatch, wrows, wcheck, wdry>>

\* The item written has these attributes only.
RepairedRow(x) == [latest_key |-> x.key, created_at |-> x.created_at,
                   status |-> x.status, superseded_keys |-> {}, listed |-> FALSE]

ReconcilePut ==
  /\ wpc = "reconcile_put"
  /\ PutRow(whold.cid, RepairedRow(whold))
  /\ wfix' = wfix \ {whold} /\ whold' = None /\ Enter("reconcile")
  /\ UNCHANGED <<vec, ttl, clock, lastLive, renewed>>
  /\ UNCHANGED <<windex, wkeys, wbatch, wrows, wcheck, wdry>>

LeaveReconcile ==
  /\ wpc = "reconcile" /\ wfix = {} /\ NextIndex("scan", "idle")
  /\ UNCHANGED storeVars /\ UNCHANGED <<wkeys, whold, wbatch, wrows, wcheck, wfix, wdry>>

-------------------------------------------------------------------------------
\* An exception or the Lambda timeout ends the run between two calls.
CutOff ==
  /\ "worker" \in WorkerFaults /\ wpc # "idle"
  /\ Enter("idle") /\ windex' = 1
  /\ wkeys' = {} /\ whold' = None /\ wbatch' = {} /\ wrows' = {} /\ wcheck' = {}
  /\ wfix' = {} /\ UNCHANGED wdry
  /\ UNCHANGED storeVars

ProceedWorker ==
  \/ \E k \in Key : PromoteFind(k) \/ ArchivedFind(k)
  \/ PromotePut \/ ScanArchived \/ EnterExpired \/ QueryExpired
  \/ \E i \in Index : DeleteArchived(i) \/ Trip(i)
  \/ \E r \in wrows \cup wcheck : ExpiredFind(r) \/ CleanTTLRow(r)
  \/ DeleteExpired \/ LeaveExpired
  \/ ScanVectors \/ ReconcilePut \/ LeaveReconcile
  \/ \E x \in wfix : ReconcileGet(x)

WorkerStep == StartRun \/ ProceedWorker \/ CutOff

WorkerInit ==
  /\ wpc = "idle" /\ windex = 1 /\ wkeys = {} /\ whold = None
  /\ wbatch = {} /\ wrows = {} /\ wcheck = {} /\ wfix = {}
  /\ wdry = TRUE
===============================================================================
