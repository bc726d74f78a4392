----------------------------- MODULE MemoryClient -----------------------------
(***************************************************************************)
(* The write side of the memory client: store_memory (with supersession),  *)
(* restore_memory, archive_memory, purge_memory and the usage counter, run *)
(* by concurrent processes.  One action per remote call; what is local     *)
(* between two calls belongs to the action that follows the first.  A      *)
(* process keeps what it has read in loc and acts on it later, however     *)
(* stale it has become.                                                    *)
(*                                                                         *)
(* Abstracted: embeddings and distances (an exact duplicate is an active   *)
(* vector of the same content, a near one is given by Near), the metadata  *)
(* that only descends into the record (summary, provenance, links, team),  *)
(* memory types, and the placement of large contents in S3.                *)
(***************************************************************************)
EXTENDS VaultStore

CONSTANTS
  Proc,         \* concurrent callers: agents, or threads of one MCP server
  AgentOf,      \* the agent_id each caller writes under
  Ops,          \* operations callers may start in this instance
  Modes,        \* store modes callers pass ("auto", "new")
  CallerCid,    \* metadata.canonical_id callers pass; None: derived
  Expiries,     \* metadata.expires_at callers pass
  Near,         \* pairs of contents whose similarity reaches the threshold
  Faults,       \* "crash", "row", "ttl": what may go wrong, see below
  MaxRequests   \* bound: operations started in a behaviour

ASSUME ClientAssumption ==
  /\ AgentOf \in [Proc -> Agent]
  /\ Ops \subseteq {"store", "supersede", "restore", "archive", "purge", "use"}
  /\ Modes \subseteq {"auto", "new"} /\ CallerCid \subseteq Cid \cup {None}
  /\ Expiries \subseteq Time \cup {NoExpiry}
  /\ Near \subseteq Content \X Content
  /\ Faults \subseteq {"crash", "row", "ttl"}
  /\ MaxRequests \in Nat

VARIABLES
  pc,        \* where each caller is
  loc,       \* what each caller holds between two calls
  requests   \* operations started so far

clientVars == <<pc, loc, requests>>

Local == [idx : Index, content : Content \cup {None}, mode : {"auto", "new"},
          expires_at : Time \cup {NoExpiry}, cid : Cid \cup {None},
          sup : Key \cup {None}, key : Key \cup {None},
          old : Vector \cup {None}, row : Row \cup {None}]

Blank == [idx |-> 1, content |-> None, mode |-> "auto", expires_at |-> NoExpiry,
          cid |-> None, sup |-> None, key |-> None, old |-> None, row |-> None]

Labels == {"idle", "dedup", "get_old", "vector", "ttl", "rewrite", "upsert",
           "restore_row", "archive_put", "archive_row", "archive_upsert",
           "purge_vectors", "purge_row", "use_row"}

Goto(p, label) == pc' = [pc EXCEPT ![p] = label]

Keep(p, l) == loc' = [loc EXCEPT ![p] = l]

\* The operation returns or raises; nothing of it survives in the process.
Finish(p) == Goto(p, "idle") /\ Keep(p, Blank)

Begin(p, op, label, l) ==
  /\ pc[p] = "idle" /\ op \in Ops /\ requests < MaxRequests
  /\ requests' = requests + 1
  /\ Goto(p, label) /\ Keep(p, l)

Here(p) == <<loc[p].idx, loc[p].key>>       \* the vector the call is about
Old(p) == <<loc[p].idx, loc[p].sup>>        \* the vector being superseded

\* Canonical-row reads and writes are best effort: the exception is swallowed,
\* a failed read looks like a missing row and a failed write leaves no trace.
RowReads(g) == {row[g]} \cup (IF "row" \in Faults THEN {None} ELSE {})

BestEffort(kind, Write, unwritten) ==
  Write \/ (kind \in Faults /\ unwritten)

-------------------------------------------------------------------------------
\* store_memory

\* Required fields and the summary rule are checked before any call is made.
RequestStore(p, i, c, g, e, m) ==
  /\ Begin(p, "store", "dedup",
           [Blank EXCEPT !.idx = i, !.content = c, !.cid = g,
                         !.expires_at = e, !.mode = m])
  /\ UNCHANGED storeVars

RequestSupersede(p, i, c, e, k) ==
  /\ Exists(<<i, k>>)
  /\ Begin(p, "supersede", "dedup",
           [Blank EXCEPT !.idx = i, !.content = c, !.expires_at = e, !.sup = k])
  /\ UNCHANGED storeVars

Active(i) == {k \in Key : StatusIs(<<i, k>>, "active")}

\* The query returns the nearest 5, equal contents first and near ones next, so
\* that cut does not decide whether there is one.
ExactDuplicates(i, c) == {k \in Active(i) : k.content = c}

NearDuplicates(i, c) == {k \in Active(i) : <<k.content, c>> \in Near}

\* The dedup query finds the content active (expired or not): a no-op.
StoreUnchanged(p) ==
  /\ pc[p] = "dedup"
  /\ ExactDuplicates(loc[p].idx, loc[p].content) # {}
  /\ Finish(p) /\ UNCHANGED <<storeVars, requests>>

StoreSupersedes(p) ==
  /\ pc[p] = "dedup" /\ loc[p].sup # None
  /\ ExactDuplicates(loc[p].idx, loc[p].content) = {}
  /\ Goto(p, "get_old") /\ UNCHANGED <<storeVars, loc, requests>>

StoreNearDuplicate(p) ==
  /\ pc[p] = "dedup" /\ loc[p].sup = None /\ loc[p].mode # "new"
  /\ ExactDuplicates(loc[p].idx, loc[p].content) = {}
  /\ NearDuplicates(loc[p].idx, loc[p].content) # {}
  /\ Finish(p) /\ UNCHANGED <<storeVars, requests>>

StoreFresh(p) ==
  /\ pc[p] = "dedup" /\ loc[p].sup = None
  /\ ExactDuplicates(loc[p].idx, loc[p].content) = {}
  /\ loc[p].mode = "new" \/ NearDuplicates(loc[p].idx, loc[p].content) = {}
  /\ Goto(p, "vector")
  /\ LET l == loc[p] IN
     Keep(p, [l EXCEPT !.key = BuildVectorKey(AgentOf[p], l.content, 1),
                       !.cid = IF l.cid = None THEN l.content ELSE l.cid])
  /\ UNCHANGED <<storeVars, requests>>

\* _supersede reads the vector it replaces; a missing one is a ValueError.
\* Bound: a version beyond MaxVersion ends the operation as an error would.
GetOld(p) ==
  /\ pc[p] = "get_old"
  /\ LET l == loc[p]  v == l.sup.version + 1 IN
     IF Exists(Old(p)) /\ v \in Version
       THEN /\ Goto(p, "vector")
            /\ Keep(p, [l EXCEPT !.old = vec[Old(p)], !.cid = vec[Old(p)].cid,
                                 !.key = BuildVectorKey(AgentOf[p], l.content, v)])
       ELSE Finish(p)
  /\ UNCHANGED <<storeVars, requests>>

AfterTTL(l) == IF l.old = None THEN "upsert" ELSE "rewrite"

AfterVector(l) == IF l.expires_at < NoExpiry THEN "ttl" ELSE AfterTTL(l)

WriteVector(p) ==
  /\ pc[p] = "vector"
  /\ PutVector(Here(p), NewVector(loc[p].cid, loc[p].expires_at))
  /\ Goto(p, AfterVector(loc[p]))
  /\ UNCHANGED <<row, ttl, clock, loc, requests>>

\* The TTL table's key is (index_name, expires_at): the row of another memory
\* that expires at the same time in the same index is overwritten.  A time
\* already past is stored like any other.
WriteTTLRow(p) ==
  /\ pc[p] = "ttl"
  /\ BestEffort("ttl", PutTTLRow(loc[p].idx, loc[p].expires_at, loc[p].key),
                UNCHANGED ttl)
  /\ Goto(p, AfterTTL(loc[p]))
  /\ UNCHANGED <<vec, row, clock, lastLive, renewed, loc, requests>>

\* Wrong on purpose (mutant of RewriteOld): the old vector may be retired before
\* the new one is written.
RewriteOldFirst(p) ==
  /\ pc[p] = "rewrite" \/ (pc[p] = "vector" /\ loc[p].old # None)
  /\ PutVector(Old(p), [loc[p].old EXCEPT !.status = "superseded"])
  /\ Goto(p, IF pc[p] = "rewrite" THEN "upsert" ELSE pc[p])
  /\ UNCHANGED <<row, ttl, clock, loc, requests>>

\* The old vector is put back from the metadata read in GetOld.
RewriteOld(p) ==
  /\ pc[p] = "rewrite"
  /\ PutVector(Old(p), [loc[p].old EXCEPT !.status = "superseded"])
  /\ Goto(p, "upsert")
  /\ UNCHANGED <<row, ttl, clock, loc, requests>>

\* Wrong on purpose (mutant of UpsertRow): the row of a fresh write lists the
\* absent supersedes_key too.
UpsertRowWithNoKey(p) ==
  /\ pc[p] = "upsert"
  /\ LET l == loc[p]
         r == [latest_key |-> l.key, created_at |-> clock, status |-> "active",
               superseded_keys |-> {l.sup}, listed |-> TRUE]
     IN BestEffort("row", PutRow(l.cid, r), UNCHANGED row)
  /\ Finish(p)
  /\ UNCHANGED <<vec, ttl, clock, lastLive, renewed, requests>>

\* The row is replaced: superseded_keys holds the key this write superseded
\* and no earlier one.
UpsertRow(p) ==
  /\ pc[p] = "upsert"
  /\ LET l == loc[p]
         r == [latest_key |-> l.key, created_at |-> clock, status |-> "active",
               superseded_keys |-> IF l.old = None THEN {} ELSE {l.sup},
               listed |-> TRUE]
     IN BestEffort("row", PutRow(l.cid, r), UNCHANGED row)
  /\ Finish(p)
  /\ UNCHANGED <<vec, ttl, clock, lastLive, renewed, requests>>

Store(p) ==
  \/ StoreUnchanged(p) \/ StoreSupersedes(p) \/ StoreNearDuplicate(p)
  \/ StoreFresh(p) \/ GetOld(p) \/ WriteVector(p) \/ WriteTTLRow(p)
  \/ RewriteOld(p) \/ UpsertRow(p)

-------------------------------------------------------------------------------
\* restore_memory: store the content of k again, superseding the row's latest.

RequestRestore(p, i, k) ==
  /\ Exists(<<i, k>>)
  /\ Begin(p, "restore", "restore_row",
           [Blank EXCEPT !.idx = i, !.content = k.content, !.key = k,
                         !.cid = vec[<<i, k>>].cid])
  /\ UNCHANGED storeVars

\* Without a row the key itself is superseded; a row that record_use made has
\* no latest_key, and then the store is a fresh one.
RestoreReadsRow(p) ==
  /\ pc[p] = "restore_row"
  /\ \E r \in RowReads(loc[p].cid) :
       Keep(p, [loc[p] EXCEPT
                  !.sup = IF r = None THEN loc[p].key ELSE r.latest_key,
                  !.key = None])
  /\ Goto(p, "dedup")
  /\ UNCHANGED <<storeVars, requests>>

-------------------------------------------------------------------------------
\* archive_memory.  A missing or already archived key writes nothing.

RequestArchive(p, i, k) ==
  /\ Exists(<<i, k>>) /\ ~StatusIs(<<i, k>>, "archived")
  /\ Begin(p, "archive", "archive_put",
           [Blank EXCEPT !.idx = i, !.key = k, !.old = vec[<<i, k>>],
                         !.cid = vec[<<i, k>>].cid])
  /\ UNCHANGED storeVars

ArchivePut(p) ==
  /\ pc[p] = "archive_put"
  /\ PutVector(Here(p), [loc[p].old EXCEPT !.status = "archived",
                                           !.archived_at = clock])
  /\ Goto(p, "archive_row")
  /\ UNCHANGED <<row, ttl, clock, loc, requests>>

ArchiveReadsRow(p) ==
  /\ pc[p] = "archive_row"
  /\ \E r \in RowReads(loc[p].cid) :
       IF r = None THEN Finish(p)
       ELSE Goto(p, "archive_upsert") /\ Keep(p, [loc[p] EXCEPT !.row = r])
  /\ UNCHANGED <<storeVars, requests>>

\* The row as read, marked archived whichever key it names, is put back; what
\* it lacks is taken from the vector.
ArchiveUpsert(p) ==
  /\ pc[p] = "archive_upsert"
  /\ LET l == loc[p]
         r == [latest_key |-> IF l.row.latest_key = None THEN l.key
                                                          ELSE l.row.latest_key,
               created_at |-> IF l.row.latest_key = None THEN l.old.created_at
                                                          ELSE l.row.created_at,
               status |-> "archived",
               superseded_keys |-> l.row.superseded_keys, listed |-> TRUE]
     IN BestEffort("row", PutRow(l.cid, r), UNCHANGED row)
  /\ Finish(p)
  /\ UNCHANGED <<vec, ttl, clock, lastLive, renewed, requests>>

Archive(p) == ArchivePut(p) \/ ArchiveReadsRow(p) \/ ArchiveUpsert(p)

-------------------------------------------------------------------------------
\* purge_memory: the admin's hard delete of the keys the row names.

RequestPurge(p, i, g) ==
  /\ \E r \in RowReads(g) :
       Begin(p, "purge",
             IF r # None /\ (r.latest_key # None \/ r.superseded_keys # {})
               THEN "purge_vectors" ELSE "purge_row",
             [Blank EXCEPT !.idx = i, !.cid = g, !.row = r])
  /\ UNCHANGED storeVars

PurgeVectors(p) ==
  /\ pc[p] = "purge_vectors"
  /\ LET l == loc[p]
         keys == l.row.superseded_keys \cup ({l.row.latest_key} \ {None})
     IN DeleteVectors({l.idx} \X keys)
  /\ Goto(p, "purge_row")
  /\ UNCHANGED <<row, ttl, clock, loc, requests>>

PurgeRow(p) ==
  /\ pc[p] = "purge_row"
  /\ BestEffort("row", PutRow(loc[p].cid, None), UNCHANGED row)
  /\ Finish(p)
  /\ UNCHANGED <<vec, ttl, clock, lastLive, renewed, requests>>

Purge(p) == PurgeVectors(p) \/ PurgeRow(p)

-------------------------------------------------------------------------------
\* hydrate_memory and reinforce_memory: a use of key k is counted on the row.

RequestUse(p, i, k) ==
  /\ Exists(<<i, k>>)
  /\ Begin(p, "use", "use_row", [Blank EXCEPT !.idx = i, !.cid = vec[<<i, k>>].cid])
  /\ UNCHANGED storeVars

RecordUse(p) ==
  /\ pc[p] = "use_row"
  /\ LET r == IF row[loc[p].cid] = None THEN PhantomRow ELSE row[loc[p].cid]
     IN BestEffort("row", PutRow(loc[p].cid, r), UNCHANGED row)
  /\ Finish(p)
  /\ UNCHANGED <<vec, ttl, clock, lastLive, renewed, requests>>

-------------------------------------------------------------------------------
\* The caller dies, or a call that is not best effort raises, between any two
\* calls; a call that took effect but whose answer was lost is the same.
Crash(p) ==
  /\ "crash" \in Faults /\ pc[p] # "idle"
  /\ Finish(p) /\ UNCHANGED <<storeVars, requests>>

Request(p) ==
  \E i \in Index :
    \/ \E c \in Content, e \in Expiries :
         \/ \E g \in CallerCid, m \in Modes : RequestStore(p, i, c, g, e, m)
         \/ \E k \in Key : RequestSupersede(p, i, c, e, k)
    \/ \E k \in Key :
         RequestRestore(p, i, k) \/ RequestArchive(p, i, k) \/ RequestUse(p, i, k)
    \/ \E g \in Cid : RequestPurge(p, i, g)

ProceedClient(p) ==
  Store(p) \/ RestoreReadsRow(p) \/ Archive(p) \/ Purge(p) \/ RecordUse(p)

ClientStep(p) == Request(p) \/ ProceedClient(p) \/ Crash(p)

ClientInit ==
  /\ pc = [p \in Proc |-> "idle"]
  /\ loc = [p \in Proc |-> Blank]
  /\ requests = 0

Quiet == \A p \in Proc : pc[p] = "idle"

-------------------------------------------------------------------------------
\* The types of the variables: what a caller holds is complete for the call it
\* is about to make, the key, the metadata and the row it will write.
Complete(label, l) ==
  /\ label \in {"dedup", "get_old", "restore_row"} => l.content \in Content
  /\ label \in {"dedup", "restore_row"} => l.old = None
  /\ label = "get_old" => l.sup \in Key
  /\ label \in {"vector", "ttl", "rewrite", "upsert", "restore_row",
                "archive_put", "archive_row", "archive_upsert"} =>
       l.key \in Key /\ l.cid \in Cid
  /\ label \in {"vector", "ttl", "rewrite", "upsert"} =>
       (l.old # None => l.sup \in Key)
  /\ label = "ttl" => l.expires_at \in Time
  /\ label \in {"rewrite", "archive_put", "archive_row", "archive_upsert"} =>
       l.old \in Vector
  /\ label \in {"archive_upsert", "purge_vectors"} => l.row \in Row
  /\ label \in {"purge_vectors", "purge_row", "use_row"} => l.cid \in Cid

ClientTypeOK ==
  /\ pc \in [Proc -> Labels] /\ loc \in [Proc -> Local] /\ requests \in Nat
  /\ \A p \in Proc : Complete(pc[p], loc[p])
===============================================================================
