------------------------------ MODULE VaultStore ------------------------------
(***************************************************************************)
(* The shared state of vectorvault: the S3 Vectors indexes, the DynamoDB   *)
(* memory-index table (one row per canonical group), the DynamoDB table of *)
(* hard-TTL rows, and the wall clock.  Every operation below is one remote *)
(* call, hence atomic; clients (MemoryClient) and the TTL worker           *)
(* (TTLWorker) interleave between calls.                                   *)
(*                                                                         *)
(* One tick of the clock is the unit the grace periods are counted in (a   *)
(* day); Start stands for the epoch second the history begins at, which is *)
(* larger than both grace periods, so that the code's default 0 for a      *)
(* missing timestamp reads as "long ago" here as well.                     *)
(***************************************************************************)
EXTENDS Integers, FiniteSets

CONSTANTS
  Agent,             \* logical writer identities (agent_id)
  Content,           \* normalized contents; a content stands for its digest
  NumIndexes,        \* how many vector indexes the deployment has
  MaxVersion,        \* bound: versions of one canonical group
  Start, MaxTime,    \* bound: the clock runs from Start to MaxTime
  SupersededGrace,   \* ticks from superseded to archived (7 days)
  ArchivedGrace,     \* ticks from archived to deleted (30 days)
  None               \* Python's None: an absent item, attribute or argument

VARIABLES
  vec,        \* the vector indexes: <<index, key>> -> vector metadata or None
  row,        \* memory-index: canonical_id -> row or None
  ttl,        \* TTL table: <<index_name, expires_at>> -> key or None
  clock,
  lastLive,   \* history: when a vector was last seen active (0: never)
  renewed     \* history: vectors (re)written active since the worker began

storeVars == <<vec, row, ttl, clock, lastLive, renewed>>

Index == 1..NumIndexes
Version == 1..MaxVersion
Time == 1..MaxTime           \* a caller may name an expiry that has passed
NoExpiry == MaxTime + 1      \* later than any time the clock reaches

Key == [agent : Agent, content : Content, version : Version]
Addr == Index \X Key

\* All memories of the model belong to one task, so the canonical id derived
\* from (task, digest) is the content the group was started with.
Cid == Content

Status == {"active", "superseded", "archived"}

\* Vector metadata; archived_at = 0 when the attribute is absent.
Vector == [cid : Cid, created_at : Time, expires_at : Time \cup {NoExpiry},
           status : Status, archived_at : Time \cup {0}]

\* A canonical row.  listed: the row carries the task_id the listing index
\* is keyed on.  A row made by record_use alone has latest_key None.
Row == [latest_key : Key \cup {None}, created_at : Time \cup {0},
        status : Status \cup {None}, superseded_keys : SUBSET Key,
        listed : BOOLEAN]

ASSUME StoreAssumption ==
  /\ NumIndexes \in Nat \ {0} /\ MaxVersion \in Nat \ {0}
  /\ SupersededGrace \in Nat \ {0} /\ ArchivedGrace \in Nat \ {0}
  /\ Start \in Nat \ {0} /\ MaxTime \in Nat /\ Start <= MaxTime
  /\ SupersededGrace + ArchivedGrace <= Start
  /\ None \notin Vector \cup Row \cup Key \cup Content \cup Status

BuildVectorKey(a, c, v) == [agent |-> a, content |-> c, version |-> v]

NewVector(g, e) ==
  [cid |-> g, created_at |-> clock, expires_at |-> e,
   status |-> "active", archived_at |-> 0]

-------------------------------------------------------------------------------
\* The remote calls.

Exists(x) == vec[x] # None

StatusIs(x, s) == Exists(x) /\ vec[x].status = s

\* put_vectors overwrites by key: no conditional write exists.
PutVector(x, v) ==
  /\ vec' = [vec EXCEPT ![x] = v]
  /\ lastLive' = IF v.status = "active" \/ StatusIs(x, "active")
                   THEN [lastLive EXCEPT ![x] = clock] ELSE lastLive
  /\ renewed' = IF v.status = "active" THEN renewed \cup {x} ELSE renewed

DeleteVectors(xs) ==
  /\ vec' = [x \in Addr |-> IF x \in xs THEN None ELSE vec[x]]
  /\ UNCHANGED <<lastLive, renewed>>

PutRow(g, r) == row' = [row EXCEPT ![g] = r]

\* update_item creates the item it does not find, with the counters alone.
PhantomRow ==
  [latest_key |-> None, created_at |-> 0, status |-> None,
   superseded_keys |-> {}, listed |-> FALSE]

PutTTLRow(i, e, k) == ttl' = [ttl EXCEPT ![<<i, e>>] = k]

-------------------------------------------------------------------------------
\* What a reader sees.

\* The vectors retrieve_memory may return for group g of index i.
Candidates(i, g) ==
  {k \in Key : LET v == vec[<<i, k>>] IN
               v # None /\ v.status = "active" /\ v.cid = g /\ v.expires_at > clock}

\* (version, created_at) of k precedes that of l, lexicographically.
RanksBelow(i, k, l) ==
  \/ k.version < l.version
  \/ /\ k.version = l.version
     /\ vec[<<i, k>>].created_at < vec[<<i, l>>].created_at

\* The keys of highest (version, created_at): more than one only when the rank
\* is tied, and then the order of the listing or of the hits decides.
Highest(i, keys) == {k \in keys : \A l \in keys : ~RanksBelow(i, k, l)}

StoreInit ==
  /\ vec = [x \in Addr |-> None]
  /\ row = [g \in Cid |-> None]
  /\ ttl = [x \in Index \X Time |-> None]
  /\ clock = Start
  /\ lastLive = [x \in Addr |-> 0]
  /\ renewed = {}

StoreTypeOK ==
  /\ vec \in [Addr -> Vector \cup {None}]
  /\ row \in [Cid -> Row \cup {None}]
  /\ ttl \in [Index \X Time -> Key \cup {None}]
  /\ clock \in Time
  /\ lastLive \in [Addr -> Time \cup {0}]
  /\ renewed \subseteq Addr
===============================================================================
