# vectorvault-core in TLA+

A model of the shared memory store of vectorvault: agents and MCP servers
write, correct, retract, pin and read memories that live in S3 Vectors indexes,
with best-effort rows in DynamoDB beside them and a daily worker that retires
and deletes. There is no transaction and no conditional write anywhere, so the
correctness of the store is a matter of the order of single remote calls. That
is what is modelled: **one action per remote call**, with everything local
between two calls in the action that follows the first, and callers, worker and
crashes interleaved between calls.

Source paths below are relative to `src/src/vectorvault/` unless they say more.

## 1. Inventory

| Part | State | Operations | Interacts by |
|---|---|---|---|
| memory client, writes (`memory_client.py`) | none between calls | store, supersede, restore, archive, purge, reinforce | `get/put/delete_vectors`, rows, TTL rows |
| memory client, reads | none between calls | retrieve, hydrate, retrieve_pack, list, linked_by, expand_cites, fetch_working_set | query and get vectors, rows, usage counters |
| canonical index (`canonical_index.py`) | table `memory-index`: canonical id -> latest key, status, superseded_keys, task_id, counters | upsert, get, delete, record_use, query_by_task | best effort: exceptions swallowed (but not in query_by_task) |
| TTL worker (`ttl_worker.py`) | none between runs | promote, delete archived, delete expired, reconcile | vectors, both tables; daily schedule, 5 min limit (`infra/lib/memory-stack.ts:475,491`) |
| TTL table | (index_name, expires_at) -> key | put by the client, query and delete by the worker | shared |
| embedding cache (`embedding_cache.py`) | LRU in the process, table with a TTL | embed | threads of one MCP server (`mcp_server.py:203`) |
| working sets (`working_sets.py`) | pins are memories | pin, fetch, cite extraction | store and listing |
| content bucket (client) | large bodies in S3, keyed by the vector's key | put before the vector, read by hydration, deleted by purge | `put/get/delete_object` |
| MCP server, tools, roles (`mcp_server.py`, `tools/memory_tools.py`) | one client, one set of assumed-role credentials, worker threads | start from the environment, dispatch a tool, refresh credentials | STS, SSM, then the client's calls |
| doctor (`doctor.py`) | the checks of one report | identity, configuration, role assumption, probe | STS, SSM, one list of vectors; a tool or a `vv` command |
| packs (`memory_packs.py`) | names of task lists, read from the configuration | resolve | read by `retrieve_pack` |
| `scripts/vv.py` | none | build a client or a doctor, run one command | as the MCP server |
| config, metrics, ingest, galaxy, dogfood, infra | configuration | reading, rendering, declaring | call the client; IAM grants |

What is hard here, and what must hold:

* **Two writes per correction** (put the new version, rewrite the old one), by
  callers that race, crash or write back metadata they read earlier. A reader
  must see a group as a register that only moves to the next version.
* **Rows that run behind the vectors.** A lost row write, or a crash before it,
  must be repaired by the worker, and never matter to retrieval.
* **Deletion by a worker that reads, decides and deletes in separate calls.**
  Nothing may go before its grace period or expiry, nor more than the cap.
* **Keys are reused.** A key is agent, task, digest and version, so a content
  stored again after its group moved on gets the key of an older vector.
* **A retrieval of many calls over a vault that moves on**: the collapse, the
  promotion of chunks, the token budget and the usage signal must survive it.
* **A listing and a vector read at different moments** (pins, cites, packs).
* **A content and its vector in two services**, written and deleted by separate
  calls. What is found must be readable.
* **A process that lives longer than its credentials.** The login, the assumed
  role and the deployment change between any two calls of a tool, a start or a
  diagnosis; a call must still return, a renewed login heal, and a healthy
  report mean something.

Every hazard, at its line, is in `PROJECT.json`, with the property that covers
it or the reason why none does.

## 2. Modules

| Module | Models | How its state and actions correspond |
|---|---|---|
| `VaultStore` | the tables, indexes and clock | `vec` (index, key) -> metadata, `row`, `ttl`, `clock`; one operator per remote call. `lastLive` and `renewed` are history, as are `calm`, `settled`, `removed` and `written` of `Vault`. |
| `MemoryClient` | `_store`, `_supersede`, restore, archive, purge, reinforce | `pc[p]` is the call a caller makes next, `loc[p]` its local variables. `Request*` is the entry with its checks; `Crash` is process death or a raised AWS error. |
| `TTLWorker` | `TTLWorker.run` and all its phases, breaker, `DRY_RUN` | `wpc` is the phase, `wkeys`, `wrows`, `wcheck`, `wfix` what its loops have left, `whold` what was read and is about to be written back, `wbatch` what will be deleted. |
| `Vault` | both of them over one store | `Spec`, `FairSpec`, the type invariant and the properties |
| `VersionRegister` | abstract specification of a group as a reader sees it | `Vault` refines it (`ReaderSeesARegister`) |
| `VaultProofs` | theorems about `Vault` and its refinement of `VersionRegister`; on `ClientProofs`, the typing lemmas of the remote calls and of the write side | section 5 |
| `Retrieval` | `retrieve_memory` from query to `hydrate_keys`, over a changing index | one step per hit or key in the order of the code, `Environment` for the others |
| `Expansion` | `expand_cites` over a changing index and changing rows | one step per visited key and one for its references; an entry of the frontier is a key and its level, as in the code; `cited` is history |
| `WorkingSets` | `pin_working_set` and `fetch_working_set` by name, through `query_by_task`, composed with `MemoryClient` | `stage[p]`, `held[p]` before the store begins or in a fetch; the store itself is `MemoryClient`'s; `disturbed`, `seen` and `steady` are history |
| `EmbeddingCache` | `embed` on the threads of one MCP server, over the dict, the cache table and Bedrock | `pc[t]` is the operation on the dict or the remote call a thread performs next, `call[t]` what it holds; `lru` is the dict in its order; `Reap` is DynamoDB's TTL |
| `Contents` | `_route_content` and the objects a purge deletes, put in their places in `MemoryClient` | `body` is the set of addresses whose object is there; `routed` the callers between the object and the vector, `doomed` the objects a purge has left; `raced` is history |
| `BatchReads` | `hydrate_memory`, `_fetch_keys_summary`, `retrieve_pack` (packs, `query_by_task` with its page, budget), composed with the writers of `Contents` | `at` is the reader's next call, `rd` what it holds: keys or tasks left, records taken, tokens used; `steady` and `live` are history |
| `Session` | `build_from_env`, `vv`'s `build_client`, dispatch, the refreshed credentials, `_call`, `run_doctor`, the verbs of a role and the stack's grants | `boot` is the calls a start has left, with malformed packs as one more step that fails it, `call[t]` the calls a thread's tool has left or the checks of its report, `creds` the assumed credentials; login, faults and ageing are the environment's |
| `SessionProofs`, `EmbeddingCacheProofs`, `BatchReadsProofs`, `RetrievalProofs`, `ExpansionProofs`, `WorkingSetsProofs` | theorems about the module of that name | section 5 |
| `MCVault`, `MCRetrieval`, `MCExpansion`, `MCWorkingSets`, `MCEmbeddingCache`, `MCBatchReads`, `MCSession` | instances | constants a cfg cannot write |

Definitions named "Wrong on purpose" are mutants: each is what one mapped
definition would be with a plausible bug, and TLC finds the property named with
it in `PROJECT.json` violated when it takes the definition's place.

### Abstractions and why they are safe

* A content stands for its digest; keys are records (agent, content, version).
  All memories of `Vault` are in one task, so the derived canonical id is the
  content the group began with. Memory types, teams and S3 placement of long
  bodies are left out there: no decision of the modelled operations depends on
  them except where `WorkingSets` says so. `Contents` puts the placement back,
  with several tasks, and for that leaves out restore.
* Similarity is a relation on contents (`Near`); the dedup query returns the
  active vectors that are equal or near. The code asks for the nearest 5
  (`_DEDUP_TOP_K`): an equal content is at distance 0 and a near one nearer than the
  others, so whether one is found does not depend on that cut.
* One tick is a day, the unit the grace periods are configured in, and no
  operation or run spans a tick: calls take seconds and the worker is cut off
  after five minutes. `Start` is at least the sum of the grace periods, so
  the code's default 0 for a missing timestamp is "long ago" here too.
* The worker deletes a batch 500 keys per call (`ttl_worker.py:209-212`) and may be cut
  off between two of them: `ChunkSize`. The keys of a batch are a set, so its chunks
  come in any order; the TTL rows come in the order of the table's sort key.
* Scans, TTL queries, listings are one page, but for `BatchReads`, where the
  listing of a task is cut at `PageLimit` before its filter, as in the code;
  `_find_vector`'s reads over the indexes are one step.
* The breaker's percentage term is left out because it has no effect: it
  multiplies index sizes recorded in `reconcile`, after the deletes, and
  `handler()` makes a new worker for each run.
* A throttled request is retried inside one call; a call takes effect once or
  raises. `Session` opens the call and models the retries.
* In `Session` a tool is the sequence of all the remote calls it may make whose
  failure fails it, without arguments or results: a call it does not make this time
  is one that succeeds, and one made for each of several keys is made once. The
  installed packages, and the doctor's checks of them, are left out. Assumed credentials are fresh, due (may be
  refreshed, may be used) or expired; botocore refreshes in that window. The
  deployment has at most one thing wrong at a time, and what is wrong fails every
  call of that kind.
* In `BatchReads` a text is its size, once whole and once as a preview. The page of
  a listing is a set of keys: two rows that name one latest key give its record
  once here and twice in the code.
* In `Retrieval` a document that is stored only after the query, for a chunk that
  had none, is left out; the vectors there at the query come and go.
* In `EmbeddingCache` an embedding is the moment Bedrock computed it, since its age
  is what the properties are about, and a tick is a fraction of the lifetimes. One
  operation on an `OrderedDict` is atomic (CPython's lock), two are not.
* `DRY_RUN` is the environment's and may change between runs.

## 3. Runs

Bounds are the constants of each cfg. Grace periods are one tick each, enough
to tell "before", "at" and "after". `MaxRequests` bounds the operations begun;
`MaxVersion` and `MaxTime` end what would go on. Runs stop when the bounds are
reached, hence `CHECK_DEADLOCK FALSE`; `Session` never stops, and `session` checks
deadlock.

| Run | Question | Instance |
|---|---|---|
| `register` | Is a group a register to its readers, and is a dry run dry? `ReaderSeesARegister`, `DryRunTouchesNothing` | two threads of one MCP server store, supersede and restore in one group; crashes, lost row writes, the worker with runs dry or not; 3 versions |
| `deadlines` | Expiry path and breaker: `ExpiryDeletesOnlyExpired`, `RunWithinItsBatches`, `RowOutlivesItsMemory` | three contents, three expiry dates (one has passed when it is written), TTL rows overwritten or left behind by a run cut off, a cap of two, deletes in chunks of one, runs cut off between any two calls, also between chunks |
| `repair` | Does the sweep repair, once and for all, and can the archive path delete too early? `TypeOK`, `CalmRunRepairs`, `RunIsIdempotent`, `DriftIsRepaired`, `GraceInv`, `ArchiveGraceHonoured` | one caller with every operation, crashes, lost row writes, near duplicates, beside the worker; fair. All but `DriftIsRepaired` are theorems for any number of callers |
| `retrieval` | Do budget, collapse and usage signal survive a changing vault? `BudgetHeld`, `AddsUp`, `ResultsAreCollapsed`, `UseMeansHydrated` | a document with two chunks and a second version, one version stored twice, every order of hits and ranks, sizes around the budget, failing body reads; vectors retired, purged and stored again after the query |
| `expansion` | Is the expansion bounded and complete to its depth? `WithinBounds`, `ExpandsItsDepth` | cycle, diamond, long and short way, linked ids, deletions and row moves in between |
| `pins` | Is a pin what its name stands for, and is what is fetched current? `WrittenPinIsCurrent`, `FetchedWasCurrent` | two callers pin, archive and fetch one name, four operations, crashes, expiry |
| `cache` | Do the threads keep the cache within its size, is what it serves young enough, and does a call fail on the dict only when another thread changed it meanwhile? `Bounded`, `AgeIsBounded`, `RaisesOnlyWhenCrossed` | two threads, two texts, a dict of one entry, lifetimes of one and two ticks, a table that fails and expires late; the clock goes past the greatest age |
| `batch` | Do the bulk reads account for what was there, and can what is found be read? `KeysAreAccountedFor`, `NothingIsLeftOutInSilence`, `ReturnedWasActive`, `ContentSurvives` | two callers and three operations beside one read; one large content, two tasks and an empty one, three keys asked for and a cap of two, pages of one row, a budget of one token that the second record exceeds |
| `session` | Do calls return, does a renewed login heal, can a report be relied on? `EveryCallReturns`, `LoginHeals`, `OnlyPacksSurprise`, `SkipHidesNothing`, `OfferedIsGranted` | two threads; a tooled role, a read-only one, one that only `vv` knows, and none; each kind of fault; one retry |

Why the bounds are enough: the hazards need two callers at different calls of
one group, one crash or lost write, at most three versions (first, superseded,
latest) and two groups (a key reused by another one); each of the mutants,
which are the nearest wrong programs, is caught inside the same bounds.

`register` fixes the canonical id callers pass (`OneGroup`): keys do not carry
the canonical id, so two groups whose memories get equal content and version
under one agent overwrite each other, and no register exists then. It also
leaves out archive, purge and expiry, which end a register on purpose.
In `batch` nothing expires, and a read, like a write, takes less than a day;
`session` runs one diagnosis at a time (two share nothing).
`WrittenPinIsCurrent` speaks of a pin beside which no other caller moved (of two
pins that race, either may win) and whose expiry is still to come. `FetchedWasCurrent` speaks of a name that stood
for some pin at every moment of the fetch (`steady`); otherwise see below. It is about pins that were written; one that
was a no-op is the divergence `v_unchanged`.

### Disagreements with the text of the repository

| Run | What the text says | What happens |
|---|---|---|
| `v_purge` | purge hard-deletes an entire group (`memory_client.py:1156`) | after two supersessions the row names two of the three versions, the latest and the one it replaced (line 401); the purge leaves the third. No other way to a second version is open in this run: every content is a near duplicate of every other |
| `v_archived` | archive starts the 30-day deletion clock (`memory_client.py:1113`) | `delete_archived` walks `superseded_keys`; an archived latest version is in none and stays for ever |
| `v_unchanged` | peers reload the exact slice by name (`tools/memory_tools.py:633`) | pinning the same keys after the pin expired is an UNCHANGED no-op, and the name resolves to nothing until the worker has deleted the old pin |

Seen in the same models, without a run of their own:

* A retracted document can surface: a live chunk is replaced by its document
  whatever the document's status (`memory_client.py:1237`), although a retracted
  memory stops surfacing immediately (`memory_client.py:1113`).
* The dict of the embedding cache has no lock. Of two threads, one uses an entry
  the other has evicted or expired since (`embedding_cache.py:82,84,89,91`):
  `KeyError`, and the caller gets no embedding, although both tiers are best
  effort (`embedding_cache.py:4`). `RaisesOnlyWhenCrossed` says there is no other
  way to that error.
* The TTL table is keyed by (index, expires_at): of two memories that expire in
  one second of one index, one loses its row and is never deleted.
* With a key in two indexes, `_find_vector` looks at the first: it may find the
  memory of the other index, not yet expired, keep it, and drop the TTL row all
  the same (`ttl_worker.py:145-156`). Hence the condition `KeysApart` of the
  theorems about the expiry path; the runs have one index.
* A caller that read a vector before the worker's expiry path looked it up, and
  writes it back after, with a later expiry than the row's, loses it to the delete
  that follows: the exception `written` of `ExpiryDeletesOnlyExpired`.
* A fetch can return a pin the name never stood for while the fetch ran: the
  archival of an older version marks the row that lists the newer pin as archived,
  and a listing read before that names it together with a higher pin, which is
  archived before the vectors are read. It takes seven operations, more than the
  instance of `pins` has; the attempt to prove `FetchedWasCurrent` without its
  condition found it, and TLC confirmed it on a script of those operations.
* A purge beside a write of the same group may delete the new object under a
  vector that stays, or leave an object whose vector is gone: the exception
  `raced` of `ContentSurvives`. A hydration then answers with the summary.
* An archival that read its vector before a purge, or before the worker deleted
  it, puts the vector back.
* `restore_memory` of a chunk, or of a large memory without a summary, always
  raises; with an unreadable body it restores the summary in silence
  (`memory_client.py:1069-1087`; `docs/using-the-mcp-server.md:408`).
* A key cut off by the token budget of `_fetch_keys_summary` is in neither list
  of its answer, and neither is one past the `max_keys` of `hydrate_memory`, which
  drops it without a word (`memory_client.py:494-495`; a working set is read without
  a cap). `KeysAreAccountedFor` says that nothing else can hide a key.
* A key named twice in `hydrate_keys` is hydrated twice and counted as used twice
  (`memory_client.py:944`); `UseMeansHydrated` is about which groups are counted.
* Malformed packs stop the server at its start (`memory_packs.py:36-48`, read in
  `tools/memory_tools.py:380` from `mcp_server.py:113`), after a report of the doctor
  that is healthy: it does not read them, although `docs/using-the-mcp-server.md:465`
  sends the user of a server that won't start to `vv doctor` for what is wrong with the
  configuration. `OnlyPacksSurprise` says that nothing else gets past the doctor.
* The active rows of a task may lie beyond the page that `query_by_task` filters
  (`canonical_index.py:125`): the task is then reported missing.
  `NothingIsLeftOutInSilence` is about what is on the page.
* A server started with a role it does not know, such as "admin", serves the
  planner's tools with the caller's own credentials (`mcp_server.py:101-108`), while
  its doctor reports on the role itself, or calls it unsupported.

* A caller that dies between the two vector writes of a supersession leaves both
  versions active. Collapse hides that from retrieval, but the retry is answered
  UNCHANGED, so it lasts (the design document says "briefly").
* An archived content that is stored again gets the same key, active, with a new
  `created_at`: more than the status transition `design-doc.md:164` allows.
* A purge deletes, under a reused key, a vector of another group.
* `delete_archived` may delete a vector that was made active between its find
  and its delete (the exception `renewed` in the properties).
* `delete_expired` looks a key up in the first index that has it, but deletes it
  in the index of the TTL row.
* The breaker counts one batch; a run may delete more than the cap in several.
* A group with vectors in two indexes has one row, which every run rewrites.
* The row that `reconcile` writes has no `task_id`, so a repaired group leaves
  the task listing; a re-pinned working set then is not found by name. The same
  window is open between the rewrite of the old pin and the row write.
* `superseded_keys` is replaced, not extended, by the next supersession: an
  earlier superseded version that was not promoted in time never is.
* `linked_ids` resolve to the row's latest key whatever its status.
* A document can be in the results twice: as a hit and through its chunk.
* `pin_working_set` takes any `ttl_s` (`memory_client.py:664`; the tool's schema has
  no minimum). One that is not positive writes a pin that has expired: it supersedes
  the pin before it, is answered as one that succeeded, and the name resolves to
  nothing. The run `pins` has such pins; `WrittenPinIsCurrent` excepts them.
* A fetch that races two pins and an archival may report "not found" although
  the name stood for a pin at every moment.

## 4. Fairness

`DriftIsRepaired` and `v_archived` use `FairSpec`: weak fairness of
`Tick` (time passes), of `RunBegins` (the EventBridge rule fires every day), of
`RunProceeds` (a run has five minutes for what the model does in a few steps;
where a run may be cut off the properties checked are safety properties), and of
a caller that has begun an operation: it ends it or crashes. Nothing obliges a
caller to begin one. Requests are bounded, which is how "clients stop" is said.

`EveryCallReturns` uses weak fairness of each thread's `Proceed`: the server runs
a tool on a worker thread until it answers, `_call` sleeps at most five seconds, and
AWS clients time out. Nothing is assumed of the login, of the deployment, of
whether requests stop being throttled, or of the client that asks.

## 5. Proofs

Every invariant and every action property the passing runs check is stated by a
theorem, proved for every value of the constants, a few of them under a condition
named below; the runs show them on small instances, and the mutants that they can
fail. Each theorem rests on an inductive invariant. Assumptions on constants are
the named `ASSUME`s, which TLC evaluates on every run.

### The vault (`VaultProofs`)

For any number of callers, contents, versions, indexes and days and every fault
setting, from `StoreAssumption`, `ClientAssumption` and `WorkerAssumption`:

* `TypeCorrect` (`TypeOK`). Inductive because it says more than types: what a caller
  holds is complete for the call it makes next (`Complete`), what the worker holds
  fits its phase.
* `GraceInvariant` (`GraceInv`), `GraceHonoured` (`ArchiveGraceHonoured`). That deletion
  respects the grace period is not inductive by itself. The invariant adds that an
  archived vector's `archived_at` is never before it was last active, that a batch
  exists only in its phase, and that what was collected is past its grace and not
  active, or was written active since the run began.
* `DryRunIsDry` (`DryRunTouchesNothing`) and `RunWithinBatches` (`RunWithinItsBatches`).
  The second needs `BatchInv`: per index and phase at most one batch is made, since
  the phases and the indexes are passed once; what is deleted of it and what is left
  are within the cap together, chunk by chunk; a step of a caller cannot enlarge it.
* `ExpiryHonoured` (`ExpiryDeletesOnlyExpired`), `RowsOutlive` (`RowOutlivesItsMemory`),
  under `KeysApart`: no key is in two indexes. The condition is needed:
  `_find_vector` takes the first index that has the key, and the delete goes to the
  index of the TTL row. What the path collected has expired or is in `written`
  (`ExpiryInv`); a TTL row that the cleanup may drop is spent (`RowsInv`).
* `CalmRunsRepair` (`CalmRunRepairs`), under `GroupsApart`: no group is in two indexes
  (one row cannot agree with both). While the sweep runs undisturbed, a group of an
  index it has passed agrees with its row, and one of the current index does, or is
  still in what is left to fix (`SweepInv`).
* `RunsAreIdempotent` (`RunIsIdempotent`), under both, and if deletes of TTL rows
  succeed (`"ttl"` not among the worker's faults: a row left behind is dropped by
  the next run, which then does change something).
* `OneIndexIsEnough`: with one index both conditions hold by themselves, and the
  theorems hold without them.
* `GroupsAreRegisters` (`ReaderSeesARegister`): `Vault` implements `VersionRegister`,
  step by step, under `Corrections` (callers store, supersede, restore and use;
  nothing expires, since retraction, purge and expiry end a register on purpose) and
  as long as no key changes its group (`KeysKeepTheirGroup`). The invariant `RegInv`:
  a vector out of use is of a lower version than the newest candidate of its group
  (`Ranked`); a caller about to write holds the version above one that is not above
  the newest, and one about to retire a vector has written its successor
  (`CallerRanked`); the worker retires and deletes only lower versions
  (`WorkerRanked`). The condition cannot be dropped: keys do not carry the canonical
  id, so memories of two groups that come to equal content and version share a key.
* `OneGroupIsARegister`: if all callers name one group, the condition holds by itself
  (everything written or held is in that group), so the theorem has none.

### Working sets (`WorkingSetsProofs`)

* `PinsStand` (`WrittenPinIsCurrent`), for a pin with an expiry still to come. Until somebody else moves (`AloneInv`), the list
  a pin read is the list there is; what it supersedes is not outranked by an
  unexpired listed pin; what it writes has a higher version than all of them, before
  and after the old pin is put back.
* `FetchesAreRegular` (`FetchedWasCurrent`). A pin that stood all along was listed, and
  every listed pin that is readable and was not seen to stand ranks below it
  (`FetchInv`): a vector changes only by becoming inactive or by being written, and
  then its key stands for the name, created no earlier than anything else
  (`AgesInv`). It uses that the rank is a strict weak order and that a nonempty
  listing has a highest one.

### One call over a vault that moves on

* `RetrievalProofs`: `TheBudgetIsHeld`, `SizesAddUp`, `UsesAreHydrations`,
  `CollapseSurvives`. After the query a vector changes only in its status or
  presence (`HistoryInv`); the collapse keeps one hit per group that none outranks, promotion
  adds documents of chunks only, and ranking, slicing and budgeting reorder and cut
  (`Selected`, `ShownInv`); appending and swapping change the sum of sizes by what
  the code adds and takes back. `Key` is finite (it is the content of an index).
* `ExpansionProofs`: `ExpansionIsBounded`, `DepthIsExpanded`. Some function `d` gives the
  level each key was visited at such that the frontier lies in at most two adjacent
  layers, not below `d` of any visited key, and each reference of a visited key is
  visited or awaited at the next level at the latest (`LevelInv`). When the frontier
  is empty, a walk is followed link by link. Without breadth-first order it fails: a
  key met first on a longer path would lose its references.
* `BatchReadsProofs`: `KeysAreAnswered` (`KeysAreAccountedFor`), `NothingGetsLost`,
  `ReturnsTheActive`. Each key or task asked for is still to come, answered, missing
  or, in `hydrate_memory`, past the cap that its list was trimmed to; none that was
  there all along is missing, and groups stay within a task, so its page finds them
  (`TaskInv`).
* In the same module `ContentIsKept` (`ContentSurvives`): an object is deleted only after
  its vector; who writes between a purge's deletes is in `raced`; what a caller will
  write back is safe (`HeldIsSafe`). `Content` is finite.

### One process

* `EmbeddingCacheProofs`: `DictIsBounded`, `EmbeddingsAreYoung`, `LoneCallsDoNotRaise`.
  Entries beyond the capacity are matched by threads yet to look at the size
  (`Accounted`); ages are bounded tier by tier, where a call writes back the time of
  its beginning (`Aged`). `CacheAssumption`: finitely many threads, a positive
  lifetime, and no call longer than the table keeps an item.
* `SessionProofs`: `LoginsHeal`, `HealthyIsAnswered` (`OnlyPacksSurprise`: a start after
  a healthy report fails on malformed packs or not at all), `SkipsHideNothing`,
  `OffersAreGranted`.
  What the checks of a report have found holds until something moves (`DoctorKnows`),
  and a tool of the server has no refused call left (`Asked`).

### Left to TLC

`DriftIsRepaired` and `EveryCallReturns` are liveness under fairness, out of the
prover's reach, as is what the three violation runs show: those need a
counterexample. `ClientProofs` has lemmas only.

## 6. Not modelled

* Ranking scores, rerank, injection screening, galaxy views: numeric or textual,
  over one snapshot, with no shared state. The order the scores give is any order.
* Ingestion: splitting of markdown files, then one `store_memory` after the other.
* Metrics: no effect on behaviour. The validators of the metadata models: checks on
  one record. The evaluation harness: offline experiments.
* Teams and allowed indexes of a listing, the similarity fallback of
  `list_memories`, `source_task_id`; placement of large contents in a restore.
* The rest of the infrastructure is declarative: its keys, schedule and grants are in
  the models above.
* Seven hazards have no property. Six happen in the models or are excepted there
  (above): a purge that follows a reused key into another group, the task that
  `reconcile` loses, two expiries in one second, a vector made active between its find
  and its delete, a group in two indexes, the rows beyond the page of a listing. One
  pin by two teams needs teams.

## 7. Plan

Order: the store and its worker first, because every other part reads what they
leave; then reads; then caches.

1. Done: `VaultStore`, `MemoryClient`, `TTLWorker`, `Vault` with `VersionRegister`
   and `VaultProofs`; `Retrieval`; `Expansion`; `WorkingSets`; `EmbeddingCache`;
   `Contents` and `BatchReads`; `Session`.
2. Done: a theorem for every invariant and action property of the runs (section 5).
3. The conditions `KeysApart` and `GroupsApart` for deployments with several indexes,
   derived from a rule on which index a caller writes to; what a purge does delete
   (the converse of `v_purge`), as a property and a theorem.
4. Teams in `WorkingSets` and `BatchReads`, and the similarity fallback of
   `list_memories`.
