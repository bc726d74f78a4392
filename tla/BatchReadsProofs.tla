--------------------------- MODULE BatchReadsProofs ---------------------------
(***************************************************************************)
(* Proofs, for every number of callers, contents, keys asked for and tasks *)
(* of a pack, that the content of a memory survives the crashes of those   *)
(* who write and purge it (Contents), and that a reader of many memories   *)
(* accounts for all of them while others write (BatchReads).               *)
(***************************************************************************)
EXTENDS BatchReads, ClientProofs, FiniteSetTheorems, SequenceTheorems,
        WellFoundedInduction

-------------------------------------------------------------------------------
\* The inductive invariant of the write side with its objects.

ContentsTypeOK ==
  /\ StoreTypeOK /\ ClientTypeOK
  /\ routed \subseteq Proc /\ doomed \in [Proc -> SUBSET Addr]
  /\ \A p \in Proc : pc[p] \notin {"restore_row", "use_row"}

\* The object of x need not be there, is there, or was purged beside its write.
Safe(x) == Outside(x) => x \in body \cup raced

Beside == \A q, r \in Proc : Writing(q) \cap Purging(r) \cap Addr \subseteq raced

RoutedIsSafe == \A p \in routed : pc[p] = "vector" /\ Safe(Here(p))

\* What a caller read and will write back.
HeldIsSafe ==
  \A p \in Proc :
    /\ pc[p] \in {"vector", "ttl", "rewrite"} /\ loc[p].old # None => Safe(Old(p))
    /\ pc[p] = "archive_put" => Safe(Here(p))

\* A purge has the objects deleted of vectors that are gone.
DoomedIsGone ==
  \A p \in Proc :
    /\ pc[p] # "purge_row" => doomed[p] = {}
    /\ \A x \in doomed[p] : Exists(x) => x \in raced

SafeInv == Beside /\ RoutedIsSafe /\ HeldIsSafe /\ DoomedIsGone /\ ContentSurvives

-------------------------------------------------------------------------------
\* Groups stay within a task, whatever is superseded.

Tasked(k, g) == k # None => TaskOf[k.content] = TaskOf[g]

CallerTasked(p) ==
  LET l == loc[p] IN
  /\ pc[p] \in {"dedup", "get_old"} =>
       l.cid = None /\ Tasked(l.sup, l.content)
  /\ pc[p] \in {"vector", "ttl", "rewrite", "upsert",
                "archive_put", "archive_row", "archive_upsert"} => Tasked(l.key, l.cid)
  /\ pc[p] \in {"vector", "ttl", "rewrite"} /\ l.old # None => Tasked(l.sup, l.old.cid)
  /\ pc[p] = "archive_put" => Tasked(l.key, l.old.cid)
  /\ pc[p] = "archive_upsert" => Tasked(l.row.latest_key, l.cid)

TaskInv ==
  /\ \A x \in Addr : Exists(x) => Tasked(x[2], vec[x].cid)
  /\ \A g \in Cid : row[g] # None => Tasked(row[g].latest_key, g)
  /\ \A p \in Proc : CallerTasked(p)

-------------------------------------------------------------------------------
\* The inductive invariant of the reader.

Reading == [op : ReadOps \cup {"none"}, todo : Seq(Key) \cup Seq(Task), got : Seq(Key),
            missing : SUBSET (Key \cup Task), used : Nat, cut : BOOLEAN,
            page : SUBSET Key, now : Time \cup {0}, asked : SUBSET (Key \cup Task),
            beyond : SUBSET (Key \cup Task), cid : Cid \cup {None}]

ReaderTypeOK ==
  /\ rd \in Reading
  /\ at \in {"idle", "key", "body", "use", "list", "vectors"}
  /\ at = "idle" => rd = NoRead
  /\ at \in {"key", "body", "use"} => rd.op # "pack" /\ rd.todo \in Seq(Key)
  /\ at \in {"list", "vectors"} => rd.op = "pack" /\ rd.todo \in Seq(Task)
  /\ at \in {"body", "vectors"} => rd.todo # <<>>
  /\ at = "vectors" => IsFiniteSet(rd.page)
  /\ at \in {"body", "use"} => rd.cid \in Cid

\* Every key asked for is ahead, answered, missing or past the cap, and none that
\* was there all along is missing; only hydrate_memory has a cap.
KeysInv ==
  at \in {"key", "body", "use"} =>
    /\ rd.asked \ rd.beyond \subseteq Range(rd.got) \cup rd.missing \cup Range(rd.todo)
    /\ rd.beyond # {} => rd.op = "hydrate"
    /\ steady \cap rd.missing = {}
    /\ rd.cut => rd.got # <<>>

\* A memory on the page of its task all along is got once the task is done with.
PackInv ==
  at \in {"list", "vectors"} =>
    /\ Range(rd.got) \subseteq live
    /\ \A k \in steady : TaskOf[k.content] \in rd.asked =>
         /\ TaskOf[k.content] \notin rd.missing
         /\ k \in Range(rd.got) \/ TaskOf[k.content] \in Range(rd.todo)
         /\ at = "vectors" /\ TaskOf[k.content] = Head(rd.todo) => k \in rd.page

WatchInv == steady \subseteq There /\ (at = "idle" => steady = {} /\ live = {})

ReaderInv == ReaderTypeOK /\ WatchInv /\ KeysInv /\ PackInv

BRInv == ContentsTypeOK /\ SafeInv /\ TaskInv /\ ReaderInv
-------------------------------------------------------------------------------
\* One caller moves; the others stay where they are.

LEMMA Moved ==
  ASSUME ContentsTypeOK, NEW p \in Proc, NEW label, NEW l, Goto(p, label), Keep(p, l)
  PROVE  /\ pc'[p] = label /\ loc'[p] = l
         /\ \A q \in Proc \ {p} : pc'[q] = pc[q] /\ loc'[q] = loc[q]
  BY DEF ContentsTypeOK, ClientTypeOK, Goto, Keep

LEMMA CallerTyped ==
  ASSUME ContentsTypeOK, NEW p \in Proc
  PROVE  /\ loc[p] \in Local /\ Complete(pc[p], loc[p])
         /\ pc[p] \in Labels \ {"restore_row", "use_row"}
  BY LocTyped DEF ContentsTypeOK, ClientTypeOK

\* What Asks starts.
LEMMA AskedTyped ==
  ASSUME ContentsTypeOK, NEW p \in Proc, Asks(p)
  PROVE  ContentsTypeOK'
<1> USE DEF ContentsTypeOK
<1> PICK i \in Index :
      \/ \E c \in Content, e \in Expiries, m \in Modes : RequestStore(p, i, c, None, e, m)
      \/ \E c \in Content, e \in Expiries, k \in Key :
           TaskOf[c] = TaskOf[k.content] /\ RequestSupersede(p, i, c, e, k)
      \/ \E k \in Key : RequestArchive(p, i, k)
      \/ \E g \in Cid : RequestPurge(p, i, g)
  BY DEF Asks
<1> Expiries \subseteq Time \cup {NoExpiry} /\ Modes \subseteq {"auto", "new"} /\ None \in CallerCid \cup {None}
  BY ClientAssumption
<1>1. StoreTypeOK' /\ ClientTypeOK'
  BY RequestStoreTyped, RequestSupersedeTyped, RequestArchiveTyped, RequestPurgeTyped
<1>2. /\ pc'[p] \notin {"restore_row", "use_row"}
      /\ \A q \in Proc \ {p} : pc'[q] = pc[q]
  BY DEF RequestStore, RequestSupersede, RequestArchive, RequestPurge, Begin, Goto,
         ClientTypeOK
<1>3. QED  BY <1>1, <1>2 DEF Asks

LEMMA ProceedTyped ==
  ASSUME ContentsTypeOK, NEW p \in Proc, ProceedClient(p)
  PROVE  /\ StoreTypeOK' /\ ClientTypeOK'
         /\ \A q \in Proc : pc'[q] \notin {"restore_row", "use_row"}
         /\ \A q \in Proc \ {p} : pc'[q] = pc[q] /\ loc'[q] = loc[q]
<1> USE DEF ContentsTypeOK
<1>1. StoreTypeOK' /\ ClientTypeOK'  BY ClientStepTyped DEF ClientStep
<1>2. /\ pc'[p] \notin {"restore_row", "use_row"}
      /\ \A q \in Proc \ {p} : pc'[q] = pc[q] /\ loc'[q] = loc[q]
  BY DEF ProceedClient, Store, Archive, Purge, StoreUnchanged, StoreSupersedes,
         StoreNearDuplicate, StoreFresh, GetOld, WriteVector, WriteTTLRow, RewriteOld,
         UpsertRow, ArchivePut, ArchiveReadsRow, ArchiveUpsert, PurgeVectors, PurgeRow,
         RestoreReadsRow, RecordUse, Finish, Goto, Keep, AfterVector, AfterTTL,
         ClientTypeOK
<1>3. QED  BY <1>1, <1>2

LEMMA WriterTyped ==
  ASSUME ContentsTypeOK, NEW p \in Proc, Writer(p)
  PROVE  ContentsTypeOK'
<1> USE DEF ContentsTypeOK
<1>1. CASE Asks(p)  BY <1>1, AskedTyped
<1>2. CASE RouteContent(p)
  BY <1>2, StoreUntouched DEF RouteContent, clientVars, ClientTypeOK
<1>3. CASE WriteRouted(p)
  BY <1>3, ProceedTyped DEF WriteRouted, ProceedClient, Store
<1>4. CASE PurgeDeletesVectors(p)
  <2>1. Purging(p) \subseteq Addr
    BY <1>4, CallerTyped
    DEF PurgeDeletesVectors, PurgeVectors, Purging, Complete, Row, Local, Addr
  <2>2. QED
    BY <1>4, <2>1, ProceedTyped DEF PurgeDeletesVectors, ProceedClient, Purge
<1>5. CASE PurgeDeletesBody(p)
  BY <1>5, StoreUntouched DEF PurgeDeletesBody, clientVars, ClientTypeOK
<1>6. CASE PurgeDeletesRow(p)
  BY <1>6, ProceedTyped DEF PurgeDeletesRow, ProceedClient, Purge
<1>7. CASE ElseProceeds(p)
  BY <1>7, ProceedTyped DEF ElseProceeds
<1>8. CASE Dies(p)
  <2>1. StoreTypeOK' /\ ClientTypeOK'
    BY <1>8, ClientStepTyped DEF Dies, ClientStep
  <2>2. \A q \in Proc : pc'[q] \notin {"restore_row", "use_row"}
    BY <1>8 DEF Dies, Crash, Finish, Goto, ClientTypeOK
  <2>3. QED  BY <1>8, <2>1, <2>2 DEF Dies
<1>9. QED
  BY <1>1, <1>2, <1>3, <1>4, <1>5, <1>6, <1>7, <1>8 DEF Writer

-------------------------------------------------------------------------------
\* Contents survive.

LEMMA RacedGrows ==
  ASSUME NEW p \in Proc, Writer(p)
  PROVE  raced \subseteq raced' /\ Beside'
  BY DEF Writer, Beside

\* A step of p that puts vectors only where p said it would, and takes no object.
LEMMA SafeStep ==
  ASSUME SafeInv, ContentsTypeOK, NEW p \in Proc,
         \A q \in Proc \ {p} : pc'[q] = pc[q] /\ loc'[q] = loc[q] /\ doomed'[q] = doomed[q],
         raced \subseteq raced', Beside', body \subseteq body',
         routed' \subseteq routed \cup {p},
         p \in routed' => pc'[p] = "vector" /\ Safe(Here(p))',
         pc'[p] \in {"vector", "ttl", "rewrite"} /\ (loc[p].old)' # None => Safe(Old(p))',
         pc'[p] = "archive_put" => Safe(Here(p))',
         pc'[p] # "purge_row" => doomed'[p] = {},
         \A x \in doomed'[p] : x \in doomed[p] \/ ~Exists(x)',
         \A x \in Addr : Exists(x)' => Exists(x) \/ (x \in Writing(p) /\ Safe(x))
  PROVE  SafeInv'
<1>1. \A x : Safe(x) => Safe(x)'  BY DEF Safe
<1>2. RoutedIsSafe'
  <2>1. ASSUME NEW q \in routed', q # p
        PROVE  pc'[q] = "vector" /\ Safe(Here(q))'
    <3>1. q \in routed /\ q \in Proc /\ pc'[q] = pc[q] /\ loc'[q] = loc[q]
      BY <2>1 DEF ContentsTypeOK
    <3>2. Here(q)' = Here(q)  BY <3>1 DEF Here
    <3>3. pc[q] = "vector" /\ Safe(Here(q))  BY <3>1 DEF SafeInv, RoutedIsSafe
    <3>4. QED  BY <1>1, <3>1, <3>2, <3>3 DEF Safe
  <2>2. QED  BY <2>1 DEF RoutedIsSafe
<1>3. HeldIsSafe'
  <2>1. ASSUME NEW q \in Proc, q # p
        PROVE  /\ pc'[q] \in {"vector", "ttl", "rewrite"} /\ (loc[q].old)' # None
                    => Safe(Old(q))'
               /\ pc'[q] = "archive_put" => Safe(Here(q))'
    <3>1. pc'[q] = pc[q] /\ loc'[q] = loc[q]  BY <2>1
    <3>2. Here(q)' = Here(q) /\ Old(q)' = Old(q)  BY <3>1 DEF Here, Old
    <3>3. QED  BY <1>1, <3>1, <3>2 DEF SafeInv, HeldIsSafe, Safe
  <2>2. QED  BY <2>1 DEF HeldIsSafe
<1>4. DoomedIsGone'
  <2>1. ASSUME NEW q \in Proc
        PROVE  pc'[q] # "purge_row" => doomed'[q] = {}
    BY <2>1 DEF SafeInv, DoomedIsGone
  <2>2. ASSUME NEW q \in Proc, NEW x \in doomed'[q], Exists(x)'
        PROVE  x \in raced'
    <3>1. x \in doomed[q]  BY <2>2
    <3>2. x \in Addr /\ pc[q] = "purge_row"
      BY <3>1 DEF ContentsTypeOK, SafeInv, DoomedIsGone
    <3>3. x \in Purging(q)  BY <3>1, <3>2 DEF Purging
    <3>4. CASE Exists(x)  BY <3>1, <3>4 DEF SafeInv, DoomedIsGone
    <3>5. CASE x \in Writing(p)  BY <3>2, <3>3, <3>5 DEF SafeInv, Beside
    <3>6. QED  BY <2>2, <3>2, <3>4, <3>5
  <2>3. QED  BY <2>1, <2>2 DEF DoomedIsGone
<1>5. ContentSurvives'
  <2>1. ASSUME NEW x \in Addr, Exists(x)', Outside(x)
        PROVE  x \in body' \cup raced'
    <3>1. Safe(x)  BY <2>1 DEF SafeInv, ContentSurvives, Safe
    <3>2. QED  BY <2>1, <3>1 DEF Safe
  <2>2. QED  BY <2>1 DEF ContentSurvives, Outside
<1>6. QED  BY <1>2, <1>3, <1>4, <1>5 DEF SafeInv

\* An object goes by a purge only: its vector is gone, and who is about to write
\* it again does so beside the purge.
LEMMA BodyGoes ==
  ASSUME SafeInv, ContentsTypeOK, NEW p \in Proc, PurgeDeletesBody(p),
         raced \subseteq raced', Beside'
  PROVE  SafeInv'
<1>1. PICK x \in doomed[p] :
        /\ doomed' = [doomed EXCEPT ![p] = @ \ {x}]
        /\ body' = body \ {x} \/ body' = body
  BY DEF PurgeDeletesBody
<1>2. /\ pc[p] = "purge_row" /\ UNCHANGED <<vec, pc, loc, routed>>
      /\ x \in Addr /\ x \in Purging(p)
  BY <1>1 DEF PurgeDeletesBody, storeVars, clientVars, Purging, ContentsTypeOK
<1>3. ASSUME NEW y, Safe(y), y # x \/ y \in raced
      PROVE  Safe(y)'
  BY <1>1, <1>3 DEF Safe, Outside
<1>4. ASSUME NEW q \in Proc, NEW y \in Writing(q), Safe(y)
      PROVE  Safe(y)'
  BY <1>2, <1>3, <1>4 DEF SafeInv, Beside
<1>5. \A q \in Proc : Here(q)' = Here(q) /\ Old(q)' = Old(q)  BY <1>2 DEF Here, Old
<1>6. RoutedIsSafe'
  <2>1. ASSUME NEW q \in routed
        PROVE  pc[q] = "vector" /\ Safe(Here(q))'
    <3>1. pc[q] = "vector" /\ Safe(Here(q)) /\ q \in Proc
      BY DEF SafeInv, RoutedIsSafe, ContentsTypeOK
    <3>2. Here(q) \in Writing(q)  BY <3>1 DEF Writing
    <3>3. Safe(Here(q)) => Safe(Here(q))'  BY <1>4, <1>5, <3>1, <3>2 DEF Safe
    <3>4. QED  BY <3>1, <3>3
  <2>2. QED  BY <1>2, <2>1 DEF RoutedIsSafe
<1>7. HeldIsSafe'
  <2>1. ASSUME NEW q \in Proc
        PROVE  /\ pc[q] \in {"vector", "ttl", "rewrite"} /\ loc[q].old # None
                    => Safe(Old(q))'
               /\ pc[q] = "archive_put" => Safe(Here(q))'
    <3>1. pc[q] \in {"vector", "ttl", "rewrite"} => Old(q) \in Writing(q)
      BY DEF Writing
    <3>2. pc[q] = "archive_put" => Here(q) \in Writing(q)  BY DEF Writing
    <3>3. QED  BY <1>4, <1>5, <3>1, <3>2 DEF SafeInv, HeldIsSafe, Safe
  <2>2. QED  BY <1>2, <2>1 DEF HeldIsSafe
<1>8. DoomedIsGone'
  <2>1. \A q \in Proc : doomed'[q] \subseteq doomed[q]
    BY <1>1 DEF ContentsTypeOK
  <2>2. QED  BY <1>2, <2>1 DEF DoomedIsGone, SafeInv, Exists
<1>9. ContentSurvives'
  <2>1. ASSUME NEW y \in Addr, Exists(y), Outside(y)
        PROVE  y \in body' \cup raced'
    <3>1. Safe(y)  BY <2>1 DEF SafeInv, ContentSurvives, Safe
    <3>2. y # x \/ y \in raced
      BY <1>1, <2>1 DEF SafeInv, DoomedIsGone
    <3>3. Safe(y)'  BY <1>3, <3>1, <3>2
    <3>4. QED  BY <2>1, <3>3 DEF Safe, Outside
  <2>2. QED  BY <1>2, <2>1 DEF ContentSurvives, Exists, Outside
<1>10. QED  BY <1>6, <1>7, <1>8, <1>9 DEF SafeInv

\* What a step of p leaves alone, for SafeStep.
LEMMA IdleIsSafe ==
  ASSUME SafeInv, ContentsTypeOK, NEW p \in Proc, UNCHANGED <<vec, body>>,
         \A q \in Proc \ {p} : pc'[q] = pc[q] /\ loc'[q] = loc[q] /\ doomed'[q] = doomed[q],
         raced \subseteq raced', Beside', routed' \subseteq routed \ {p}, doomed'[p] = {},
         pc'[p] \notin {"vector", "ttl", "rewrite", "archive_put"}
  PROVE  SafeInv'
  BY SafeStep DEF Exists

LEMMA AskedSafely ==
  ASSUME SafeInv, ContentsTypeOK, NEW p \in Proc, Asks(p), raced \subseteq raced', Beside'
  PROVE  SafeInv'
<1> PICK i \in Index :
      \/ \E c \in Content, e \in Expiries, m \in Modes : RequestStore(p, i, c, None, e, m)
      \/ \E c \in Content, e \in Expiries, k \in Key :
           TaskOf[c] = TaskOf[k.content] /\ RequestSupersede(p, i, c, e, k)
      \/ \E k \in Key : RequestArchive(p, i, k)
      \/ \E g \in Cid : RequestPurge(p, i, g)
  BY DEF Asks
<1>1. /\ pc[p] = "idle" /\ UNCHANGED <<storeVars, body, routed, doomed>>
      /\ \E label, l : Goto(p, label) /\ Keep(p, l)
  BY DEF Asks, RequestStore, RequestSupersede, RequestArchive, RequestPurge, Begin
<1>2. \A q \in Proc \ {p} : pc'[q] = pc[q] /\ loc'[q] = loc[q]
  BY <1>1, Moved
<1>3. doomed[p] = {} /\ p \notin routed
  BY <1>1 DEF SafeInv, DoomedIsGone, RoutedIsSafe
<1>4. CASE \E k \in Key : RequestArchive(p, i, k)
  <2>1. PICK k \in Key : RequestArchive(p, i, k)  BY <1>4
  <2>2. <<i, k>> \in Addr /\ Exists(<<i, k>>)  BY <2>1 DEF RequestArchive, Addr
  <2>3. pc'[p] = "archive_put" /\ loc'[p].idx = i /\ loc'[p].key = k
    <3> DEFINE l == [Blank EXCEPT !.idx = i, !.key = k, !.old = vec[<<i, k>>],
                                  !.cid = vec[<<i, k>>].cid]
    <3>1. l.idx = i /\ l.key = k  BY DEF Blank
    <3>2. Goto(p, "archive_put") /\ Keep(p, l)  BY <2>1 DEF RequestArchive, Begin
    <3> HIDE DEF l
    <3>3. pc'[p] = "archive_put" /\ loc'[p] = l  BY <3>2, Moved
    <3>4. QED  BY <3>1, <3>3
  <2>4. Here(p)' = <<i, k>>  BY <2>3 DEF Here
  <2>5. Safe(<<i, k>>) /\ Safe(<<i, k>>)'
    BY <1>1, <2>2 DEF SafeInv, ContentSurvives, Safe
  <2>6. Safe(Here(p))'  BY <2>4, <2>5 DEF Safe
  <2>7. QED  BY <1>1, <1>2, <1>3, <2>3, <2>6, SafeStep DEF storeVars, Exists
<1>5. CASE ~\E k \in Key : RequestArchive(p, i, k)
  <2>1. pc'[p] \in {"dedup", "purge_vectors", "purge_row"}
    BY <1>5, Moved DEF RequestStore, RequestSupersede, RequestPurge, Begin
  <2>2. QED  BY <1>1, <1>2, <1>3, <2>1, IdleIsSafe DEF storeVars
<1>6. QED  BY <1>4, <1>5

LEMMA RoutedSafely ==
  ASSUME SafeInv, ContentsTypeOK, NEW p \in Proc, RouteContent(p), raced \subseteq raced',
         Beside'
  PROVE  SafeInv'
<1>1. /\ pc[p] = "vector" /\ UNCHANGED <<vec, pc, loc, doomed>>
      /\ routed' = routed \cup {p} /\ body' = body \cup {x \in {Here(p)} : Outside(x)}
  BY DEF RouteContent, storeVars, clientVars
<1>2. Here(p)' = Here(p) /\ Old(p)' = Old(p)  BY <1>1 DEF Here, Old
<1>3. Safe(Here(p))'  BY <1>1, <1>2 DEF Safe, Outside
<1>4. loc[p].old # None => Safe(Old(p))
  BY <1>1 DEF SafeInv, HeldIsSafe
<1>5. loc[p].old # None => Safe(Old(p))'
  BY <1>1, <1>2, <1>4 DEF Safe, Outside
<1>6. doomed[p] = {}  BY <1>1 DEF SafeInv, DoomedIsGone
<1>7. QED  BY <1>1, <1>3, <1>5, <1>6, SafeStep DEF Exists

LEMMA WrittenSafely ==
  ASSUME SafeInv, ContentsTypeOK, NEW p \in Proc, WriteRouted(p), raced \subseteq raced',
         Beside'
  PROVE  SafeInv'
<1>1. /\ p \in routed /\ pc[p] = "vector" /\ UNCHANGED <<loc, body, doomed>>
      /\ routed' = routed \ {p} /\ Goto(p, AfterVector(loc[p])) /\ Keep(p, loc[p])
      /\ vec' = [vec EXCEPT ![Here(p)] = NewVector(loc[p].cid, loc[p].expires_at)]
  BY DEF WriteRouted, WriteVector, PutVector, Keep, ContentsTypeOK, ClientTypeOK
<1>2. /\ pc'[p] \in {"ttl", "upsert", "rewrite"}
      /\ \A q \in Proc \ {p} : pc'[q] = pc[q] /\ loc'[q] = loc[q]
  BY <1>1, Moved DEF AfterVector, AfterTTL
<1>3. Safe(Here(p)) /\ Here(p) \in Writing(p)
  BY <1>1 DEF SafeInv, RoutedIsSafe, Writing
<1>4. \A x \in Addr : Exists(x)' => Exists(x) \/ (x \in Writing(p) /\ Safe(x))
  BY <1>1, <1>3 DEF Exists, ContentsTypeOK, StoreTypeOK
<1>5. loc[p].old # None => Safe(Old(p))'
  <2>1. Old(p)' = Old(p)  BY <1>1 DEF Old
  <2>2. QED  BY <1>1, <2>1 DEF SafeInv, HeldIsSafe, Safe, Outside
<1>6. doomed[p] = {}  BY <1>1 DEF SafeInv, DoomedIsGone
<1>7. QED  BY <1>1, <1>2, <1>4, <1>5, <1>6, SafeStep

LEMMA PurgedSafely ==
  ASSUME SafeInv, ContentsTypeOK, NEW p \in Proc,
         PurgeDeletesVectors(p) \/ PurgeDeletesRow(p), raced \subseteq raced', Beside'
  PROVE  SafeInv'
<1>1. CASE PurgeDeletesVectors(p)
  <2>1. /\ pc[p] = "purge_vectors" /\ UNCHANGED <<loc, body, routed>>
        /\ doomed' = [doomed EXCEPT ![p] = Purging(p)]
        /\ Goto(p, "purge_row") /\ Keep(p, loc[p])
        /\ vec' = [x \in Addr |-> IF x \in Purging(p) THEN None ELSE vec[x]]
    BY <1>1 DEF PurgeDeletesVectors, PurgeVectors, Purging, DeleteVectors, Keep,
                ContentsTypeOK, ClientTypeOK
  <2>2. /\ pc'[p] = "purge_row" /\ doomed'[p] = Purging(p)
        /\ \A q \in Proc \ {p} :
             pc'[q] = pc[q] /\ loc'[q] = loc[q] /\ doomed'[q] = doomed[q]
    BY <2>1, Moved DEF ContentsTypeOK
  <2>3. \A x \in Addr : /\ Exists(x)' => Exists(x)
                        /\ x \in Purging(p) => ~Exists(x)'
    BY <2>1 DEF Exists
  <2>4. Purging(p) \subseteq Addr
    BY <2>1, CallerTyped DEF Purging, Complete, Row, Local, Addr
  <2>5. p \notin routed  BY <2>1 DEF SafeInv, RoutedIsSafe
  <2>6. QED  BY <2>1, <2>2, <2>3, <2>4, <2>5, SafeStep
<1>2. CASE PurgeDeletesRow(p)
  <2>1. /\ pc[p] = "purge_row" /\ doomed[p] = {} /\ UNCHANGED <<vec, body, routed, doomed>>
        /\ Goto(p, "idle") /\ Keep(p, Blank)
    BY <1>2 DEF PurgeDeletesRow, PurgeRow, Finish
  <2>2. p \notin routed  BY <2>1 DEF SafeInv, RoutedIsSafe
  <2>3. QED  BY <2>1, <2>2, Moved, IdleIsSafe
<1>3. QED  BY <1>1, <1>2

LEMMA ElseSafely ==
  ASSUME SafeInv, ContentsTypeOK, NEW p \in Proc, ElseProceeds(p), raced \subseteq raced',
         Beside'
  PROVE  SafeInv'
<1>1. /\ pc[p] \notin {"vector", "purge_vectors", "purge_row"}
      /\ UNCHANGED <<body, routed, doomed>> /\ ProceedClient(p)
  BY DEF ElseProceeds
<1>2. \A q \in Proc \ {p} : pc'[q] = pc[q] /\ loc'[q] = loc[q]
  BY <1>1, ProceedTyped
<1>3. doomed[p] = {} /\ p \notin routed
  BY <1>1 DEF SafeInv, DoomedIsGone, RoutedIsSafe
<1>4. loc[p] \in Local /\ Complete(pc[p], loc[p]) /\ pc[p] # "restore_row"
  BY CallerTyped
<1> USE DEF ContentsTypeOK, ClientTypeOK
<1>5. CASE GetOld(p)
  <2>1. UNCHANGED vec  BY <1>5 DEF GetOld, storeVars
  <2>2. CASE Exists(Old(p)) /\ loc[p].sup.version + 1 \in Version
    <3>1. Old(p) \in Addr  BY <1>4, <1>5 DEF GetOld, Complete, Old, Addr, Local
    <3>2. Safe(Old(p))  BY <2>2, <3>1 DEF SafeInv, ContentSurvives, Safe
    <3>3. pc'[p] = "vector" /\ loc'[p].idx = loc[p].idx /\ loc'[p].sup = loc[p].sup
      <4> DEFINE l == [loc[p] EXCEPT
                         !.old = vec[Old(p)], !.cid = vec[Old(p)].cid,
                         !.key = BuildVectorKey(AgentOf[p], loc[p].content,
                                                loc[p].sup.version + 1)]
      <4>1. l.idx = loc[p].idx /\ l.sup = loc[p].sup  BY <1>4 DEF Local
      <4>2. Goto(p, "vector") /\ Keep(p, l)  BY <1>5, <2>2 DEF GetOld
      <4> HIDE DEF l
      <4>3. pc'[p] = "vector" /\ loc'[p] = l  BY <4>2, Moved
      <4>4. QED  BY <4>1, <4>3
    <3>4. Old(p)' = Old(p)  BY <3>3 DEF Old
    <3>5. Safe(Old(p))'  BY <1>1, <3>2, <3>4 DEF Safe, Outside
    <3>6. QED  BY <1>1, <1>2, <1>3, <2>1, <3>3, <3>5, SafeStep DEF Exists
  <2>3. CASE ~(Exists(Old(p)) /\ loc[p].sup.version + 1 \in Version)
    <3>1. pc'[p] = "idle"  BY <1>5, <2>3 DEF GetOld, Finish, Goto
    <3>2. QED  BY <1>1, <1>2, <1>3, <2>1, <3>1, IdleIsSafe
  <2>4. QED  BY <2>2, <2>3
<1>6. CASE StoreFresh(p)
  <2>1. loc[p].old = None  BY <1>4, <1>6 DEF StoreFresh, Complete
  <2>2. pc'[p] = "vector" /\ loc'[p].old = None /\ UNCHANGED vec
    <3> DEFINE l == [loc[p] EXCEPT
                       !.key = BuildVectorKey(AgentOf[p], loc[p].content, 1),
                       !.cid = IF loc[p].cid = None THEN loc[p].content ELSE loc[p].cid]
    <3>1. l.old = None  BY <1>4, <2>1 DEF Local
    <3>2. Goto(p, "vector") /\ Keep(p, l) /\ UNCHANGED vec
      BY <1>6 DEF StoreFresh, storeVars
    <3> HIDE DEF l
    <3>3. pc'[p] = "vector" /\ loc'[p] = l  BY <3>2, Moved
    <3>4. QED  BY <3>1, <3>2, <3>3
  <2>3. QED  BY <1>1, <1>2, <1>3, <2>2, SafeStep DEF Exists
<1>7. CASE WriteTTLRow(p)
  <2>1. /\ pc[p] = "ttl" /\ pc'[p] \in {"upsert", "rewrite"} /\ UNCHANGED <<vec, loc>>
        /\ pc'[p] = "rewrite" => loc[p].old # None
    BY <1>7 DEF WriteTTLRow, Goto, AfterTTL
  <2>2. loc[p].old # None => Safe(Old(p))'
    <3>1. Old(p)' = Old(p)  BY <2>1 DEF Old
    <3>2. QED  BY <1>1, <2>1, <3>1 DEF SafeInv, HeldIsSafe, Safe, Outside
  <2>3. QED  BY <1>1, <1>2, <1>3, <2>1, <2>2, SafeStep DEF Exists
<1>8. CASE RewriteOld(p)
  <2>1. /\ pc[p] = "rewrite" /\ pc'[p] = "upsert" /\ loc[p].old # None
        /\ vec' = [vec EXCEPT ![Old(p)] = [loc[p].old EXCEPT !.status = "superseded"]]
    BY <1>4, <1>8, StoreAssumption DEF RewriteOld, Goto, PutVector, Complete
  <2>2. Safe(Old(p)) /\ Old(p) \in Writing(p)
    BY <2>1 DEF SafeInv, HeldIsSafe, Writing
  <2>3. \A x \in Addr : Exists(x)' => Exists(x) \/ (x \in Writing(p) /\ Safe(x))
    BY <2>1, <2>2 DEF Exists, StoreTypeOK
  <2>4. QED  BY <1>1, <1>2, <1>3, <2>1, <2>3, SafeStep
<1>9. CASE ArchivePut(p)
  <2>1. /\ pc[p] = "archive_put" /\ pc'[p] = "archive_row"
        /\ vec' = [vec EXCEPT ![Here(p)] = [loc[p].old EXCEPT !.status = "archived",
                                                              !.archived_at = clock]]
    BY <1>9 DEF ArchivePut, Goto, PutVector
  <2>2. Safe(Here(p)) /\ Here(p) \in Writing(p)
    BY <2>1 DEF SafeInv, HeldIsSafe, Writing
  <2>3. \A x \in Addr : Exists(x)' => Exists(x) \/ (x \in Writing(p) /\ Safe(x))
    BY <2>1, <2>2 DEF Exists, StoreTypeOK
  <2>4. QED  BY <1>1, <1>2, <1>3, <2>1, <2>3, SafeStep
<1>10. CASE \/ StoreUnchanged(p) \/ StoreSupersedes(p) \/ StoreNearDuplicate(p)
            \/ UpsertRow(p) \/ ArchiveReadsRow(p) \/ ArchiveUpsert(p)
  <2>1. pc'[p] \in {"idle", "get_old", "archive_upsert"} /\ UNCHANGED vec
    BY <1>10 DEF StoreUnchanged, StoreSupersedes, StoreNearDuplicate, UpsertRow,
                 ArchiveReadsRow, ArchiveUpsert, Finish, Goto, storeVars
  <2>2. QED  BY <1>1, <1>2, <1>3, <2>1, IdleIsSafe
<1>11. QED
  BY <1>1, <1>4, <1>5, <1>6, <1>7, <1>8, <1>9, <1>10, CallerTyped
  DEF ProceedClient, Store, Archive, Purge, WriteVector, PurgeVectors, PurgeRow,
      RestoreReadsRow, RecordUse

LEMMA DiesSafely ==
  ASSUME SafeInv, ContentsTypeOK, NEW p \in Proc, Dies(p), raced \subseteq raced', Beside'
  PROVE  SafeInv'
<1>1. /\ UNCHANGED <<vec, body>> /\ Goto(p, "idle") /\ Keep(p, Blank)
      /\ routed' = routed \ {p} /\ doomed' = [doomed EXCEPT ![p] = {}]
  BY DEF Dies, Crash, Finish, storeVars
<1>2. /\ doomed'[p] = {} /\ \A q \in Proc \ {p} : doomed'[q] = doomed[q]
  BY <1>1 DEF ContentsTypeOK
<1>3. QED  BY <1>1, <1>2, Moved, IdleIsSafe

LEMMA WriterIsSafe ==
  ASSUME SafeInv, ContentsTypeOK, NEW p \in Proc, Writer(p)
  PROVE  SafeInv'
<1>1. raced \subseteq raced' /\ Beside'  BY RacedGrows
<1>2. QED
  BY <1>1, AskedSafely, RoutedSafely, WrittenSafely, PurgedSafely, BodyGoes, ElseSafely,
     DiesSafely DEF Writer

-------------------------------------------------------------------------------
\* Groups stay within a task.

\* What one call puts belongs to the task it is put under, and so does what its
\* caller holds afterwards.
LEMMA TaskStep ==
  ASSUME TaskInv, NEW p \in Proc,
         \A q \in Proc \ {p} : pc'[q] = pc[q] /\ loc'[q] = loc[q],
         \A x \in Addr : vec'[x] # None => vec'[x] = vec[x] \/ Tasked(x[2], vec'[x].cid),
         \A g \in Cid : row'[g] # None => row'[g] = row[g] \/ Tasked(row'[g].latest_key, g),
         CallerTasked(p)'
  PROVE  TaskInv'
<1>1. \A q \in Proc : CallerTasked(q)'
  <2>1. ASSUME NEW q \in Proc, q # p
        PROVE  CallerTasked(q)'
    BY <2>1 DEF TaskInv, CallerTasked, Tasked
  <2>2. QED  BY <2>1
<1>2. \A x \in Addr : Exists(x)' => Tasked(x[2], (vec[x].cid)')
  BY DEF TaskInv, Exists
<1>3. \A g \in Cid : row'[g] # None => Tasked(row'[g].latest_key, g)
  BY DEF TaskInv
<1>4. QED  BY <1>1, <1>2, <1>3 DEF TaskInv, Tasked

\* The caller holds what it held, and goes on.
LEMMA HeldTasked ==
  ASSUME TaskInv, ContentsTypeOK, NEW p \in Proc, UNCHANGED <<vec, row>>,
         NEW label, Goto(p, label), Keep(p, loc[p]),
         \/ pc[p] = "dedup" /\ label = "get_old"
         \/ pc[p] \in {"vector", "ttl"} /\ label \in {"ttl", "rewrite", "upsert"}
  PROVE  TaskInv'
<1>1. CallerTasked(p)  BY DEF TaskInv
<1>2. CallerTasked(p)'  BY <1>1, Moved DEF CallerTasked
<1>3. QED  BY <1>2, Moved, TaskStep

LEMMA EndsTasked ==
  ASSUME TaskInv, ContentsTypeOK, NEW p \in Proc, UNCHANGED <<vec, row>>,
         NEW label \in {"idle", "purge_vectors", "purge_row"}, NEW l,
         Goto(p, label), Keep(p, l)
  PROVE  TaskInv'
<1>1. CallerTasked(p)'  BY Moved DEF CallerTasked
<1>2. QED  BY <1>1, Moved, TaskStep

LEMMA AskedTasked ==
  ASSUME TaskInv, ContentsTypeOK, NEW p \in Proc, Asks(p)
  PROVE  TaskInv'
<1> PICK i \in Index :
      \/ \E c \in Content, e \in Expiries, m \in Modes : RequestStore(p, i, c, None, e, m)
      \/ \E c \in Content, e \in Expiries, k \in Key :
           TaskOf[c] = TaskOf[k.content] /\ RequestSupersede(p, i, c, e, k)
      \/ \E k \in Key : RequestArchive(p, i, k)
      \/ \E g \in Cid : RequestPurge(p, i, g)
  BY DEF Asks
<1>1. UNCHANGED <<vec, row>>
  BY DEF RequestStore, RequestSupersede, RequestArchive, RequestPurge, storeVars
<1>2. ASSUME NEW c \in Content, NEW e \in Expiries, NEW m \in Modes,
             RequestStore(p, i, c, None, e, m)
      PROVE  TaskInv'
  <2> DEFINE l == [Blank EXCEPT !.idx = i, !.content = c, !.cid = None,
                                !.expires_at = e, !.mode = m]
  <2>1. l.cid = None /\ l.sup = None  BY DEF Blank
  <2>2. Goto(p, "dedup") /\ Keep(p, l)  BY <1>2 DEF RequestStore, Begin
  <2> HIDE DEF l
  <2>3. pc'[p] = "dedup" /\ loc'[p] = l  BY <2>2, Moved
  <2>4. CallerTasked(p)'  BY <2>1, <2>3 DEF CallerTasked, Tasked
  <2>5. QED  BY <1>1, <2>2, <2>4, Moved, TaskStep
<1>3. ASSUME NEW c \in Content, NEW e \in Expiries, NEW k \in Key,
             TaskOf[c] = TaskOf[k.content], RequestSupersede(p, i, c, e, k)
      PROVE  TaskInv'
  <2> DEFINE l == [Blank EXCEPT !.idx = i, !.content = c, !.expires_at = e, !.sup = k]
  <2>1. l.cid = None /\ l.sup = k /\ l.content = c  BY DEF Blank
  <2>2. Goto(p, "dedup") /\ Keep(p, l)  BY <1>3 DEF RequestSupersede, Begin
  <2> HIDE DEF l
  <2>3. pc'[p] = "dedup" /\ loc'[p] = l  BY <2>2, Moved
  <2>4. CallerTasked(p)'  BY <1>3, <2>1, <2>3 DEF CallerTasked, Tasked
  <2>5. QED  BY <1>1, <2>2, <2>4, Moved, TaskStep
<1>4. ASSUME NEW k \in Key, RequestArchive(p, i, k)
      PROVE  TaskInv'
  <2> DEFINE l == [Blank EXCEPT !.idx = i, !.key = k, !.old = vec[<<i, k>>],
                                !.cid = vec[<<i, k>>].cid]
  <2>1. l.key = k /\ l.old = vec[<<i, k>>] /\ l.cid = vec[<<i, k>>].cid  BY DEF Blank
  <2>2. Goto(p, "archive_put") /\ Keep(p, l)  BY <1>4 DEF RequestArchive, Begin
  <2>3. Tasked(k, vec[<<i, k>>].cid)
    <3>1. <<i, k>> \in Addr /\ Exists(<<i, k>>)  BY <1>4 DEF RequestArchive, Addr
    <3>2. QED  BY <3>1 DEF TaskInv
  <2> HIDE DEF l
  <2>4. pc'[p] = "archive_put" /\ loc'[p] = l  BY <2>2, Moved
  <2>5. CallerTasked(p)'  BY <2>1, <2>3, <2>4 DEF CallerTasked, Tasked
  <2>6. QED  BY <1>1, <2>2, <2>5, Moved, TaskStep
<1>5. ASSUME NEW g \in Cid, RequestPurge(p, i, g)
      PROVE  TaskInv'
  <2>1. \E label \in {"purge_vectors", "purge_row"} : \E l : Goto(p, label) /\ Keep(p, l)
    BY <1>5 DEF RequestPurge, Begin
  <2>2. QED  BY <1>1, <2>1, EndsTasked
<1>6. QED  BY <1>2, <1>3, <1>4, <1>5

LEMMA StoreTasked ==
  ASSUME TaskInv, ContentsTypeOK, NEW p \in Proc, Store(p)
  PROVE  TaskInv'
<1>l. loc[p] \in Local /\ Complete(pc[p], loc[p])  BY CallerTyped
<1>t. CallerTasked(p)  BY DEF TaskInv
<1> USE DEF ContentsTypeOK, ClientTypeOK, StoreTypeOK
<1>1. CASE StoreUnchanged(p) \/ StoreNearDuplicate(p)
  BY <1>1, EndsTasked DEF StoreUnchanged, StoreNearDuplicate, Finish, storeVars
<1>2. CASE StoreSupersedes(p)
  BY <1>2, HeldTasked DEF StoreSupersedes, storeVars, Keep
<1>3. CASE StoreFresh(p)
  <2> DEFINE l == [loc[p] EXCEPT
                     !.key = BuildVectorKey(AgentOf[p], loc[p].content, 1),
                     !.cid = IF loc[p].cid = None THEN loc[p].content ELSE loc[p].cid]
  <2>1. l.old = None /\ l.cid = loc[p].content /\ l.key.content = loc[p].content
    BY <1>3, <1>l, <1>t DEF StoreFresh, Complete, CallerTasked, Local, BuildVectorKey
  <2>2. Goto(p, "vector") /\ Keep(p, l) /\ UNCHANGED <<vec, row>>
    BY <1>3 DEF StoreFresh, storeVars
  <2> HIDE DEF l
  <2>3. pc'[p] = "vector" /\ loc'[p] = l  BY <2>2, Moved
  <2>4. CallerTasked(p)'  BY <2>1, <2>3 DEF CallerTasked, Tasked
  <2>5. QED  BY <2>2, <2>4, Moved, TaskStep
<1>4. CASE GetOld(p)
  <2>1. CASE Exists(Old(p)) /\ loc[p].sup.version + 1 \in Version
    <3> DEFINE k == BuildVectorKey(AgentOf[p], loc[p].content, loc[p].sup.version + 1)
               l == [loc[p] EXCEPT !.old = vec[Old(p)], !.cid = vec[Old(p)].cid,
                                   !.key = k]
    <3>1. l.old = vec[Old(p)] /\ l.cid = vec[Old(p)].cid /\ l.sup = loc[p].sup /\ l.key = k
      BY <1>l DEF Local
    <3>2. k.content = loc[p].content  BY DEF BuildVectorKey
    <3>3. Goto(p, "vector") /\ Keep(p, l) /\ UNCHANGED <<vec, row>>
      BY <1>4, <2>1 DEF GetOld, storeVars
    <3>4. loc[p].sup \in Key /\ Old(p) \in Addr /\ Old(p)[2] = loc[p].sup
      BY <1>4, <1>l DEF GetOld, Complete, Old, Addr, Local
    <3>5. loc[p].sup # None  BY <3>4, StoreAssumption
    <3>6. TaskOf[loc[p].sup.content] = TaskOf[loc[p].content]
      BY <1>4, <1>t, <3>5 DEF GetOld, CallerTasked, Tasked
    <3>7. TaskOf[loc[p].sup.content] = TaskOf[vec[Old(p)].cid]
      BY <2>1, <3>4, <3>5 DEF TaskInv, Tasked
    <3> HIDE DEF l, k
    <3>8. pc'[p] = "vector" /\ loc'[p] = l  BY <3>3, Moved
    <3>9. CallerTasked(p)'
      BY <3>1, <3>2, <3>6, <3>7, <3>8 DEF CallerTasked, Tasked
    <3>10. QED  BY <3>3, <3>9, Moved, TaskStep
  <2>2. CASE ~(Exists(Old(p)) /\ loc[p].sup.version + 1 \in Version)
    BY <1>4, <2>2, EndsTasked DEF GetOld, Finish, storeVars
  <2>3. QED  BY <2>1, <2>2
<1>5. CASE WriteVector(p)
  <2>1. /\ pc[p] = "vector" /\ Goto(p, AfterVector(loc[p])) /\ Keep(p, loc[p])
        /\ vec' = [vec EXCEPT ![Here(p)] = NewVector(loc[p].cid, loc[p].expires_at)]
        /\ UNCHANGED row
    BY <1>5 DEF WriteVector, PutVector, Keep
  <2>2. AfterVector(loc[p]) \in {"ttl", "rewrite", "upsert"}  BY DEF AfterVector, AfterTTL
  <2>3. CallerTasked(p)'  BY <1>t, <2>1, <2>2, Moved DEF CallerTasked
  <2>4. Tasked(Here(p)[2], NewVector(loc[p].cid, loc[p].expires_at).cid)
    BY <1>t, <2>1 DEF Here, NewVector, CallerTasked
  <2>5. \A x \in Addr : vec'[x] # None => vec'[x] = vec[x] \/ Tasked(x[2], vec'[x].cid)
    BY <2>1, <2>4
  <2>6. QED  BY <2>1, <2>3, <2>5, Moved, TaskStep
<1>6. CASE WriteTTLRow(p)
  <2>1. AfterTTL(loc[p]) \in {"rewrite", "upsert"}  BY DEF AfterTTL
  <2>2. QED  BY <1>6, <2>1, HeldTasked DEF WriteTTLRow, Keep
<1>7. CASE RewriteOld(p)
  <2>1. /\ pc[p] = "rewrite" /\ Goto(p, "upsert") /\ Keep(p, loc[p])
        /\ vec' = [vec EXCEPT ![Old(p)] = [loc[p].old EXCEPT !.status = "superseded"]]
        /\ UNCHANGED row
    BY <1>7 DEF RewriteOld, PutVector, Keep
  <2>2. CallerTasked(p)'  BY <1>t, <2>1, Moved DEF CallerTasked
  <2>3. loc[p].old \in Vector /\ loc[p].old # None
    BY <1>l, <2>1, StoreAssumption DEF Complete
  <2>4. [loc[p].old EXCEPT !.status = "superseded"].cid = loc[p].old.cid
    BY <2>3 DEF Vector
  <2>5. Tasked(Old(p)[2], loc[p].old.cid)
    BY <1>t, <2>1, <2>3 DEF Old, CallerTasked
  <2>6. \A x \in Addr : vec'[x] # None => vec'[x] = vec[x] \/ Tasked(x[2], vec'[x].cid)
    BY <2>1, <2>4, <2>5
  <2>7. QED  BY <2>1, <2>2, <2>6, Moved, TaskStep
<1>8. CASE UpsertRow(p)
  <2> DEFINE r == [latest_key |-> loc[p].key, created_at |-> clock,
                   status |-> "active",
                   superseded_keys |-> IF loc[p].old = None THEN {} ELSE {loc[p].sup},
                   listed |-> TRUE]
  <2>1. /\ pc[p] = "upsert" /\ Goto(p, "idle") /\ Keep(p, Blank) /\ UNCHANGED vec
        /\ row' = [row EXCEPT ![loc[p].cid] = r] \/ row' = row
    BY <1>8 DEF UpsertRow, BestEffort, PutRow, Finish
  <2>2. Tasked(r.latest_key, loc[p].cid)  BY <1>t, <2>1 DEF CallerTasked
  <2> HIDE DEF r
  <2>3. CallerTasked(p)'  BY <2>1, Moved DEF CallerTasked
  <2>4. \A g \in Cid : row'[g] # None =>
          row'[g] = row[g] \/ Tasked(row'[g].latest_key, g)
    BY <2>1, <2>2
  <2>5. QED  BY <2>1, <2>3, <2>4, Moved, TaskStep
<1>9. QED  BY <1>1, <1>2, <1>3, <1>4, <1>5, <1>6, <1>7, <1>8 DEF Store

LEMMA ArchiveTasked ==
  ASSUME TaskInv, ContentsTypeOK, NEW p \in Proc, Archive(p)
  PROVE  TaskInv'
<1>l. loc[p] \in Local /\ Complete(pc[p], loc[p])  BY CallerTyped
<1>t. CallerTasked(p)  BY DEF TaskInv
<1> USE DEF ContentsTypeOK, ClientTypeOK, StoreTypeOK
<1>1. CASE ArchivePut(p)
  <2> DEFINE v == [loc[p].old EXCEPT !.status = "archived", !.archived_at = clock]
  <2>1. /\ pc[p] = "archive_put" /\ Goto(p, "archive_row") /\ Keep(p, loc[p])
        /\ vec' = [vec EXCEPT ![Here(p)] = v] /\ UNCHANGED row
    BY <1>1 DEF ArchivePut, PutVector, Keep
  <2>2. v.cid = loc[p].old.cid  BY <1>l, <2>1 DEF Complete, Vector
  <2> HIDE DEF v
  <2>3. CallerTasked(p)'  BY <1>t, <2>1, Moved DEF CallerTasked
  <2>4. Tasked(Here(p)[2], v.cid)  BY <1>t, <2>1, <2>2 DEF Here, CallerTasked
  <2>5. \A x \in Addr : vec'[x] # None => vec'[x] = vec[x] \/ Tasked(x[2], vec'[x].cid)
    BY <2>1, <2>4
  <2>6. QED  BY <2>1, <2>3, <2>5, Moved, TaskStep
<1>2. CASE ArchiveReadsRow(p)
  <2>1. PICK r \in RowReads(loc[p].cid) :
          IF r = None THEN Finish(p)
          ELSE Goto(p, "archive_upsert") /\ Keep(p, [loc[p] EXCEPT !.row = r])
    BY <1>2 DEF ArchiveReadsRow
  <2>2. UNCHANGED <<vec, row>> /\ pc[p] = "archive_row" /\ loc[p].cid \in Cid
    BY <1>2, <1>l DEF ArchiveReadsRow, storeVars, Complete
  <2>3. CASE r = None  BY <2>1, <2>2, <2>3, EndsTasked DEF Finish
  <2>4. CASE r # None
    <3> DEFINE l == [loc[p] EXCEPT !.row = r]
    <3>1. l.key = loc[p].key /\ l.cid = loc[p].cid /\ l.row = r  BY <1>l DEF Local
    <3>2. Goto(p, "archive_upsert") /\ Keep(p, l)  BY <2>1, <2>4
    <3> HIDE DEF l
    <3>3. pc'[p] = "archive_upsert" /\ loc'[p] = l  BY <3>2, Moved
    <3>4. Tasked(r.latest_key, loc[p].cid)
      BY <2>2, <2>4 DEF RowReads, TaskInv
    <3>5. CallerTasked(p)'  BY <1>t, <2>2, <3>1, <3>3, <3>4 DEF CallerTasked
    <3>6. QED  BY <2>2, <3>2, <3>5, Moved, TaskStep
  <2>5. QED  BY <2>3, <2>4
<1>3. CASE ArchiveUpsert(p)
  <2> DEFINE l == loc[p]
             r == [latest_key |-> IF l.row.latest_key = None THEN l.key
                                                             ELSE l.row.latest_key,
                   created_at |-> IF l.row.latest_key = None THEN l.old.created_at
                                                             ELSE l.row.created_at,
                   status |-> "archived",
                   superseded_keys |-> l.row.superseded_keys, listed |-> TRUE]
  <2>1. /\ pc[p] = "archive_upsert" /\ Goto(p, "idle") /\ Keep(p, Blank) /\ UNCHANGED vec
        /\ row' = [row EXCEPT ![loc[p].cid] = r] \/ row' = row
    BY <1>3 DEF ArchiveUpsert, BestEffort, PutRow, Finish
  <2>2. Tasked(r.latest_key, loc[p].cid)  BY <1>t, <2>1 DEF CallerTasked
  <2> HIDE DEF r
  <2>3. CallerTasked(p)'  BY <2>1, Moved DEF CallerTasked
  <2>4. \A g \in Cid : row'[g] # None =>
          row'[g] = row[g] \/ Tasked(row'[g].latest_key, g)
    BY <2>1, <2>2
  <2>5. QED  BY <2>1, <2>3, <2>4, Moved, TaskStep
<1>4. QED  BY <1>1, <1>2, <1>3 DEF Archive

LEMMA PurgeTasked ==
  ASSUME TaskInv, ContentsTypeOK, NEW p \in Proc, Purge(p)
  PROVE  TaskInv'
<1> USE DEF ContentsTypeOK, ClientTypeOK, StoreTypeOK
<1>1. CASE PurgeVectors(p)
  <2>1. /\ Goto(p, "purge_row") /\ Keep(p, loc[p]) /\ UNCHANGED row
        /\ \A x \in Addr : vec'[x] # None => vec'[x] = vec[x]
    BY <1>1 DEF PurgeVectors, DeleteVectors, Keep
  <2>2. CallerTasked(p)'  BY <2>1, Moved DEF CallerTasked
  <2>3. QED  BY <2>1, <2>2, Moved, TaskStep
<1>2. CASE PurgeRow(p)
  <2>1. /\ Goto(p, "idle") /\ Keep(p, Blank) /\ UNCHANGED vec
        /\ \A g \in Cid : row'[g] # None => row'[g] = row[g]
    BY <1>2 DEF PurgeRow, Finish, BestEffort, PutRow
  <2>2. CallerTasked(p)'  BY <2>1, Moved DEF CallerTasked
  <2>3. QED  BY <2>1, <2>2, Moved, TaskStep
<1>3. QED  BY <1>1, <1>2 DEF Purge

LEMMA WriterTasked ==
  ASSUME TaskInv, ContentsTypeOK, NEW p \in Proc, Writer(p)
  PROVE  TaskInv'
<1>1. CASE Asks(p)  BY <1>1, AskedTasked
<1>2. CASE WriteRouted(p)  BY <1>2, StoreTasked DEF WriteRouted, Store
<1>3. CASE PurgeDeletesVectors(p) \/ PurgeDeletesRow(p)
  BY <1>3, PurgeTasked DEF PurgeDeletesVectors, PurgeDeletesRow, Purge
<1>4. CASE ElseProceeds(p)
  <2>1. Store(p) \/ Archive(p) \/ Purge(p)
    BY <1>4, CallerTyped DEF ElseProceeds, ProceedClient, RestoreReadsRow, RecordUse
  <2>2. QED  BY <2>1, StoreTasked, ArchiveTasked, PurgeTasked
<1>5. CASE Dies(p)
  BY <1>5, EndsTasked DEF Dies, Crash, Finish, storeVars
<1>6. CASE RouteContent(p) \/ PurgeDeletesBody(p)
  <2>1. UNCHANGED <<vec, row, pc, loc>>
    BY <1>6 DEF RouteContent, PurgeDeletesBody, storeVars, clientVars
  <2>2. QED  BY <2>1 DEF TaskInv, CallerTasked, Exists
<1>7. QED
  BY <1>1, <1>2, <1>3, <1>4, <1>5, <1>6 DEF Writer

-------------------------------------------------------------------------------
\* Sequences, pages and what is there for the reader.

LEMMA RangeOfTail ==
  ASSUME NEW S, NEW s \in Seq(S), s # <<>>
  PROVE  /\ Head(s) \in S /\ Tail(s) \in Seq(S)
         /\ Range(s) = {Head(s)} \cup Range(Tail(s))
<1>1. /\ Head(s) = s[1] /\ Head(s) \in S /\ Tail(s) \in Seq(S) /\ Len(Tail(s)) = Len(s) - 1
      /\ Len(s) \in Nat \ {0} /\ \A i \in 1..Len(Tail(s)) : Tail(s)[i] = s[i + 1]
  BY HeadTailProperties
<1>2. ASSUME NEW i \in DOMAIN s  PROVE s[i] \in {Head(s)} \cup Range(Tail(s))
  <2>1. CASE i = 1  BY <1>1, <2>1
  <2>2. CASE i # 1
    <3>1. i - 1 \in DOMAIN Tail(s) /\ Tail(s)[i - 1] = s[i]  BY <1>1, <2>2
    <3>2. QED  BY <3>1 DEF Range
  <2>3. QED  BY <2>1, <2>2
<1>3. ASSUME NEW i \in DOMAIN Tail(s)  PROVE Tail(s)[i] \in Range(s)
  <2>1. i + 1 \in DOMAIN s /\ Tail(s)[i] = s[i + 1]  BY <1>1
  <2>2. QED  BY <2>1 DEF Range
<1>4. 1 \in DOMAIN s  BY <1>1
<1>5. QED  BY <1>1, <1>2, <1>3, <1>4 DEF Range

LEMMA RangeOfAppend ==
  ASSUME NEW S, NEW s \in Seq(S), NEW x \in S
  PROVE  Append(s, x) \in Seq(S) /\ Append(s, x) # <<>>
         /\ Range(Append(s, x)) = Range(s) \cup {x}
<1>1. /\ Append(s, x) \in Seq(S) /\ Append(s, x) # <<>>
      /\ Len(Append(s, x)) = Len(s) + 1 /\ Append(s, x)[Len(s) + 1] = x
      /\ \A i \in 1..Len(s) : Append(s, x)[i] = s[i]
  BY AppendProperties
<1>2. DOMAIN s = 1..Len(s) /\ DOMAIN Append(s, x) = 1..(Len(s) + 1) /\ Len(s) \in Nat
  BY <1>1
<1>3. QED  BY <1>1, <1>2 DEF Range

LEMMA RangeOfConcat ==
  ASSUME NEW S, NEW s \in Seq(S), NEW t \in Seq(S)
  PROVE  s \o t \in Seq(S) /\ Range(s \o t) = Range(s) \cup Range(t)
<1>1. s \o t \in Seq(S)  BY ConcatProperties
<1>2. QED  BY <1>1, RangeConcatenation

\* The sequences SetToSeqs gives of a finite set hold its members and no other.
LEMMA RangeOfSet ==
  ASSUME NEW S, IsFiniteSet(S), NEW s \in SetToSeqs(S)
  PROVE  s \in Seq(S) /\ Range(s) = S
<1> DEFINE n == Cardinality(S)
<1>1. n \in Nat /\ s \in [1..n -> S] /\ \A i, j \in 1..n : i # j => s[i] # s[j]
  BY FS_CardinalityType DEF SetToSeqs
<1>2. s \in Injection(1..n, S)  BY <1>1 DEF Injection, IsInjective
<1>3. IsFiniteSet(1..n) /\ Cardinality(1..n) = n  BY <1>1, FS_Interval
<1>4. s \in Surjection(1..n, S)  BY <1>2, <1>3, FS_Injection
<1>5. S \subseteq Range(s)  BY <1>1, <1>4 DEF Surjection, Range
<1>6. s \in Seq(S)  BY <1>1
<1>7. QED  BY <1>1, <1>5, <1>6 DEF Range

\* A page that leaves out a group of the task holds a page full of newer ones: no
\* page leaves out a group that is on it however ties fall.
LEMMA OnEveryPage ==
  ASSUME StoreTypeOK, NEW t, NEW P \in Pages(t), NEW g \in Listed(t), TaskOf[g] = t,
         OnThePage(g), row[g].status = "active"
  PROVE  g \in P
<1>1. PICK Q \in SUBSET Listed(t) :
        /\ Cardinality(Q) <= PageLimit
        /\ Cardinality(Q) = PageLimit \/ Q = Listed(t)
        /\ \A f \in Q, h \in Listed(t) \ Q : row[h].created_at <= row[f].created_at
        /\ P = {f \in Q : row[f].status = "active"}
  BY DEF Pages
<1>2. SUFFICES ASSUME g \notin Q  PROVE FALSE  BY <1>1, <1>2
<1> DEFINE N == {h \in Listed(t) \ {g} : row[h].created_at >= row[g].created_at}
<1>3. Cardinality(N) < PageLimit  BY DEF OnThePage
<1>4. Q \subseteq N
  <2>1. ASSUME NEW h \in Q  PROVE row[h].created_at >= row[g].created_at
    <3>1. row[g].created_at <= row[h].created_at  BY <1>1, <1>2
    <3>2. h \in Cid /\ row[h] # None /\ g \in Cid /\ row[g] # None
      BY <1>1 DEF Listed
    <3>3. row[h] \in Row /\ row[g] \in Row  BY <3>2 DEF StoreTypeOK
    <3>4. row[h].created_at \in Int /\ row[g].created_at \in Int
      BY <3>3, StoreAssumption DEF Row, Time
    <3>5. QED  BY <3>1, <3>4
  <2>2. QED  BY <1>1, <1>2, <2>1
<1>5. IsFiniteSet(N)
  <2>1. N \subseteq Content  BY DEF Listed, Cid
  <2>2. QED  BY <2>1, ReadsAssumption, FS_Subset
<1>6. Cardinality(Q) <= Cardinality(N) /\ Cardinality(Q) \in Nat /\ Cardinality(N) \in Nat
  BY <1>4, <1>5, FS_Subset, FS_CardinalityType
<1>7. Cardinality(Q) = PageLimit  BY <1>1, <1>2
<1>8. PageLimit \in Nat  BY ReadsAssumption
<1>9. QED  BY <1>3, <1>6, <1>7, <1>8

\* A page is no larger than the groups there are.
LEMMA PageIsFinite ==
  ASSUME NEW t, NEW P \in Pages(t)
  PROVE  /\ P \subseteq Cid /\ \A g \in P : row[g] # None
         /\ IsFiniteSet({row[g].latest_key : g \in P} \ {None})
<1>1. P \subseteq Cid /\ \A g \in P : row[g] # None  BY DEF Pages, Listed
<1>2. IsFiniteSet(P)  BY <1>1, ReadsAssumption, FS_Subset DEF Cid
<1> DEFINE K == {row[g].latest_key : g \in P}
           f == [g \in P |-> row[g].latest_key]
<1>3. f \in Surjection(P, K)  BY DEF Surjection
<1>4. IsFiniteSet(K)  BY <1>2, <1>3, FS_Surjection
<1>5. QED  BY <1>1, <1>4, FS_Subset

\* What was there for the reader all along is found on the page of its task.
LEMMA FoundOnPage ==
  ASSUME StoreTypeOK, TaskInv, rd.op = "pack", NEW k \in There,
         NEW P \in Pages(TaskOf[k.content])
  PROVE  k \in {row[g].latest_key : g \in P} \ {None}
<1>1. PICK g \in Cid : /\ row[g] # None /\ row[g].listed /\ row[g].status = "active"
                       /\ OnThePage(g) /\ k = row[g].latest_key /\ k # None
  BY DEF There, Records
<1>2. TaskOf[k.content] = TaskOf[g]  BY <1>1 DEF TaskInv, Tasked
<1>3. g \in Listed(TaskOf[k.content])  BY <1>1, <1>2 DEF Listed
<1>4. g \in P  BY <1>1, <1>2, <1>3, OnEveryPage
<1>5. QED  BY <1>1, <1>4

\* ... and its vector, by the records of any page that has it.
LEMMA FoundInRecords ==
  ASSUME rd.op = "pack", NEW k \in There, NEW keys, k \in keys
  PROVE  k \in Records(keys)
  BY DEF There, Records

-------------------------------------------------------------------------------
\* The reader.

\* What Watch keeps is still there, and only shrinks; what was active is kept.
LEMMA Watched ==
  ASSUME WatchInv, Watch
  PROVE  /\ WatchInv'
         /\ at # "idle" => steady' \subseteq steady
         /\ at' # "idle" =>
              live \subseteq live' /\ \A k \in Key : StatusIs(At(k), "active")' => k \in live'
<1>1. CASE at' = "idle"  BY <1>1 DEF Watch, WatchInv
<1>2. CASE at' # "idle"  BY <1>2 DEF Watch, WatchInv
<1>3. QED  BY <1>1, <1>2

\* Others write while the reader waits.
LEMMA OthersWatched ==
  ASSUME ReaderInv, Watch, UNCHANGED <<at, rd>>
  PROVE  ReaderInv'
<1>1. ReaderTypeOK'  BY DEF ReaderInv, ReaderTypeOK
<1>2. WatchInv' /\ (at # "idle" => steady' \subseteq steady /\ live \subseteq live')
  BY Watched DEF ReaderInv
<1>3. KeysInv'  BY <1>2 DEF ReaderInv, KeysInv
<1>4. PackInv'  BY <1>2 DEF ReaderInv, PackInv
<1>5. QED  BY <1>1, <1>2, <1>3, <1>4 DEF ReaderInv

LEMMA NoReadTyped == NoRead \in Reading
<1>1. <<>> \in Seq(Key) /\ <<>> \in Seq(Task)  BY EmptySeq
<1>2. QED  BY <1>1 DEF NoRead, Reading

LEMMA StartTyped ==
  ASSUME StoreTypeOK, NEW op \in ReadOps, NEW S \in {Key, Task}, NEW list \in Seq(S),
         NEW asked \in SUBSET S, NEW beyond \in SUBSET S
  PROVE  LET r == [NoRead EXCEPT !.op = op, !.todo = list, !.now = clock, !.asked = asked,
                                 !.beyond = beyond]
         IN  /\ r \in Reading /\ r.op = op /\ r.todo = list /\ r.asked = asked
             /\ r.beyond = beyond /\ r.got = <<>> /\ r.missing = {} /\ ~r.cut
<1>1. /\ list \in Seq(Key) \cup Seq(Task) /\ clock \in Time
      /\ asked \subseteq Key \cup Task /\ beyond \subseteq Key \cup Task
  BY DEF StoreTypeOK
<1>2. <<>> \in Seq(Key)  BY EmptySeq
<1>3. QED  BY <1>1, <1>2 DEF NoRead, Reading

\* A read begins: all that is asked for is ahead, or past the cap.
LEMMA Begun ==
  ASSUME ReaderInv, Watch, StoreTypeOK, NEW op, NEW where, NEW S \in {Key, Task},
         NEW all \in Seq(S), NEW list \in Seq(S), Starts(op, where, all, list),
         op = "hydrate" \/ all = list,
         \/ where = "key" /\ op # "pack" /\ S = Key
         \/ where = "list" /\ op = "pack" /\ S = Task
  PROVE  ReaderInv'
<1> DEFINE r == [NoRead EXCEPT !.op = op, !.todo = list, !.now = clock,
                               !.asked = Range(all), !.beyond = Range(all) \ Range(list)]
<1>1. at' = where /\ rd' = r /\ op \in ReadOps  BY DEF Starts, Hold
<1>2. Range(all) \subseteq S  BY RangeOfSeq
<1>3. /\ r \in Reading /\ r.op = op /\ r.todo = list /\ r.asked = Range(all)
      /\ r.beyond = Range(all) \ Range(list) /\ r.got = <<>> /\ r.missing = {} /\ ~r.cut
  BY <1>1, <1>2, StartTyped
<1> HIDE DEF r
<1>4. ReaderTypeOK'  BY <1>1, <1>3 DEF ReaderTypeOK
<1>5. WatchInv'  BY Watched DEF ReaderInv
<1>6. KeysInv'  BY <1>1, <1>3 DEF KeysInv
<1>7. PackInv'
  <2>1. Range(<<>>) = {}  BY DEF Range
  <2>2. QED  BY <1>1, <1>3, <2>1 DEF PackInv
<1>8. QED  BY <1>4, <1>5, <1>6, <1>7 DEF ReaderInv

LEMMA Ended ==
  ASSUME ReaderInv, Watch, Hold("idle", NoRead)
  PROVE  ReaderInv'
<1>1. at' = "idle" /\ rd' = NoRead  BY DEF Hold
<1>2. ReaderTypeOK'  BY <1>1, NoReadTyped DEF ReaderTypeOK
<1>3. WatchInv'  BY Watched DEF ReaderInv
<1>4. QED  BY <1>1, <1>2, <1>3 DEF ReaderInv, KeysInv, PackInv

LEMMA StartsRead ==
  ASSUME ReaderInv, Watch, StoreTypeOK,
         \/ \E ks \in AskedKeys : HydrateKeys(ks) \/ FetchKeys(ks)
         \/ \E q \in AskedPacks : ReadPack(q)
  PROVE  ReaderInv'
<1>1. ASSUME NEW ks \in AskedKeys, HydrateKeys(ks)  PROVE ReaderInv'
  <2> DEFINE n == IF Len(ks) < MaxKeys THEN Len(ks) ELSE MaxKeys
  <2>1. ks \in Seq(Key) /\ MaxKeys \in Nat  BY ReadsAssumption
  <2>2. n \in Nat /\ n <= Len(ks) /\ Len(ks) \in Nat  BY <2>1
  <2>3. \A i \in 1..n : ks[i] \in Key  BY <2>1, <2>2, ElementOfSeq
  <2>4. SubSeq(ks, 1, n) \in Seq(Key)  BY <2>1, <2>2, <2>3
  <2>5. Starts("hydrate", "key", ks, SubSeq(ks, 1, n))  BY <1>1 DEF HydrateKeys
  <2> HIDE DEF n
  <2>6. QED  BY <2>1, <2>4, <2>5, Begun
<1>2. ASSUME NEW ks \in AskedKeys, FetchKeys(ks)  PROVE ReaderInv'
  <2>1. ks \in Seq(Key)  BY ReadsAssumption
  <2>2. QED  BY <1>2, <2>1, Begun DEF FetchKeys
<1>3. ASSUME NEW q \in AskedPacks, ReadPack(q)  PROVE ReaderInv'
  <2>1. PICK ts \in Resolved(q) : Starts("pack", "list", ts, ts)  BY <1>3 DEF ReadPack
  <2>2. ts \in Seq(Task)  BY ReadsAssumption DEF Resolved
  <2>3. QED  BY <2>1, <2>2, Begun
<1>4. QED  BY <1>1, <1>2, <1>3

\* A key that is not there is set down as missing.
LEMMA Missed ==
  ASSUME ReaderInv, Watch, at = "key", Unread, UNCHANGED vec,
         ~Exists(At(Head(rd.todo))), Miss(Head(rd.todo))
  PROVE  ReaderInv'
<1> DEFINE k == Head(rd.todo)
           r == [rd EXCEPT !.missing = @ \cup {k}, !.todo = Tail(@)]
<1>1. rd \in Reading /\ rd.op # "pack" /\ rd.todo \in Seq(Key) /\ rd.todo # <<>>
  BY DEF ReaderInv, ReaderTypeOK, Unread
<1>2. k \in Key /\ Tail(rd.todo) \in Seq(Key) /\ Range(rd.todo) = {k} \cup Range(Tail(rd.todo))
  BY <1>1, RangeOfTail
<1>3. at' = "key" /\ rd' = r  BY DEF Miss, Hold
<1>4. /\ r \in Reading /\ r.op = rd.op /\ r.todo = Tail(rd.todo) /\ r.got = rd.got
      /\ r.missing = rd.missing \cup {k} /\ r.asked = rd.asked /\ r.beyond = rd.beyond /\ r.cut = rd.cut
  <2> HIDE DEF k
  <2>1. QED  BY <1>1, <1>2 DEF Reading
<1>5. ReaderTypeOK'
  <2> HIDE DEF r
  <2>1. QED  BY <1>1, <1>2, <1>3, <1>4 DEF ReaderTypeOK
<1>6. WatchInv' /\ steady' \subseteq steady  BY Watched DEF ReaderInv
<1>7. k \notin steady'
  <2>1. steady' \subseteq There'  BY <1>6 DEF WatchInv
  <2>2. rd'.op # "pack"  BY <1>1, <1>3, <1>4
  <2>3. QED  BY <2>1, <2>2 DEF There, Exists
<1>8. KeysInv'
  <2> HIDE DEF r, k
  <2>1. QED  BY <1>2, <1>3, <1>4, <1>6, <1>7 DEF ReaderInv, KeysInv
<1>9. PackInv'  BY <1>3 DEF PackInv
<1>10. QED  BY <1>5, <1>6, <1>8, <1>9 DEF ReaderInv

\* A key that is there is taken, or ends the read for want of budget.
LEMMA Taken ==
  ASSUME ReaderInv, Watch, at \in {"key", "body"}, rd.todo # <<>>,
         NEW g, NEW n \in Nat, NEW full \in BOOLEAN, full => g \in Cid,
         Take(Head(rd.todo), g, n, full)
  PROVE  ReaderInv'
<1> DEFINE k == Head(rd.todo)
<1>1. rd \in Reading /\ rd.op # "pack" /\ rd.todo \in Seq(Key)
  BY DEF ReaderInv, ReaderTypeOK
<1>2. k \in Key /\ Tail(rd.todo) \in Seq(Key) /\ Range(rd.todo) = {k} \cup Range(Tail(rd.todo))
  BY <1>1, RangeOfTail
<1>3. WatchInv' /\ steady' \subseteq steady  BY Watched DEF ReaderInv
<1>4. CASE rd.got # <<>> /\ rd.used + n > MaxTokens
  <2> DEFINE r == [rd EXCEPT !.cut = TRUE]
  <2>1. at' = "key" /\ rd' = r  BY <1>4 DEF Take, Hold
  <2>2. /\ r \in Reading /\ r.op = rd.op /\ r.todo = rd.todo /\ r.got = rd.got
        /\ r.missing = rd.missing /\ r.asked = rd.asked /\ r.beyond = rd.beyond
    BY <1>1 DEF Reading
  <2> HIDE DEF r, k
  <2>3. ReaderTypeOK'  BY <1>1, <2>1, <2>2 DEF ReaderTypeOK
  <2>4. KeysInv'  BY <1>3, <1>4, <2>1, <2>2 DEF ReaderInv, KeysInv
  <2>5. PackInv'  BY <2>1 DEF PackInv
  <2>6. QED  BY <1>3, <2>3, <2>4, <2>5 DEF ReaderInv
<1>5. CASE ~(rd.got # <<>> /\ rd.used + n > MaxTokens)
  <2> DEFINE c == IF full THEN g ELSE None
             r == [rd EXCEPT !.got = Append(@, k), !.used = @ + n,
                             !.todo = Tail(@), !.cid = c]
  <2>1. at' = (IF full THEN "use" ELSE "key") /\ rd' = r  BY <1>5 DEF Take, Hold
  <2>2. rd.got \in Seq(Key) /\ rd.used \in Nat  BY <1>1 DEF Reading
  <2>3. /\ Append(rd.got, k) \in Seq(Key) /\ Append(rd.got, k) # <<>>
        /\ Range(Append(rd.got, k)) = Range(rd.got) \cup {k}
    BY <1>2, <2>2, RangeOfAppend
  <2>4. rd.used + n \in Nat /\ c \in Cid \cup {None}  BY <2>2
  <2>5. /\ r \in Reading /\ r.op = rd.op /\ r.todo = Tail(rd.todo)
        /\ r.got = Append(rd.got, k) /\ r.missing = rd.missing /\ r.asked = rd.asked /\ r.beyond = rd.beyond
        /\ r.cid = c
    <3> HIDE DEF k, c
    <3>1. QED  BY <1>1, <1>2, <2>3, <2>4 DEF Reading
  <2>6. ReaderTypeOK'
    <3> HIDE DEF r, k
    <3>1. QED  BY <1>1, <1>2, <2>1, <2>5 DEF ReaderTypeOK
  <2>7. KeysInv'
    <3> HIDE DEF r, k
    <3>1. QED  BY <1>2, <1>3, <2>1, <2>3, <2>5 DEF ReaderInv, KeysInv
  <2>8. PackInv'  BY <2>1 DEF PackInv
  <2>9. QED  BY <1>3, <2>6, <2>7, <2>8 DEF ReaderInv
<1>6. QED  BY <1>4, <1>5

LEMMA SizesTyped ==
  ASSUME NEW k \in Key
  PROVE  SizeOf[k.content] \in Nat /\ PreviewOf[k.content] \in Nat
  BY ReadsAssumption DEF Key

LEMMA ReadsKey ==
  ASSUME ReaderInv, Watch, StoreTypeOK, ReadKey, UNCHANGED vec
  PROVE  ReaderInv'
<1> DEFINE k == Head(rd.todo)
           g == vec[At(k)].cid
<1>1. at = "key" /\ Unread /\ rd.todo # <<>>  BY DEF ReadKey, Unread
<1>2. rd \in Reading /\ rd.op # "pack" /\ rd.todo \in Seq(Key)
  BY <1>1 DEF ReaderInv, ReaderTypeOK
<1>3. k \in Key  BY <1>1, <1>2, RangeOfTail
<1>4. Exists(At(k)) => g \in Cid
  <2>1. At(k) \in Addr  BY <1>3, StoreAssumption DEF At, Team, Addr, Index
  <2>2. QED  BY <2>1 DEF StoreTypeOK, Exists, Vector
<1>5. CASE ~Exists(At(k))  BY <1>1, <1>5, Missed DEF ReadKey
<1>6. CASE Exists(At(k)) /\ rd.op = "fetch"
  <2>1. Take(k, None, PreviewOf[k.content], FALSE)  BY <1>6 DEF ReadKey
  <2>2. QED  BY <1>1, <1>3, <2>1, SizesTyped, Taken
<1>7. CASE Exists(At(k)) /\ rd.op # "fetch" /\ ~Outside(At(k))
  <2>1. Take(k, g, SizeOf[k.content], TRUE)  BY <1>7 DEF ReadKey
  <2>2. QED  BY <1>1, <1>3, <1>4, <1>7, <2>1, SizesTyped, Taken
<1>8. CASE Exists(At(k)) /\ rd.op # "fetch" /\ Outside(At(k))
  <2> DEFINE r == [rd EXCEPT !.cid = g]
  <2>1. at' = "body" /\ rd' = r  BY <1>8 DEF ReadKey, Hold
  <2>2. g \in Cid  BY <1>4, <1>8
  <2> HIDE DEF g
  <2>3. /\ r \in Reading /\ r.op = rd.op /\ r.todo = rd.todo /\ r.got = rd.got
        /\ r.missing = rd.missing /\ r.asked = rd.asked /\ r.beyond = rd.beyond /\ r.cut = rd.cut /\ r.cid = g
    BY <1>2, <2>2 DEF Reading
  <2> HIDE DEF r
  <2>4. WatchInv' /\ steady' \subseteq steady  BY <1>1, Watched DEF ReaderInv
  <2>5. ReaderTypeOK'  BY <1>1, <1>2, <2>1, <2>2, <2>3 DEF ReaderTypeOK
  <2>6. KeysInv'  BY <1>1, <2>1, <2>3, <2>4 DEF ReaderInv, KeysInv
  <2>7. PackInv'  BY <2>1 DEF PackInv
  <2>8. QED  BY <2>4, <2>5, <2>6, <2>7 DEF ReaderInv
<1>9. QED  BY <1>5, <1>6, <1>7, <1>8

LEMMA ReadsBody ==
  ASSUME ReaderInv, Watch, ReadBody
  PROVE  ReaderInv'
<1> DEFINE k == Head(rd.todo)
<1>1. /\ at = "body" /\ rd.todo # <<>> /\ rd.todo \in Seq(Key) /\ rd.cid \in Cid
  BY DEF ReadBody, ReaderInv, ReaderTypeOK
<1>2. k \in Key  BY <1>1, RangeOfTail
<1>3. \/ Take(k, rd.cid, SizeOf[k.content], TRUE)
      \/ Take(k, None, PreviewOf[k.content], FALSE)
  BY DEF ReadBody
<1>4. QED  BY <1>1, <1>2, <1>3, SizesTyped, Taken

LEMMA CountsUse ==
  ASSUME ReaderInv, Watch, CountUse
  PROVE  ReaderInv'
<1> DEFINE r == [rd EXCEPT !.cid = None]
<1>1. at = "use" /\ at' = "key" /\ rd' = r  BY DEF CountUse, Hold
<1>2. rd \in Reading /\ rd.op # "pack" /\ rd.todo \in Seq(Key)
  BY <1>1 DEF ReaderInv, ReaderTypeOK
<1>3. /\ r \in Reading /\ r.op = rd.op /\ r.todo = rd.todo /\ r.got = rd.got
      /\ r.missing = rd.missing /\ r.asked = rd.asked /\ r.beyond = rd.beyond /\ r.cut = rd.cut
  BY <1>2 DEF Reading
<1> HIDE DEF r
<1>4. WatchInv' /\ steady' \subseteq steady  BY <1>1, Watched DEF ReaderInv
<1>5. ReaderTypeOK'  BY <1>1, <1>2, <1>3 DEF ReaderTypeOK
<1>6. KeysInv'  BY <1>1, <1>3, <1>4 DEF ReaderInv, KeysInv
<1>7. PackInv'  BY <1>1 DEF PackInv
<1>8. QED  BY <1>4, <1>5, <1>6, <1>7 DEF ReaderInv

\* A task of which there is nobody: none of its memories was there all along.
LEMMA NobodyMissed ==
  ASSUME ReaderInv, Watch, at \in {"list", "vectors"}, rd.todo # <<>>,
         Nobody(Head(rd.todo)),
         \A k \in steady : TaskOf[k.content] \in rd.asked => TaskOf[k.content] # Head(rd.todo)
  PROVE  ReaderInv'
<1> DEFINE t == Head(rd.todo)
           r == [rd EXCEPT !.missing = @ \cup {t}, !.todo = Tail(@)]
<1>1. rd \in Reading /\ rd.op = "pack" /\ rd.todo \in Seq(Task)
  BY DEF ReaderInv, ReaderTypeOK
<1>2. t \in Task /\ Tail(rd.todo) \in Seq(Task) /\ Range(rd.todo) = {t} \cup Range(Tail(rd.todo))
  BY <1>1, RangeOfTail
<1>3. at' = "list" /\ rd' = r  BY DEF Nobody, Hold
<1>4. /\ r \in Reading /\ r.op = rd.op /\ r.todo = Tail(rd.todo) /\ r.got = rd.got
      /\ r.missing = rd.missing \cup {t} /\ r.asked = rd.asked /\ r.beyond = rd.beyond
  <2> HIDE DEF t
  <2>1. QED  BY <1>1, <1>2 DEF Reading
<1> HIDE DEF r
<1>5. WatchInv' /\ steady' \subseteq steady /\ live \subseteq live'
  BY <1>3, Watched DEF ReaderInv
<1>6. ReaderTypeOK'  BY <1>1, <1>2, <1>3, <1>4 DEF ReaderTypeOK
<1>7. KeysInv'  BY <1>3 DEF KeysInv
<1>8. PackInv'
  <2>1. Range(rd'.got) \subseteq live'
    BY <1>3, <1>4, <1>5 DEF ReaderInv, PackInv
  <2>2. ASSUME NEW k \in steady', TaskOf[k.content] \in rd.asked
        PROVE  /\ TaskOf[k.content] \notin rd.missing \cup {t}
               /\ k \in Range(rd.got) \/ TaskOf[k.content] \in Range(Tail(rd.todo))
    <3>1. k \in steady /\ TaskOf[k.content] # t  BY <1>5, <2>2
    <3>2. /\ TaskOf[k.content] \notin rd.missing
          /\ k \in Range(rd.got) \/ TaskOf[k.content] \in Range(rd.todo)
      BY <2>2, <3>1 DEF ReaderInv, PackInv
    <3> HIDE DEF t
    <3>3. QED  BY <1>2, <3>1, <3>2
  <2> HIDE DEF t
  <2>3. QED  BY <1>3, <1>4, <2>1, <2>2 DEF PackInv
<1>9. QED  BY <1>5, <1>6, <1>7, <1>8 DEF ReaderInv

LEMMA ListsTask ==
  ASSUME ReaderInv, Watch, StoreTypeOK, TaskInv, ListTask
  PROVE  ReaderInv'
<1> DEFINE t == Head(rd.todo)
<1>1. at = "list" /\ rd.todo # <<>> /\ rd \in Reading /\ rd.op = "pack" /\ rd.todo \in Seq(Task)
  BY DEF ListTask, ReaderInv, ReaderTypeOK
<1>2. PICK P \in Pages(t) :
        LET keys == {row[g].latest_key : g \in P} \ {None} IN
        IF keys = {} THEN Nobody(t) ELSE Hold("vectors", [rd EXCEPT !.page = keys])
  BY DEF ListTask
<1> DEFINE keys == {row[g].latest_key : g \in P} \ {None}
           r == [rd EXCEPT !.page = keys]
<1>3. ASSUME NEW k \in steady, TaskOf[k.content] = t
      PROVE  k \in keys
  <2>1. k \in There  BY DEF ReaderInv, WatchInv
  <2>2. QED  BY <1>1, <1>3, <2>1, FoundOnPage
<1>4. CASE keys = {}  BY <1>1, <1>2, <1>3, <1>4, NobodyMissed
<1>5. CASE keys # {}
  <2>1. at' = "vectors" /\ rd' = r  BY <1>2, <1>5 DEF Hold
  <2>2. keys \subseteq Key /\ IsFiniteSet(keys)
    <3>1. /\ P \subseteq Cid /\ \A g \in P : row[g] # None
          /\ IsFiniteSet(keys)
      BY PageIsFinite
    <3>2. \A g \in P : row[g].latest_key \in Key \cup {None}
      BY <3>1 DEF StoreTypeOK, Row
    <3>3. QED  BY <3>1, <3>2
  <2> HIDE DEF keys
  <2>3. /\ r \in Reading /\ r.op = rd.op /\ r.todo = rd.todo /\ r.got = rd.got
        /\ r.missing = rd.missing /\ r.asked = rd.asked /\ r.beyond = rd.beyond /\ r.page = keys
    BY <1>1, <2>2 DEF Reading
  <2> HIDE DEF r
  <2>4. WatchInv' /\ steady' \subseteq steady /\ live \subseteq live'
    BY <1>1, <2>1, Watched DEF ReaderInv
  <2>5. ReaderTypeOK'  BY <1>1, <2>1, <2>2, <2>3 DEF ReaderTypeOK
  <2>6. KeysInv'  BY <2>1 DEF KeysInv
  <2>7. PackInv'
    <3> HIDE DEF t
    <3>1. Range(rd'.got) \subseteq live'
      BY <1>1, <2>1, <2>3, <2>4 DEF ReaderInv, PackInv
    <3>2. ASSUME NEW k \in steady', TaskOf[k.content] \in rd.asked
          PROVE  /\ TaskOf[k.content] \notin rd.missing
                 /\ k \in Range(rd.got) \/ TaskOf[k.content] \in Range(rd.todo)
                 /\ TaskOf[k.content] = Head(rd.todo) => k \in keys
      BY <1>1, <1>3, <2>4, <3>2 DEF ReaderInv, PackInv, t
    <3>3. QED  BY <2>1, <2>3, <3>1, <3>2 DEF PackInv
  <2>8. QED  BY <2>4, <2>5, <2>6, <2>7 DEF ReaderInv
<1>6. QED  BY <1>4, <1>5

LEMMA ReadsTask ==
  ASSUME ReaderInv, Watch, ReadTask, UNCHANGED vec
  PROVE  ReaderInv'
<1> DEFINE t == Head(rd.todo)
           ks == Records(rd.page)
<1>1. /\ at = "vectors" /\ rd.todo # <<>> /\ rd \in Reading /\ rd.op = "pack"
      /\ rd.todo \in Seq(Task) /\ rd.got \in Seq(Key) /\ rd.page \subseteq Key
      /\ IsFiniteSet(rd.page)
  BY DEF ReadTask, ReaderInv, ReaderTypeOK, Reading
<1>2. ks \subseteq rd.page /\ ks \subseteq Key /\ IsFiniteSet(ks)
  BY <1>1, FS_Subset DEF Records
<1>3. ASSUME NEW k \in steady, TaskOf[k.content] = t, TaskOf[k.content] \in rd.asked
      PROVE  k \in ks
  <2>1. k \in There /\ k \in rd.page  BY <1>1, <1>3 DEF ReaderInv, WatchInv, PackInv
  <2>2. QED  BY <1>1, <2>1, FoundInRecords
<1>4. CASE ks = {}
  <2>1. Nobody(t)  BY <1>4 DEF ReadTask
  <2>2. \A k \in steady : TaskOf[k.content] \in rd.asked => TaskOf[k.content] # t
    BY <1>3, <1>4
  <2>3. QED  BY <1>1, <2>1, <2>2, NobodyMissed
<1>5. CASE ks # {}
  <2>1. PICK s \in SetToSeqs(ks) :
          Hold("list", [rd EXCEPT !.got = @ \o s, !.todo = Tail(@), !.page = {}])
    BY <1>5 DEF ReadTask
  <2> DEFINE r == [rd EXCEPT !.got = @ \o s, !.todo = Tail(@), !.page = {}]
  <2>2. s \in Seq(ks) /\ Range(s) = ks  BY <1>2, RangeOfSet
  <2>3. s \in Seq(Key)  BY <1>2, <2>2, SeqMonotonic
  <2>4. rd.got \o s \in Seq(Key) /\ Range(rd.got \o s) = Range(rd.got) \cup ks
    BY <1>1, <2>2, <2>3, RangeOfConcat
  <2>5. /\ t \in Task /\ Tail(rd.todo) \in Seq(Task)
        /\ Range(rd.todo) = {t} \cup Range(Tail(rd.todo))
    BY <1>1, RangeOfTail
  <2>6. at' = "list" /\ rd' = r  BY <2>1 DEF Hold
  <2>7. /\ r \in Reading /\ r.op = rd.op /\ r.todo = Tail(rd.todo)
        /\ r.got = rd.got \o s /\ r.missing = rd.missing /\ r.asked = rd.asked /\ r.beyond = rd.beyond
    <3> HIDE DEF ks, t
    <3>1. QED  BY <1>1, <2>4, <2>5 DEF Reading
  <2> HIDE DEF r
  <2>8. /\ WatchInv' /\ steady' \subseteq steady /\ live \subseteq live'
        /\ \A k \in Key : StatusIs(At(k), "active")' => k \in live'
    BY <1>1, <2>6, Watched DEF ReaderInv
  <2>9. ReaderTypeOK'  BY <1>1, <2>5, <2>6, <2>7 DEF ReaderTypeOK
  <2>10. KeysInv'  BY <2>6 DEF KeysInv
  <2>11. PackInv'
    <3>1. ks \subseteq live'
      <4>1. \A k \in ks : StatusIs(At(k), "active")'
        BY DEF Records, StatusIs, Exists
      <4>2. QED  BY <1>2, <2>8, <4>1
    <3>2. Range(rd'.got) \subseteq live'
      BY <1>1, <2>4, <2>6, <2>7, <2>8, <3>1 DEF ReaderInv, PackInv
    <3>3. ASSUME NEW k \in steady', TaskOf[k.content] \in rd.asked
          PROVE  /\ TaskOf[k.content] \notin rd.missing
                 /\ k \in Range(rd.got \o s) \/ TaskOf[k.content] \in Range(Tail(rd.todo))
      <4>1. k \in steady  BY <2>8
      <4>2. /\ TaskOf[k.content] \notin rd.missing
            /\ k \in Range(rd.got) \/ TaskOf[k.content] \in Range(rd.todo)
        BY <1>1, <3>3, <4>1 DEF ReaderInv, PackInv
      <4>3. TaskOf[k.content] = t => k \in ks  BY <1>3, <3>3, <4>1
      <4> HIDE DEF t, ks
      <4>4. QED  BY <2>4, <2>5, <4>2, <4>3
    <3>4. QED  BY <2>6, <2>7, <3>2, <3>3 DEF PackInv
  <2>12. QED  BY <2>8, <2>9, <2>10, <2>11 DEF ReaderInv
<1>6. QED  BY <1>4, <1>5

-------------------------------------------------------------------------------
\* The invariant is inductive.

LEMMA ReaderStep ==
  ASSUME BRInv, Reader, Watch
  PROVE  BRInv'
<1> USE DEF BRInv
<1>1. UNCHANGED <<vec, ttl, clock, lastLive, renewed, clientVars, bodyVars>>
  BY DEF Reader
<1>2. ReaderInv'
  <2>1. CASE \/ \E ks \in AskedKeys : HydrateKeys(ks) \/ FetchKeys(ks)
             \/ \E q \in AskedPacks : ReadPack(q)
    BY <2>1, StartsRead DEF ContentsTypeOK
  <2>2. CASE ReadKey  BY <1>1, <2>2, ReadsKey DEF ContentsTypeOK
  <2>3. CASE ReadBody  BY <2>3, ReadsBody
  <2>4. CASE CountUse  BY <2>4, CountsUse
  <2>5. CASE ReturnKeys \/ ReturnPack
    BY <2>5, Ended DEF ReturnKeys, ReturnPack
  <2>6. CASE ListTask  BY <2>6, ListsTask DEF ContentsTypeOK
  <2>7. CASE ReadTask  BY <1>1, <2>7, ReadsTask
  <2>8. QED  BY <2>1, <2>2, <2>3, <2>4, <2>5, <2>6, <2>7 DEF Reader
<1>3. \/ UNCHANGED row
      \/ rd.cid \in Cid /\ \E r \in Row : PutRow(rd.cid, r) /\ Tasked(r.latest_key, rd.cid)
  <2>1. CASE CountUse
    <3> DEFINE r == IF row[rd.cid] = None THEN PhantomRow ELSE row[rd.cid]
    <3>1. rd.cid \in Cid  BY <2>1 DEF CountUse, ReaderInv, ReaderTypeOK
    <3>2. PhantomRow \in Row /\ PhantomRow.latest_key = None
      BY DEF PhantomRow, Row
    <3>3. r \in Row /\ Tasked(r.latest_key, rd.cid)
      BY <3>1, <3>2 DEF ContentsTypeOK, StoreTypeOK, TaskInv, Tasked
    <3>4. PutRow(rd.cid, r) \/ UNCHANGED row  BY <2>1 DEF CountUse, BestEffort
    <3> HIDE DEF r
    <3>5. QED  BY <3>1, <3>3, <3>4
  <2>2. CASE ~CountUse
    <3>1. UNCHANGED row
      BY <2>2 DEF Reader, HydrateKeys, FetchKeys, ReadPack, Starts, ReadKey, ReadBody,
                  ReturnKeys, ReturnPack, ListTask, ReadTask
    <3>2. QED  BY <3>1
  <2>3. QED  BY <2>1, <2>2
<1>4. ContentsTypeOK'
  <2>1. ASSUME UNCHANGED row  PROVE StoreTypeOK'
    BY <1>1, <2>1 DEF ContentsTypeOK, StoreTypeOK
  <2>2. ASSUME NEW r \in Row, rd.cid \in Cid, PutRow(rd.cid, r)
        PROVE  StoreTypeOK'
    BY <1>1, <2>2, PutRowTyped DEF ContentsTypeOK
  <2>3. StoreTypeOK'  BY <1>3, <2>1, <2>2
  <2>4. QED
    BY <1>1, <2>3 DEF ContentsTypeOK, ClientTypeOK, clientVars, bodyVars
<1>5. SafeInv'
  <2>1. UNCHANGED <<vec, pc, loc, body, routed, doomed, raced>>
    BY <1>1 DEF clientVars, bodyVars
  <2>2. QED
    BY <2>1 DEF SafeInv, Beside, RoutedIsSafe, HeldIsSafe, DoomedIsGone, ContentSurvives,
                Writing, Purging, Here, Old, Safe, Exists, Outside
<1>6. TaskInv'
  <2>1. UNCHANGED <<vec, pc, loc>>  BY <1>1 DEF clientVars
  <2>2. \A g \in Cid : row'[g] # None => Tasked(row'[g].latest_key, g)
    BY <1>3 DEF TaskInv, PutRow, ContentsTypeOK, StoreTypeOK
  <2>3. QED  BY <2>1, <2>2 DEF TaskInv, CallerTasked, Exists
<1>7. QED  BY <1>2, <1>4, <1>5, <1>6

LEMMA WriterStep ==
  ASSUME BRInv, NEW p \in Proc, Writer(p), UNCHANGED <<at, rd>>, Watch
  PROVE  BRInv'
  BY WriterTyped, WriterIsSafe, WriterTasked, OthersWatched DEF BRInv

LEMMA DayStep ==
  ASSUME BRInv, Day, Watch
  PROVE  BRInv'
<1>1. /\ UNCHANGED <<vec, row, ttl, lastLive, renewed, pc, loc, requests>>
      /\ UNCHANGED <<body, routed, doomed, raced>>
      /\ UNCHANGED <<at, rd>> /\ clock < MaxTime /\ clock' = clock + 1
  BY DEF Day, clientVars, bodyVars
<1>2. ContentsTypeOK'
  <2>1. clock' \in Time
    BY <1>1, StoreAssumption DEF BRInv, ContentsTypeOK, StoreTypeOK, Time
  <2>2. QED
    BY <1>1, <2>1 DEF BRInv, ContentsTypeOK, StoreTypeOK, ClientTypeOK
<1>3. SafeInv'
  BY <1>1 DEF BRInv, SafeInv, Beside, RoutedIsSafe, HeldIsSafe, DoomedIsGone,
              ContentSurvives, Writing, Purging, Here, Old, Safe, Exists, Outside
<1>4. TaskInv'
  BY <1>1 DEF BRInv, TaskInv, CallerTasked, Exists
<1>5. ReaderInv'  BY <1>1, OthersWatched DEF BRInv
<1>6. QED  BY <1>2, <1>3, <1>4, <1>5 DEF BRInv

LEMMA BRStutters ==
  ASSUME BRInv, UNCHANGED brVars
  PROVE  BRInv'
<1>1. /\ UNCHANGED <<vec, row, ttl, clock, lastLive, renewed, pc, loc, requests>>
      /\ UNCHANGED <<body, routed, doomed, raced, at, rd, reads, steady, live>>
  BY DEF brVars, storeVars, clientVars, bodyVars, readVars
<1>2. ContentsTypeOK'
  BY <1>1 DEF BRInv, ContentsTypeOK, StoreTypeOK, ClientTypeOK
<1>3. SafeInv'
  BY <1>1 DEF BRInv, SafeInv, Beside, RoutedIsSafe, HeldIsSafe, DoomedIsGone,
              ContentSurvives, Writing, Purging, Here, Old, Safe, Exists, Outside
<1>4. TaskInv'
  BY <1>1 DEF BRInv, TaskInv, CallerTasked, Exists
<1>5. ReaderInv'
  <2>1. There' = There
    BY <1>1 DEF There, Records, StatusIs, Exists, OnThePage, Listed
  <2>2. WatchInv'  BY <1>1, <2>1 DEF BRInv, ReaderInv, WatchInv
  <2>3. QED  BY <1>1, <2>2 DEF BRInv, ReaderInv, ReaderTypeOK, KeysInv, PackInv
<1>6. QED  BY <1>2, <1>3, <1>4, <1>5 DEF BRInv

LEMMA BRInitially == BRInit => BRInv
<1> SUFFICES ASSUME BRInit  PROVE BRInv  OBVIOUS
<1> USE DEF BRInit, ContentsInit, StoreInit, ClientInit
<1>1. ContentsTypeOK
  <2>1. StoreTypeOK  BY StoreAssumption DEF StoreTypeOK, Time
  <2>2. ClientTypeOK  BY BlankTyped DEF ClientTypeOK, Labels
  <2>3. QED  BY <2>1, <2>2 DEF ContentsTypeOK
<1>2. SafeInv
  BY DEF SafeInv, Beside, RoutedIsSafe, HeldIsSafe, DoomedIsGone, ContentSurvives,
         Writing, Purging, Exists
<1>3. TaskInv  BY DEF TaskInv, CallerTasked, Exists
<1>4. ReaderInv
  BY NoReadTyped DEF ReaderInv, ReaderTypeOK, WatchInv, KeysInv, PackInv
<1>5. QED  BY <1>1, <1>2, <1>3, <1>4 DEF BRInv

LEMMA BRInductive == BRSpec => []BRInv
<1>1. BRInit => BRInv  BY BRInitially
<1>2. BRInv /\ [BRNext]_brVars => BRInv'
  <2> SUFFICES ASSUME BRInv, [BRNext]_brVars  PROVE BRInv'  OBVIOUS
  <2>1. CASE UNCHANGED brVars  BY <2>1, BRStutters
  <2>2. CASE BRNext
    BY <2>2, ReaderStep, WriterStep, DayStep DEF BRNext
  <2>3. QED  BY <2>1, <2>2
<1>3. QED  BY <1>1, <1>2, PTL DEF BRSpec

\* What is found can be read: of no memory whose content was put outside is the
\* object gone, whoever crashes on the way of a write or a purge, unless it was
\* written beside a purge of its own group.
THEOREM ContentIsKept == BRSpec => []ContentSurvives
<1>1. BRInv => ContentSurvives  BY DEF BRInv, SafeInv
<1>2. QED  BY <1>1, BRInductive, PTL

-------------------------------------------------------------------------------
\* What the reader answers.

\* hydrate_memory and _fetch_keys_summary: of all the keys asked for, one that was
\* there all along is returned, or cut by the budget, or past the cap of the former.
THEOREM KeysAreAnswered == BRSpec => KeysAreAccountedFor
<1>1. ASSUME BRInv, ReturnKeys
      PROVE  \A k \in rd.asked \cap steady :
               \/ k \in Range(rd.got)
               \/ rd.cut /\ rd.got # <<>> /\ k \in Range(rd.todo)
               \/ rd.op = "hydrate" /\ k \in rd.beyond
  <2>1. at = "key" /\ (rd.todo = <<>> \/ rd.cut)  BY <1>1 DEF ReturnKeys, Unread
  <2>2. /\ rd.asked \ rd.beyond \subseteq Range(rd.got) \cup rd.missing \cup Range(rd.todo)
        /\ rd.beyond # {} => rd.op = "hydrate"
        /\ steady \cap rd.missing = {} /\ (rd.cut => rd.got # <<>>)
    BY <1>1, <2>1 DEF BRInv, ReaderInv, KeysInv
  <2>3. Range(<<>>) = {}  BY DEF Range
  <2>4. QED  BY <2>1, <2>2, <2>3
<1>2. BRInv => [ReturnKeys => \A k \in rd.asked \cap steady :
                  \/ k \in Range(rd.got)
                  \/ rd.cut /\ rd.got # <<>> /\ k \in Range(rd.todo)
                  \/ rd.op = "hydrate" /\ k \in rd.beyond]_brVars
  BY <1>1
<1>3. QED  BY <1>2, BRInductive, PTL DEF KeysAreAccountedFor

\* Cutting the records to the budget keeps a number of the first of them.
LEMMA KeptSome ==
  ASSUME rd.got \in Seq(Key)
  PROVE  Kept \in 0..Len(rd.got)
<1> DEFINE n == Len(rd.got)
           T == {m \in Nat : m <= n /\ ~Within(m)}
<1>1. n \in Nat  BY LenProperties
<1>2. Within(0)  BY DEF Within
<1>3. SUFFICES \E m \in 0..n : Within(m) /\ (m = n \/ ~Within(m + 1))
  BY <1>3 DEF Kept
<1> HIDE DEF n
<1>4. CASE T = {}
  <2>1. Within(n)  BY <1>1, <1>4
  <2>2. QED  BY <1>1, <2>1
<1>5. CASE T # {}
  <2>1. T \subseteq Nat  OBVIOUS
  <2> HIDE DEF T
  <2>2. PICK d \in T : \A c \in T : ~(<<c, d>> \in OpToRel(<, Nat))
    BY <1>5, <2>1, NatLessThanWellFounded, WFMin
  <2>3. d \in Nat /\ d <= n /\ ~Within(d)  BY DEF T
  <2>4. d # 0  BY <1>2, <2>3
  <2>5. d - 1 \in Nat /\ d - 1 < d  BY <2>3, <2>4
  <2>6. d - 1 \notin T  BY <2>2, <2>3, <2>5 DEF OpToRel
  <2>7. Within(d - 1)  BY <1>1, <2>3, <2>5, <2>6 DEF T
  <2>8. (d - 1) + 1 = d /\ d - 1 \in 0..n  BY <1>1, <2>3, <2>4
  <2>9. QED  BY <2>3, <2>7, <2>8
<1>6. QED  BY <1>4, <1>5

LEMMA KeptAndDropped ==
  ASSUME rd.got \in Seq(Key)
  PROVE  Returned \cup Dropped = Range(rd.got)
<1> DEFINE n == Len(rd.got)
           a == SubSeq(rd.got, 1, Kept)
           b == SubSeq(rd.got, Kept + 1, n)
<1>1. n \in Nat /\ Kept \in Nat /\ Kept <= n  BY LenProperties, KeptSome
<1>2. /\ Len(a) = Kept /\ DOMAIN a = 1..Kept /\ \A i \in 1..Kept : a[i] = rd.got[i]
  BY <1>1
<1>3. /\ DOMAIN b = 1..(n - Kept) /\ \A i \in 1..(n - Kept) : b[i] = rd.got[Kept + i]
  BY <1>1
<1>4. DOMAIN rd.got = 1..n  BY LenProperties
<1>5. \A i \in 1..n : i \notin 1..Kept => i - Kept \in 1..(n - Kept) /\ Kept + (i - Kept) = i
  BY <1>1
<1>6. Returned = Range(a) /\ Dropped = Range(b)  BY DEF Returned, Dropped
<1> HIDE DEF n, a, b
<1>7. Range(rd.got) \subseteq Range(a) \cup Range(b)
  <2>1. ASSUME NEW i \in 1..n  PROVE rd.got[i] \in Range(a) \cup Range(b)
    <3>1. CASE i \in 1..Kept  BY <1>2, <3>1 DEF Range
    <3>2. CASE i \notin 1..Kept
      <4>1. i - Kept \in DOMAIN b /\ b[i - Kept] = rd.got[i]  BY <1>3, <1>5, <3>2
      <4>2. QED  BY <4>1 DEF Range
    <3>3. QED  BY <3>1, <3>2
  <2>2. QED  BY <1>4, <2>1 DEF Range
<1>8. Range(a) \subseteq Range(rd.got) /\ Range(b) \subseteq Range(rd.got)
  <2>1. \A i \in 1..(n - Kept) : Kept + i \in 1..n  BY <1>1
  <2>2. \A i \in 1..Kept : i \in 1..n  BY <1>1
  <2>3. QED  BY <1>2, <1>3, <1>4, <2>1, <2>2 DEF Range
<1>9. QED  BY <1>6, <1>7, <1>8

\* retrieve_pack leaves nothing out in silence: a memory that was on the page of a
\* task asked for all through the call is returned, or a warning names its task as
\* cut by the budget, while others write and however ties fall.
THEOREM NothingGetsLost == BRSpec => NothingIsLeftOutInSilence
<1>1. ASSUME BRInv, ReturnPack, NEW k \in steady, TaskOf[k.content] \in rd.asked
      PROVE  k \in Returned \/ TaskOf[k.content] \in Warned \ rd.missing
  <2>1. at = "list" /\ rd.todo = <<>> /\ rd.got \in Seq(Key)
    BY <1>1 DEF ReturnPack, BRInv, ReaderInv, ReaderTypeOK, Reading
  <2>2. Range(<<>>) = {}  BY DEF Range
  <2>3. TaskOf[k.content] \notin rd.missing /\ k \in Range(rd.got)
    BY <1>1, <2>1, <2>2 DEF BRInv, ReaderInv, PackInv
  <2>4. k \in Returned \/ k \in Dropped  BY <2>1, <2>3, KeptAndDropped
  <2>5. QED  BY <2>3, <2>4 DEF Warned, TasksOf
<1>2. BRInv => [ReturnPack => \A k \in steady : TaskOf[k.content] \in rd.asked =>
                  k \in Returned \/ TaskOf[k.content] \in Warned \ rd.missing]_brVars
  BY <1>1
<1>3. QED  BY <1>2, BRInductive, PTL DEF NothingIsLeftOutInSilence

\* retrieve_pack returns what was active at some moment of the call.
THEOREM ReturnsTheActive == BRSpec => ReturnedWasActive
<1>1. ASSUME BRInv, ReturnPack
      PROVE  Returned \subseteq live
  <2>1. at = "list" /\ rd.got \in Seq(Key)
    BY <1>1 DEF ReturnPack, BRInv, ReaderInv, ReaderTypeOK, Reading
  <2>2. Range(rd.got) \subseteq live  BY <1>1, <2>1 DEF BRInv, ReaderInv, PackInv
  <2>3. QED  BY <2>1, <2>2, KeptAndDropped
<1>2. BRInv => [ReturnPack => Returned \subseteq live]_brVars  BY <1>1
<1>3. QED  BY <1>2, BRInductive, PTL DEF ReturnedWasActive
===============================================================================
