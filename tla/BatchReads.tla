------------------------------ MODULE BatchReads ------------------------------
(***************************************************************************)
(* Reading many memories in one call while others write: hydrate_memory,   *)
(* the reading of a working set's keys (_fetch_keys_summary) and           *)
(* retrieve_pack.  A reader looks at one key, or at one task, per remote   *)
(* call, adds up what it returns against a token budget, and answers once. *)
(*                                                                         *)
(* Abstracted: texts, of which the sizes in tokens are left; the team.     *)
(***************************************************************************)
EXTENDS Contents, Sequences, SequencesExt

CONSTANTS
  ReadOps,    \* what the reader may do in this instance
  AskedKeys,  \* lists of keys it may ask for
  AskedPacks, \* what it may ask of retrieve_pack: a pack, tasks, or both
  Registry,   \* the deployment's packs: name -> list of tasks
  MaxKeys,    \* the cap of hydrate_memory
  PageLimit,  \* page_size of the task listing
  MaxTokens,  \* the budget
  SizeOf,     \* tokens of a whole content
  PreviewOf,  \* tokens of its summary or preview; 0 when there is none
  MaxReads    \* bound: reads in a behaviour

ASSUME ReadsAssumption ==
  /\ ReadOps \subseteq {"hydrate", "fetch", "pack"}
  /\ IsFiniteSet(Content) /\ AskedKeys \subseteq Seq(Key) \ {<<>>}
  /\ \A name \in DOMAIN Registry : Registry[name] \in Seq(Task)
  /\ \A q \in AskedPacks : q.tasks \in Seq(Task)
  /\ {MaxKeys, PageLimit} \subseteq Nat \ {0} /\ {MaxTokens, MaxReads} \subseteq Nat
  /\ SizeOf \in [Content -> Nat] /\ PreviewOf \in [Content -> Nat]

VARIABLES
  at,       \* the reader's next call
  rd,       \* what it holds
  reads,    \* reads begun so far
  steady,   \* history: what was there for the reader since its call began
  live      \* history: keys active at some moment since then

readVars == <<at, rd, reads, steady, live>>
brVars == <<storeVars, clientVars, bodyVars, readVars>>

Team == 1       \* the index read: the shared one

NoRead == [op |-> "none", todo |-> <<>>, got |-> <<>>, missing |-> {}, used |-> 0,
           cut |-> FALSE, page |-> {}, now |-> 0, asked |-> {}, beyond |-> {},
           cid |-> None]

At(k) == <<Team, k>>

Hold(where, r) == at' = where /\ rd' = r

\* Of all that was asked for, list is what is looked at.
Starts(op, where, all, list) ==
  /\ at = "idle" /\ op \in ReadOps /\ reads < MaxReads
  /\ reads' = reads + 1
  /\ Hold(where, [NoRead EXCEPT !.op = op, !.todo = list, !.now = clock,
                                !.asked = Range(all),
                                !.beyond = Range(all) \ Range(list)])
  /\ UNCHANGED row

-------------------------------------------------------------------------------
\* hydrate_memory and _fetch_keys_summary

\* The keys past the cap are dropped, and the answer does not say so.
HydrateKeys(ks) ==
  LET n == IF Len(ks) < MaxKeys THEN Len(ks) ELSE MaxKeys
  IN Starts("hydrate", "key", ks, SubSeq(ks, 1, n))

FetchKeys(ks) == Starts("fetch", "key", ks, ks)

\* A record of n tokens: the first is always taken, the first that does not fit
\* ends the read.  A body read in full is counted as a use of its group.
Take(k, g, n, full) ==
  IF rd.got # <<>> /\ rd.used + n > MaxTokens
    THEN Hold("key", [rd EXCEPT !.cut = TRUE])
    ELSE Hold(IF full THEN "use" ELSE "key",
              [rd EXCEPT !.got = Append(@, k), !.used = @ + n,
                         !.todo = Tail(@), !.cid = IF full THEN g ELSE None])

\* Wrong on purpose (mutant of Miss): a missing key ends the read.
MissAndStop(k) == Hold("key", [rd EXCEPT !.missing = @ \cup {k}, !.todo = <<>>])

Miss(k) == Hold("key", [rd EXCEPT !.missing = @ \cup {k}, !.todo = Tail(@)])

Unread == rd.todo # <<>> /\ ~rd.cut

ReadKey ==
  /\ at = "key" /\ Unread
  /\ LET k == Head(rd.todo)  c == k.content  g == vec[At(k)].cid IN
     IF ~Exists(At(k)) THEN Miss(k)
     ELSE IF rd.op = "fetch" THEN Take(k, None, PreviewOf[c], FALSE)
     ELSE IF Outside(At(k)) THEN Hold("body", [rd EXCEPT !.cid = g])
     ELSE Take(k, g, SizeOf[c], TRUE)
  /\ UNCHANGED <<row, reads>>

\* _resolve_content: an object that is not there, or cannot be read, is no
\* error; what there is of a summary stands in for it.
ReadBody ==
  /\ at = "body"
  /\ LET k == Head(rd.todo) IN
     \/ At(k) \in body /\ Take(k, rd.cid, SizeOf[k.content], TRUE)
     \/ Take(k, None, PreviewOf[k.content], FALSE)
  /\ UNCHANGED <<row, reads>>

CountUse ==
  /\ at = "use"
  /\ LET r == IF row[rd.cid] = None THEN PhantomRow ELSE row[rd.cid]
     IN BestEffort("row", PutRow(rd.cid, r), UNCHANGED row)
  /\ Hold("key", [rd EXCEPT !.cid = None])
  /\ UNCHANGED reads

ReturnKeys == at = "key" /\ ~Unread /\ Hold("idle", NoRead) /\ UNCHANGED <<row, reads>>

-------------------------------------------------------------------------------
\* retrieve_pack

\* resolve_pack_task_ids: explicit tasks win over the pack named beside them; a
\* pack that is not registered is a ValueError.
Resolved(q) == IF q.tasks # <<>> THEN {q.tasks}
               ELSE {Registry[name] : name \in {q.pack} \cap DOMAIN Registry}

ReadPack(q) == \E ts \in Resolved(q) : Starts("pack", "list", ts, ts)

Listed(t) == {g \in Cid : row[g] # None /\ row[g].listed /\ TaskOf[g] = t}

\* query_by_task: the newest rows of the task, as many as a page holds, and of
\* these the active ones.  The rest of the task is never asked for.
Pages(t) ==
  LET full(P) == Cardinality(P) = PageLimit \/ P = Listed(t)
      newest(P) == \A g \in P, h \in Listed(t) \ P : row[h].created_at <= row[g].created_at
  IN {{g \in P : row[g].status = "active"} :
        P \in {Q \in SUBSET Listed(t) :
                 Cardinality(Q) <= PageLimit /\ full(Q) /\ newest(Q)}}

Nobody(t) == Hold("list", [rd EXCEPT !.missing = @ \cup {t}, !.todo = Tail(@)])

\* Abstracted: two rows that name one key give its record twice, here once.
ListTask ==
  /\ at = "list" /\ rd.todo # <<>>
  /\ \E P \in Pages(Head(rd.todo)) :
       LET keys == {row[g].latest_key : g \in P} \ {None} IN
       IF keys = {} THEN Nobody(Head(rd.todo)) ELSE Hold("vectors", [rd EXCEPT !.page = keys])
  /\ UNCHANGED <<row, reads>>

\* Wrong on purpose (mutant of Records): the row is believed about the status.
RecordsUnchecked(keys) ==
  {k \in keys : Exists(At(k)) /\ vec[At(k)].expires_at > rd.now}

\* The records of the task: of the vectors the page names, those that are there,
\* active and not expired when the call began.
Records(keys) ==
  {k \in keys : StatusIs(At(k), "active") /\ vec[At(k)].expires_at > rd.now}

ReadTask ==
  /\ at = "vectors"
  /\ LET ks == Records(rd.page) IN
     IF ks = {} THEN Nobody(Head(rd.todo))
     ELSE \E s \in SetToSeqs(ks) :
            /\ \A m, n \in DOMAIN s : m < n => ~RanksBelow(Team, s[m], s[n])
            /\ Hold("list", [rd EXCEPT !.got = @ \o s, !.todo = Tail(@), !.page = {}])
  /\ UNCHANGED <<row, reads>>

\* _apply_pack_budget: the records up to the first that does not fit.
Cost(n) == FoldLeft(LAMBDA sum, k : sum + PreviewOf[k.content], 0, SubSeq(rd.got, 1, n))

Within(n) == \A m \in 2..n : Cost(m) <= MaxTokens

Kept == CHOOSE n \in 0..Len(rd.got) :
          Within(n) /\ (n = Len(rd.got) \/ ~Within(n + 1))

Returned == Range(SubSeq(rd.got, 1, Kept))

TasksOf(keys) == {TaskOf[k.content] : k \in keys}

\* Wrong on purpose (mutant of Dropped): from the one after the first left out.
DroppedAfter == Range(SubSeq(rd.got, Kept + 2, Len(rd.got)))

Dropped == Range(SubSeq(rd.got, Kept + 1, Len(rd.got)))

\* The warnings name the missing tasks and, as skipped or partially returned,
\* those of the records left out.
Warned == rd.missing \cup TasksOf(Dropped)

ReturnPack ==
  /\ at = "list" /\ rd.todo = <<>>
  /\ Hold("idle", NoRead) /\ UNCHANGED <<row, reads>>

-------------------------------------------------------------------------------
\* What the history keeps: for keys, the vectors that are there; for a pack, the
\* active and unexpired vectors whose rows are on the newest page of their task
\* however ties fall.
OnThePage(g) ==
  Cardinality({h \in Listed(TaskOf[g]) \ {g} : row[h].created_at >= row[g].created_at})
    < PageLimit

There ==
  IF rd.op = "pack"
    THEN Records({row[g].latest_key :
                    g \in {h \in Cid : /\ row[h] # None /\ row[h].listed
                                       /\ row[h].status = "active" /\ OnThePage(h)}} \ {None})
    ELSE {k \in Key : Exists(At(k))}

Watch ==
  IF at' = "idle" THEN steady' = {} /\ live' = {}
  ELSE /\ steady' = There' \cap (IF at = "idle" THEN Key ELSE steady)
       /\ live' = live \cup {k \in Key : StatusIs(At(k), "active")'}

Reader ==
  /\ \/ \E ks \in AskedKeys : HydrateKeys(ks) \/ FetchKeys(ks)
     \/ \E q \in AskedPacks : ReadPack(q)
     \/ ReadKey \/ ReadBody \/ CountUse \/ ReturnKeys
     \/ ListTask \/ ReadTask \/ ReturnPack
  /\ UNCHANGED <<vec, ttl, clock, lastLive, renewed, clientVars, bodyVars>>

\* Bound: a read, like an operation of the write side, takes less than a day.
Day == /\ Quiet /\ at = "idle" /\ clock < MaxTime /\ clock' = clock + 1
       /\ UNCHANGED <<vec, row, ttl, lastLive, renewed, clientVars, bodyVars, at, rd, reads>>

BRInit == /\ ContentsInit
          /\ at = "idle" /\ rd = NoRead /\ reads = 0 /\ steady = {} /\ live = {}

BRNext ==
  /\ \/ Day \/ Reader
     \/ \E p \in Proc : Writer(p) /\ UNCHANGED <<at, rd, reads>>
  /\ Watch

BRSpec == BRInit /\ [][BRNext]_brVars

-------------------------------------------------------------------------------
\* hydrate_memory and _fetch_keys_summary: of all the keys the caller asked for,
\* one whose vector was there all along is returned, unless the budget ran out at it
\* or before it, or it is past the cap of hydrate_memory.  The first key is never left
\* out, a working set is read without a cap, and no other key is lost for one that is
\* missing, that is purged in between or whose object cannot be read.
KeysAreAccountedFor ==
  [][ReturnKeys => \A k \in rd.asked \cap steady :
       \/ k \in Range(rd.got)
       \/ rd.cut /\ rd.got # <<>> /\ k \in Range(rd.todo)
       \/ rd.op = "hydrate" /\ k \in rd.beyond]_brVars

\* retrieve_pack: nothing is left out in silence.  A memory that was on the page
\* of a task asked for all through the call is returned, or a warning names its
\* task as cut by the budget: it does not get lost between the listing, the
\* vectors and the budget while others write, and its task is not said missing.
NothingIsLeftOutInSilence ==
  [][ReturnPack => \A k \in steady : TaskOf[k.content] \in rd.asked =>
       k \in Returned \/ TaskOf[k.content] \in Warned \ rd.missing]_brVars

\* retrieve_pack: what is returned was active at some moment of the call,
\* although it is found through rows that run behind the vectors.
ReturnedWasActive == [][ReturnPack => Returned \subseteq live]_brVars
===============================================================================
