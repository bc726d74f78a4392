--------------------------------- MODULE Vault ---------------------------------
(***************************************************************************)
(* Clients and the TTL worker over one vault, and what must hold of it.    *)
(***************************************************************************)
EXTENDS MemoryClient, TTLWorker

VARIABLES
  calm,      \* history: no client step since the current or last run began, and
             \* that run was not dry, not cut off, not stopped by the breaker
  settled,   \* history: a calm run completed, and only the worker moved since
  removed,   \* history: vectors the current or last run deleted, with the phase
  written    \* history: vectors callers wrote while the expiry path collects

histVars == <<calm, settled, removed, written>>

vars == <<storeVars, clientVars, workerVars, histVars>>

Init == /\ StoreInit /\ ClientInit /\ WorkerInit
        /\ calm = FALSE /\ settled = FALSE /\ removed = {} /\ written = {}

\* A day passes.  No operation and no run spans days: calls take seconds, the
\* worker is cut off after minutes.
Tick == /\ Quiet /\ wpc = "idle" /\ clock < MaxTime
        /\ clock' = clock + 1 /\ settled' = FALSE
        /\ UNCHANGED <<vec, row, ttl, lastLive, renewed, calm, removed, written>>
        /\ UNCHANGED <<clientVars, workerVars>>

Client(p) == /\ ClientStep(p) /\ calm' = FALSE /\ settled' = FALSE
             /\ written' = IF wpc = "expired"
                             THEN written \cup {x \in Addr : vec'[x] # vec[x]} ELSE {}
             /\ UNCHANGED <<workerVars, removed>>

Gone == {x \in Addr : Exists(x) /\ vec'[x] = None}

RunBegins == /\ StartRun /\ calm' = ~wdry' /\ removed' = {} /\ written' = {}
             /\ UNCHANGED <<settled, clientVars>>

RunProceeds == /\ ProceedWorker
               /\ calm' = (calm /\ ~\E i \in Index : Trip(i))
               /\ settled' = (settled \/ (calm /\ LeaveReconcile /\ wpc' = "idle"))
               /\ removed' = removed \cup ({wpc} \X Gone)
               /\ written' = IF wpc' = "expired" THEN written ELSE {}
               /\ UNCHANGED clientVars

RunIsCut == CutOff /\ calm' = FALSE /\ settled' = FALSE /\ written' = {}
            /\ UNCHANGED <<clientVars, removed>>

Worker == RunBegins \/ RunProceeds \/ RunIsCut

Next == Tick \/ Worker \/ \E p \in Proc : Client(p)

Spec == Init /\ [][Next]_vars

\* The worker is started every day and given the time to finish; time passes;
\* a caller that has begun an operation ends it or crashes.
Fairness == /\ WF_vars(Tick) /\ WF_vars(RunBegins) /\ WF_vars(RunProceeds)
            /\ \A p \in Proc : WF_vars(pc[p] # "idle" /\ Client(p))

FairSpec == Spec /\ Fairness

-------------------------------------------------------------------------------
\* Every variable keeps its type (what callers hold: see MemoryClient).
WorkerTypeOK ==
  /\ wpc \in Phases /\ windex \in Index /\ wkeys \subseteq Key
  /\ wbatch \subseteq Addr /\ wrows \subseteq TTLRow /\ wcheck \subseteq TTLRow
  /\ wfix \subseteq Actual /\ wdry \in BOOLEAN
  /\ wpc = "promote_put" => whold \in Addr \X Vector
  /\ wpc = "reconcile_put" => whold \in Actual

TypeOK == /\ StoreTypeOK /\ ClientTypeOK /\ WorkerTypeOK
          /\ calm \in BOOLEAN /\ settled \in BOOLEAN /\ removed \subseteq Phases \X Addr
          /\ written \subseteq Addr

-------------------------------------------------------------------------------
\* Properties of the write path

\* The version a reader of group g in index i is given; 0 when there is none.
Newest(i, g) ==
  LET vs == {k.version : k \in Candidates(i, g)} IN
  IF vs = {} THEN 0 ELSE CHOOSE v \in vs : \A u \in vs : u <= v

\* As long as nobody retracts, purges or sets an expiry, a reader of a group
\* sees a register: whatever callers race, crash or lose row writes, and
\* whatever the worker does, the version retrieve_memory collapses to starts
\* at 1 and only moves up by one (the order of the writes in _supersede).
Register == INSTANCE VersionRegister WITH
              Slot <- Index \X Cid, LastVersion <- MaxVersion,
              newest <- [s \in Index \X Cid |-> Newest(s[1], s[2])]

\* The version a reader collapses a group to implements that register.
ReaderSeesARegister == Register!Spec

\* purge_memory: hard-delete an ENTIRE canonical group.  When a purge that
\* nothing disturbs returns, its index holds no vector of the group.
PurgeIsComplete ==
  [][\A p \in Proc, x \in Addr :
       (pc[p] = "purge_row" /\ pc'[p] = "idle" /\ x[1] = loc[p].idx) =>
          vec'[x] = None \/ vec'[x].cid # loc[p].cid]_vars

-------------------------------------------------------------------------------
\* Properties of the worker

WorkerDeletes == vec' # vec /\ wbatch' # wbatch

\* The archive path never deletes a vector that was active less than the
\* grace period ago, however archive, supersede, restore and the worker's own
\* write-backs interleave.  The exception is one that a client wrote as active
\* again while this very run was going on: _find_vector and the delete are two
\* calls.
ArchiveGraceHonoured ==
  [][WorkerDeletes /\ wpc = "archived" =>
       \A x \in Gone : \/ x \in renewed
                       \/ lastLive[x] + ArchivedGrace <= clock]_vars

\* Why: an archived vector's clock started no earlier than it was last active,
\* and what the archive path has collected either has been out of use for the
\* grace period or was written as active since.
GraceInv ==
  /\ \A x \in Addr : lastLive[x] <= clock
  /\ \A x \in Addr : StatusIs(x, "archived") => lastLive[x] <= vec[x].archived_at
  /\ wpc \notin {"archived", "expired"} => wbatch = {}
  /\ wpc = "expired" => \A x \in wbatch : x[1] = windex
  /\ wpc = "archived" =>
       \A x \in wbatch : \/ x \in renewed
                         \/ /\ lastLive[x] + ArchivedGrace <= clock
                            /\ ~StatusIs(x, "active")

\* The expiry path deletes a vector only past its own expires_at, even though
\* the TTL row it starts from may be older than the vector (the same key stored
\* again with a later expiry).  The exception is one that a caller wrote after the
\* TTL rows were read, be it to archive or to supersede it.
ExpiryDeletesOnlyExpired ==
  [][WorkerDeletes /\ wpc = "expired" =>
       \A x \in Gone : x \in written \/ vec[x].expires_at <= clock]_vars

\* A TTL row is all that leads the worker to an expired memory.  In a vault of one
\* index, a run beside which no client moves does not remove it before the memory
\* it names: a run that is cut off, by time or by the breaker, loses nothing that
\* the next one could not find.
RowOutlivesItsMemory ==
  [][calm /\ Worker => \A i \in Index, e \in Time :
       ttl[<<i, e>>] # None /\ ttl'[<<i, e>>] = None =>
         LET x == <<i, ttl[<<i, e>>]>> IN Exists(x) => vec[x].expires_at # e]_vars

\* A dry run leaves the vectors and both tables as they are: who changes them
\* meanwhile is not the worker.
DryRunTouchesNothing ==
  [][wdry' /\ ~UNCHANGED <<vec, row, ttl>> => ~Worker]_vars

\* The breaker looks at one batch at a time, and a run makes one batch per
\* index for archived vectors and one for expired ones: each of them deletes at
\* most the cap, also when clients write or a run is cut off in between.
RunWithinItsBatches ==
  \A phase \in {"archived", "expired"}, i \in Index :
    Cardinality({x \in Addr : x[1] = i /\ <<phase, x>> \in removed}) <= MaxDelete

\* A row agrees with a newest vector of its group, and with its status.
RowAgrees(i, g) ==
  /\ row[g] # None
  /\ \E k \in Top(i, g) : /\ row[g].latest_key = k
                          /\ row[g].status = vec[<<i, k>>].status

RowsAgree == \A i \in Index, g \in Cid : Members(i, g) # {} => RowAgrees(i, g)

\* A run during which no client wrote leaves every canonical row in agreement
\* with the vectors, whatever was lost, crashed or overwritten before it.
CalmRunRepairs == wpc = "idle" /\ calm => RowsAgree

\* The worker is idempotent: after a calm run that completed, further runs on
\* the same day change nothing, except a row between vectors of equal rank.
RunIsIdempotent ==
  [][settled =>
       /\ Worker => UNCHANGED <<vec, ttl>>
       /\ \A g \in Cid : Worker /\ row'[g] # row[g] =>
            /\ row[g].latest_key # row'[g].latest_key
            /\ \E i \in Index : {row[g].latest_key, row'[g].latest_key}
                                 \subseteq Highest(i, Members(i, g))
    ]_vars

\* Once clients stop, the daily sweep ends all drift for good.
DriftIsRepaired == <>[]RowsAgree

\* archive_memory starts the deletion clock: an archived vector, whose grace
\* period ends within the clock's bound, is deleted in the end (or stored anew).
ArchivedIsDeleted ==
  \A x \in Addr :
    (StatusIs(x, "archived") /\ clock + ArchivedGrace <= MaxTime)
      ~> ~StatusIs(x, "archived")
===============================================================================
