------------------------------ MODULE WorkingSets ------------------------------
(***************************************************************************)
(* Named working sets: pin_working_set and fetch_working_set, for one name *)
(* and one team, on top of store_memory and archive_memory.  A pin is      *)
(* a memory whose content is the list of keys, in the task of the name; it *)
(* is found through the task listing, which the canonical rows back.  A    *)
(* content stands for a list of keys, and a vector's key determines its    *)
(* content.  Pins go to one index, the shared one.                         *)
(*                                                                         *)
(* Abstracted: the listing is one page; reading the pinned memories once   *)
(* the list is known; where the list comes from when a source task is      *)
(* named; the team, which filters the listing of both operations alike; the *)
(* TTL worker.                                                             *)
(***************************************************************************)
EXTENDS MemoryClient

VARIABLES
  stage,      \* where a caller is before its store begins, or in a fetch
  held,       \* what it holds there
  disturbed,  \* history: callers beside whose operation someone else moved
  seen,       \* history: what the name stood for since a caller's fetch began
  steady      \* history: what it has stood for at every moment since then

pinVars == <<stage, held, disturbed, seen, steady>>

wsVars == <<storeVars, clientVars, pinVars>>

Shared == 1

Stages == {"none", "pin_read", "fetch_read", "fetch_body"}

Holding == [keys : SUBSET Key, content : Content \cup {None},
            expires_at : Time \cup {NoExpiry}, pin : Key \cup {None}]

Nothing == [keys |-> {}, content |-> None, expires_at |-> NoExpiry, pin |-> None]

Free(p) == pc[p] = "idle" /\ stage[p] = "none"

To(p, s, h) == stage' = [stage EXCEPT ![p] = s] /\ held' = [held EXCEPT ![p] = h]

-------------------------------------------------------------------------------
\* query_by_task(status=active): the rows that carry the task, never a vector.
Listing ==
  {row[g].latest_key :
     g \in {h \in Cid : row[h] # None /\ row[h].listed /\ row[h].status = "active"}} \ {None}

\* Of the keys listed, those whose vectors are there and not expired.
Unexpired(keys) == {k \in keys : /\ Exists(<<Shared, k>>)
                                 /\ vec[<<Shared, k>>].expires_at > clock}

\* The pin takes the newest, whatever its status: a row may be behind.
ToSupersede(keys) == LET us == Unexpired(keys) IN Highest(Shared, us)

\* The fetch takes the newest of the active ones.
ToFetch(keys) ==
  LET us == {k \in Unexpired(keys) : StatusIs(<<Shared, k>>, "active")}
  IN Highest(Shared, us)

\* pin_working_set lists the name's task.  expires_at is now + ttl_s for any
\* ttl_s, and with one that is not positive the pin is written expired ...
PinLists(p, c, e) ==
  /\ Free(p) /\ requests < MaxRequests
  /\ To(p, "pin_read", [Nothing EXCEPT !.keys = Listing, !.content = c, !.expires_at = e])
  /\ UNCHANGED <<storeVars, clientVars>>

\* Wrong on purpose (mutant of PinStores): an earlier pin is not superseded.
PinStoresAnew(p) ==
  /\ stage[p] = "pin_read"
  /\ RequestStore(p, Shared, held[p].content, None, held[p].expires_at, "new")
  /\ To(p, "none", Nothing)

\* ... reads the vectors listed, and hands the store what to supersede.
PinStores(p) ==
  /\ stage[p] = "pin_read"
  /\ LET h == held[p]  olds == ToSupersede(h.keys) IN
     IF olds = {} THEN RequestStore(p, Shared, h.content, None, h.expires_at, "new")
     ELSE \E k \in olds : RequestSupersede(p, Shared, h.content, h.expires_at, k)
  /\ To(p, "none", Nothing)

FetchLists(p) ==
  /\ Free(p)
  /\ To(p, "fetch_read", [Nothing EXCEPT !.keys = Listing])
  /\ UNCHANGED <<storeVars, clientVars>>

\* Wrong on purpose (mutant of FetchReads): the listing's word on the status
\* is taken.
FetchReadsUnchecked(p) ==
  /\ stage[p] = "fetch_read"
  /\ LET pins == ToSupersede(held[p].keys) IN
     IF pins = {} THEN To(p, "none", Nothing)
     ELSE \E k \in pins : To(p, "fetch_body", [Nothing EXCEPT !.pin = k])
  /\ UNCHANGED <<storeVars, clientVars>>

\* No pin left among them is a ValueError, "working set not found".
FetchReads(p) ==
  /\ stage[p] = "fetch_read"
  /\ LET pins == ToFetch(held[p].keys) IN
     IF pins = {} THEN To(p, "none", Nothing)
     ELSE \E k \in pins : To(p, "fetch_body", [Nothing EXCEPT !.pin = k])
  /\ UNCHANGED <<storeVars, clientVars>>

\* The pin is read again, this time for its list of keys.
FetchBody(p) ==
  /\ stage[p] = "fetch_body" /\ To(p, "none", Nothing)
  /\ UNCHANGED <<storeVars, clientVars>>

Fetch(p) == FetchLists(p) \/ FetchReads(p) \/ FetchBody(p)

Other(p) == /\ ProceedClient(p) \/ Crash(p)
               \/ \E k \in Key : stage[p] = "none" /\ RequestArchive(p, Shared, k)
            /\ UNCHANGED <<stage, held>>

-------------------------------------------------------------------------------
\* What the name stands for now: the pins a fetch without interruption may take.
Current == ToFetch(Listing)

\* ... and the pins whose vector is written and whose row is not yet.
Standing == Current \cup {loc[p].key : p \in {q \in Proc : pc[q] \in {"ttl", "rewrite", "upsert"}}}

InFetch(p) == stage[p] \in {"fetch_read", "fetch_body"}

Watch ==
  /\ seen' = [p \in Proc |-> IF InFetch(p)' THEN seen[p] \cup Standing \cup Standing'
                              ELSE {}]
  /\ steady' = [p \in Proc |-> IF ~InFetch(p)' THEN {}
                                ELSE Current' \cap IF InFetch(p) THEN steady[p]
                                                               ELSE Current]

Busy(p) == ~Free(p)

Caller(p) ==
  /\ \/ \E c \in Content, e \in Expiries : PinLists(p, c, e)
     \/ PinStores(p) \/ Fetch(p) \/ Other(p)
  /\ disturbed' = {q \in Proc : Busy(q) /\ (q # p \/ p \in disturbed)}
  /\ Watch

Day == /\ Quiet /\ (\A p \in Proc : stage[p] = "none") /\ clock < MaxTime
       /\ clock' = clock + 1
       /\ UNCHANGED <<vec, row, ttl, lastLive, renewed, clientVars, pinVars>>

WSInit == /\ StoreInit /\ ClientInit
          /\ stage = [p \in Proc |-> "none"] /\ held = [p \in Proc |-> Nothing]
          /\ disturbed = {}
          /\ seen = [p \in Proc |-> {}] /\ steady = [p \in Proc |-> {}]

WSNext == Day \/ \E p \in Proc : Caller(p)

WSSpec == WSInit /\ [][WSNext]_wsVars

-------------------------------------------------------------------------------
\* pin_working_set: peers reload the exact slice.  A pin beside which nobody
\* moved, whose row write was not lost, and whose expiry is still to come, is
\* what its name stands for when it returns: whatever races, crashes, lost rows,
\* expiries and archivals came before it.  (With an expiry that is not to come,
\* the pin is written and answered as one that succeeded, and read by nobody.)
WrittenPinIsCurrent ==
  [][\A p \in Proc :
       (/\ pc[p] = "upsert" /\ pc'[p] = "idle" /\ row' # row /\ p \notin disturbed
        /\ loc[p].expires_at > clock) => Current' = {loc[p].key}]_wsVars

\* While the name keeps standing for some pin, a fetch finds it, or one it
\* stood for at another moment of the fetch, or one being pinned: whatever pins
\* and archivals go on, although the listing and the vectors are read at
\* different moments and rows run behind the vectors.
FetchedWasCurrent ==
  [][\A p \in Proc : FetchReads(p) /\ steady[p] # {} =>
                       held'[p].pin \in seen[p]]_wsVars

\* pin_working_set: peers call fetch_working_set to reload the exact slice.  A
\* pin that succeeds by being UNCHANGED is what its name stands for, too.  Asked
\* for with an expiry still to come, and where no pin was written expired.
UnchangedPinIsCurrent ==
  [][\A p \in Proc :
       (/\ StoreUnchanged(p) /\ p \notin disturbed /\ loc[p].expires_at > clock
        /\ \A x \in Addr : Exists(x) => vec[x].created_at < vec[x].expires_at) =>
          \E k \in Current' : k.content = loc[p].content]_wsVars
===============================================================================
