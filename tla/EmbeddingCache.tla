----------------------------- MODULE EmbeddingCache -----------------------------
(***************************************************************************)
(* EmbeddingCache.embed, called by the worker threads of one MCP server:   *)
(* an ordered dict of this process, then a DynamoDB table, then Bedrock.   *)
(* The dict has no lock.  A single operation on it is atomic in CPython,   *)
(* and between two of them any other thread may run; so may the clock,     *)
(* which a call reads once, when it begins.                                *)
(*                                                                         *)
(* Abstracted: an embedding is the moment Bedrock computed it; counters    *)
(* and metrics; a table item that does not parse (a failed read).          *)
(***************************************************************************)
EXTENDS Naturals, SequencesExt, FiniteSets

CONSTANTS
  Thread, Text,   \* a text stands for its content hash
  None,
  Capacity,       \* lru_capacity (1000)
  LruTTL,         \* lru_ttl_s (10 minutes)
  TableTTL,       \* ddb_ttl_s (24 hours)
  ReapDelay,      \* how late DynamoDB removes an expired item
  MaxCall,        \* how long a call to embed takes at most
  MaxTime         \* bound: the clock runs from 0 to MaxTime

ASSUME CacheAssumption ==
  /\ {Capacity, LruTTL, TableTTL, ReapDelay, MaxCall, MaxTime} \subseteq Nat
  /\ LruTTL > 0 /\ MaxCall <= TableTTL + ReapDelay
  /\ IsFiniteSet(Thread)
  /\ None \notin Nat

VARIABLES
  lru,      \* entries in the order of the dict, the next to be evicted first
  table,    \* text -> item of the cache table, or None
  clock,
  pc,       \* the operation a thread performs next
  call,     \* what a thread holds: the text, the time it began, the embedding
  crossed   \* history: threads during whose call another changed the dict

progVars == <<lru, table, clock, pc, call>>
vars == <<progVars, crossed>>

Blank == [text |-> None, now |-> 0, made |-> None, fresh |-> FALSE]

Running(t) == pc[t] \notin {"idle", "raised"}

Goto(t, label) == pc' = [pc EXCEPT ![t] = label]
Holds(t, c) == call' = [call EXCEPT ![t] = c]
Return(t) == Goto(t, "idle") /\ Holds(t, Blank)
Raise(t) == Goto(t, "raised") /\ Holds(t, Blank)         \* KeyError

Entries(x) == {i \in DOMAIN lru : lru[i].text = x}       \* none or one
Cached(x) == Entries(x) # {}
Place(x) == CHOOSE i \in Entries(x) : TRUE
Entry(x) == lru[Place(x)]
Others(x) == IF Cached(x) THEN RemoveAt(lru, Place(x)) ELSE lru

-------------------------------------------------------------------------------
Begin(t, x) ==
  /\ ~Running(t)
  /\ Goto(t, "lookup") /\ Holds(t, [Blank EXCEPT !.text = x, !.now = clock])
  /\ UNCHANGED <<lru, table, clock>>

\* The age is that at the beginning of the call.
Stale(c) == c.now >= Entry(c.text).inserted + LruTTL

Lookup(t) ==
  /\ pc[t] = "lookup"
  /\ LET c == call[t] IN
     IF ~Cached(c.text) THEN Goto(t, "table_get") /\ UNCHANGED call
     ELSE IF Stale(c) THEN Goto(t, "del") /\ UNCHANGED call
     ELSE Goto(t, "hit") /\ Holds(t, [c EXCEPT !.made = Entry(c.text).made])
  /\ UNCHANGED <<lru, table, clock>>

\* Wrong on purpose (mutant of Delete): the expired entry is deleted and then hit.
DeleteAndHit(t) ==
  /\ pc[t] = "del"
  /\ IF Cached(call[t].text) THEN Goto(t, "hit") /\ UNCHANGED call
                             ELSE Raise(t)
  /\ lru' = Others(call[t].text) /\ UNCHANGED <<table, clock>>

\* del self._lru[key]: whatever entry the key has by now.
Delete(t) ==
  /\ pc[t] = "del"
  /\ IF Cached(call[t].text) THEN Goto(t, "table_get") /\ UNCHANGED call
                             ELSE Raise(t)
  /\ lru' = Others(call[t].text) /\ UNCHANGED <<table, clock>>

MoveToEnd(x) == lru' = Append(Others(x), Entry(x))

\* Wrong on purpose (mutant of Hit): a hit counts as an insertion.
HitRenewed(t) ==
  /\ pc[t] = "hit"
  /\ LET x == call[t].text IN
     IF Cached(x)
       THEN /\ lru' = Append(Others(x), [Entry(x) EXCEPT !.inserted = call[t].now])
            /\ Return(t)
       ELSE Raise(t) /\ UNCHANGED lru
  /\ UNCHANGED <<table, clock>>

Hit(t) ==
  /\ pc[t] = "hit"
  /\ IF Cached(call[t].text) THEN MoveToEnd(call[t].text) /\ Return(t)
                             ELSE Raise(t) /\ UNCHANGED lru
  /\ UNCHANGED <<table, clock>>

\* Best effort; the ttl_epoch of the item is not looked at.
TableGet(t) ==
  /\ pc[t] = "table_get"
  /\ \/ Goto(t, "bedrock") /\ UNCHANGED call
     \/ /\ table[call[t].text] # None
        /\ Goto(t, "insert") /\ Holds(t, [call[t] EXCEPT !.made = table[call[t].text].made])
  /\ UNCHANGED <<lru, table, clock>>

\* A call to Bedrock that fails is raised to the caller.
InvokeBedrock(t) ==
  /\ pc[t] = "bedrock"
  /\ \/ Goto(t, "insert") /\ Holds(t, [call[t] EXCEPT !.made = clock, !.fresh = TRUE])
     \/ Return(t)
  /\ UNCHANGED <<lru, table, clock>>

\* An existing key keeps its place in the dict.  The time is that of the
\* beginning of the call, also over an entry that is newer.
Insert(t) ==
  /\ pc[t] = "insert" /\ Goto(t, "move")
  /\ LET c == call[t]
         e == [text |-> c.text, made |-> c.made, inserted |-> c.now] IN
     lru' = IF Cached(c.text)
              THEN [i \in DOMAIN lru |-> IF lru[i].text = c.text THEN e ELSE lru[i]]
              ELSE Append(lru, e)
  /\ UNCHANGED <<table, clock, call>>

Move(t) ==
  /\ pc[t] = "move"
  /\ IF Cached(call[t].text)
       THEN MoveToEnd(call[t].text) /\ Goto(t, "check") /\ UNCHANGED call
       ELSE Raise(t) /\ UNCHANGED lru
  /\ UNCHANGED <<table, clock>>

\* Wrong on purpose (mutant of OverCapacity): off by one.
OverCapacityByOne == Len(lru) > Capacity + 1

OverCapacity == Len(lru) > Capacity

\* A miss is written to the table last.
Check(t) ==
  /\ pc[t] = "check"
  /\ IF OverCapacity THEN Goto(t, "pop") /\ UNCHANGED call
     ELSE IF call[t].fresh THEN Goto(t, "table_put") /\ UNCHANGED call
     ELSE Return(t)
  /\ UNCHANGED <<lru, table, clock>>

\* popitem(last=False), although others may have popped since the check.
Pop(t) ==
  /\ pc[t] = "pop"
  /\ IF lru = <<>> THEN Raise(t) /\ UNCHANGED lru
                   ELSE lru' = Tail(lru) /\ Goto(t, "check") /\ UNCHANGED call
  /\ UNCHANGED <<table, clock>>

TablePut(t) ==
  /\ pc[t] = "table_put" /\ Return(t)
  /\ LET c == call[t]  item == [made |-> c.made, ttl_epoch |-> c.now + TableTTL] IN
     table' = [table EXCEPT ![c.text] = item] \/ UNCHANGED table
  /\ UNCHANGED <<lru, clock>>

Embed(t) ==
  \/ \E x \in Text : Begin(t, x)
  \/ Lookup(t) \/ Delete(t) \/ Hit(t) \/ TableGet(t) \/ InvokeBedrock(t)
  \/ Insert(t) \/ Move(t) \/ Check(t) \/ Pop(t) \/ TablePut(t)

-------------------------------------------------------------------------------
\* DynamoDB removes an item some time after its ttl_epoch.
Reap(x) ==
  /\ table[x] # None /\ clock >= table[x].ttl_epoch
  /\ table' = [table EXCEPT ![x] = None] /\ UNCHANGED <<lru, clock, pc, call>>

Tick ==
  /\ clock < MaxTime /\ clock' = clock + 1
  /\ \A t \in Thread : Running(t) => clock < call[t].now + MaxCall
  /\ \A x \in Text : table[x] # None => clock < table[x].ttl_epoch + ReapDelay
  /\ UNCHANGED <<lru, table, pc, call>>

Init ==
  /\ lru = <<>> /\ table = [x \in Text |-> None] /\ clock = 0
  /\ pc = [t \in Thread |-> "idle"] /\ call = [t \in Thread |-> Blank]
  /\ crossed = {}

\* History: a thread's own steps within a call never put it there.
Watch(t) ==
  crossed' = (IF pc[t] \in {"idle", "raised"} THEN crossed \ {t} ELSE crossed)
             \cup {u \in Thread \ {t} : Running(u) /\ lru' # lru}

Next ==
  \/ \E t \in Thread : Embed(t) /\ Watch(t)
  \/ (Tick \/ \E x \in Text : Reap(x)) /\ UNCHANGED crossed

Spec == Init /\ [][Next]_vars

-------------------------------------------------------------------------------
\* Whatever the threads do to each other's entries, the dict exceeds its capacity
\* only by what is being put at the moment: no call that goes wrong halfway leaves
\* an entry for which nobody evicts.
Bounded ==
  Len(lru) <= Capacity + Cardinality({t \in Thread : pc[t] \in {"move", "check", "pop"}})

\* How old an embedding can be: the lifetimes of both tiers add up, because an
\* item of the table enters the dict as new, with the time DynamoDB takes to
\* remove an item and the time of the call.  A loop of hits does not extend it.
AgeIsBounded ==
  \A t \in Thread : call[t].made # None =>
    clock < call[t].made + TableTTL + ReapDelay + LruTTL + MaxCall

\* embedding_cache: both tiers are best effort.  A call beside which no other
\* thread changed the dict fails because Bedrock does, never because of the cache,
\* whatever earlier calls, failed ones among them, have left there.
RaisesOnlyWhenCrossed == \A t \in Thread : pc[t] = "raised" => t \in crossed
===============================================================================
