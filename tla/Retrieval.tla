------------------------------- MODULE Retrieval -------------------------------
(***************************************************************************)
(* One retrieve_memory call over a vault that changes under it: query,     *)
(* collapse by canonical id, promotion of chunk hits to their documents,   *)
(* ranking, the token budget, and the bodies asked for in hydrate_keys.    *)
(* The query is one remote call; so is every later read of a parent and of *)
(* a key to hydrate, and the vault may have moved on by then.              *)
(*                                                                         *)
(* Abstracted: distances, filters and scores (the query returns the        *)
(* matching vectors, and ranking orders hits, in any order), the reads of  *)
(* usage counters that only feed the score, and texts, of which only their *)
(* sizes in tokens are kept.                                               *)
(***************************************************************************)
EXTENDS Naturals, SequencesExt, FiniteSetsExt

CONSTANTS
  Key,             \* vector keys of the index
  Group,           \* canonical ids
  None,
  Vaults,          \* what the index may hold when the call begins
  DetailLevels,    \* subset of {"summary", "standard", "full"}
  HydrateKeys,     \* sequences of keys callers pass as hydrate_keys
  RetrieveTopK,    \* oversampling of the query (20)
  TopK,            \* results asked for (5)
  MaxTokens,       \* the token budget (4,000)
  PreviewTokens,   \* size an inline body is cut to in a preview (129)
  MaxHydrate,      \* hydrate_keys looked at (8)
  ContentReads,    \* whether a body read from S3 succeeds: subset of BOOLEAN
  Volatile         \* bound: the keys others change during the call

\* live: active and not expired.  A summary of size 0 is an empty string.
Memory == [gid : Group, version : Nat, created_at : Nat, live : BOOLEAN,
           kind : {"memory", "document", "chunk"}, parent : Key \cup {None},
           summary : Nat \cup {None}, full : Nat, inline : BOOLEAN]

ASSUME RetrievalAssumption ==
  /\ None \notin Key \cup Nat \cup Memory /\ IsFiniteSet(Key)
  /\ Vaults \subseteq [Key -> Memory \cup {None}]
  /\ DetailLevels \subseteq {"summary", "standard", "full"}
  /\ HydrateKeys \subseteq Seq(Key)
  /\ RetrieveTopK \in Nat /\ TopK \in Nat /\ MaxTokens \in Nat
  /\ PreviewTokens \in Nat /\ MaxHydrate \in Nat
  /\ ContentReads \subseteq BOOLEAN

VARIABLES
  memory,    \* the index now
  asked,     \* history: the index when the query ran
  hits,      \* history: the hits of the query, in its order
  phase,     \* "query", "promote", "rank", "budget", "hydrate" or "done"
  level,     \* detail_level of the call
  wanted,    \* keys to hydrate that are still to be looked at
  queue,     \* hits the phase still has to look at
  parents,   \* documents the promotion has looked up
  promoted,  \* hits after promotion
  position,  \* rank of the next hit to be budgeted
  results,
  used,      \* tokens of the results, as the code adds them up
  uses       \* group -> uses recorded by this call

vars == <<memory, asked, hits, phase, level, wanted, queue, parents, promoted,
          position, results, used, uses>>

Hit(k) == [key |-> k, md |-> memory[k]]

FirstOf(s, n) == SubSeq(s, 1, Min({n, Len(s)}))        \* s[:n]

Live == {k \in Key : memory[k] # None /\ memory[k].live}

-------------------------------------------------------------------------------
\* Collapse by canonical id

\* rank_key > current[0]: the later of two equal ranks does not replace.
Outranks(m, n) == \/ m.version > n.version
                  \/ m.version = n.version /\ m.created_at > n.created_at

\* Wrong on purpose (mutant of Consider): the last version met is kept.
ConsiderLast(best, h) ==
  IF \A i \in DOMAIN best : best[i].md.gid # h.md.gid THEN Append(best, h)
  ELSE [i \in DOMAIN best |-> IF best[i].md.gid = h.md.gid THEN h ELSE best[i]]

\* best is a dict in insertion order: one entry for each group met so far.
Consider(best, h) ==
  IF \A i \in DOMAIN best : best[i].md.gid # h.md.gid THEN Append(best, h)
  ELSE [i \in DOMAIN best |->
          IF best[i].md.gid = h.md.gid /\ Outranks(h.md, best[i].md)
            THEN h ELSE best[i]]

Collapse(hs) ==
  LET best[i \in 0..Len(hs)] ==
        IF i = 0 THEN <<>> ELSE Consider(best[i - 1], hs[i])
  IN  best[Len(hs)]

\* The hits: the nearest RetrieveTopK matches, in any order.
Query(order, d, hk) ==
  /\ phase = "query"
  /\ hits' = [i \in DOMAIN order |-> Hit(order[i])]
  /\ queue' = Collapse(hits') /\ asked' = memory
  /\ level' = d /\ wanted' = FirstOf(hk, MaxHydrate)
  /\ phase' = "promote"
  /\ UNCHANGED <<memory, parents, promoted, position, results, used, uses>>

-------------------------------------------------------------------------------
\* Chunks are replaced by their documents

\* What one hit becomes.  The document is taken as it is now, whatever its
\* status; that it may be a hit itself is not looked at.
Promoted(h) ==
  IF h.md.kind # "chunk" THEN <<h>>
  ELSE IF h.md.parent = None \/ h.md.parent \in parents THEN <<>>
  ELSE IF memory[h.md.parent] = None THEN <<h>> ELSE <<Hit(h.md.parent)>>

Promote ==
  /\ phase = "promote" /\ queue # <<>>
  /\ LET h == Head(queue) IN
     /\ promoted' = promoted \o Promoted(h)
     /\ parents' = IF h.md.kind = "chunk" /\ h.md.parent # None
                        /\ memory[h.md.parent] # None
                     THEN parents \cup {h.md.parent} ELSE parents
  /\ queue' = Tail(queue)
  /\ UNCHANGED <<memory, asked, hits, phase, level, wanted, position, results,
                 used, uses>>

\* rank_hits or rerank_hits, then the slice of top_k.
Rank(order) ==
  /\ phase = "promote" /\ queue = <<>>
  /\ queue' = FirstOf([i \in DOMAIN promoted |-> promoted[order[i]]], TopK)
  /\ phase' = "budget" /\ position' = 0
  /\ UNCHANGED <<memory, asked, hits, level, wanted, parents, promoted, results,
                 used, uses>>

-------------------------------------------------------------------------------
\* The token budget

Tokens(b) == IF b = None THEN 0 ELSE b

\* A body read: inline content, else the S3 object, which may fail to read.
Bodies(m) == IF m.inline THEN {m.full}
             ELSE {IF ok THEN m.full ELSE None : ok \in ContentReads}

Preview(m) == IF m.summary \notin {None, 0} THEN m.summary
              ELSE IF m.inline THEN Min({m.full, PreviewTokens}) ELSE None

\* The body chosen for a hit; summary: whether it is the summary already.
BodyChoices(m) ==
  IF level = "summary" \/ (level = "standard" /\ position >= 2)
    THEN LET b == IF level = "summary" THEN Preview(m) ELSE m.summary IN
         {[body |-> b, hydrated |-> FALSE,
           summary |-> level = "standard" \/ m.summary \notin {None, 0}]}
    ELSE {[body |-> IF f # None THEN f ELSE m.summary,
           hydrated |-> f # None, summary |-> f = None] : f \in Bodies(m)}

Over(tokens) == used + tokens > MaxTokens

\* Wrong on purpose (mutant of Trim): the summary is taken without its size.
TrimStaysHydrated(m, c) ==
  IF Over(Tokens(c.body)) /\ m.summary # None /\ ~c.summary
    THEN [c EXCEPT !.body = m.summary, !.summary = TRUE] ELSE c

\* Budget tight: prefer the summary over full content.
Trim(m, c) ==
  IF Over(Tokens(c.body)) /\ m.summary # None /\ ~c.summary
    THEN [body |-> m.summary, hydrated |-> FALSE, summary |-> TRUE] ELSE c

RecordUse(g) == uses' = [uses EXCEPT ![g] = @ + 1]

\* Wrong on purpose (mutant of Fits): only a body of its own is measured.
FitsAlone(c) == results = <<>> \/ Tokens(c.body) <= MaxTokens

\* The first result is returned whatever its size.
Fits(c) == results = <<>> \/ ~Over(Tokens(c.body))

Result(h, c) == [key |-> h.key, gid |-> h.md.gid, body |-> c.body,
                 hydrated |-> c.hydrated]

Budget ==
  /\ phase = "budget" /\ queue # <<>>
  /\ LET h == Head(queue) IN
     \E choice \in BodyChoices(h.md) : LET c == Trim(h.md, choice) IN
       IF Fits(c)
         THEN /\ results' = Append(results, Result(h, c))
              /\ used' = used + Tokens(c.body)
              /\ IF c.hydrated THEN RecordUse(h.md.gid) ELSE UNCHANGED uses
              /\ queue' = Tail(queue) /\ position' = position + 1
         ELSE queue' = <<>> /\ UNCHANGED <<results, used, uses, position>>
  /\ UNCHANGED <<memory, asked, hits, phase, level, wanted, parents, promoted>>

\* hydrate_keys adds the sizes up again.
EndBudget ==
  /\ phase = "budget" /\ queue = <<>> /\ phase' = "hydrate"
  /\ UNCHANGED <<memory, asked, hits, level, wanted, queue, parents, promoted,
                 position, results, used, uses>>

-------------------------------------------------------------------------------
\* hydrate_keys

\* by_key: of results with the same key, the last.
Slots(k) == {i \in DOMAIN results : results[i].key = k}

\* Wrong on purpose (mutant of Swapped): the body given up is not returned.
SwappedIn(tokens, old) == used + tokens

Swapped(tokens, old) == used + tokens - Tokens(old)

\* The summary given up is not counted as room, although it is returned to it
\* afterwards.  (The exception for a body that already is the full one compares
\* object identities of two responses, which never are the same.)
Affords(tokens, old) == ~Over(tokens)

Hydrate ==
  /\ phase = "hydrate" /\ wanted # <<>>
  /\ LET k == Head(wanted) IN
     IF Slots(k) = {} \/ memory[k] = None THEN UNCHANGED <<results, used, uses>>
     ELSE \E f \in Bodies(memory[k]) : LET i == Max(Slots(k)) IN
            IF f # None /\ Affords(f, results[i].body)
              THEN /\ results' = [results EXCEPT ![i].body = f, ![i].hydrated = TRUE]
                   /\ used' = Swapped(f, results[i].body)
                   /\ RecordUse(results[i].gid)
              ELSE UNCHANGED <<results, used, uses>>
  /\ wanted' = Tail(wanted)
  /\ UNCHANGED <<memory, asked, hits, phase, level, queue, parents, promoted,
                 position>>

Return ==
  /\ phase = "hydrate" /\ wanted = <<>> /\ phase' = "done"
  /\ UNCHANGED <<memory, asked, hits, level, wanted, queue, parents, promoted,
                 position, results, used, uses>>

-------------------------------------------------------------------------------
\* Others retract, supersede, purge or store again, or expiry takes its turn.  A key
\* names its content: what was there is there, is retired, or is gone.  Left out:
\* a document stored after the query for a chunk that was without.
Environment ==
  /\ phase \in {"promote", "budget", "hydrate"}
  /\ \E k \in Key \cap Volatile :
       /\ asked[k] # None
       /\ \E m \in {None, asked[k], [asked[k] EXCEPT !.live = FALSE]} :
            memory' = [memory EXCEPT ![k] = m]
  /\ UNCHANGED <<asked, hits, phase, level, wanted, queue, parents, promoted,
                 position, results, used, uses>>

Init ==
  /\ memory \in Vaults /\ asked = memory /\ hits = <<>> /\ phase = "query"
  /\ level = "summary" /\ wanted = <<>> /\ queue = <<>> /\ parents = {}
  /\ promoted = <<>> /\ position = 0 /\ results = <<>> /\ used = 0
  /\ uses = [g \in Group |-> 0]

Orders(n) == {f \in [1..n -> 1..n] : IsInjective(f)}

Call ==
  \/ /\ phase = "query"
     /\ \E S \in kSubset(Min({RetrieveTopK, Cardinality(Live)}), Live) :
          \E order \in SetToSeqs(S), d \in DetailLevels, hk \in HydrateKeys :
            Query(order, d, hk)
  \/ Promote \/ Budget \/ EndBudget \/ Hydrate \/ Return
  \/ \E order \in Orders(Len(promoted)) : Rank(order)

Next == Call \/ Environment

Spec == Init /\ [][Next]_vars

-------------------------------------------------------------------------------
\* The budget holds after every step, also while bodies are swapped in: only a
\* single first result may exceed it.
BudgetHeld == used <= MaxTokens \/ Len(results) = 1

Total(rs) ==
  LET sum[i \in 0..Len(rs)] == IF i = 0 THEN 0 ELSE sum[i - 1] + Tokens(rs[i].body)
  IN  sum[Len(rs)]

\* What the code calls used is the size of what it returns.
AddsUp == used = Total(results)

\* Collapse survives promotion, ranking and a vault that moves on: apart from
\* documents brought in by a chunk, a result was live when the query ran, no
\* hit of its canonical group outranks it, and it is there once.  A document
\* brought in is there for a hit that is its chunk, and at most twice, the
\* second time as a hit of its own.
ResultsAreCollapsed ==
  \A i \in DOMAIN results : LET k == results[i].key IN
    IF k \notin parents
      THEN /\ asked[k].live /\ Slots(k) = {i}
           /\ \A j \in DOMAIN hits : hits[j].md.gid = results[i].gid =>
                                      ~Outranks(hits[j].md, asked[k])
      ELSE /\ \E j \in DOMAIN hits : hits[j].md.parent = k
           /\ Cardinality(Slots(k)) <=
                IF \E j \in DOMAIN hits : hits[j].key = k THEN 2 ELSE 1

\* The usage signal: this call counts a group as used exactly if it returns a
\* full body of the group; trimming to the summary takes the count back.
UseMeansHydrated ==
  /\ \A i \in DOMAIN results :
       results[i].hydrated => results[i].body = asked[results[i].key].full
  /\ \A g \in Group :
       uses[g] > 0 <=> \E i \in DOMAIN results :
                          results[i].gid = g /\ results[i].hydrated
===============================================================================
