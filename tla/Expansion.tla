------------------------------- MODULE Expansion -------------------------------
(***************************************************************************)
(* expand_cites: from seed keys along supersedes, parent_key, inline       *)
(* references and linked_ids, breadth first, up to a depth, a number of    *)
(* keys and a token budget, while others delete vectors and move the       *)
(* canonical rows that linked_ids are resolved by.                         *)
(*                                                                         *)
(* Abstracted: texts (a preview has a size, the references in it are       *)
(* given); the several row reads of one memory are one step.               *)
(***************************************************************************)
EXTENDS Naturals, SequencesExt, FiniteSetsExt

CONSTANTS
  Key, Cid, None,
  Vaults,       \* what the index may hold when the call begins
  Seeds,        \* sequences of keys callers pass
  Depths,       \* values of depth callers pass
  Caps,         \* values of max_keys callers pass
  MaxTokens,    \* the token budget
  RowFaults     \* whether a row read may fail

\* refs: supersedes, parent_key and inline references, in that order;
\* linked_ids: canonical ids; size: tokens of the preview.
Memory == [refs : Seq(Key), linked_ids : Seq(Cid), size : Nat]

ASSUME ExpansionAssumption ==
  /\ None \notin Key \cup Memory
  /\ Vaults \subseteq [Key -> Memory \cup {None}]
  /\ Seeds \subseteq Seq(Key) \ {<<>>}
  /\ Depths \subseteq Nat /\ Caps \subseteq Nat \ {0} /\ MaxTokens \in Nat
  /\ RowFaults \in BOOLEAN

VARIABLES
  memory,      \* the index now
  latest,      \* memory-index: canonical id -> latest_key or None
  phase,       \* "visit", "refs" or "done"
  seeds, depth, max_keys,      \* the arguments of the call
  frontier,    \* keys still to be visited, with their level
  seen,
  expanded,    \* keys visited, in order
  memories,    \* keys whose memory is returned
  used,        \* tokens of the memories
  truncated,
  holding,     \* key, memory and level whose references are being read
  cited        \* history: the references of each memory, and what the links
               \* of those whose links were read resolved to

args == <<seeds, depth, max_keys>>

vars == <<memory, latest, phase, args, frontier, seen, expanded, memories, used,
          truncated, holding, cited>>

Init ==
  /\ memory \in Vaults /\ latest \in [Cid -> Key \cup {None}] /\ phase = "visit"
  /\ seeds \in Seeds /\ depth \in Depths /\ max_keys \in Caps
  /\ frontier = [i \in DOMAIN seeds |-> [key |-> seeds[i], level |-> 0]]
  /\ seen = {} /\ expanded = <<>> /\ memories = <<>> /\ used = 0
  /\ truncated = FALSE /\ holding = None
  /\ cited = [k \in Key |-> {}]

\* Wrong on purpose (mutant of Pop): pop(), depth first.
PopLast == [entry |-> Last(frontier), rest |-> Front(frontier)]

\* frontier.pop(0)
Pop == [entry |-> Head(frontier), rest |-> Tail(frontier)]

Visiting(key) == phase = "visit" /\ frontier # <<>> /\ key = Pop.entry.key

Skip(key) ==
  /\ Visiting(key) /\ key \in seen
  /\ frontier' = Pop.rest
  /\ UNCHANGED <<memory, latest, phase, args, seen, expanded, memories, used,
                 truncated, holding, cited>>

\* Wrong on purpose (mutant of AtCap): off by one.
BeyondCap == Cardinality(seen) > max_keys

AtCap == Cardinality(seen) >= max_keys

Truncate == truncated' = TRUE /\ phase' = "done"

StopAtCap(key) ==
  /\ Visiting(key) /\ key \notin seen /\ AtCap
  /\ Truncate /\ frontier' = Pop.rest
  /\ UNCHANGED <<memory, latest, args, seen, expanded, memories, used, holding,
                 cited>>

Visit(key) == /\ Visiting(key) /\ key \notin seen /\ ~AtCap
              /\ seen' = seen \cup {key} /\ expanded' = Append(expanded, key)
              /\ frontier' = Pop.rest

Missing(key) ==
  /\ Visit(key) /\ memory[key] = None
  /\ UNCHANGED <<memory, latest, phase, args, memories, used, truncated, holding,
                 cited>>

Over(m) == memories # <<>> /\ used + m.size > MaxTokens

StopAtBudget(key) ==
  /\ Visit(key) /\ memory[key] # None /\ Over(memory[key]) /\ Truncate
  /\ UNCHANGED <<memory, latest, args, memories, used, holding, cited>>

\* The references of a memory at the full depth are not read.
Expand(key) ==
  /\ Visit(key) /\ memory[key] # None /\ ~Over(memory[key])
  /\ memories' = Append(memories, key) /\ used' = used + memory[key].size
  /\ LET lev == Pop.entry.level IN
     IF lev >= depth THEN UNCHANGED <<phase, holding>>
     ELSE /\ phase' = "refs"
          /\ holding' = [key |-> key, md |-> memory[key], level |-> lev]
  /\ cited' = [cited EXCEPT ![key] = Range(memory[key].refs)]
  /\ UNCHANGED <<memory, latest, args, truncated>>

\* _canonical_latest_key: a failed row read is a missing row.
Resolutions(links) ==
  {r \in [DOMAIN links -> Key \cup {None}] :
     \A i \in DOMAIN links : r[i] = latest[links[i]] \/ (RowFaults /\ r[i] = None)}

\* What a memory refers to; a link that does not resolve adds nothing.
Met(md, resolved) == md.refs \o resolved

CiteNeighbors(md, resolved) == Range(Met(md, resolved)) \ {None}

FirstAt(s, k) == Min({i \in DOMAIN s : s[i] = k})

\* The members of S, each once, in the order s has them first.
InOrderOf(s, S) ==
  {t \in [1..Cardinality(S) -> S] :
     /\ Range(t) = S
     /\ \A i, j \in DOMAIN t : i < j => FirstAt(s, t[i]) < FirstAt(s, t[j])}

ReadRefs ==
  /\ phase = "refs"
  /\ \E resolved \in Resolutions(holding.md.linked_ids) :
       LET refs == CiteNeighbors(holding.md, resolved) IN
       /\ \E new \in InOrderOf(Met(holding.md, resolved), refs \ seen) :
            frontier' = frontier \o
              [i \in DOMAIN new |-> [key |-> new[i], level |-> holding.level + 1]]
       /\ cited' = [cited EXCEPT ![holding.key] = @ \cup refs]
  /\ phase' = "visit" /\ holding' = None
  /\ UNCHANGED <<memory, latest, args, seen, expanded, memories, used, truncated>>

Return ==
  /\ phase = "visit" /\ frontier = <<>> /\ phase' = "done"
  /\ UNCHANGED <<memory, latest, args, frontier, seen, expanded, memories, used,
                 truncated, holding, cited>>

\* The worker or a purge deletes a vector; a writer moves a canonical row.
Environment ==
  /\ phase # "done"
  /\ \/ \E k \in Key : memory[k] # None /\ memory' = [memory EXCEPT ![k] = None]
                       /\ UNCHANGED latest
     \/ \E c \in Cid, k \in Key : latest' = [latest EXCEPT ![c] = k]
                                  /\ UNCHANGED memory
  /\ UNCHANGED <<phase, args, frontier, seen, expanded, memories, used, truncated,
                 holding, cited>>

Call == \/ \E key \in Key : \/ Skip(key) \/ StopAtCap(key) \/ Missing(key)
                            \/ StopAtBudget(key) \/ Expand(key)
        \/ ReadRefs \/ Return

Next == Call \/ Environment

Spec == Init /\ [][Next]_vars

-------------------------------------------------------------------------------
\* Whatever the graph, cycles included, and whoever changes it: no key is
\* expanded twice, and neither bound is exceeded (but by a single memory).
WithinBounds ==
  /\ IsInjective(expanded) /\ Len(expanded) <= max_keys
  /\ memories \in InOrderOf(expanded, Range(memories))
  /\ Range(memories) \subseteq Range(expanded)
  /\ used <= MaxTokens \/ Len(memories) = 1

\* Walks of at most n references from a seed, by what the memories cited when
\* they were visited, and where they end.
Walks(n) ==
  {p \in [0..n -> Key] :
     /\ p[0] \in Range(seeds)
     /\ \A i \in 1..n : p[i] = p[i - 1] \/ p[i] \in cited[p[i - 1]]}

Within(n) == {p[n] : p \in Walks(n)}

\* A call that does not report truncation has expanded exactly the keys within
\* its depth, although it looks at every key once, by the first path it met; a
\* call that does report it has expanded nothing else, and left a key out.
ExpandsItsDepth ==
  phase = "done" =>
    IF truncated
      THEN /\ Range(expanded) \subseteq Within(depth)
           /\ \/ Within(depth) \ Range(expanded) # {}
              \/ Last(expanded) \notin Range(memories)
      ELSE Range(expanded) = Within(depth)
===============================================================================
