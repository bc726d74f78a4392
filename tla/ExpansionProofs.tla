---------------------------- MODULE ExpansionProofs ----------------------------
(***************************************************************************)
(* Proofs about one expand_cites call, for every graph, depth, cap and     *)
(* budget, and whatever others delete or move meanwhile.                   *)
(***************************************************************************)
EXTENDS Expansion, TLAPS, FiniteSetTheorems, SequenceTheorems,
        WellFoundedInduction

-------------------------------------------------------------------------------
\* The inductive invariant.

Entry == [key : Key, level : Nat]

ExpansionTypeOK ==
  /\ memory \in [Key -> Memory \cup {None}] /\ latest \in [Cid -> Key \cup {None}]
  /\ phase \in {"visit", "refs", "done"}
  /\ seeds \in Seq(Key) /\ depth \in Nat /\ max_keys \in Nat \ {0}
  /\ frontier \in Seq(Entry) /\ seen \in SUBSET Key
  /\ expanded \in Seq(Key) /\ memories \in Seq(Key)
  /\ used \in Nat /\ truncated \in BOOLEAN /\ cited \in [Key -> SUBSET Key]
  /\ phase = "refs" => holding \in [key : Key, md : Memory, level : Nat]

\* The keys visited are those seen, and the memories are in their order.
VisitedInv ==
  /\ Range(expanded) = seen /\ IsInjective(expanded)
  /\ IsFiniteSet(seen) /\ Len(expanded) = Cardinality(seen)
  /\ Len(expanded) <= max_keys
  /\ \A i \in DOMAIN memories : \E m \in DOMAIN expanded : memories[i] = expanded[m]
  /\ \A i, j \in DOMAIN memories, m, n \in DOMAIN expanded :
       i < j /\ memories[i] = expanded[m] /\ memories[j] = expanded[n] => m < n
  /\ used <= MaxTokens \/ Len(memories) = 1

Awaits(key, level) ==
  \E i \in DOMAIN frontier : frontier[i].key = key /\ frontier[i].level = level

\* Breadth first: d gives the level each key was visited at, no entry of the
\* frontier is of a lower one, and two entries are at most one level apart.
InLayers(d) ==
  /\ \A i \in DOMAIN frontier :
       /\ frontier[i].level <= depth
       /\ \A n \in Nat : n = frontier[i].level => frontier[i].key \in Within(n)
       /\ \A k \in seen : d[k] <= frontier[i].level
  /\ \A i, j \in DOMAIN frontier :
       i < j => /\ frontier[i].level <= frontier[j].level
                /\ frontier[j].level <= frontier[i].level + 1
  /\ \A k \in seen : k \in Within(d[k])

\* The memory whose references are being read is of the deepest level so far.
HeldInv(d) ==
  phase = "refs" =>
    /\ holding.key \in seen /\ d[holding.key] = holding.level
    /\ holding.level < depth /\ cited[holding.key] \subseteq Range(holding.md.refs)
    /\ \A k \in seen : d[k] <= holding.level
    /\ \A i \in DOMAIN frontier : frontier[i].level <= holding.level + 1

\* A key is visited, or will be, at the level its first walk gives it.
Due(d, key, level) == (key \in seen /\ d[key] <= level) \/ Awaits(key, level)

Followed(d) ==
  /\ \A s \in Range(seeds) : Due(d, s, 0)
  /\ \A k \in Key \ seen : cited[k] = {}
  /\ \A k \in seen : d[k] < depth /\ ~(phase = "refs" /\ k = holding.key) =>
       \A c \in cited[k] : Due(d, c, d[k] + 1)

Levels(d) == InLayers(d) /\ HeldInv(d) /\ Followed(d)

LevelInv ==
  phase # "done" => ~truncated /\ \E d \in [Key -> 0..depth] : Levels(d)

ExpansionInv == ExpansionTypeOK /\ VisitedInv /\ LevelInv /\ ExpandsItsDepth
-------------------------------------------------------------------------------
\* Sequences.

LEMMA PopIs ==
  ASSUME NEW S, NEW s \in Seq(S), s # <<>>
  PROVE  /\ Head(s) \in S /\ Head(s) = s[1] /\ 1 \in DOMAIN s
         /\ Tail(s) \in Seq(S)
         /\ \A i \in DOMAIN Tail(s) : i + 1 \in DOMAIN s /\ Tail(s)[i] = s[i + 1]
         /\ \A i \in DOMAIN s : i # 1 => i - 1 \in DOMAIN Tail(s) /\ Tail(s)[i - 1] = s[i]
  OBVIOUS

LEMMA AppendIs ==
  ASSUME NEW S, NEW s \in Seq(S), NEW x \in S
  PROVE  /\ Append(s, x) \in Seq(S) /\ Len(Append(s, x)) = Len(s) + 1
         /\ DOMAIN Append(s, x) = 1..(Len(s) + 1) /\ DOMAIN s = 1..Len(s)
         /\ \A i \in DOMAIN s : Append(s, x)[i] = s[i]
         /\ Append(s, x)[Len(s) + 1] = x
         /\ Range(Append(s, x)) = Range(s) \cup {x}
<1>1. /\ Append(s, x) \in Seq(S) /\ Len(Append(s, x)) = Len(s) + 1
      /\ DOMAIN Append(s, x) = 1..(Len(s) + 1) /\ DOMAIN s = 1..Len(s)
      /\ \A i \in DOMAIN s : Append(s, x)[i] = s[i]
      /\ Append(s, x)[Len(s) + 1] = x
  OBVIOUS
<1>2. Range(Append(s, x)) \subseteq Range(s) \cup {x}
  <2> SUFFICES ASSUME NEW y \in Range(Append(s, x))  PROVE y \in Range(s) \cup {x}
    OBVIOUS
  <2>1. PICK i \in 1..(Len(s) + 1) : y = Append(s, x)[i]  BY <1>1 DEF Range
  <2>2. CASE i = Len(s) + 1  BY <2>1, <2>2, <1>1
  <2>3. CASE i # Len(s) + 1
    <3>1. i \in DOMAIN s  BY <2>3
    <3>2. QED  BY <3>1, <2>1, <1>1 DEF Range
  <2>4. QED  BY <2>2, <2>3
<1>3. Range(s) \cup {x} \subseteq Range(Append(s, x))
  <2>1. Len(s) + 1 \in DOMAIN Append(s, x) /\ DOMAIN s \subseteq DOMAIN Append(s, x)
    BY <1>1
  <2>2. QED  BY <2>1, <1>1 DEF Range
<1>4. QED  BY <1>1, <1>2, <1>3

\* Where a sequence without repetitions has a key first.
LEMMA FirstOfOne ==
  ASSUME NEW s, NEW i \in DOMAIN s, DOMAIN s \subseteq Nat, IsInjective(s)
  PROVE  FirstAt(s, s[i]) = i
<1>1. {j \in DOMAIN s : s[j] = s[i]} = {i}  BY DEF IsInjective
<1>2. \E x \in {i} : \A y \in {i} : x =< y  OBVIOUS
<1>3. QED  BY <1>1, <1>2 DEF FirstAt, Min

\* Of a finite set, an arrangement is a sequence with that range.
LEMMA OrderedIs ==
  ASSUME NEW s, NEW S, IsFiniteSet(S), NEW t \in InOrderOf(s, S)
  PROVE  t \in Seq(S) /\ Range(t) = S
<1>1. Cardinality(S) \in Nat  BY FS_CardinalityType
<1>2. t \in [1..Cardinality(S) -> S] /\ Range(t) = S  BY DEF InOrderOf
<1>3. QED  BY <1>1, <1>2

LEMMA SequencesAreFinite ==
  ASSUME NEW S, NEW s \in Seq(S)
  PROVE  IsFiniteSet(Range(s))
<1>1. IsFiniteSet(1..Len(s))  BY FS_Interval
<1>2. s \in Surjection(1..Len(s), Range(s))
  BY DEF Surjection, Range
<1>3. QED  BY <1>1, <1>2, FS_Surjection
-------------------------------------------------------------------------------
\* Typing.

LEMMA InitInv == Init => ExpansionInv
<1> SUFFICES ASSUME Init PROVE ExpansionInv  OBVIOUS
<1> USE ExpansionAssumption DEF Init, args
<1>1. seeds \in Seq(Key) /\ DOMAIN frontier = DOMAIN seeds  OBVIOUS
<1>2. frontier \in Seq(Entry)
  <2>1. \A i \in DOMAIN seeds : seeds[i] \in Key  BY <1>1
  <2>2. \A i \in 1..Len(seeds) : [key |-> seeds[i], level |-> 0] \in Entry
    BY <2>1 DEF Entry
  <2>3. QED  BY <1>1, <2>2
<1>3. ExpansionTypeOK
  <2>1. memory \in [Key -> Memory \cup {None}] /\ latest \in [Cid -> Key \cup {None}]
    OBVIOUS
  <2>2. depth \in Nat /\ max_keys \in Nat \ {0}  OBVIOUS
  <2>3. cited \in [Key -> SUBSET Key]  OBVIOUS
  <2>4. <<>> \in Seq(Key)  OBVIOUS
  <2>5. QED  BY <1>1, <1>2, <2>1, <2>2, <2>3, <2>4 DEF ExpansionTypeOK
<1>4. VisitedInv
  <2>1. Range(<<>>) = {} /\ IsInjective(<<>>)  BY DEF Range, IsInjective
  <2>2. IsFiniteSet({}) /\ Cardinality({}) = 0  BY FS_EmptySet
  <2>3. QED  BY <2>1, <2>2, <1>1, <1>3 DEF VisitedInv, ExpansionTypeOK
<1>5. LevelInv
  <2> DEFINE d == [k \in Key |-> 0]
  <2>1. depth \in Nat /\ d \in [Key -> 0..depth]  BY <1>3 DEF ExpansionTypeOK
  <2>2. \A i \in DOMAIN frontier : frontier[i].level = 0 /\ frontier[i].key = seeds[i]
    BY <1>1
  <2>3. \A i \in DOMAIN seeds : seeds[i] \in Within(0)
    <3> TAKE i \in DOMAIN seeds
    <3> DEFINE p == [j \in 0..0 |-> seeds[i]]
    <3>1. p \in [0..0 -> Key] /\ p[0] = seeds[i] /\ seeds[i] \in Range(seeds)
      BY <1>1 DEF Range
    <3>2. p \in Walks(0)  BY <3>1 DEF Walks
    <3>3. QED  BY <3>1, <3>2 DEF Within
  <2>4. InLayers(d)  BY <2>1, <2>2, <2>3, <1>1 DEF InLayers
  <2>5. HeldInv(d)  BY DEF HeldInv
  <2>6. \A s \in Range(seeds) : Awaits(s, 0)
    BY <2>2, <1>1 DEF Awaits, Range
  <2>7. Followed(d)  BY <2>6 DEF Followed, Due
  <2>8. QED  BY <2>1, <2>4, <2>5, <2>7 DEF LevelInv, Levels
<1>6. ExpandsItsDepth  BY DEF ExpandsItsDepth
<1>7. QED  BY <1>3, <1>4, <1>5, <1>6 DEF ExpansionInv

LEMMA EntryIs ==
  ASSUME ExpansionTypeOK, NEW key, Visiting(key)
  PROVE  /\ key \in Key /\ Pop.entry \in Entry /\ Pop.entry = frontier[1]
         /\ 1 \in DOMAIN frontier /\ Pop.rest \in Seq(Entry)
         /\ \A i \in DOMAIN Pop.rest : i + 1 \in DOMAIN frontier /\ Pop.rest[i] = frontier[i + 1]
         /\ \A i \in DOMAIN frontier :
              i # 1 => i - 1 \in DOMAIN Pop.rest /\ Pop.rest[i - 1] = frontier[i]
<1>1. frontier \in Seq(Entry) /\ frontier # <<>> /\ key = Pop.entry.key
  BY DEF ExpansionTypeOK, Visiting
<1>2. Pop.entry = Head(frontier) /\ Pop.rest = Tail(frontier)  BY DEF Pop
<1>3. Pop.entry \in Entry  BY <1>1, <1>2, PopIs
<1>4. QED  BY <1>1, <1>2, <1>3, PopIs DEF Entry

LEMMA MemoryIs ==
  ASSUME NEW m \in Memory
  PROVE  /\ m.refs \in Seq(Key) /\ m.linked_ids \in Seq(Cid) /\ m.size \in Nat
         /\ Range(m.refs) \subseteq Key
  BY DEF Memory, Range

LEMMA NeighborsAre ==
  ASSUME ExpansionAssumption, ExpansionTypeOK, NEW md \in Memory,
         NEW resolved \in Resolutions(md.linked_ids)
  PROVE  LET refs == CiteNeighbors(md, resolved) IN
         /\ refs \subseteq Key /\ IsFiniteSet(refs) /\ Range(md.refs) \subseteq refs
         /\ \A S : IsFiniteSet(refs \ S)
<1>1. md.refs \in Seq(Key) /\ Range(md.refs) \subseteq Key /\ md.linked_ids \in Seq(Cid)
  BY MemoryIs
<1>2. resolved \in Seq(Key \cup {None})
  <2>1. resolved \in [DOMAIN md.linked_ids -> Key \cup {None}]  BY DEF Resolutions
  <2>2. QED  BY <2>1, <1>1
<1>3. md.refs \in Seq(Key \cup {None}) /\ None \notin Key
  BY <1>1 DEF ExpansionAssumption
<1>4. Met(md, resolved) \in Seq(Key \cup {None})  BY <1>2, <1>3 DEF Met
<1>5. Range(Met(md, resolved)) = Range(md.refs) \cup Range(resolved)
  BY <1>2, <1>3, RangeConcatenation DEF Met
<1>6. IsFiniteSet(Range(Met(md, resolved)))  BY <1>4, SequencesAreFinite
<1>7. Range(resolved) \subseteq Key \cup {None}  BY <1>2 DEF Range
<1>8. CiteNeighbors(md, resolved) \subseteq Key
      /\ Range(md.refs) \subseteq CiteNeighbors(md, resolved)
  BY <1>1, <1>3, <1>5, <1>7 DEF CiteNeighbors
<1>9. IsFiniteSet(CiteNeighbors(md, resolved))  BY <1>6, FS_RemoveElement DEF CiteNeighbors
<1>10. \A S : CiteNeighbors(md, resolved) \ S \subseteq CiteNeighbors(md, resolved)
  OBVIOUS
<1>11. QED  BY <1>8, <1>9, <1>10, FS_Subset

\* What reading the references adds to the frontier and to the history.
LEMMA ReadRefsIs ==
  ASSUME ExpansionAssumption, ExpansionTypeOK, ReadRefs
  PROVE  \E refs \in SUBSET Key, new \in Seq(Entry) :
           /\ frontier' = frontier \o new
           /\ cited' = [cited EXCEPT ![holding.key] = @ \cup refs]
           /\ Range(holding.md.refs) \subseteq refs
           /\ \A i \in DOMAIN new : new[i].level = holding.level + 1 /\ new[i].key \in refs
           /\ \A c \in refs \ seen : \E i \in DOMAIN new : new[i].key = c
<1>1. holding.key \in Key /\ holding.md \in Memory /\ holding.level \in Nat
  BY DEF ExpansionTypeOK, ReadRefs
<1>2. PICK resolved \in Resolutions(holding.md.linked_ids) :
        LET refs == CiteNeighbors(holding.md, resolved) IN
        /\ \E new \in InOrderOf(Met(holding.md, resolved), refs \ seen) :
             frontier' = frontier \o
               [i \in DOMAIN new |-> [key |-> new[i], level |-> holding.level + 1]]
        /\ cited' = [cited EXCEPT ![holding.key] = @ \cup refs]
  BY DEF ReadRefs
<1> DEFINE refs == CiteNeighbors(holding.md, resolved)
<1>3. /\ refs \subseteq Key /\ Range(holding.md.refs) \subseteq refs
      /\ IsFiniteSet(refs \ seen)
  BY <1>1, NeighborsAre
<1>4. PICK new \in InOrderOf(Met(holding.md, resolved), refs \ seen) :
        frontier' = frontier \o
          [i \in DOMAIN new |-> [key |-> new[i], level |-> holding.level + 1]]
  BY <1>2
<1>5. cited' = [cited EXCEPT ![holding.key] = @ \cup refs]  BY <1>2
<1> HIDE DEF refs
<1>6. new \in Seq(refs \ seen) /\ Range(new) = refs \ seen  BY <1>3, <1>4, OrderedIs
<1> DEFINE entries == [i \in DOMAIN new |-> [key |-> new[i], level |-> holding.level + 1]]
<1>7. \A i \in DOMAIN new : new[i] \in refs /\ new[i] \in Key  BY <1>3, <1>6
<1>8. entries \in Seq(Entry)
  <2>1. \A i \in DOMAIN new : [key |-> new[i], level |-> holding.level + 1] \in Entry
    BY <1>1, <1>7 DEF Entry
  <2>2. DOMAIN new = 1..Len(new) /\ Len(new) \in Nat  BY <1>6
  <2>3. QED  BY <2>1, <2>2
<1>9. \A i \in DOMAIN entries : entries[i].level = holding.level + 1 /\ entries[i].key \in refs
  BY <1>7
<1>10. \A c \in refs \ seen : \E i \in DOMAIN entries : entries[i].key = c
  BY <1>6 DEF Range
<1>11. refs \in SUBSET Key /\ frontier' = frontier \o entries  BY <1>3, <1>4
<1> HIDE DEF entries
<1>12. QED  BY <1>3, <1>5, <1>8, <1>9, <1>10, <1>11

LEMMA TypeKept == ExpansionTypeOK /\ [Next]_vars => ExpansionTypeOK'
<1> SUFFICES ASSUME ExpansionTypeOK, [Next]_vars PROVE ExpansionTypeOK'  OBVIOUS
<1> USE ExpansionAssumption DEF args
<1>1. CASE UNCHANGED vars  BY <1>1 DEF vars, ExpansionTypeOK
<1>2. ASSUME NEW key \in Key, Skip(key) PROVE ExpansionTypeOK'
  <2>1. frontier' \in Seq(Entry)  BY <1>2, EntryIs DEF Skip
  <2>2. QED  BY <1>2, <2>1 DEF Skip, ExpansionTypeOK
<1>3. ASSUME NEW key \in Key, StopAtCap(key) PROVE ExpansionTypeOK'
  <2>1. frontier' \in Seq(Entry)  BY <1>3, EntryIs DEF StopAtCap
  <2>2. QED  BY <1>3, <2>1 DEF StopAtCap, Truncate, ExpansionTypeOK
<1>4. ASSUME NEW key \in Key, Visit(key)
      PROVE  frontier' \in Seq(Entry) /\ seen' \in SUBSET Key /\ expanded' \in Seq(Key)
             /\ phase = "visit"
  BY <1>4, EntryIs, AppendIs DEF Visit, Visiting, ExpansionTypeOK
<1>5. ASSUME NEW key \in Key, Missing(key) PROVE ExpansionTypeOK'
  BY <1>4, <1>5 DEF Missing, ExpansionTypeOK
<1>6. ASSUME NEW key \in Key, StopAtBudget(key) PROVE ExpansionTypeOK'
  BY <1>4, <1>6 DEF StopAtBudget, Truncate, ExpansionTypeOK
<1>7. ASSUME NEW key \in Key, Expand(key) PROVE ExpansionTypeOK'
  <2>1. memory[key] \in Memory  BY <1>7 DEF Expand, ExpansionTypeOK
  <2>2. memories' \in Seq(Key) /\ used' \in Nat
    BY <1>7, <2>1, MemoryIs, AppendIs DEF Expand, ExpansionTypeOK
  <2>3. cited' \in [Key -> SUBSET Key]
    BY <1>7, <2>1, MemoryIs DEF Expand, ExpansionTypeOK
  <2>4. Pop.entry \in Entry  BY <1>7, EntryIs DEF Expand, Visit
  <2>5. phase' \in {"visit", "refs", "done"}
        /\ (phase' = "refs" => holding' \in [key : Key, md : Memory, level : Nat])
    BY <1>4, <1>7, <2>1, <2>4 DEF Expand, Entry
  <2>6. QED  BY <1>4, <1>7, <2>2, <2>3, <2>5 DEF Expand, ExpansionTypeOK
<1>8. CASE ReadRefs
  <2>1. frontier' \in Seq(Entry) /\ cited' \in [Key -> SUBSET Key]
    <3>1. PICK refs \in SUBSET Key, new \in Seq(Entry) :
            /\ frontier' = frontier \o new
            /\ cited' = [cited EXCEPT ![holding.key] = @ \cup refs]
      BY <1>8, ReadRefsIs
    <3>2. frontier' \in Seq(Entry)  BY <3>1 DEF ExpansionTypeOK
    <3>3. cited' \in [Key -> SUBSET Key]  BY <3>1 DEF ExpansionTypeOK
    <3>4. QED  BY <3>2, <3>3
  <2>2. QED  BY <1>8, <2>1 DEF ReadRefs, ExpansionTypeOK
<1>9. CASE Return  BY <1>9 DEF Return, ExpansionTypeOK
<1>10. CASE Environment  BY <1>10 DEF Environment, ExpansionTypeOK
<1>11. QED  BY <1>1, <1>2, <1>3, <1>5, <1>6, <1>7, <1>8, <1>9, <1>10 DEF Next, Call
-------------------------------------------------------------------------------
\* The bounds.

\* A key that is visited is new, and one is still allowed.
LEMMA VisitCounts ==
  ASSUME ExpansionTypeOK, VisitedInv, NEW key \in Key, Visit(key)
  PROVE  /\ Range(expanded') = seen' /\ IsInjective(expanded')
         /\ IsFiniteSet(seen') /\ Len(expanded') = Cardinality(seen')
         /\ Len(expanded') <= max_keys
<1>1. /\ expanded \in Seq(Key) /\ key \notin Range(expanded) /\ max_keys \in Nat
      /\ expanded' = Append(expanded, key) /\ seen' = seen \cup {key}
      /\ Cardinality(seen) \in Nat /\ ~(Cardinality(seen) >= max_keys)
  BY FS_CardinalityType DEF ExpansionTypeOK, VisitedInv, Visit, AtCap
<1>2. Range(expanded') = seen'  BY <1>1, AppendIs DEF VisitedInv
<1>3. IsInjective(expanded')
  <2>1. \A i, j \in DOMAIN expanded' : expanded'[i] = expanded'[j] => i = j
    <3> TAKE i, j \in DOMAIN expanded'
    <3>1. expanded[i] # key  \/ i \notin DOMAIN expanded  BY <1>1 DEF Range
    <3>2. expanded[j] # key  \/ j \notin DOMAIN expanded  BY <1>1 DEF Range
    <3>3. i \in DOMAIN expanded \/ i = Len(expanded) + 1  BY <1>1, AppendIs
    <3>4. j \in DOMAIN expanded \/ j = Len(expanded) + 1  BY <1>1, AppendIs
    <3>5. QED  BY <1>1, <3>1, <3>2, <3>3, <3>4, AppendIs DEF VisitedInv, IsInjective
  <2>2. QED  BY <2>1 DEF IsInjective
<1>4. IsFiniteSet(seen') /\ Cardinality(seen') = Cardinality(seen) + 1
  BY <1>1, FS_AddElement DEF Visit, VisitedInv
<1>5. QED  BY <1>1, <1>2, <1>3, <1>4, AppendIs DEF VisitedInv

LEMMA VisitedKept ==
  ASSUME ExpansionTypeOK, VisitedInv, [Next]_vars
  PROVE  VisitedInv'
<1> USE DEF args
<1>1. CASE UNCHANGED <<seen, expanded, memories, used, max_keys>>
  BY <1>1 DEF VisitedInv
<1>2. ASSUME NEW key \in Key, Visit(key), UNCHANGED <<max_keys, memories, used>>
      PROVE  VisitedInv'
  <2>1. /\ expanded \in Seq(Key) /\ expanded' = Append(expanded, key)
        /\ key \notin Range(expanded)
    BY <1>2 DEF Visit, VisitedInv, ExpansionTypeOK
  <2>2. /\ DOMAIN expanded' = DOMAIN expanded \cup {Len(expanded) + 1}
        /\ \A m \in DOMAIN expanded : expanded'[m] = expanded[m]
        /\ expanded'[Len(expanded) + 1] = key
    BY <2>1, AppendIs
  <2>3. \A i \in DOMAIN memories : memories[i] \in Range(expanded)
    BY DEF VisitedInv, Range
  <2>4. \A i \in DOMAIN memories, m \in DOMAIN expanded' :
          memories[i] = expanded'[m] => m \in DOMAIN expanded
    BY <2>1, <2>2, <2>3
  <2>5. QED  BY <1>2, <2>2, <2>4, VisitCounts DEF VisitedInv
<1>3. ASSUME NEW key \in Key, Expand(key) PROVE VisitedInv'
  <2>1. /\ expanded \in Seq(Key) /\ expanded' = Append(expanded, key)
        /\ memories \in Seq(Key) /\ memories' = Append(memories, key)
        /\ key \notin Range(expanded) /\ max_keys' = max_keys
    BY <1>3 DEF Expand, Visit, VisitedInv, ExpansionTypeOK
  <2> DEFINE last == Len(expanded) + 1  end == Len(memories) + 1
  <2>2. /\ DOMAIN expanded' = DOMAIN expanded \cup {last}
        /\ last \notin DOMAIN expanded /\ \A m \in DOMAIN expanded : m < last
        /\ \A m \in DOMAIN expanded : expanded'[m] = expanded[m]
        /\ expanded'[last] = key
    BY <2>1, AppendIs
  <2>3. /\ DOMAIN memories' = DOMAIN memories \cup {end}
        /\ end \notin DOMAIN memories /\ \A i \in DOMAIN memories : ~(end < i)
        /\ \A i \in DOMAIN memories : memories'[i] = memories[i]
        /\ memories'[end] = key /\ Len(memories') = end
    BY <2>1, AppendIs
  <2>4. \A m \in DOMAIN expanded : expanded[m] # key  BY <2>1 DEF Range
  <2>5. \A i \in DOMAIN memories : memories[i] # key  BY <2>4 DEF VisitedInv
  <2> HIDE DEF last, end
  <2>6. \A i \in DOMAIN memories' : \E m \in DOMAIN expanded' : memories'[i] = expanded'[m]
    BY <2>2, <2>3 DEF VisitedInv
  <2>7. \A i, j \in DOMAIN memories', m, n \in DOMAIN expanded' :
          i < j /\ memories'[i] = expanded'[m] /\ memories'[j] = expanded'[n] => m < n
    <3> SUFFICES ASSUME NEW i \in DOMAIN memories', NEW j \in DOMAIN memories',
                        NEW m \in DOMAIN expanded', NEW n \in DOMAIN expanded',
                        i < j, memories'[i] = expanded'[m], memories'[j] = expanded'[n]
                 PROVE  m < n
      OBVIOUS
    <3>1. CASE j = end
      <4>1. n = last  BY <3>1, <2>2, <2>3, <2>4
      <4>2. i \in DOMAIN memories
        <5>1. ~(end < end)  BY <2>1 DEF end
        <5>2. QED  BY <3>1, <2>3, <5>1
      <4>3. m \in DOMAIN expanded  BY <4>2, <2>2, <2>3, <2>5
      <4>4. QED  BY <4>1, <4>3, <2>2
    <3>2. CASE j # end
      <4>1. j \in DOMAIN memories /\ i \in DOMAIN memories  BY <3>2, <2>3
      <4>2. m \in DOMAIN expanded /\ n \in DOMAIN expanded  BY <4>1, <2>2, <2>3, <2>5
      <4>3. QED  BY <4>1, <4>2, <2>2, <2>3 DEF VisitedInv
    <3>3. QED  BY <3>1, <3>2
  <2>8. used' <= MaxTokens \/ Len(memories') = 1
    <3>1. memory[key] \in Memory /\ used' = used + memory[key].size /\ ~Over(memory[key])
      BY <1>3 DEF Expand, ExpansionTypeOK
    <3>2. memory[key].size \in Nat /\ used \in Nat /\ MaxTokens \in Nat
      BY <3>1, MemoryIs, ExpansionAssumption DEF ExpansionTypeOK
    <3>3. CASE memories = <<>>
      <4>1. Len(memories') = 1  BY <2>3, <3>3 DEF end
      <4>2. QED  BY <4>1
    <3>4. CASE memories # <<>>  BY <3>1, <3>2, <3>4 DEF Over
    <3>5. QED  BY <3>3, <3>4
  <2>9. Visit(key)  BY <1>3 DEF Expand
  <2>10. QED  BY <2>1, <2>6, <2>7, <2>8, <2>9, VisitCounts DEF VisitedInv
<1>4. QED  BY <1>1, <1>2, <1>3
           DEF Next, Call, Skip, StopAtCap, Missing, StopAtBudget, ReadRefs, Return,
               Environment, vars

LEMMA VisitedBounds == ExpansionTypeOK /\ VisitedInv => WithinBounds
<1> SUFFICES ASSUME ExpansionTypeOK, VisitedInv PROVE WithinBounds  OBVIOUS
<1>1. /\ memories \in Seq(Key) /\ expanded \in Seq(Key) /\ IsInjective(expanded)
      /\ DOMAIN memories = 1..Len(memories) /\ Len(memories) \in Nat
      /\ DOMAIN expanded \subseteq Nat
  BY DEF ExpansionTypeOK, VisitedInv
<1>2. \A i, j \in DOMAIN memories : memories[i] = memories[j] => ~(i < j)
  <2> SUFFICES ASSUME NEW i \in DOMAIN memories, NEW j \in DOMAIN memories,
                      memories[i] = memories[j], i < j
               PROVE  FALSE
    OBVIOUS
  <2>1. PICK m \in DOMAIN expanded : memories[i] = expanded[m]  BY DEF VisitedInv
  <2>2. m < m  BY <2>1 DEF VisitedInv
  <2>3. QED  BY <2>2, <1>1
<1>3. memories \in Bijection(1..Len(memories), Range(memories))
  <2>1. \A i, j \in 1..Len(memories) : memories[i] = memories[j] => i = j
    BY <1>1, <1>2
  <2>2. memories \in [1..Len(memories) -> Range(memories)]  BY <1>1 DEF Range
  <2>3. \A t \in Range(memories) : \E i \in 1..Len(memories) : memories[i] = t
    BY <1>1 DEF Range
  <2>4. QED  BY <2>1, <2>2, <2>3 DEF Bijection, Injection, Surjection, IsInjective
<1>4. Cardinality(Range(memories)) = Len(memories)
  BY <1>1, <1>3, FS_CountingElements DEF ExistsBijection
<1>5. \A i, j \in DOMAIN memories :
        i < j => FirstAt(expanded, memories[i]) < FirstAt(expanded, memories[j])
  <2> SUFFICES ASSUME NEW i \in DOMAIN memories, NEW j \in DOMAIN memories, i < j
               PROVE  FirstAt(expanded, memories[i]) < FirstAt(expanded, memories[j])
    OBVIOUS
  <2>1. PICK m \in DOMAIN expanded : memories[i] = expanded[m]  BY DEF VisitedInv
  <2>2. PICK n \in DOMAIN expanded : memories[j] = expanded[n]  BY DEF VisitedInv
  <2>3. m < n  BY <2>1, <2>2 DEF VisitedInv
  <2>4. QED  BY <1>1, <2>1, <2>2, <2>3, FirstOfOne
<1>6. memories \in InOrderOf(expanded, Range(memories))
  <2>1. memories \in [1..Len(memories) -> Range(memories)]
    BY <1>3 DEF Bijection, Injection
  <2>2. QED  BY <2>1, <1>4, <1>5 DEF InOrderOf
<1>7. Range(memories) \subseteq Range(expanded)  BY DEF VisitedInv, Range
<1>8. QED  BY <1>6, <1>7 DEF WithinBounds, VisitedInv
-------------------------------------------------------------------------------
\* Walks.

LEMMA WalksGrow ==
  ASSUME ExpansionTypeOK, seeds' = seeds, NEW n \in Nat,
         \A k \in Key : cited[k] \subseteq cited'[k]
  PROVE  Within(n) \subseteq Within(n)'
<1>1. ASSUME NEW p \in Walks(n) PROVE p \in Walks(n)'
  <2>1. p \in [0..n -> Key] /\ p[0] \in Range(seeds)  BY DEF Walks
  <2>2. \A i \in 1..n : i - 1 \in 0..n /\ i \in 0..n  OBVIOUS
  <2>3. \A i \in 1..n : p[i] = p[i - 1] \/ p[i] \in cited'[p[i - 1]]
    BY <2>1, <2>2 DEF Walks
  <2>4. Range(seeds)' = Range(seeds)  BY DEF Range
  <2>5. QED  BY <2>1, <2>3, <2>4 DEF Walks
<1>2. QED  BY <1>1 DEF Within

LEMMA WithinStep ==
  ASSUME ExpansionTypeOK, NEW n \in Nat, NEW k \in Within(n), NEW c \in cited[k] \cup {k},
         c \in Key
  PROVE  c \in Within(n + 1)
<1>1. PICK p \in Walks(n) : k = p[n]  BY DEF Within
<1>2. p \in [0..n -> Key] /\ p[0] \in Range(seeds)
      /\ \A i \in 1..n : p[i] = p[i - 1] \/ p[i] \in cited[p[i - 1]]
  BY DEF Walks
<1> DEFINE q == [i \in 0..(n + 1) |-> IF i <= n THEN p[i] ELSE c]
<1>3. q \in [0..(n + 1) -> Key] /\ q[0] \in Range(seeds) /\ q[n + 1] = c
  BY <1>2
<1>4. \A i \in 1..(n + 1) : q[i] = q[i - 1] \/ q[i] \in cited[q[i - 1]]
  <2> TAKE i \in 1..(n + 1)
  <2>1. CASE i <= n
    <3>1. i \in 1..n /\ q[i] = p[i] /\ q[i - 1] = p[i - 1]  BY <2>1
    <3>2. QED  BY <3>1, <1>2
  <2>2. CASE i = n + 1
    <3>1. q[i] = c /\ q[i - 1] = k  BY <2>2, <1>1
    <3>2. QED  BY <3>1
  <2>3. QED  BY <2>1, <2>2
<1>5. n + 1 \in Nat /\ q \in Walks(n + 1)  BY <1>3, <1>4 DEF Walks
<1> HIDE DEF q
<1>6. QED  BY <1>3, <1>5 DEF Within

WithinNext ==
  \A n \in Nat, k, c \in Key :
    k \in Within(n) /\ c \in cited[k] => c \in Within(n + 1)

LEMMA WithinSteps == ExpansionTypeOK => WithinNext
  BY WithinStep DEF WithinNext

LEMMA WithinStepsThen == ExpansionTypeOK' => WithinNext'
  BY WithinSteps, PTL

LEMMA WithinLater ==
  ASSUME ExpansionTypeOK, NEW m \in Nat, NEW n \in Nat, m <= n
  PROVE  Within(m) \subseteq Within(n)
<1> SUFFICES ASSUME NEW k \in Within(m) PROVE k \in Within(n)  OBVIOUS
<1>1. PICK p \in Walks(m) : k = p[m]  BY DEF Within
<1>2. p \in [0..m -> Key] /\ p[0] \in Range(seeds)
      /\ \A i \in 1..m : p[i] = p[i - 1] \/ p[i] \in cited[p[i - 1]]
  BY DEF Walks
<1> DEFINE q == [i \in 0..n |-> IF i <= m THEN p[i] ELSE k]
<1>3. q \in [0..n -> Key] /\ q[0] \in Range(seeds) /\ q[n] = k
  BY <1>1, <1>2
<1>4. \A i \in 1..n : q[i] = q[i - 1] \/ q[i] \in cited[q[i - 1]]
  <2> TAKE i \in 1..n
  <2>1. CASE i <= m
    <3>1. i \in 1..m /\ q[i] = p[i] /\ q[i - 1] = p[i - 1]  BY <2>1
    <3>2. QED  BY <3>1, <1>2
  <2>2. CASE ~(i <= m)
    <3>1. q[i] = k /\ q[i - 1] = k  BY <2>2, <1>1
    <3>2. QED  BY <3>1
  <2>3. QED  BY <2>1, <2>2
<1>5. q \in Walks(n)  BY <1>3, <1>4 DEF Walks
<1> HIDE DEF q
<1>6. QED  BY <1>3, <1>5 DEF Within
-------------------------------------------------------------------------------
\* The levels.

\* Taking the first entry off the frontier, its key being visited by then.
LEMMA DueKept ==
  ASSUME ExpansionTypeOK, NEW key, Visiting(key), frontier' = Pop.rest,
         seen' = seen \cup {key}, NEW d \in [Key -> Nat], NEW e \in [Key -> Nat],
         \A k \in seen : e[k] = d[k], e[key] <= Pop.entry.level,
         NEW c, NEW n \in Nat, Due(d, c, n)
  PROVE  Due(e, c, n)'
<1>1. CASE c \in seen /\ d[c] <= n  BY <1>1 DEF Due
<1>2. CASE Awaits(c, n)
  <2>1. PICK i \in DOMAIN frontier : frontier[i].key = c /\ frontier[i].level = n
    BY <1>2 DEF Awaits
  <2>2. CASE i = 1
    <3>1. c = key /\ n = Pop.entry.level  BY <2>1, <2>2, EntryIs DEF Visiting
    <3>2. QED  BY <3>1 DEF Due
  <2>3. CASE i # 1
    <3>1. i - 1 \in DOMAIN frontier' /\ frontier'[i - 1] = frontier[i]
      BY <2>3, EntryIs
    <3>2. QED  BY <2>1, <3>1 DEF Due, Awaits
  <2>4. QED  BY <2>2, <2>3
<1>3. QED  BY <1>1, <1>2 DEF Due

LEMMA PopKeeps ==
  ASSUME ExpansionTypeOK, ExpansionTypeOK', NEW key, Visiting(key),
         frontier' = Pop.rest, seen' = seen \cup {key}, UNCHANGED args,
         NEW d \in [Key -> 0..depth], NEW e \in [Key -> 0..depth], Levels(d),
         \A k \in seen : e[k] = d[k], e[key] <= Pop.entry.level,
         key \in Within(e[key]),
         \A k \in Key : cited[k] \subseteq cited'[k],
         \A k \in Key \ {key} : cited'[k] = cited[k],
         \/ key \in seen /\ cited'[key] = cited[key]
         \/ cited'[key] = {}
         \/ e[key] >= depth
         \/ phase' = "refs" /\ holding'.key = key,
         phase' = "refs" => holding'.key = key
  PROVE  InLayers(e)' /\ Followed(e)'
<1>1. /\ key \in Key /\ Pop.entry = frontier[1] /\ 1 \in DOMAIN frontier
      /\ frontier \in Seq(Entry) /\ frontier' \in Seq(Entry)
      /\ depth \in Nat /\ depth' = depth /\ seeds' = seeds /\ seeds \in Seq(Key)
      /\ \A i \in DOMAIN frontier' : i + 1 \in DOMAIN frontier /\ frontier'[i] = frontier[i + 1]
  BY EntryIs DEF args, ExpansionTypeOK
<1>2. \A i \in DOMAIN frontier : frontier[i].level \in Nat /\ i \in Nat
  <2>1. \A i \in DOMAIN frontier : frontier[i] \in Entry /\ i \in Nat  BY <1>1
  <2>2. QED  BY <2>1 DEF Entry
<1>3. \A n \in Nat : Within(n) \subseteq Within(n)'  BY <1>1, WalksGrow
<1>4. seen \subseteq Key /\ d \in [Key -> Nat] /\ e \in [Key -> Nat] /\ e[key] \in Nat
  BY <1>1 DEF ExpansionTypeOK
<1>5. \A k \in seen' : e[k] \in Nat /\ k \in Within(e[k])'
  BY <1>3, <1>4 DEF Levels, InLayers
<1>6. \A i \in DOMAIN frontier' :
        /\ frontier'[i].level <= depth
        /\ \A n \in Nat : n = frontier'[i].level => frontier'[i].key \in Within(n)'
        /\ \A k \in seen' : e[k] <= frontier'[i].level
  <2> TAKE i \in DOMAIN frontier'
  <2>1. i + 1 \in DOMAIN frontier /\ frontier'[i] = frontier[i + 1] /\ 1 < i + 1
    <3>1. i \in Nat /\ i >= 1  BY <1>1
    <3>2. QED  BY <1>1, <3>1
  <2>2. frontier'[i].level <= depth  BY <2>1 DEF Levels, InLayers
  <2>3. \A n \in Nat : n = frontier'[i].level => frontier'[i].key \in Within(n)'
    <3> TAKE n \in Nat
    <3>1. n = frontier[i + 1].level => frontier[i + 1].key \in Within(n)
      BY <2>1 DEF Levels, InLayers
    <3>2. QED  BY <1>3, <2>1, <3>1
  <2>4. frontier[1].level <= frontier'[i].level  BY <1>1, <2>1 DEF Levels, InLayers
  <2>5. \A k \in seen' : e[k] <= frontier'[i].level
    <3> TAKE k \in seen'
    <3>1. CASE k \in seen  BY <3>1, <2>1 DEF Levels, InLayers
    <3>2. CASE k = key  BY <3>2, <1>1, <1>2, <1>4, <2>1, <2>4
    <3>3. QED  BY <3>1, <3>2
  <2>6. QED  BY <2>2, <2>3, <2>5
<1>7. \A i, j \in DOMAIN frontier' :
        i < j => /\ frontier'[i].level <= frontier'[j].level
                 /\ frontier'[j].level <= frontier'[i].level + 1
  <2> TAKE i, j \in DOMAIN frontier'
  <2>1. i + 1 \in DOMAIN frontier /\ j + 1 \in DOMAIN frontier
        /\ (i < j => i + 1 < j + 1) /\ frontier'[i] = frontier[i + 1]
        /\ frontier'[j] = frontier[j + 1]
    <3>1. i \in Nat /\ j \in Nat  BY <1>1
    <3>2. QED  BY <1>1, <3>1
  <2>2. QED  BY <2>1 DEF Levels, InLayers
<1>8. InLayers(e)'  BY <1>1, <1>5, <1>6, <1>7 DEF InLayers
<1>9. \A c, n : n \in Nat /\ Due(d, c, n) => Due(e, c, n)'
  BY <1>4, DueKept
<1>10. \A s \in Range(seeds)' : Due(e, s, 0)'
  <2>1. Range(seeds)' = Range(seeds)  BY <1>1
  <2>2. QED  BY <1>9, <2>1 DEF Levels, Followed
<1>11. \A k \in Key \ seen' : cited'[k] = {}  BY DEF Levels, Followed
<1>12. \A k \in seen' : e[k] < depth /\ ~(phase' = "refs" /\ k = holding'.key) =>
         \A c \in cited'[k] : Due(e, c, e[k] + 1)'
  <2> SUFFICES ASSUME NEW k \in seen', e[k] < depth,
                      ~(phase' = "refs" /\ k = holding'.key), NEW c \in cited'[k]
               PROVE  Due(e, c, e[k] + 1)'
    OBVIOUS
  <2>1. k \in seen /\ cited'[k] = cited[k]  BY <1>1, <1>4
  <2>2. phase = "visit" /\ d[k] < depth /\ d[k] \in Nat
    BY <1>4, <2>1 DEF Visiting
  <2>3. Due(d, c, d[k] + 1)  BY <2>1, <2>2 DEF Levels, Followed
  <2>4. Due(e, c, d[k] + 1)'  BY <1>9, <2>2, <2>3
  <2>5. d[k] = e[k]  BY <2>1
  <2>6. QED  BY <2>4, <2>5
<1>13. Followed(e)'  BY <1>1, <1>10, <1>11, <1>12 DEF Followed
<1>14. QED  BY <1>8, <1>13

LEMMA SkipKeeps ==
  ASSUME ExpansionInv, ExpansionTypeOK', NEW key, Skip(key)
  PROVE  LevelInv'
<1>1. Visiting(key) /\ key \in seen /\ phase # "done" /\ ExpansionTypeOK
      /\ frontier' = Pop.rest /\ UNCHANGED <<args, phase, seen, cited, truncated, holding>>
  BY DEF Skip, Visiting, ExpansionInv
<1>2. PICK d \in [Key -> 0..depth] : Levels(d)  BY <1>1 DEF ExpansionInv, LevelInv
<1>3. d[key] <= Pop.entry.level /\ key \in Within(d[key])
  BY <1>1, <1>2, EntryIs DEF Levels, InLayers
<1>4. seen' = seen \cup {key} /\ phase' # "refs"  BY <1>1 DEF Visiting
<1>5. InLayers(d)' /\ Followed(d)'  BY <1>1, <1>2, <1>3, <1>4, PopKeeps
<1>6. HeldInv(d)'  BY <1>4 DEF HeldInv
<1>7. d \in [Key -> 0..depth']  BY <1>1 DEF args
<1>8. ~truncated'  BY <1>1 DEF ExpansionInv, LevelInv
<1>9. QED  BY <1>5, <1>6, <1>7, <1>8 DEF LevelInv, Levels

\* A key visited: its level is that of the entry, and it cites what it refers to
\* or, if no memory is there, nothing.
LEMMA VisitKeeps ==
  ASSUME ExpansionInv, ExpansionTypeOK', NEW key, Visit(key), UNCHANGED <<args, truncated>>,
         \A k \in Key \ {key} : cited'[k] = cited[k],
         \/ cited'[key] = {}
         \/ Pop.entry.level >= depth /\ phase' # "refs"
         \/ phase' = "refs" /\ holding'.key = key,
         phase' = "refs" =>
           /\ holding'.key = key /\ holding'.level = Pop.entry.level
           /\ Pop.entry.level < depth /\ cited'[key] \subseteq Range(holding'.md.refs)
  PROVE  LevelInv'
<1>1. /\ Visiting(key) /\ key \notin seen /\ phase # "done" /\ ExpansionTypeOK
      /\ frontier' = Pop.rest /\ seen' = seen \cup {key}
  BY DEF Visit, Visiting, ExpansionInv
<1>2. PICK d \in [Key -> 0..depth] : Levels(d)  BY <1>1 DEF ExpansionInv, LevelInv
<1>3. /\ key \in Key /\ Pop.entry \in Entry /\ Pop.entry = frontier[1]
      /\ 1 \in DOMAIN frontier /\ Pop.entry.key = key
  BY <1>1, EntryIs DEF Visiting
<1>4. PICK lev \in Nat : lev = Pop.entry.level  BY <1>3 DEF Entry
<1>5. lev \in 0..depth /\ key \in Within(lev) /\ \A k \in seen : d[k] <= lev
  BY <1>1, <1>2, <1>3, <1>4 DEF Levels, InLayers, ExpansionTypeOK
<1>6. PICK e \in [Key -> 0..depth] : e = [d EXCEPT ![key] = lev]  BY <1>2, <1>5
<1>7. e[key] = lev /\ \A k \in seen : e[k] = d[k]
  BY <1>1, <1>3, <1>6 DEF ExpansionTypeOK
<1>8. cited[key] = {} /\ \A k \in Key : cited[k] \subseteq cited'[k]
  BY <1>1, <1>2, <1>3 DEF Levels, Followed
<1>9. InLayers(e)' /\ Followed(e)'
  <2>1. e[key] <= Pop.entry.level /\ key \in Within(e[key])
    BY <1>4, <1>5, <1>7
  <2>2. \/ cited'[key] = {}
        \/ e[key] >= depth
        \/ phase' = "refs" /\ holding'.key = key
    BY <1>4, <1>7
  <2>3. QED  BY <1>1, <1>2, <1>7, <1>8, <2>1, <2>2, PopKeeps
<1>10. HeldInv(e)'
  <2> SUFFICES ASSUME phase' = "refs"  PROVE HeldInv(e)'  BY DEF HeldInv
  <2>1. /\ holding'.key = key /\ holding'.level = lev /\ lev < depth /\ depth' = depth
        /\ cited'[holding'.key] \subseteq Range(holding'.md.refs)
    BY <1>4 DEF args
  <2>2. Range(holding'.md.refs) = Range(holding.md.refs)'  OBVIOUS
  <2>3. \A k \in seen' : e[k] <= lev  BY <1>1, <1>5, <1>7
  <2>4. \A i \in DOMAIN frontier' : frontier'[i].level <= lev + 1
    <3> TAKE i \in DOMAIN frontier'
    <3>1. i + 1 \in DOMAIN frontier /\ frontier'[i] = frontier[i + 1]
      BY <1>1, EntryIs
    <3>2. 1 < i + 1
      <4>1. frontier' \in Seq(Entry)  BY DEF ExpansionTypeOK
      <4>2. i \in Nat /\ i >= 1  BY <4>1
      <4>3. QED  BY <4>2
    <3>3. QED  BY <1>2, <1>3, <1>4, <3>1, <3>2 DEF Levels, InLayers
  <2>5. QED  BY <1>1, <1>7, <2>1, <2>2, <2>3, <2>4 DEF HeldInv
<1>11. e \in [Key -> 0..depth']  BY DEF args
<1>12. ~truncated'  BY <1>1 DEF ExpansionInv, LevelInv
<1>13. QED  BY <1>9, <1>10, <1>11, <1>12 DEF LevelInv, Levels

LEMMA ExpandKeeps ==
  ASSUME ExpansionInv, ExpansionTypeOK', NEW key \in Key, Missing(key) \/ Expand(key)
  PROVE  LevelInv'
<1>1. ExpansionTypeOK /\ cited \in [Key -> SUBSET Key]
  BY DEF ExpansionInv, ExpansionTypeOK
<1>2. CASE Missing(key)
  <2>1. /\ Visit(key) /\ phase = "visit" /\ key \notin seen
        /\ UNCHANGED <<args, truncated, cited, phase>>
    BY <1>2 DEF Missing, Visit, Visiting
  <2>2. cited[key] = {}
    <3>1. PICK d \in [Key -> 0..depth] : Levels(d)
      BY <2>1 DEF ExpansionInv, LevelInv
    <3>2. QED  BY <2>1, <3>1 DEF Levels, Followed
  <2>3. phase' # "refs" /\ cited'[key] = {} /\ \A k \in Key \ {key} : cited'[k] = cited[k]
    BY <2>1, <2>2
  <2>4. QED  BY <2>1, <2>3, VisitKeeps
<1>3. CASE Expand(key)
  <2>1. Visit(key) /\ phase = "visit" /\ UNCHANGED <<args, truncated>>
    BY <1>3 DEF Expand, Visit, Visiting
  <2>2. cited' = [cited EXCEPT ![key] = Range(memory[key].refs)]  BY <1>3 DEF Expand
  <2>3. \A k \in Key \ {key} : cited'[k] = cited[k]  BY <1>1, <2>2
  <2>4. cited'[key] = Range(memory[key].refs)  BY <1>1, <2>2
  <2>5. CASE Pop.entry.level >= depth
    <3>1. phase' # "refs"  BY <1>3, <2>1, <2>5 DEF Expand
    <3>2. QED  BY <2>1, <2>3, <2>5, <3>1, VisitKeeps
  <2>6. CASE ~(Pop.entry.level >= depth)
    <3>1. phase' = "refs"
          /\ holding' = [key |-> key, md |-> memory[key], level |-> Pop.entry.level]
      BY <1>3, <2>6 DEF Expand
    <3>2. Pop.entry.level < depth
      <4>1. Pop.entry.level \in Nat /\ depth \in Nat
        BY <1>1, <2>1, EntryIs DEF Visit, Entry, ExpansionTypeOK
      <4>2. QED  BY <4>1, <2>6
    <3>3. /\ holding'.key = key /\ holding'.level = Pop.entry.level
          /\ cited'[key] \subseteq Range(holding'.md.refs)
      BY <2>4, <3>1
    <3>4. QED  BY <2>1, <2>3, <3>1, <3>2, <3>3, VisitKeeps
  <2>7. QED  BY <2>5, <2>6
<1>4. QED  BY <1>2, <1>3

\* Others change the index and the rows, which the call keeps nothing of.
LEMMA EnvironmentKeeps ==
  ASSUME ExpansionInv, UNCHANGED <<phase, args, frontier, seen, expanded, memories,
                                   truncated, holding, cited>>
  PROVE  LevelInv' /\ ExpandsItsDepth'
<1>1. ASSUME NEW n PROVE Within(n)' = Within(n)
  BY DEF Within, Walks, args
<1>2. LevelInv'
  <2> SUFFICES ASSUME phase # "done"  PROVE LevelInv'  BY DEF LevelInv
  <2>1. PICK d \in [Key -> 0..depth] : Levels(d)  BY DEF ExpansionInv, LevelInv
  <2>2. InLayers(d)'  BY <1>1, <2>1 DEF Levels, InLayers, args
  <2>3. HeldInv(d)'  BY <2>1 DEF Levels, HeldInv, args
  <2>4. Followed(d)'  BY <2>1 DEF Levels, Followed, Due, Awaits, args
  <2>5. d \in [Key -> 0..depth'] /\ ~truncated'  BY DEF args, ExpansionInv, LevelInv
  <2>6. QED  BY <2>2, <2>3, <2>4, <2>5 DEF LevelInv, Levels
<1>3. ExpandsItsDepth'
  BY DEF ExpansionInv, ExpandsItsDepth, Within, Walks, args
<1>4. QED  BY <1>2, <1>3

LEMMA ReadRefsKeeps ==
  ASSUME ExpansionInv, ExpansionTypeOK', ReadRefs
  PROVE  LevelInv'
<1>1. /\ phase = "refs" /\ phase' = "visit" /\ ExpansionTypeOK /\ holding.key \in Key
      /\ holding.md \in Memory /\ holding.level \in Nat /\ depth \in Nat
      /\ frontier \in Seq(Entry) /\ seen \subseteq Key /\ cited \in [Key -> SUBSET Key]
      /\ UNCHANGED <<args, seen, truncated>> /\ seeds \in Seq(Key)
  BY DEF ReadRefs, ExpansionInv, ExpansionTypeOK
<1>2. PICK d \in [Key -> 0..depth] : Levels(d)  BY <1>1 DEF ExpansionInv, LevelInv
<1>3. PICK refs \in SUBSET Key, new \in Seq(Entry) :
        /\ frontier' = frontier \o new
        /\ cited' = [cited EXCEPT ![holding.key] = @ \cup refs]
        /\ Range(holding.md.refs) \subseteq refs
        /\ \A i \in DOMAIN new : new[i].level = holding.level + 1 /\ new[i].key \in refs
        /\ \A c \in refs \ seen : \E i \in DOMAIN new : new[i].key = c
  BY <1>1, ReadRefsIs, ExpansionAssumption
<1> DEFINE len == Len(frontier)
<1>4. /\ len \in Nat /\ DOMAIN frontier = 1..len /\ DOMAIN frontier' = 1..(len + Len(new))
      /\ DOMAIN new = 1..Len(new) /\ Len(new) \in Nat
      /\ \A i \in DOMAIN frontier : i \in DOMAIN frontier' /\ frontier'[i] = frontier[i]
      /\ \A i \in DOMAIN new : len + i \in DOMAIN frontier' /\ frontier'[len + i] = new[i]
      /\ \A i \in DOMAIN frontier' \ DOMAIN frontier :
           i - len \in DOMAIN new /\ frontier'[i] = new[i - len]
  <2>1. frontier' = frontier \o new  BY <1>3
  <2>2. frontier \in Seq(Entry) /\ new \in Seq(Entry)  BY <1>1
  <2>3. QED  BY <2>1, <2>2
<1>5. \A i \in DOMAIN frontier' \ DOMAIN frontier :
        /\ frontier'[i].level = holding.level + 1 /\ frontier'[i].key \in refs
        /\ i > len
  BY <1>3, <1>4
<1>6. \A i \in DOMAIN frontier :
        frontier[i].level \in Nat /\ frontier[i].level <= holding.level + 1
  <2>1. \A i \in DOMAIN frontier : frontier[i] \in Entry  BY <1>1
  <2>2. QED  BY <1>1, <1>2, <2>1 DEF Levels, HeldInv, Entry
<1>7. /\ holding.key \in seen /\ d[holding.key] = holding.level /\ holding.level < depth
      /\ cited[holding.key] \subseteq refs /\ \A k \in seen : d[k] <= holding.level
  BY <1>1, <1>2, <1>3 DEF Levels, HeldInv
<1> DEFINE next == holding.level + 1
<1>8. PICK above \in Nat : above = next  BY <1>1
<1>9. \A k \in Key : cited[k] \subseteq cited'[k]
  BY <1>1, <1>3
<1>10. /\ cited'[holding.key] = refs
       /\ \A k \in Key : k # holding.key => cited'[k] = cited[k]
  BY <1>1, <1>3, <1>7
<1>11. \A n \in Nat : Within(n) \subseteq Within(n)'  BY <1>1, <1>9, WalksGrow DEF args
<1>12. \A c \in refs : c \in Within(above)'
  <2> TAKE c \in refs
  <2>1. PICK h \in Key, lev \in Nat : h = holding.key /\ lev = holding.level
    BY <1>1
  <2>2. h \in Within(lev)' /\ h \in Key
    <3>1. d[h] = lev /\ h \in Within(d[h])  BY <1>2, <1>7, <2>1 DEF Levels, InLayers
    <3>2. QED  BY <1>11, <3>1
  <2>3. c \in cited'[h] /\ c \in Key  BY <1>3, <1>10, <2>1
  <2>4. c \in Within(lev + 1)'  BY <2>1, <2>2, <2>3, WithinStepsThen DEF WithinNext
  <2>5. above = lev + 1  BY <1>8, <2>1
  <2>6. QED  BY <2>4, <2>5
<1>13. \A i \in DOMAIN frontier' :
         /\ frontier'[i].level <= depth
         /\ \A n \in Nat : n = frontier'[i].level => frontier'[i].key \in Within(n)'
         /\ \A k \in seen : d[k] <= frontier'[i].level
  <2> TAKE i \in DOMAIN frontier'
  <2>1. CASE i \in DOMAIN frontier
    <3>1. frontier'[i] = frontier[i]  BY <2>1, <1>4
    <3>2. QED  BY <2>1, <3>1, <1>2, <1>11 DEF Levels, InLayers
  <2>2. CASE i \notin DOMAIN frontier
    <3>1. frontier'[i].level = above /\ frontier'[i].key \in refs  BY <2>2, <1>5, <1>8
    <3>2. above <= depth /\ \A k \in seen : d[k] <= above
      <4>1. \A k \in seen : d[k] \in Nat  BY <1>1
      <4>2. QED  BY <4>1, <1>1, <1>7, <1>8
    <3>3. QED  BY <3>1, <3>2, <1>12
  <2>3. QED  BY <2>1, <2>2
<1>14. \A i, j \in DOMAIN frontier' :
         i < j => /\ frontier'[i].level <= frontier'[j].level
                  /\ frontier'[j].level <= frontier'[i].level + 1
  <2> SUFFICES ASSUME NEW i \in DOMAIN frontier', NEW j \in DOMAIN frontier', i < j
               PROVE  /\ frontier'[i].level <= frontier'[j].level
                      /\ frontier'[j].level <= frontier'[i].level + 1
    OBVIOUS
  <2>1. CASE j \in DOMAIN frontier
    <3>1. i \in DOMAIN frontier  BY <2>1, <1>4
    <3>2. frontier'[i] = frontier[i] /\ frontier'[j] = frontier[j]  BY <2>1, <3>1, <1>4
    <3>3. QED  BY <2>1, <3>1, <3>2, <1>2 DEF Levels, InLayers
  <2>2. CASE j \notin DOMAIN frontier
    <3>1. frontier'[j].level = above  BY <2>2, <1>5, <1>8
    <3>2. CASE i \in DOMAIN frontier
      <4>1. frontier'[i] = frontier[i] /\ frontier[i].level \in Nat
            /\ frontier[i].level <= above
        BY <3>2, <1>4, <1>6, <1>8
      <4>2. holding.level <= frontier[i].level
        <5>1. d[holding.key] <= frontier[i].level
          BY <3>2, <1>2, <1>7 DEF Levels, InLayers
        <5>2. QED  BY <5>1, <1>7
      <4>3. QED  BY <3>1, <4>1, <4>2, <1>1, <1>8
    <3>3. CASE i \notin DOMAIN frontier
      <4>1. frontier'[i].level = above  BY <3>3, <1>5, <1>8
      <4>2. QED  BY <3>1, <4>1
    <3>4. QED  BY <3>2, <3>3
  <2>3. QED  BY <2>1, <2>2
<1>15. \A k \in seen : k \in Within(d[k])'
  <2> TAKE k \in seen
  <2>1. d[k] \in Nat /\ k \in Within(d[k])  BY <1>1, <1>2 DEF Levels, InLayers
  <2>2. QED  BY <2>1, <1>11
<1>16. InLayers(d)'  BY <1>1, <1>13, <1>14, <1>15 DEF InLayers, args
<1>17. \A c, n : Due(d, c, n) => Due(d, c, n)'
  BY <1>1, <1>4 DEF Due, Awaits
<1>18. \A c \in refs : Due(d, c, above)'
  <2> TAKE c \in refs
  <2>1. CASE c \in seen
    <3>1. d[c] <= above
      <4>1. d[c] \in Nat /\ d[c] <= holding.level  BY <2>1, <1>1, <1>7
      <4>2. QED  BY <4>1, <1>1, <1>8
    <3>2. QED  BY <2>1, <3>1, <1>1 DEF Due
  <2>2. CASE c \notin seen
    <3>1. PICK i \in DOMAIN new : new[i].key = c  BY <2>2, <1>3
    <3>2. len + i \in DOMAIN frontier' /\ frontier'[len + i] = new[i]
          /\ new[i].level = above
      BY <3>1, <1>3, <1>4, <1>8
    <3>3. Awaits(c, above)'  BY <3>1, <3>2 DEF Awaits
    <3>4. QED  BY <3>3 DEF Due
  <2>3. QED  BY <2>1, <2>2
<1>19. Followed(d)'
  <2>1. \A s \in Range(seeds)' : Due(d, s, 0)'
    <3>1. Range(seeds)' = Range(seeds)  BY <1>1 DEF args
    <3>2. QED  BY <3>1, <1>2, <1>17 DEF Levels, Followed
  <2>2. \A k \in Key \ seen' : cited'[k] = {}
    BY <1>1, <1>2, <1>7, <1>10 DEF Levels, Followed
  <2>3. \A k \in seen' : d[k] < depth' =>
          \A c \in cited'[k] : Due(d, c, d[k] + 1)'
    <3> SUFFICES ASSUME NEW k \in seen, d[k] < depth, NEW c \in cited'[k]
                 PROVE  Due(d, c, d[k] + 1)'
      BY <1>1 DEF args
    <3>1. CASE k = holding.key
      <4>1. above = d[k] + 1 /\ c \in refs  BY <3>1, <1>7, <1>8, <1>10
      <4>2. QED  BY <4>1, <1>18
    <3>2. CASE k # holding.key
      <4>1. c \in cited[k]  BY <3>2, <1>1, <1>10
      <4>2. Due(d, c, d[k] + 1)  BY <3>2, <4>1, <1>2 DEF Levels, Followed
      <4>3. QED  BY <4>2, <1>17
    <3>3. QED  BY <3>1, <3>2
  <2>4. QED  BY <2>1, <2>2, <2>3 DEF Followed
<1>20. HeldInv(d)'  BY <1>1 DEF HeldInv
<1>21. d \in [Key -> 0..depth'] /\ ~truncated'
  BY <1>1 DEF args, ExpansionInv, LevelInv
<1>22. QED  BY <1>16, <1>19, <1>20, <1>21 DEF LevelInv, Levels
-------------------------------------------------------------------------------
\* The ends of a call.

LEMMA SeenIsWithin ==
  ASSUME ExpansionInv, phase # "done"
  PROVE  /\ seen \subseteq Within(depth) /\ ~truncated
         /\ \A key : Visiting(key) => key \in Within(depth)
<1>1. ExpansionTypeOK /\ depth \in Nat /\ seen \subseteq Key /\ ~truncated
  BY DEF ExpansionInv, ExpansionTypeOK, LevelInv
<1>2. PICK d \in [Key -> 0..depth] : Levels(d)  BY DEF ExpansionInv, LevelInv
<1>3. ASSUME NEW k \in seen PROVE k \in Within(depth)
  <2>1. d[k] \in Nat /\ d[k] <= depth /\ k \in Within(d[k])
    BY <1>1, <1>2 DEF Levels, InLayers
  <2>2. QED  BY <1>1, <2>1, WithinLater
<1>4. ASSUME NEW key, Visiting(key) PROVE key \in Within(depth)
  <2>1. Pop.entry = frontier[1] /\ 1 \in DOMAIN frontier /\ Pop.entry \in Entry
        /\ Pop.entry.key = key
    BY <1>1, <1>4, EntryIs DEF Visiting
  <2>2. PICK n \in Nat : n = frontier[1].level  BY <2>1 DEF Entry
  <2>3. n <= depth /\ key \in Within(n)  BY <1>2, <2>1, <2>2 DEF Levels, InLayers
  <2>4. QED  BY <1>1, <2>3, WithinLater
<1>5. QED  BY <1>1, <1>3, <1>4

\* With the frontier empty, every walk has been followed to its end.
LEMMA WalksAreFollowed ==
  ASSUME ExpansionInv, phase = "visit", frontier = <<>>
  PROVE  Within(depth) \subseteq seen
<1>1. depth \in Nat /\ seen \subseteq Key /\ seeds \in Seq(Key)
      /\ cited \in [Key -> SUBSET Key]
  BY DEF ExpansionInv, ExpansionTypeOK
<1>2. PICK d \in [Key -> 0..depth] : Levels(d)  BY DEF ExpansionInv, LevelInv
<1>3. \A c, n : Due(d, c, n) => c \in seen /\ d[c] <= n
  BY DEF Due, Awaits
<1> SUFFICES ASSUME NEW p \in Walks(depth)  PROVE p[depth] \in seen
  BY DEF Within
<1>4. p \in [0..depth -> Key] /\ p[0] \in Range(seeds)
      /\ \A i \in 1..depth : p[i] = p[i - 1] \/ p[i] \in cited[p[i - 1]]
  BY DEF Walks
<1> DEFINE Reached(i) == p[i] \in seen /\ d[p[i]] <= i
           Bad == {i \in 0..depth : ~Reached(i)}
<1>5. Reached(0)  BY <1>2, <1>3, <1>4 DEF Levels, Followed
<1>6. ASSUME NEW i \in 1..depth, Reached(i - 1) PROVE Reached(i)
  <2>1. i - 1 \in 0..depth /\ p[i - 1] \in seen /\ d[p[i - 1]] \in Nat
        /\ d[p[i - 1]] <= i - 1
    BY <1>1, <1>6
  <2>2. CASE p[i] = p[i - 1]  BY <2>1, <2>2
  <2>3. CASE p[i] \in cited[p[i - 1]]
    <3>1. d[p[i - 1]] < depth  BY <2>1, <1>1
    <3>2. Due(d, p[i], d[p[i - 1]] + 1)
      BY <1>2, <2>1, <2>3, <3>1 DEF Levels, Followed
    <3>3. p[i] \in seen /\ d[p[i]] <= d[p[i - 1]] + 1  BY <1>3, <3>2
    <3>4. d[p[i]] \in Nat  BY <1>1, <3>3
    <3>5. QED  BY <2>1, <3>3, <3>4
  <2>4. QED  BY <1>4, <2>2, <2>3
<1> HIDE DEF Reached
<1>7. Bad = {}
  <2> SUFFICES ASSUME Bad # {}  PROVE FALSE  OBVIOUS
  <2>1. PICK m \in Bad : \A c \in Bad : ~(c < m)
    <3>1. Bad \in SUBSET Nat /\ Bad # {}  OBVIOUS
    <3> HIDE DEF Bad
    <3>2. PICK m \in Bad : \A c \in Bad : ~(<<c, m>> \in OpToRel(<, Nat))
      BY <3>1, NatLessThanWellFounded, WFMin
    <3>3. \A c \in Bad : ~(c < m)  BY <3>1, <3>2 DEF OpToRel
    <3>4. QED  BY <3>3
  <2>2. m # 0 /\ m \in 0..depth /\ ~Reached(m)  BY <1>5
  <2>3. m \in 1..depth /\ m - 1 \in 0..depth /\ m - 1 < m  BY <1>1, <2>2
  <2>4. Reached(m - 1)  BY <2>1, <2>3
  <2>5. QED  BY <1>6, <2>2, <2>3, <2>4
<1>8. Reached(depth)  BY <1>1, <1>7
<1>9. QED  BY <1>8 DEF Reached

LEMMA EndsKeep ==
  ASSUME ExpansionInv, NEW key, StopAtCap(key) \/ StopAtBudget(key) \/ Return
  PROVE  LevelInv' /\ ExpandsItsDepth'
<1>1. phase # "done" /\ phase' = "done" /\ UNCHANGED <<args, cited>>
  BY DEF StopAtCap, StopAtBudget, Return, Truncate, Visit, Visiting
<1>2. LevelInv'  BY <1>1 DEF LevelInv
<1>3. Within(depth)' = Within(depth)  BY <1>1 DEF Within, Walks, args
<1>4. seen \subseteq Within(depth) /\ Range(expanded) = seen /\ ~truncated
      /\ expanded \in Seq(Key) /\ memories \in Seq(Key)
  BY <1>1, SeenIsWithin DEF ExpansionInv, VisitedInv, ExpansionTypeOK
<1>5. CASE StopAtCap(key)
  <2>1. key \in Within(depth) /\ key \notin seen /\ truncated' /\ expanded' = expanded
    BY <1>1, <1>5, SeenIsWithin DEF StopAtCap, Truncate
  <2>2. Range(expanded)' = Range(expanded)  BY <2>1
  <2>3. QED  BY <1>2, <1>3, <1>4, <2>1, <2>2 DEF ExpandsItsDepth
<1>6. CASE StopAtBudget(key)
  <2>1. /\ key \in Within(depth) /\ key \notin seen /\ truncated'
        /\ expanded' = Append(expanded, key) /\ memories' = memories
    BY <1>1, <1>6, SeenIsWithin DEF StopAtBudget, Visit, Truncate
  <2>2. Range(expanded') = seen \cup {key} /\ Last(expanded') = key
    <3>1. key \in Key  BY <1>6, EntryIs DEF StopAtBudget, Visit, ExpansionInv
    <3>2. QED  BY <1>4, <2>1, <3>1, AppendIs DEF Last
  <2>3. key \notin Range(memories)
    BY <1>4, <2>1 DEF ExpansionInv, VisitedInv, Range
  <2>4. Range(expanded)' = Range(expanded') /\ Last(expanded)' = Last(expanded')
        /\ Range(memories)' = Range(memories)
    BY <2>1
  <2>5. QED  BY <1>2, <1>3, <1>4, <2>1, <2>2, <2>3, <2>4 DEF ExpandsItsDepth
<1>7. CASE Return
  <2>1. Within(depth) \subseteq seen /\ expanded' = expanded /\ truncated' = truncated
    BY <1>7, WalksAreFollowed DEF Return
  <2>2. Range(expanded)' = Range(expanded)  BY <2>1
  <2>3. seen = Within(depth) /\ ~truncated'  BY <1>4, <2>1
  <2>4. QED  BY <1>2, <1>3, <1>4, <2>2, <2>3 DEF ExpandsItsDepth
<1>8. QED  BY <1>5, <1>6, <1>7

LEMMA ExpansionStep == ExpansionInv /\ [Next]_vars => ExpansionInv'
<1> SUFFICES ASSUME ExpansionInv, [Next]_vars PROVE ExpansionInv'  OBVIOUS
<1>1. ExpansionTypeOK' /\ VisitedInv'
  BY TypeKept, VisitedKept DEF ExpansionInv
<1>2. CASE Environment \/ UNCHANGED vars
  BY <1>1, <1>2, EnvironmentKeeps DEF Environment, vars, ExpansionInv
<1>3. ASSUME phase # "done", LevelInv', phase' # "done" PROVE ExpandsItsDepth'
  BY <1>3 DEF ExpandsItsDepth
<1>4. ASSUME NEW key \in Key, Skip(key) PROVE ExpansionInv'
  BY <1>1, <1>3, <1>4, SkipKeeps DEF Skip, Visiting, ExpansionInv
<1>5. ASSUME NEW key \in Key, Missing(key) \/ Expand(key) PROVE ExpansionInv'
  <2>1. LevelInv'  BY <1>1, <1>5, ExpandKeeps
  <2>2. phase # "done" /\ phase' # "done"
    BY <1>5 DEF Missing, Expand, Visit, Visiting
  <2>3. QED  BY <1>1, <1>3, <2>1, <2>2 DEF ExpansionInv
<1>6. ASSUME NEW key \in Key, StopAtCap(key) \/ StopAtBudget(key) PROVE ExpansionInv'
  BY <1>1, <1>6, EndsKeep DEF ExpansionInv
<1>7. CASE ReadRefs
  BY <1>1, <1>3, <1>7, ReadRefsKeeps DEF ReadRefs, ExpansionInv
<1>8. CASE Return
  BY <1>1, <1>8, EndsKeep DEF ExpansionInv
<1>9. QED  BY <1>2, <1>4, <1>5, <1>6, <1>7, <1>8 DEF Next, Call

LEMMA ExpansionInvariant == Spec => []ExpansionInv
  BY InitInv, ExpansionStep, PTL DEF Spec
-------------------------------------------------------------------------------
\* Whatever the graph and whoever changes it, expand_cites expands no key twice,
\* returns its memories in the order of the keys, and exceeds neither max_keys
\* nor, but by a single memory, the token budget.
THEOREM ExpansionIsBounded == Spec => []WithinBounds
  BY ExpansionInvariant, VisitedBounds, PTL DEF ExpansionInv

\* A call that does not report truncation has expanded exactly the keys within
\* its depth; one that reports it has expanded only such keys and left one out.
THEOREM DepthIsExpanded == Spec => []ExpandsItsDepth
  BY ExpansionInvariant, PTL DEF ExpansionInv
===============================================================================
