---------------------------- MODULE RetrievalProofs ----------------------------
(***************************************************************************)
(* Proofs about one retrieve_memory call, for every vault, budget and      *)
(* choice of keys to hydrate, and whatever others retire meanwhile.        *)
(***************************************************************************)
EXTENDS Retrieval, TLAPS, FiniteSetTheorems, SequenceTheorems,
        WellFoundedInduction

-------------------------------------------------------------------------------
\* The inductive invariant.

HitRecord == [key : Key, md : Memory]

ResultRecord == [key : Key, gid : Group, body : Nat \cup {None}, hydrated : BOOLEAN]

RetrievalTypeOK ==
  /\ memory \in [Key -> Memory \cup {None}] /\ asked \in [Key -> Memory \cup {None}]
  /\ hits \in Seq(HitRecord) /\ queue \in Seq(HitRecord) /\ promoted \in Seq(HitRecord)
  /\ phase \in {"query", "promote", "budget", "hydrate", "done"}
  /\ level \in {"summary", "standard", "full"} /\ wanted \in Seq(Key)
  /\ parents \in SUBSET Key /\ position \in Nat
  /\ results \in Seq(ResultRecord) /\ used \in Nat /\ uses \in [Group -> Nat]

KeysOf(s) == [i \in DOMAIN s |-> s[i].key]

Once(ks, k) == \A i, j \in DOMAIN ks : ks[i] = k /\ ks[j] = k => i = j

AtMostTwice(ks, k) ==
  \A i, j, l \in DOMAIN ks :
    ks[i] = k /\ ks[j] = k /\ ks[l] = k => i = j \/ j = l \/ i = l

HitKeys == {hits[j].key : j \in DOMAIN hits}

\* A live hit that no hit of its group outranks.
Best(k) ==
  /\ k \in HitKeys /\ asked[k] # None /\ asked[k].live
  /\ \A j \in DOMAIN hits :
       hits[j].md.gid = asked[k].gid => ~Outranks(hits[j].md, asked[k])

\* Keys as promotion leaves them, in any order.
Selected(ks) ==
  \A k \in Key :
    /\ k \notin parents => Once(ks, k) /\ \A i \in DOMAIN ks : ks[i] = k => Best(k)
    /\ k \notin HitKeys => Once(ks, k)
    /\ AtMostTwice(ks, k)

\* Nothing but its status has changed since the query.
AsAsked(k, m) == asked[k] # None /\ m.gid = asked[k].gid /\ m.full = asked[k].full

HistoryInv ==
  /\ phase = "query" => /\ asked = memory /\ hits = <<>> /\ queue = <<>>
                        /\ parents = {} /\ promoted = <<>>
  /\ \A k \in Key : memory[k] # None => AsAsked(k, memory[k])
  /\ \A j \in DOMAIN hits : LET k == hits[j].key IN
       asked[k] # None /\ asked[k].live /\ hits[j].md = asked[k]
  /\ \A k \in parents : \E j \in DOMAIN hits : hits[j].md.parent = k
  /\ \A i \in DOMAIN queue : AsAsked(queue[i].key, queue[i].md)
  /\ \A i \in DOMAIN promoted : AsAsked(promoted[i].key, promoted[i].md)

\* A key still to be looked at was promoted only if it is a document of a chunk.
PromoteInv ==
  phase \in {"query", "promote"} =>
    /\ results = <<>> /\ used = 0
    /\ Selected(KeysOf(promoted))
    /\ \A i \in DOMAIN queue : LET k == queue[i].key IN
         /\ Best(k) /\ Once(KeysOf(queue), k) /\ Once(KeysOf(promoted), k)
         /\ \E j \in DOMAIN hits : hits[j] = queue[i]
         /\ k \notin parents => \A j \in DOMAIN promoted : promoted[j].key # k

\* The keys of the results and of the hits still to be budgeted.
Shown ==
  [i \in 1..(Len(results) + Len(queue)) |->
     IF i <= Len(results) THEN results[i].key ELSE queue[i - Len(results)].key]

ShownInv ==
  /\ phase \in {"budget", "hydrate", "done"} => Selected(Shown)
  /\ phase \in {"hydrate", "done"} => queue = <<>>
  /\ \A i \in DOMAIN results : LET k == results[i].key IN
       asked[k] # None /\ results[i].gid = asked[k].gid

RetrievalInv ==
  /\ RetrievalTypeOK /\ HistoryInv /\ PromoteInv /\ ShownInv
  /\ BudgetHeld /\ AddsUp /\ UseMeansHydrated
-------------------------------------------------------------------------------
\* Numbers and recursion along a sequence.

LEMMA HasLeast ==
  ASSUME NEW T \in SUBSET Nat, T # {}
  PROVE  \E d \in T : \A c \in T : d <= c
<1>1. PICK d \in T : \A c \in T : ~(<<c, d>> \in OpToRel(<, Nat))
  BY NatLessThanWellFounded, WFMin
<1>2. \A c \in T : ~(c < d)  BY <1>1 DEF OpToRel
<1>3. \A c \in T : d <= c  BY <1>2
<1>4. QED  BY <1>3

LEMMA MaxIs ==
  ASSUME NEW n \in Nat, NEW S \in SUBSET (1..n), S # {}
  PROVE  Max(S) \in S
<1> DEFINE T == {n - v : v \in S}
<1>1. T \subseteq Nat /\ \A v \in S : n - v \in T  OBVIOUS
<1> PICK w \in S : TRUE  OBVIOUS
<1> HIDE DEF T
<1>2. PICK d \in T : \A c \in T : d <= c  BY <1>1, HasLeast
<1>3. PICK v \in S : d = n - v  BY <1>2 DEF T
<1>4. \A u \in S : v >= u
  <2> TAKE u \in S
  <2>1. n - v <= n - u  BY <1>1, <1>2, <1>3
  <2>2. QED  BY <2>1
<1>5. QED  BY <1>4 DEF Max

LEMMA MinOfTwo ==
  ASSUME NEW a \in Nat, NEW b \in Nat
  PROVE  Min({a, b}) \in {a, b} /\ Min({a, b}) <= a /\ Min({a, b}) <= b
<1>1. \E x \in {a, b} : \A y \in {a, b} : x =< y  OBVIOUS
<1>2. QED  BY <1>1 DEF Min

\* A function defined by recursion up to n exists.
Steps(step, S, n) == step \in [1..n -> [S -> S]]

Follows(f, step, base, S, n) ==
  f \in [0..n -> S] /\ f[0] = base /\ \A i \in 1..n : f[i] = step[i][f[i - 1]]

LEMMA Recursion ==
  ASSUME NEW S, NEW base \in S, NEW n \in Nat, NEW step, Steps(step, S, n)
  PROVE  \E f : Follows(f, step, base, S, n)
<1> USE DEF Steps, Follows
<1> DEFINE Upto(m) == \E f \in [0..m -> S] :
             f[0] = base /\ \A i \in 1..m : f[i] = step[i][f[i - 1]]
           Bad == {m \in 0..n : ~Upto(m)}
<1>1. SUFFICES ASSUME n \in Bad  PROVE FALSE  OBVIOUS
<1>0. Bad \in SUBSET Nat /\ Bad # {}  BY <1>1
<1> HIDE DEF Bad
<1>2. PICK m \in Bad : \A c \in Bad : m <= c  BY <1>0, HasLeast
<1>3. m \in 0..n /\ ~Upto(m)  BY DEF Bad
<1>4. m # 0
  <2>1. [i \in 0..0 |-> base] \in [0..0 -> S]  OBVIOUS
  <2>2. [i \in 0..0 |-> base][0] = base  OBVIOUS
  <2>3. \A i \in 1..0 : FALSE  OBVIOUS
  <2>4. Upto(0)  BY <2>1, <2>2, <2>3
  <2>5. QED  BY <2>4, <1>3
<1>5. m - 1 \in 0..n /\ m - 1 \notin Bad  BY <1>2, <1>3, <1>4
<1>6. PICK f \in [0..(m - 1) -> S] :
        f[0] = base /\ \A i \in 1..(m - 1) : f[i] = step[i][f[i - 1]]
  BY <1>5 DEF Bad
<1> DEFINE g == [i \in 0..m |-> IF i = m THEN step[m][f[m - 1]] ELSE f[i]]
<1>7. g \in [0..m -> S]  BY <1>3, <1>4, <1>6
<1>8. g[0] = base  BY <1>3, <1>4, <1>6
<1>9. ASSUME NEW i \in 1..m  PROVE g[i] = step[i][g[i - 1]]
  <2>1. i \in 0..m /\ i - 1 \in 0..m /\ i - 1 # m  BY <1>3
  <2>2. g[i - 1] = f[i - 1]  BY <2>1
  <2>3. CASE i = m  BY <2>1, <2>2, <2>3
  <2>4. CASE i # m
    <3>1. i \in 1..(m - 1)  BY <1>3, <2>4
    <3>2. QED  BY <1>6, <2>1, <2>2, <2>4, <3>1
  <2>5. QED  BY <2>3, <2>4
<1>10. QED  BY <1>3, <1>7, <1>8, <1>9
-------------------------------------------------------------------------------
\* Collapse by canonical id

\* b collapses the first n of hs: one hit of each of their groups, and one that
\* none of them outranks.
Collapsed(b, hs, n) ==
  /\ \A l \in DOMAIN b : \E j \in 1..n : b[l] = hs[j]
  /\ \A i, l \in DOMAIN b : b[i].md.gid = b[l].md.gid => i = l
  /\ \A j \in 1..n : \E l \in DOMAIN b :
       b[l].md.gid = hs[j].md.gid /\ ~Outranks(hs[j].md, b[l].md)

LEMMA OutranksIsOrder ==
  ASSUME NEW m \in Memory, NEW n \in Memory, NEW o \in Memory
  PROVE  /\ ~Outranks(m, m)
         /\ ~Outranks(m, n) /\ Outranks(o, n) => ~Outranks(m, o)
<1>1. /\ m.version \in Nat /\ n.version \in Nat /\ o.version \in Nat
      /\ m.created_at \in Nat /\ n.created_at \in Nat /\ o.created_at \in Nat
  BY DEF Memory
<1>2. QED  BY <1>1 DEF Outranks

LEMMA HitIs ==
  ASSUME NEW hs \in Seq(HitRecord), NEW i \in DOMAIN hs
  PROVE  /\ hs[i] \in HitRecord /\ hs[i].key \in Key /\ hs[i].md \in Memory
         /\ i \in 1..Len(hs)
<1>1. hs[i] \in HitRecord /\ i \in 1..Len(hs)  OBVIOUS
<1>2. QED  BY <1>1 DEF HitRecord

LEMMA ConsiderCollapses ==
  ASSUME NEW hs \in Seq(HitRecord), NEW n \in Nat, n + 1 \in DOMAIN hs,
         NEW b \in Seq(HitRecord), Collapsed(b, hs, n)
  PROVE  /\ Consider(b, hs[n + 1]) \in Seq(HitRecord)
         /\ Collapsed(Consider(b, hs[n + 1]), hs, n + 1)
<1> DEFINE h == hs[n + 1]
<1>1. h \in HitRecord /\ h.md \in Memory  BY HitIs
<1>2. \A j \in 1..n : hs[j] \in HitRecord /\ hs[j].md \in Memory
  <2>1. \A j \in 1..n : j \in DOMAIN hs  OBVIOUS
  <2>2. QED  BY <2>1, HitIs
<1>3. \A l \in DOMAIN b : b[l] \in HitRecord /\ b[l].md \in Memory  BY HitIs
<1>4. \A j \in 1..(n + 1) : j \in 1..n \/ j = n + 1  OBVIOUS
<1> HIDE DEF h
<1>5. CASE \A i \in DOMAIN b : b[i].md.gid # h.md.gid
  <2> DEFINE c == Append(b, h)
  <2>1. Consider(b, h) = c  BY <1>5 DEF Consider
  <2>2. /\ c \in Seq(HitRecord) /\ DOMAIN c = 1..(Len(b) + 1)
        /\ \A i \in DOMAIN b : c[i] = b[i] /\ i \in DOMAIN c
        /\ c[Len(b) + 1] = h /\ Len(b) + 1 \in DOMAIN c
        /\ \A i \in DOMAIN c : i \in DOMAIN b \/ i = Len(b) + 1
    BY <1>1
  <2> HIDE DEF c
  <2>3. \A l \in DOMAIN c : \E j \in 1..(n + 1) : c[l] = hs[j]
    <3>1. h = hs[n + 1] /\ n + 1 \in 1..(n + 1) /\ 1..n \subseteq 1..(n + 1)  BY DEF h
    <3>2. \A l \in DOMAIN b : \E j \in 1..(n + 1) : b[l] = hs[j]  BY <3>1 DEF Collapsed
    <3>3. \A l \in DOMAIN c : c[l] = h \/ (l \in DOMAIN b /\ c[l] = b[l])  BY <2>2
    <3>4. QED  BY <3>1, <3>2, <3>3
  <2>4. \A i, l \in DOMAIN c : c[i].md.gid = c[l].md.gid => i = l
    <3>1. \A i, l \in DOMAIN b : c[i].md.gid = c[l].md.gid => i = l
      BY <2>2 DEF Collapsed
    <3>2. \A i \in DOMAIN b : c[i].md.gid # c[Len(b) + 1].md.gid  BY <1>5, <2>2
    <3>3. QED  BY <2>2, <3>1, <3>2
  <2>5. ASSUME NEW j \in 1..(n + 1)
        PROVE  \E l \in DOMAIN c : c[l].md.gid = hs[j].md.gid /\ ~Outranks(hs[j].md, c[l].md)
    <3>1. CASE j \in 1..n  BY <2>2, <3>1 DEF Collapsed
    <3>2. CASE j = n + 1  BY <1>1, <2>2, <3>2, OutranksIsOrder DEF h
    <3>3. QED  BY <1>4, <3>1, <3>2
  <2>6. QED  BY <2>1, <2>2, <2>3, <2>4, <2>5 DEF Collapsed, h
<1>6. CASE ~(\A i \in DOMAIN b : b[i].md.gid # h.md.gid)
  <2> DEFINE c == [i \in DOMAIN b |->
                     IF b[i].md.gid = h.md.gid /\ Outranks(h.md, b[i].md) THEN h ELSE b[i]]
  <2>1. Consider(b, h) = c  BY <1>6 DEF Consider
  <2>2. /\ c \in Seq(HitRecord) /\ DOMAIN c = DOMAIN b
        /\ \A i \in DOMAIN c : /\ c[i] \in {h, b[i]} /\ c[i].md.gid = b[i].md.gid
                               /\ c[i] = h => b[i].md.gid = h.md.gid
                               /\ c[i] # b[i] => Outranks(h.md, b[i].md)
                               /\ b[i].md.gid = h.md.gid => ~Outranks(h.md, c[i].md)
    BY <1>1, <1>3, OutranksIsOrder
  <2> HIDE DEF c
  <2>3. \A l \in DOMAIN c : \E j \in 1..(n + 1) : c[l] = hs[j]
    <3>1. h = hs[n + 1] /\ n + 1 \in 1..(n + 1) /\ 1..n \subseteq 1..(n + 1)  BY DEF h
    <3>2. \A l \in DOMAIN b : \E j \in 1..(n + 1) : b[l] = hs[j]  BY <3>1 DEF Collapsed
    <3>3. QED  BY <2>2, <3>1, <3>2
  <2>4. \A i, l \in DOMAIN c : c[i].md.gid = c[l].md.gid => i = l
    BY <2>2 DEF Collapsed
  <2>5. ASSUME NEW j \in 1..(n + 1)
        PROVE  \E l \in DOMAIN c : c[l].md.gid = hs[j].md.gid /\ ~Outranks(hs[j].md, c[l].md)
    <3>1. CASE j \in 1..n
      <4>1. PICK l \in DOMAIN b : b[l].md.gid = hs[j].md.gid /\ ~Outranks(hs[j].md, b[l].md)
        BY <3>1 DEF Collapsed
      <4>2. CASE c[l] = b[l]  BY <2>2, <4>1, <4>2
      <4>3. CASE c[l] # b[l]
        <5>1. c[l] = h /\ Outranks(h.md, b[l].md)  BY <2>2, <4>3
        <5>2. ~Outranks(hs[j].md, h.md)
          BY <1>1, <1>2, <1>3, <3>1, <4>1, <5>1, OutranksIsOrder
        <5>3. QED  BY <2>2, <4>1, <5>1, <5>2
      <4>4. QED  BY <4>2, <4>3
    <3>2. CASE j = n + 1
      <4>1. PICK l \in DOMAIN b : b[l].md.gid = h.md.gid  BY <1>6
      <4>2. QED  BY <2>2, <3>2, <4>1 DEF h
    <3>3. QED  BY <1>4, <3>1, <3>2
  <2>6. QED  BY <2>1, <2>2, <2>3, <2>4, <2>5 DEF Collapsed, h
<1>7. QED  BY <1>5, <1>6

LEMMA CollapseCollapses ==
  ASSUME NEW hs \in Seq(HitRecord)
  PROVE  Collapse(hs) \in Seq(HitRecord) /\ Collapsed(Collapse(hs), hs, Len(hs))
<1> DEFINE n == Len(hs)
           Body(f) == [i \in 0..Len(hs) |->
                         IF i = 0 THEN <<>> ELSE Consider(f[i - 1], hs[i])]
           best == CHOOSE f : f = Body(f)
           step == [i \in 1..n |-> [b \in Seq(HitRecord) |-> Consider(b, hs[i])]]
<1>0. n \in Nat /\ DOMAIN hs = 1..n  OBVIOUS
<1>1. step \in [1..n -> [Seq(HitRecord) -> Seq(HitRecord)]]
  <2>1. ASSUME NEW b \in Seq(HitRecord), NEW h \in HitRecord
        PROVE  Consider(b, h) \in Seq(HitRecord)
    BY DEF Consider
  <2>2. \A j \in 1..n : hs[j] \in HitRecord  BY <1>0
  <2>3. QED  BY <2>1, <2>2
<1> HIDE DEF step
<1>2. PICK f \in [0..n -> Seq(HitRecord)] :
        f[0] = <<>> /\ \A i \in 1..n : f[i] = step[i][f[i - 1]]
  <2>1. <<>> \in Seq(HitRecord) /\ Steps(step, Seq(HitRecord), n)  BY <1>1 DEF Steps
  <2> HIDE DEF n
  <2>2. \E f : Follows(f, step, <<>>, Seq(HitRecord), n)  BY <1>0, <2>1, Recursion
  <2>3. QED  BY <2>2 DEF Follows
<1>3. f = Body(f)
  <2>1. ASSUME NEW i \in 0..n  PROVE f[i] = Body(f)[i]
    <3>1. CASE i = 0  BY <1>2, <3>1
    <3>2. CASE i # 0
      <4>1. i \in 1..n /\ i - 1 \in 0..n  BY <1>0, <3>2
      <4>2. f[i - 1] \in Seq(HitRecord)  BY <1>2, <4>1
      <4>3. QED  BY <1>2, <3>2, <4>1, <4>2 DEF step
    <3>3. QED  BY <3>1, <3>2
  <2>2. QED  BY <1>2, <2>1
<1>4. best = Body(best)  BY <1>3
<1>5. Collapse(hs) = best[n]  BY DEF Collapse
<1> HIDE DEF best
<1>6. best[0] = <<>> /\ \A i \in 1..n : best[i] = Consider(best[i - 1], hs[i])
  BY <1>0, <1>4
<1> HIDE DEF n
<1> DEFINE Good(i) == best[i] \in Seq(HitRecord) /\ Collapsed(best[i], hs, i)
           Bad == {i \in 0..n : ~Good(i)}
<1>7. Bad = {}
  <2> SUFFICES ASSUME Bad # {}  PROVE FALSE  OBVIOUS
  <2>0. Bad \in SUBSET Nat  BY <1>0
  <2> HIDE DEF Bad
  <2>1. PICK m \in Bad : \A c \in Bad : m <= c  BY <2>0, HasLeast
  <2>2. m \in 0..n /\ ~Good(m)  BY DEF Bad
  <2>3. m # 0
    <3>1. Collapsed(<<>>, hs, 0)  BY DEF Collapsed
    <3>2. Good(0)  BY <1>6, <3>1
    <3>3. QED  BY <2>2, <3>2
  <2>4. m - 1 \in 0..n /\ m - 1 \notin Bad /\ m \in 1..n  BY <1>0, <2>1, <2>2, <2>3
  <2>5. Good(m - 1)  BY <2>4 DEF Bad
  <2>6. m - 1 \in Nat /\ (m - 1) + 1 = m  BY <1>0, <2>4
  <2>7. best[m] = Consider(best[m - 1], hs[(m - 1) + 1])  BY <1>6, <2>4, <2>6
  <2>8. Good((m - 1) + 1)
    BY <1>0, <2>4, <2>5, <2>6, <2>7, ConsiderCollapses
  <2>9. QED  BY <2>2, <2>6, <2>8
<1>8. n \in 0..n  BY <1>0
<1>9. QED  BY <1>5, <1>7, <1>8 DEF n
-------------------------------------------------------------------------------
\* Sizes added up

LEMMA TokensIs ==
  ASSUME NEW b \in Nat \cup {None}
  PROVE  Tokens(b) \in Nat
  BY RetrievalAssumption DEF Tokens

LEMMA ResultIs ==
  ASSUME NEW rs \in Seq(ResultRecord), NEW i \in DOMAIN rs
  PROVE  /\ rs[i] \in ResultRecord /\ rs[i].key \in Key /\ rs[i].gid \in Group
         /\ rs[i].body \in Nat \cup {None} /\ rs[i].hydrated \in BOOLEAN
         /\ Tokens(rs[i].body) \in Nat /\ i \in 1..Len(rs) /\ Len(rs) \in Nat
<1>1. rs[i] \in ResultRecord /\ i \in 1..Len(rs) /\ Len(rs) \in Nat  OBVIOUS
<1>2. QED  BY <1>1, TokensIs DEF ResultRecord

\* f[i] is the size of the first i results.
Sums(f, rs) ==
  /\ f \in [0..Len(rs) -> Nat] /\ f[0] = 0
  /\ \A i \in 1..Len(rs) : f[i] = f[i - 1] + Tokens(rs[i].body)

LEMMA TotalIs ==
  ASSUME NEW rs \in Seq(ResultRecord)
  PROVE  \E f : Sums(f, rs) /\ Total(rs) = f[Len(rs)]
<1> DEFINE n == Len(rs)
           Body(f) == [i \in 0..Len(rs) |->
                         IF i = 0 THEN 0 ELSE f[i - 1] + Tokens(rs[i].body)]
           sum == CHOOSE f : f = Body(f)
           step == [i \in 1..n |-> [s \in Nat |-> s + Tokens(rs[i].body)]]
<1>0. n \in Nat /\ DOMAIN rs = 1..n  OBVIOUS
<1>1. step \in [1..n -> [Nat -> Nat]]
  <2>1. \A i \in 1..n : Tokens(rs[i].body) \in Nat  BY <1>0, ResultIs
  <2>2. QED  BY <2>1
<1> HIDE DEF step
<1>2. PICK f : Follows(f, step, 0, Nat, n)
  <2>1. Steps(step, Nat, n)  BY <1>1 DEF Steps
  <2> HIDE DEF n
  <2>2. QED  BY <1>0, <2>1, Recursion
<1>3. f = Body(f)
  <2>1. ASSUME NEW i \in 0..n  PROVE f[i] = Body(f)[i]
    <3>1. CASE i = 0  BY <1>2, <3>1 DEF Follows
    <3>2. CASE i # 0
      <4>1. i \in 1..n /\ i - 1 \in 0..n  BY <1>0, <3>2
      <4>2. f[i - 1] \in Nat  BY <1>2, <4>1 DEF Follows
      <4>3. QED  BY <1>2, <3>2, <4>1, <4>2 DEF step, Follows
    <3>3. QED  BY <3>1, <3>2
  <2>2. QED  BY <1>2, <2>1 DEF Follows
<1>4. sum = Body(sum)  BY <1>3
<1>5. Total(rs) = sum[n]  BY DEF Total
<1> HIDE DEF sum
<1>6. sum[0] = 0 /\ \A i \in 1..n : sum[i] = sum[i - 1] + Tokens(rs[i].body)
  BY <1>0, <1>4
<1>7. DOMAIN sum = 0..n  BY <1>4
<1> HIDE DEF n
<1> DEFINE Bad == {i \in 0..n : sum[i] \notin Nat}
<1>8. Bad = {}
  <2> SUFFICES ASSUME Bad # {}  PROVE FALSE  OBVIOUS
  <2>0. Bad \in SUBSET Nat  BY <1>0
  <2> HIDE DEF Bad
  <2>1. PICK m \in Bad : \A c \in Bad : m <= c  BY <2>0, HasLeast
  <2>2. m \in 0..n /\ sum[m] \notin Nat  BY DEF Bad
  <2>3. m # 0  BY <1>6, <2>2
  <2>4. m - 1 \in 0..n /\ m - 1 \notin Bad /\ m \in 1..n  BY <1>0, <2>1, <2>2, <2>3
  <2>5. sum[m - 1] \in Nat  BY <2>4 DEF Bad
  <2>6. Tokens(rs[m].body) \in Nat  BY <1>0, <2>4, ResultIs
  <2>7. QED  BY <1>6, <2>2, <2>4, <2>5, <2>6
<1>9. sum = [i \in 0..n |-> sum[i]]  BY <1>4 DEF n
<1>10. sum \in [0..n -> Nat]  BY <1>8, <1>9
<1>11. QED  BY <1>5, <1>6, <1>10 DEF Sums, n

\* Sums of results that differ in the k-th size alone.
AddsTo(f, a, n) ==
  /\ f \in [0..n -> Nat] /\ a \in [1..n -> Nat] /\ f[0] = 0
  /\ \A i \in 1..n : f[i] = f[i - 1] + a[i]

SameBut(a, b, k, n) == k \in 1..(n + 1) /\ \A i \in 1..n : i # k => a[i] = b[i]

LEMMA SumsDiffer ==
  ASSUME NEW n \in Nat, NEW f, NEW g, NEW a, NEW b, NEW k,
         AddsTo(f, a, n), AddsTo(g, b, n), SameBut(a, b, k, n)
  PROVE  /\ n < k => g[n] = f[n]
         /\ k <= n => g[n] + a[k] = f[n] + b[k]
<1>0. k \in 1..(n + 1) /\ \A i \in 1..n : i # k => a[i] = b[i]  BY DEF SameBut
<1>a. /\ f \in [0..n -> Nat] /\ a \in [1..n -> Nat] /\ f[0] = 0
      /\ \A i \in 1..n : f[i] = f[i - 1] + a[i]
      /\ g \in [0..n -> Nat] /\ b \in [1..n -> Nat] /\ g[0] = 0
      /\ \A i \in 1..n : g[i] = g[i - 1] + b[i]
  BY DEF AddsTo
<1> DEFINE Good(j) == IF j < k THEN g[j] = f[j] ELSE g[j] + a[k] = f[j] + b[k]
           Bad == {j \in 0..n : ~Good(j)}
<1>1. SUFFICES ASSUME Bad # {}  PROVE FALSE
  <2>1. CASE Bad = {}
    <3>1. n \in 0..n  OBVIOUS
    <3>2. Good(n)  BY <2>1, <3>1
    <3>3. QED  BY <1>0, <3>2
  <2>2. QED  BY <2>1
<1>2. Bad \in SUBSET Nat  OBVIOUS
<1> HIDE DEF Bad
<1>3. PICK m \in Bad : \A c \in Bad : m <= c  BY <1>1, <1>2, HasLeast
<1>4. m \in 0..n /\ ~Good(m)  BY DEF Bad
<1>5. m # 0  BY <1>a, <1>0, <1>4
<1>6. m - 1 \in 0..n /\ m - 1 \notin Bad /\ m \in 1..n  BY <1>3, <1>4, <1>5
<1>7. Good(m - 1)  BY <1>6 DEF Bad
<1>8. /\ f[m] = f[m - 1] + a[m] /\ g[m] = g[m - 1] + b[m]
      /\ f[m] \in Nat /\ g[m] \in Nat /\ f[m - 1] \in Nat /\ g[m - 1] \in Nat
      /\ a[m] \in Nat /\ b[m] \in Nat
  BY <1>a, <1>6
<1>9. CASE m < k  BY <1>0, <1>4, <1>6, <1>7, <1>8, <1>9
<1>10. CASE m = k  BY <1>0, <1>4, <1>6, <1>7, <1>8, <1>10
<1>11. CASE m > k
  <2>1. k \in 1..n /\ m # k  BY <1>0, <1>6, <1>11
  <2>6. a[k] \in Nat /\ b[k] \in Nat /\ a[m] = b[m]  BY <1>a, <1>0, <1>6, <2>1
  <2>2. ~(m - 1 < k) /\ ~(m < k)  BY <1>0, <1>6, <1>11
  <2>3. g[m - 1] + a[k] = f[m - 1] + b[k]  BY <1>7, <2>2
  <2>4. g[m] + a[k] = f[m] + b[k]  BY <1>8, <2>6, <2>3
  <2>5. QED  BY <1>4, <2>2, <2>4
<1>12. QED  BY <1>0, <1>4, <1>9, <1>10, <1>11

\* Results one of which is longer, or another body.
LEMMA TotalOfAppend ==
  ASSUME NEW rs \in Seq(ResultRecord), NEW r \in ResultRecord
  PROVE  Total(Append(rs, r)) = Total(rs) + Tokens(r.body)
<1> DEFINE qs == Append(rs, r)
           n == Len(rs)
<1>1. /\ qs \in Seq(ResultRecord) /\ Len(qs) = n + 1 /\ n \in Nat /\ qs[n + 1] = r
      /\ \A i \in 1..n : qs[i] = rs[i] /\ i \in DOMAIN rs /\ i \in DOMAIN qs
  OBVIOUS
<1>2. PICK f : Sums(f, rs) /\ Total(rs) = f[n]  BY TotalIs
<1> HIDE DEF qs
<1>3. PICK g : Sums(g, qs) /\ Total(qs) = g[n + 1]  BY <1>1, TotalIs
<1> HIDE DEF n
<1> DEFINE h == [i \in 0..n |-> g[i]]
           a == [i \in 1..n |-> Tokens(rs[i].body)]
<1>4. /\ f \in [0..n -> Nat] /\ f[0] = 0
      /\ \A i \in 1..n : f[i] = f[i - 1] + Tokens(rs[i].body)
  BY <1>2 DEF Sums, n
<1>5. /\ g \in [0..(n + 1) -> Nat] /\ g[0] = 0
      /\ \A i \in 1..(n + 1) : g[i] = g[i - 1] + Tokens(qs[i].body)
  BY <1>1, <1>3 DEF Sums
<1>6. h \in [0..n -> Nat] /\ h[0] = f[0]  BY <1>1, <1>4, <1>5
<1>7. a \in [1..n -> Nat]  BY <1>1, ResultIs
<1>8. ASSUME NEW i \in 1..n
      PROVE  f[i] = f[i - 1] + a[i] /\ h[i] = h[i - 1] + a[i]
  <2>1. i \in 1..(n + 1) /\ i \in 0..n /\ i - 1 \in 0..n /\ qs[i] = rs[i]  BY <1>1
  <2>2. QED  BY <1>4, <1>5, <2>1
<1> HIDE DEF h, a
<1>9. n + 1 \in 1..(n + 1)  BY <1>1
<1>10. SameBut(a, a, n + 1, n)  BY <1>9 DEF SameBut
<1>11. n \in 0..n /\ n < n + 1 /\ (n + 1) - 1 = n  BY <1>1
<1>12. h[n] = f[n]
  <2>1. AddsTo(f, a, n) /\ AddsTo(h, a, n)  BY <1>4, <1>6, <1>7, <1>8 DEF AddsTo
  <2>2. QED  BY <1>1, <1>10, <1>11, <2>1, SumsDiffer
<1>13. h[n] = g[n]  BY <1>11 DEF h
<1>14. g[n + 1] = g[n] + Tokens(r.body)  BY <1>1, <1>5, <1>9, <1>11
<1>15. QED  BY <1>2, <1>3, <1>12, <1>13, <1>14 DEF qs, n

LEMMA TotalOfSwap ==
  ASSUME NEW rs \in Seq(ResultRecord), NEW qs \in Seq(ResultRecord), Len(qs) = Len(rs),
         NEW k \in DOMAIN rs, \A i \in DOMAIN rs : i # k => qs[i].body = rs[i].body
  PROVE  /\ Total(qs) = Total(rs) - Tokens(rs[k].body) + Tokens(qs[k].body)
         /\ Total(rs) \in Nat /\ Total(qs) \in Nat
<1> DEFINE n == Len(rs)
           a == [i \in 1..n |-> Tokens(rs[i].body)]
           b == [i \in 1..n |-> Tokens(qs[i].body)]
<1>1. n \in Nat /\ DOMAIN rs = 1..n /\ DOMAIN qs = 1..n /\ n \in 0..n  OBVIOUS
<1>2. PICK f : Sums(f, rs) /\ Total(rs) = f[n]  BY TotalIs
<1>3. PICK g : Sums(g, qs) /\ Total(qs) = g[n]  BY TotalIs
<1> HIDE DEF n
<1>4. /\ f \in [0..n -> Nat] /\ f[0] = 0
      /\ \A i \in 1..n : f[i] = f[i - 1] + a[i]
  BY <1>2 DEF Sums, n
<1>5. /\ g \in [0..n -> Nat] /\ g[0] = 0
      /\ \A i \in 1..n : g[i] = g[i - 1] + b[i]
  BY <1>3 DEF Sums, n
<1>6. a \in [1..n -> Nat] /\ b \in [1..n -> Nat]  BY <1>1, ResultIs
<1>7. k \in 1..(n + 1) /\ k \in 1..n /\ ~(n < k)  BY <1>1
<1>8. \A i \in 1..n : i # k => a[i] = b[i]  BY <1>1
<1>9. a[k] = Tokens(rs[k].body) /\ b[k] = Tokens(qs[k].body)  BY <1>7
<1> HIDE DEF a, b
<1>10. SameBut(a, b, k, n)  BY <1>7, <1>8 DEF SameBut
<1>11. g[n] + a[k] = f[n] + b[k]
  <2>1. AddsTo(f, a, n) /\ AddsTo(g, b, n)  BY <1>4, <1>5, <1>6 DEF AddsTo
  <2>2. k <= n  BY <1>7
  <2>3. QED  BY <1>1, <1>10, <2>1, <2>2, SumsDiffer
<1>12. g[n] \in Nat /\ f[n] \in Nat /\ a[k] \in Nat /\ b[k] \in Nat
  BY <1>1, <1>4, <1>5, <1>6, <1>7
<1>13. QED  BY <1>2, <1>3, <1>9, <1>11, <1>12

LEMMA TotalOfNone == Total(<<>>) = 0
<1>1. <<>> \in Seq(ResultRecord) /\ Len(<<>>) = 0  OBVIOUS
<1>2. PICK f : Sums(f, <<>>) /\ Total(<<>>) = f[0]  BY <1>1, TotalIs
<1>3. QED  BY <1>2 DEF Sums
-------------------------------------------------------------------------------
\* The lists of a call

LEMMA FirstOfIs ==
  ASSUME NEW S, NEW s \in Seq(S), NEW n \in Nat
  PROVE  /\ FirstOf(s, n) \in Seq(S) /\ Len(FirstOf(s, n)) <= Len(s)
         /\ \A i \in DOMAIN FirstOf(s, n) : i \in DOMAIN s /\ FirstOf(s, n)[i] = s[i]
<1> DEFINE m == Min({n, Len(s)})
<1>1. m \in Nat /\ m <= Len(s)  BY MinOfTwo
<1> HIDE DEF m
<1>2. FirstOf(s, n) = SubSeq(s, 1, m)  BY DEF FirstOf, m
<1>3. /\ SubSeq(s, 1, m) \in Seq(S) /\ Len(SubSeq(s, 1, m)) = m
      /\ \A i \in 1..m : SubSeq(s, 1, m)[i] = s[i]
  BY <1>1
<1>4. QED  BY <1>1, <1>2, <1>3

LEMMA Reordered ==
  ASSUME NEW ks, NEW js, NEW e, Selected(ks),
         \A i \in DOMAIN js : e[i] \in DOMAIN ks /\ js[i] = ks[e[i]],
         \A i, j \in DOMAIN js : e[i] = e[j] => i = j
  PROVE  Selected(js)
<1> SUFFICES ASSUME NEW k \in Key
             PROVE  /\ k \notin parents =>
                         Once(js, k) /\ \A i \in DOMAIN js : js[i] = k => Best(k)
                    /\ k \notin HitKeys => Once(js, k)
                    /\ AtMostTwice(js, k)
  BY DEF Selected
<1>1. Once(ks, k) => Once(js, k)  BY DEF Once
<1>2. AtMostTwice(ks, k) => AtMostTwice(js, k)
  <2> SUFFICES ASSUME AtMostTwice(ks, k), NEW i \in DOMAIN js, NEW j \in DOMAIN js,
                      NEW l \in DOMAIN js, js[i] = k, js[j] = k, js[l] = k
               PROVE  i = j \/ j = l \/ i = l
    BY DEF AtMostTwice
  <2>1. e[i] = e[j] \/ e[j] = e[l] \/ e[i] = e[l]  BY DEF AtMostTwice
  <2>2. QED  BY <2>1
<1>3. QED  BY <1>1, <1>2 DEF Selected

\* Selected depends on the history of the call alone.
LEMMA ShownKept ==
  ASSUME UNCHANGED <<hits, asked, parents>>, Selected(Shown),
         \A i \in DOMAIN Shown' : i \in DOMAIN Shown /\ Shown'[i] = Shown[i]
  PROVE  Selected(Shown)'
<1> DEFINE ks == Shown
           js == Shown'
           e == [i \in DOMAIN js |-> i]
<1>1. /\ \A i \in DOMAIN js : e[i] \in DOMAIN ks /\ js[i] = ks[e[i]]
      /\ \A i, j \in DOMAIN js : e[i] = e[j] => i = j
  OBVIOUS
<1> HIDE DEF e, ks, js
<1>2. Selected(ks)  BY DEF ks
<1>3. Selected(js)  BY <1>1, <1>2, Reordered
<1>4. QED  BY <1>3 DEF Selected, Best, HitKeys, js

LEMMA InitRetrieval == Init => RetrievalInv
<1> SUFFICES ASSUME Init  PROVE RetrievalInv  OBVIOUS
<1> USE DEF Init
<1>1. RetrievalTypeOK  BY RetrievalAssumption DEF RetrievalTypeOK
<1>2. HistoryInv
  <2>1. \A k \in Key : memory[k] # None => AsAsked(k, memory[k])  BY DEF AsAsked
  <2>2. QED  BY <2>1 DEF HistoryInv
<1>3. PromoteInv
  <2>1. Selected(KeysOf(promoted))  BY DEF Selected, KeysOf, Once, AtMostTwice
  <2>2. QED  BY <2>1 DEF PromoteInv
<1>4. ShownInv  BY DEF ShownInv
<1>5. BudgetHeld /\ AddsUp
  BY TotalOfNone, RetrievalAssumption DEF BudgetHeld, AddsUp
<1>6. UseMeansHydrated  BY DEF UseMeansHydrated
<1>7. QED  BY <1>1, <1>2, <1>3, <1>4, <1>5, <1>6 DEF RetrievalInv
-------------------------------------------------------------------------------
\* The query

LEMMA QueryKeeps ==
  ASSUME RetrievalInv, phase = "query", NEW n, NEW S \in kSubset(n, Live),
         NEW order \in SetToSeqs(S), NEW d \in DetailLevels, NEW hk \in HydrateKeys,
         Query(order, d, hk)
  PROVE  RetrievalInv'
<1> DEFINE c == Cardinality(S)
<1>1. S \subseteq Live /\ IsFiniteSet(S)
  <2>1. S \subseteq Live /\ Live \subseteq Key  BY DEF kSubset, Live
  <2>2. QED  BY <2>1, RetrievalAssumption, FS_Subset
<1>2. c \in Nat /\ order \in [1..c -> S]  BY <1>1, FS_CardinalityType DEF SetToSeqs
<1>t. RetrievalTypeOK /\ HistoryInv /\ PromoteInv /\ ShownInv /\ BudgetHeld /\ AddsUp
      /\ UseMeansHydrated
  BY DEF RetrievalInv
<1>3. /\ hits' = [i \in DOMAIN order |-> Hit(order[i])]
      /\ queue' = Collapse(hits') /\ asked' = memory /\ level' = d
      /\ wanted' = FirstOf(hk, MaxHydrate) /\ phase' = "promote"
      /\ UNCHANGED <<memory, parents, promoted, position, results, used, uses>>
  BY DEF Query
<1>4. /\ asked = memory /\ parents = {} /\ promoted = <<>>
      /\ results = <<>> /\ used = 0
  BY <1>t DEF HistoryInv, PromoteInv
<1>5. ASSUME NEW i \in 1..c
      PROVE  /\ hits'[i] \in HitRecord /\ hits'[i].md = memory[hits'[i].key]
             /\ hits'[i].key \in Key /\ memory[hits'[i].key] # None
             /\ memory[hits'[i].key].live
  <2>1. order[i] \in Key /\ memory[order[i]] # None /\ memory[order[i]].live
    BY <1>1, <1>2 DEF Live
  <2>2. hits'[i] = [key |-> order[i], md |-> memory[order[i]]]  BY <1>2, <1>3 DEF Hit
  <2>3. memory[order[i]] \in Memory  BY <1>t, <2>1 DEF RetrievalTypeOK
  <2>4. QED  BY <2>1, <2>2, <2>3 DEF HitRecord
<1>6. hits' \in Seq(HitRecord) /\ Len(hits') = c /\ DOMAIN hits' = 1..c
  BY <1>2, <1>3, <1>5
<1>7. queue' \in Seq(HitRecord) /\ Collapsed(queue', hits', c)
  BY <1>3, <1>6, CollapseCollapses
<1> HIDE DEF c
<1>8. RetrievalTypeOK'
  <2>1. d \in {"summary", "standard", "full"} /\ hk \in Seq(Key)  BY RetrievalAssumption
  <2>2. wanted' \in Seq(Key)  BY <1>3, <2>1, FirstOfIs, RetrievalAssumption
  <2>3. QED  BY <1>t, <1>3, <1>6, <1>7, <2>1, <2>2 DEF RetrievalTypeOK
<1>9. \A i \in DOMAIN queue' : \E j \in 1..c : queue'[i] = hits'[j]
  BY <1>7 DEF Collapsed
<1>d. \A i, l \in DOMAIN queue' : queue'[i].md.gid = queue'[l].md.gid => i = l
  BY <1>7, Zenon DEF Collapsed
<1>10. \A k \in Key : memory[k] # None => AsAsked(k, memory[k])'
  BY <1>3 DEF AsAsked
<1>11. HistoryInv'
  <2>1. \A i \in DOMAIN queue' : AsAsked(queue[i].key, queue[i].md)'
    BY <1>3, <1>5, <1>9 DEF AsAsked
  <2>2. \A j \in DOMAIN hits' : LET k == hits'[j].key IN
          asked'[k] # None /\ asked'[k].live /\ hits'[j].md = asked'[k]
    BY <1>3, <1>5, <1>6
  <2>3. QED  BY <1>3, <1>4, <1>10, <2>1, <2>2 DEF HistoryInv
<1>12. PromoteInv'
  <2>1. Selected(KeysOf(promoted))'
    BY <1>3, <1>4 DEF Selected, KeysOf, Once, AtMostTwice
  <2>2. ASSUME NEW i \in DOMAIN queue'
        PROVE  /\ Best(queue[i].key)' /\ Once(KeysOf(queue), queue[i].key)'
               /\ Once(KeysOf(promoted), queue[i].key)'
               /\ \E j \in DOMAIN hits' : hits'[j] = queue'[i]
               /\ \A j \in DOMAIN promoted' : promoted'[j].key # queue'[i].key
    <3>1. PICK j \in 1..c : queue'[i] = hits'[j]  BY <1>9
    <3>2. /\ queue'[i].key \in HitKeys'
          /\ queue'[i].md = asked'[queue'[i].key]
          /\ asked'[queue'[i].key] # None /\ asked'[queue'[i].key].live
      <4>1. asked' = memory  BY <1>3
      <4>2. /\ queue'[i].md = memory[queue'[i].key] /\ memory[queue'[i].key] # None
            /\ memory[queue'[i].key].live
        BY <1>5, <3>1
      <4>3. j \in DOMAIN hits' /\ queue'[i].key = hits'[j].key  BY <1>6, <3>1
      <4>4. queue'[i].key \in HitKeys'  BY <4>3 DEF HitKeys
      <4>5. QED  BY <4>1, <4>2, <4>4
    <3>3. ASSUME NEW l \in DOMAIN hits', hits'[l].md.gid = asked'[queue'[i].key].gid
          PROVE  ~Outranks(hits'[l].md, asked'[queue'[i].key])
      <4>1. PICK m \in DOMAIN queue' :
              queue'[m].md.gid = hits'[l].md.gid /\ ~Outranks(hits'[l].md, queue'[m].md)
        BY <1>6, <1>7 DEF Collapsed
      <4>2. m = i  BY <1>d, <3>2, <3>3, <4>1
      <4>3. QED  BY <3>2, <4>1, <4>2
    <3>4. Once(KeysOf(queue), queue[i].key)'
      <4>1. \A m \in DOMAIN queue' : queue'[m].md = asked'[queue'[m].key]
        BY <1>3, <1>5, <1>9
      <4>2. \A l, m \in DOMAIN queue' : queue'[l].key = queue'[m].key => l = m
        BY <1>d, <4>1
      <4>3. QED  BY <4>2 DEF Once, KeysOf
    <3>5. promoted' = <<>>  BY <1>3, <1>4
    <3>6. QED  BY <1>6, <3>1, <3>2, <3>3, <3>4, <3>5 DEF Best, Once, KeysOf
  <2>3. QED  BY <1>3, <1>4, <2>1, <2>2 DEF PromoteInv
<1>13. ShownInv'  BY <1>3, <1>4 DEF ShownInv
<1>14. BudgetHeld' /\ AddsUp'
  BY <1>t, <1>3 DEF BudgetHeld, AddsUp
<1>15. UseMeansHydrated'
  BY <1>t, <1>3, <1>4 DEF UseMeansHydrated
<1>16. QED
  BY <1>8, <1>11, <1>12, <1>13, <1>14, <1>15 DEF RetrievalInv
-------------------------------------------------------------------------------
\* Promotion

\* ks with one more key at its end.
Grown(ks, js, n, y) ==
  /\ n \in Nat /\ DOMAIN ks = 1..n /\ DOMAIN js = 1..(n + 1)
  /\ \A i \in 1..n : js[i] = ks[i]
  /\ js[n + 1] = y

LEMMA GrownIs ==
  ASSUME NEW ks, NEW js, NEW n, NEW y, Grown(ks, js, n, y), NEW k
  PROVE  /\ k # y => /\ Once(ks, k) => Once(js, k)
                     /\ AtMostTwice(ks, k) => AtMostTwice(js, k)
         /\ k = y => /\ (\A i \in DOMAIN ks : ks[i] # k) => Once(js, k)
                     /\ Once(ks, k) => AtMostTwice(js, k)
<1>1. /\ \A i \in DOMAIN js : i \in DOMAIN ks \/ i = n + 1
      /\ n + 1 \notin DOMAIN ks
      /\ \A i \in DOMAIN ks : js[i] = ks[i]
      /\ js[n + 1] = y
  BY DEF Grown
<1>2. k # y => (Once(ks, k) => Once(js, k))  BY <1>1 DEF Once
<1>3. ASSUME k # y, AtMostTwice(ks, k)  PROVE AtMostTwice(js, k)
  <2>1. \A i \in DOMAIN js : js[i] = k => i \in DOMAIN ks /\ ks[i] = k  BY <1>1, <1>3
  <2>2. QED  BY <1>3, <2>1 DEF AtMostTwice
<1>4. k = y /\ (\A i \in DOMAIN ks : ks[i] # k) => Once(js, k)  BY <1>1 DEF Once
<1>5. ASSUME k = y, Once(ks, k)  PROVE AtMostTwice(js, k)
  <2>1. \A i \in DOMAIN js : js[i] = k => (i \in DOMAIN ks /\ ks[i] = k) \/ i = n + 1
    BY <1>1
  <2>2. QED  BY <1>5, <2>1 DEF AtMostTwice, Once
<1>6. QED  BY <1>2, <1>3, <1>4, <1>5

LEMMA KeysGrow ==
  ASSUME NEW s \in Seq(HitRecord), NEW h \in HitRecord
  PROVE  /\ Append(s, h) \in Seq(HitRecord)
         /\ Grown(KeysOf(s), KeysOf(Append(s, h)), Len(s), h.key)
         /\ \A i \in DOMAIN Append(s, h) :
              (i \in DOMAIN s /\ Append(s, h)[i] = s[i]) \/ Append(s, h)[i] = h
<1> DEFINE t == Append(s, h)
<1>1. /\ t \in Seq(HitRecord) /\ DOMAIN s = 1..Len(s) /\ DOMAIN t = 1..(Len(s) + 1)
      /\ \A i \in 1..Len(s) : t[i] = s[i] /\ i \in DOMAIN t
      /\ t[Len(s) + 1] = h /\ Len(s) + 1 \in DOMAIN t /\ Len(s) \in Nat
      /\ \A i \in DOMAIN t : i \in 1..Len(s) \/ i = Len(s) + 1
  OBVIOUS
<1> HIDE DEF t
<1>2. Grown(KeysOf(s), KeysOf(t), Len(s), h.key)  BY <1>1 DEF Grown, KeysOf
<1>3. QED  BY <1>1, <1>2 DEF t

\* What the head of the queue becomes: itself, its document, or nothing.
LEMMA PromoteCases ==
  ASSUME RetrievalTypeOK, Promote
  PROVE  LET h == Head(queue) IN
         /\ h \in HitRecord
         /\ \/ promoted' = Append(promoted, h) /\ parents' = parents
            \/ /\ h.md.parent \in Key \ parents /\ memory[h.md.parent] # None
               /\ Hit(h.md.parent) \in HitRecord
               /\ promoted' = Append(promoted, Hit(h.md.parent))
               /\ parents' = parents \cup {h.md.parent}
            \/ promoted' = promoted /\ parents' = parents
<1> DEFINE h == Head(queue)
<1>0. queue \in Seq(HitRecord) /\ queue # <<>> /\ promoted \in Seq(HitRecord)
  BY DEF Promote, RetrievalTypeOK
<1>1. h \in HitRecord  BY <1>0
<1> HIDE DEF h
<1>2. h.md.parent \in Key \cup {None}  BY <1>1 DEF HitRecord, Memory
<1>3. /\ promoted' = promoted \o Promoted(h)
      /\ parents' = IF h.md.kind = "chunk" /\ h.md.parent # None /\ memory[h.md.parent] # None
                      THEN parents \cup {h.md.parent} ELSE parents
  BY DEF Promote, h
<1>4. promoted \o <<>> = promoted  BY <1>0
<1>5. promoted \o <<h>> = Append(promoted, h)  BY <1>0, <1>1
<1>6. CASE h.md.kind # "chunk"  BY <1>1, <1>3, <1>5, <1>6 DEF Promoted, h
<1>7. CASE h.md.kind = "chunk" /\ (h.md.parent = None \/ h.md.parent \in parents)
  BY <1>1, <1>3, <1>4, <1>7 DEF Promoted, h
<1>8. CASE h.md.kind = "chunk" /\ h.md.parent # None /\ h.md.parent \notin parents
  <2>1. h.md.parent \in Key \ parents  BY <1>2, <1>8
  <2>2. CASE memory[h.md.parent] = None
    BY <1>1, <1>3, <1>5, <1>8, <2>2 DEF Promoted, h
  <2>3. CASE memory[h.md.parent] # None
    <3>1. memory[h.md.parent] \in Memory  BY <2>1, <2>3 DEF RetrievalTypeOK
    <3>2. Hit(h.md.parent) \in HitRecord  BY <2>1, <3>1 DEF Hit, HitRecord
    <3>3. promoted \o <<Hit(h.md.parent)>> = Append(promoted, Hit(h.md.parent))
      BY <1>0, <3>2
    <3>4. promoted' = promoted \o <<Hit(h.md.parent)>>
      BY <1>3, <1>8, <2>3 DEF Promoted
    <3>5. parents' = parents \cup {h.md.parent}  BY <1>3, <1>8, <2>3
    <3>6. QED  BY <1>1, <2>1, <2>3, <3>2, <3>3, <3>4, <3>5 DEF h
  <2>4. QED  BY <2>2, <2>3
<1>9. QED  BY <1>6, <1>7, <1>8

LEMMA PromoteKeeps ==
  ASSUME RetrievalInv, Promote
  PROVE  RetrievalInv'
<1> DEFINE h == Head(queue)
           ks == KeysOf(promoted)
           js == KeysOf(promoted')
<1>t. RetrievalTypeOK /\ HistoryInv /\ PromoteInv /\ ShownInv /\ BudgetHeld /\ AddsUp
      /\ UseMeansHydrated
  BY DEF RetrievalInv
<1>1. /\ phase = "promote" /\ queue # <<>> /\ queue' = Tail(queue)
      /\ UNCHANGED <<memory, asked, hits, phase, level, wanted, position, results,
                     used, uses>>
  BY DEF Promote
<1>2. /\ queue \in Seq(HitRecord) /\ promoted \in Seq(HitRecord)
      /\ queue' \in Seq(HitRecord)
      /\ \A i \in DOMAIN queue' : i + 1 \in DOMAIN queue /\ queue'[i] = queue[i + 1]
                                  /\ i + 1 # 1
      /\ 1 \in DOMAIN queue /\ h = queue[1]
  <2>1. queue \in Seq(HitRecord) /\ promoted \in Seq(HitRecord)
    BY <1>t DEF RetrievalTypeOK
  <2>2. queue' \in Seq(HitRecord) /\ Len(queue') = Len(queue) - 1
        /\ \A i \in 1..Len(queue') : queue'[i] = queue[i + 1]
    BY <1>1, <2>1
  <2>3. Len(queue) \in Nat /\ Len(queue) # 0 /\ DOMAIN queue = 1..Len(queue)
        /\ DOMAIN queue' = 1..Len(queue') /\ h = queue[1]
    BY <1>1, <2>1, <2>2
  <2>4. QED  BY <2>1, <2>2, <2>3
<1>3. /\ h \in HitRecord
      /\ \/ promoted' = Append(promoted, h) /\ parents' = parents
         \/ /\ h.md.parent \in Key \ parents /\ memory[h.md.parent] # None
            /\ Hit(h.md.parent) \in HitRecord
            /\ promoted' = Append(promoted, Hit(h.md.parent))
            /\ parents' = parents \cup {h.md.parent}
         \/ promoted' = promoted /\ parents' = parents
  BY <1>t, PromoteCases
<1> HIDE DEF h
<1>4. /\ Best(h.key) /\ Once(KeysOf(queue), h.key) /\ Once(ks, h.key)
      /\ \E j \in DOMAIN hits : hits[j] = h
      /\ h.key \notin parents => \A j \in DOMAIN promoted : promoted[j].key # h.key
  BY <1>t, <1>1, <1>2 DEF PromoteInv
<1>5. \A i \in DOMAIN queue' : queue'[i].key # h.key
  BY <1>2, <1>4 DEF Once, KeysOf
<1>6. /\ \A k : Best(k)' <=> Best(k)
      /\ HitKeys' = HitKeys
      /\ \A k, m : AsAsked(k, m)' <=> AsAsked(k, m)
  BY <1>1 DEF Best, HitKeys, AsAsked
<1>7. ASSUME NEW i \in DOMAIN queue'
      PROVE  LET k == queue'[i].key IN
             /\ Best(queue[i].key)' /\ Once(KeysOf(queue'), k) /\ Once(ks, k)
             /\ \E j \in DOMAIN hits' : hits'[j] = queue'[i]
             /\ k \notin parents => \A j \in DOMAIN promoted : promoted[j].key # k
             /\ AsAsked(queue[i].key, queue[i].md)' /\ k \in Key
  <2>1. i + 1 \in DOMAIN queue /\ queue'[i] = queue[i + 1]  BY <1>2
  <2>2. LET k == queue[i + 1].key IN
        /\ Best(k) /\ Once(KeysOf(queue), k) /\ Once(ks, k)
        /\ \E j \in DOMAIN hits : hits[j] = queue[i + 1]
        /\ k \notin parents => \A j \in DOMAIN promoted : promoted[j].key # k
        /\ AsAsked(k, queue[i + 1].md)
    BY <1>t, <1>1, <2>1 DEF PromoteInv, HistoryInv
  <2>3. Once(KeysOf(queue'), queue'[i].key)
    <3>1. ASSUME NEW l \in DOMAIN queue', NEW m \in DOMAIN queue',
                 queue'[l].key = queue'[i].key, queue'[m].key = queue'[i].key
          PROVE  l = m
      <4>1. l + 1 \in DOMAIN queue /\ m + 1 \in DOMAIN queue
            /\ queue[l + 1].key = queue[i + 1].key /\ queue[m + 1].key = queue[i + 1].key
        BY <1>2, <2>1, <3>1
      <4>2. l + 1 = m + 1  BY <2>2, <4>1 DEF Once, KeysOf
      <4>3. l \in Nat /\ m \in Nat  BY <1>2
      <4>4. QED  BY <4>2, <4>3
    <3>2. QED  BY <3>1 DEF Once, KeysOf
  <2>4. queue[i + 1].key \in Key  BY <1>2, <2>1, HitIs
  <2>5. QED  BY <1>1, <1>6, <2>1, <2>2, <2>3, <2>4
<1>8. Selected(ks)  BY <1>t, <1>1 DEF PromoteInv
<1>9. /\ promoted' \in Seq(HitRecord) /\ parents' \in SUBSET Key
      /\ \A k \in parents' : \E j \in DOMAIN hits' : hits'[j].md.parent = k
      /\ \A i \in DOMAIN promoted' : AsAsked(promoted[i].key, promoted[i].md)'
      /\ Selected(KeysOf(promoted))'
      /\ \A i \in DOMAIN queue' : LET k == queue'[i].key IN
           /\ Once(js, k)
           /\ k \notin parents' => \A j \in DOMAIN promoted' : promoted'[j].key # k
  <2>0. /\ parents \in SUBSET Key
        /\ \A k \in parents : \E j \in DOMAIN hits : hits[j].md.parent = k
        /\ \A i \in DOMAIN promoted : AsAsked(promoted[i].key, promoted[i].md)
    BY <1>t DEF RetrievalTypeOK, HistoryInv
  <2>1. CASE promoted' = promoted /\ parents' = parents
    <3>1. Selected(KeysOf(promoted))'
      BY <1>6, <1>8, <2>1 DEF Selected
    <3>2. QED  BY <1>1, <1>2, <1>6, <1>7, <2>0, <2>1, <3>1
  <2>2. CASE promoted' = Append(promoted, h) /\ parents' = parents
    <3>1. /\ promoted' \in Seq(HitRecord) /\ Grown(ks, js, Len(promoted), h.key)
          /\ \A i \in DOMAIN promoted' :
               (i \in DOMAIN promoted /\ promoted'[i] = promoted[i]) \/ promoted'[i] = h
      BY <1>2, <1>3, <2>2, KeysGrow
    <3>2. AsAsked(h.key, h.md)  BY <1>t, <1>2 DEF HistoryInv
    <3>3. \A i \in DOMAIN promoted' : AsAsked(promoted[i].key, promoted[i].md)'
      BY <1>6, <2>0, <3>1, <3>2
    <3>4. \A i \in DOMAIN js : (i \in DOMAIN ks /\ js[i] = ks[i]) \/ js[i] = h.key
      BY <3>1 DEF KeysOf
    <3>5. DOMAIN ks = DOMAIN promoted /\ \A i \in DOMAIN ks : ks[i] = promoted[i].key
      BY DEF KeysOf
    <3> HIDE DEF ks, js
    <3>6. ASSUME NEW k \in Key
          PROVE  /\ k \notin parents => Once(js, k) /\ \A i \in DOMAIN js : js[i] = k => Best(k)
                 /\ k \notin HitKeys => Once(js, k)
                 /\ AtMostTwice(js, k)
      <4>1. CASE k # h.key
        BY <1>8, <3>1, <3>4, <4>1, GrownIs DEF Selected
      <4>2. CASE k = h.key
        <5>1. k \in HitKeys  BY <1>4, <4>2 DEF Best
        <5>2. AtMostTwice(js, k)  BY <1>4, <3>1, <4>2, GrownIs
        <5>3. k \notin parents => Once(js, k)  BY <1>4, <3>1, <3>5, <4>2, GrownIs
        <5>4. QED  BY <1>4, <4>2, <5>1, <5>2, <5>3
      <4>3. QED  BY <4>1, <4>2
    <3>7. Selected(KeysOf(promoted))'  BY <1>6, <2>2, <3>6 DEF Selected, js
    <3>8. ASSUME NEW i \in DOMAIN queue'
          PROVE  /\ Once(js, queue'[i].key)
                 /\ queue'[i].key \notin parents' =>
                      \A j \in DOMAIN promoted' : promoted'[j].key # queue'[i].key
      <4>1. queue'[i].key # h.key  BY <1>5
      <4>2. QED  BY <1>7, <2>2, <3>1, <4>1, GrownIs
    <3>9. QED  BY <1>1, <2>0, <2>2, <3>1, <3>3, <3>7, <3>8 DEF js
  <2>3. CASE /\ h.md.parent \in Key \ parents /\ memory[h.md.parent] # None
             /\ Hit(h.md.parent) \in HitRecord
             /\ promoted' = Append(promoted, Hit(h.md.parent))
             /\ parents' = parents \cup {h.md.parent}
    <3> DEFINE p == h.md.parent
               x == Hit(p)
    <3>0. x.key = p /\ x.md = memory[p] /\ x \in HitRecord /\ p \in Key \ parents
          /\ parents' = parents \cup {p} /\ promoted' = Append(promoted, x)
      BY <2>3 DEF Hit
    <3>2. AsAsked(x.key, x.md)  BY <1>t, <2>3, <3>0 DEF HistoryInv
    <3>a. \E j \in DOMAIN hits : hits[j].md.parent = p  BY <1>4
    <3> HIDE DEF x, p
    <3>1. /\ promoted' \in Seq(HitRecord) /\ Grown(ks, js, Len(promoted), p)
          /\ \A i \in DOMAIN promoted' :
               (i \in DOMAIN promoted /\ promoted'[i] = promoted[i]) \/ promoted'[i] = x
      BY <1>2, <3>0, KeysGrow
    <3>3. \A i \in DOMAIN promoted' : AsAsked(promoted[i].key, promoted[i].md)'
      BY <1>6, <2>0, <3>1, <3>2
    <3>4. \A i \in DOMAIN js : (i \in DOMAIN ks /\ js[i] = ks[i]) \/ js[i] = p
      BY <3>0, <3>1 DEF KeysOf
    <3>5. DOMAIN ks = DOMAIN promoted /\ \A i \in DOMAIN ks : ks[i] = promoted[i].key
      BY DEF KeysOf
    <3> HIDE DEF ks, js
    <3>6. ASSUME NEW k \in Key
          PROVE  /\ k \notin parents' => Once(js, k) /\ \A i \in DOMAIN js : js[i] = k => Best(k)
                 /\ k \notin HitKeys => Once(js, k)
                 /\ AtMostTwice(js, k)
      <4>1. CASE k # p
        BY <1>8, <3>0, <3>1, <3>4, <4>1, GrownIs DEF Selected
      <4>2. CASE k = p
        <5>1. Once(ks, k) /\ \A i \in DOMAIN ks : ks[i] = k => Best(k)
          BY <1>8, <3>0, <4>2 DEF Selected
        <5>2. AtMostTwice(js, k)  BY <3>1, <4>2, <5>1, GrownIs
        <5>3. ASSUME k \notin HitKeys  PROVE Once(js, k)
          <6>1. \A i \in DOMAIN ks : ks[i] # k  BY <5>1, <5>3 DEF Best
          <6>2. QED  BY <3>1, <4>2, <6>1, GrownIs
        <5>4. QED  BY <3>0, <4>2, <5>2, <5>3
      <4>3. QED  BY <4>1, <4>2
    <3>7. Selected(KeysOf(promoted))'  BY <1>6, <3>6 DEF Selected, js
    <3>8. ASSUME NEW i \in DOMAIN queue'
          PROVE  /\ Once(js, queue'[i].key)
                 /\ queue'[i].key \notin parents' =>
                      \A j \in DOMAIN promoted' : promoted'[j].key # queue'[i].key
      <4>1. CASE queue'[i].key # p  BY <1>7, <3>0, <3>1, <4>1, GrownIs
      <4>2. CASE queue'[i].key = p
        <5>1. \A j \in DOMAIN ks : ks[j] # p  BY <1>7, <3>0, <3>5, <4>2
        <5>2. QED  BY <3>0, <3>1, <4>2, <5>1, GrownIs
      <4>3. QED  BY <4>1, <4>2
    <3>9. \A k \in parents' : \E j \in DOMAIN hits' : hits'[j].md.parent = k
      BY <1>1, <2>0, <3>0, <3>a
    <3>10. QED  BY <2>0, <3>0, <3>1, <3>3, <3>7, <3>8, <3>9 DEF js
  <2>4. QED  BY <1>3, <2>1, <2>2, <2>3
<1>10. RetrievalTypeOK'  BY <1>t, <1>1, <1>2, <1>9 DEF RetrievalTypeOK
<1>11. HistoryInv'
  <2>1. /\ \A k \in Key : memory'[k] # None => AsAsked(k, memory[k])'
        /\ \A j \in DOMAIN hits' : LET k == hits'[j].key IN
             asked'[k] # None /\ asked'[k].live /\ hits'[j].md = asked'[k]
    BY <1>t, <1>1, <1>6 DEF HistoryInv
  <2>2. QED  BY <1>1, <1>7, <1>9, <2>1 DEF HistoryInv
<1>12. PromoteInv'
  <2>1. Selected(KeysOf(promoted))'  BY <1>9
  <2>2. results' = <<>> /\ used' = 0  BY <1>t, <1>1 DEF PromoteInv
  <2>3. QED  BY <1>7, <1>9, <2>1, <2>2 DEF PromoteInv
<1>13. ShownInv'  BY <1>t, <1>1 DEF ShownInv
<1>14. BudgetHeld' /\ AddsUp' /\ UseMeansHydrated'
  BY <1>t, <1>1 DEF BudgetHeld, AddsUp, UseMeansHydrated
<1>15. QED  BY <1>10, <1>11, <1>12, <1>13, <1>14 DEF RetrievalInv
-------------------------------------------------------------------------------
\* Ranking

LEMMA RankKeeps ==
  ASSUME RetrievalInv, NEW order \in Orders(Len(promoted)), Rank(order)
  PROVE  RetrievalInv'
<1> DEFINE n == Len(promoted)
           ranked == [i \in DOMAIN promoted |-> promoted[order[i]]]
<1>t. RetrievalTypeOK /\ HistoryInv /\ PromoteInv /\ ShownInv /\ BudgetHeld /\ AddsUp
      /\ UseMeansHydrated
  BY DEF RetrievalInv
<1>1. /\ phase = "promote" /\ phase' = "budget" /\ position' = 0
      /\ queue' = FirstOf(ranked, TopK)
      /\ UNCHANGED <<memory, asked, hits, level, wanted, parents, promoted, results,
                     used, uses>>
  BY DEF Rank
<1>2. /\ order \in [1..n -> 1..n] /\ DOMAIN promoted = 1..n /\ n \in Nat
      /\ \A i, j \in 1..n : order[i] = order[j] => i = j
      /\ promoted \in Seq(HitRecord)
  BY <1>t DEF Orders, IsInjective, RetrievalTypeOK
<1>3. ranked \in Seq(HitRecord) /\ DOMAIN ranked = 1..n
      /\ \A i \in 1..n : order[i] \in 1..n /\ ranked[i] = promoted[order[i]]
  BY <1>2
<1> HIDE DEF ranked, n
<1>4. /\ queue' \in Seq(HitRecord)
      /\ \A i \in DOMAIN queue' : i \in 1..n /\ queue'[i] = ranked[i]
  <2>1. TopK \in Nat  BY RetrievalAssumption
  <2>2. /\ FirstOf(ranked, TopK) \in Seq(HitRecord)
        /\ \A i \in DOMAIN FirstOf(ranked, TopK) :
             i \in DOMAIN ranked /\ FirstOf(ranked, TopK)[i] = ranked[i]
    BY <1>3, <2>1, FirstOfIs
  <2>3. QED  BY <1>1, <1>3, <2>2
<1>5. results = <<>> /\ Selected(KeysOf(promoted))  BY <1>t, <1>1 DEF PromoteInv
<1>6. RetrievalTypeOK'  BY <1>t, <1>1, <1>4 DEF RetrievalTypeOK
<1>7. HistoryInv'
  <2>1. \A i \in DOMAIN promoted : AsAsked(promoted[i].key, promoted[i].md)
    BY <1>t DEF HistoryInv
  <2>2. \A i \in DOMAIN queue' : AsAsked(queue[i].key, queue[i].md)'
    BY <1>1, <1>2, <1>3, <1>4, <2>1 DEF AsAsked
  <2>3. \A k, m : AsAsked(k, m)' <=> AsAsked(k, m)  BY <1>1 DEF AsAsked
  <2>4. \A i \in DOMAIN promoted' : AsAsked(promoted[i].key, promoted[i].md)'
    BY <1>1, <2>1, <2>3
  <2>5. \A k \in Key : memory'[k] # None => AsAsked(k, memory[k])'
    BY <1>t, <1>1, <2>3 DEF HistoryInv
  <2>6. QED  BY <1>t, <1>1, <2>2, <2>4, <2>5 DEF HistoryInv
<1>8. PromoteInv'  BY <1>1 DEF PromoteInv
<1>9. ShownInv'
  <2> DEFINE js == Shown'
             ks == KeysOf(promoted)
             e == [i \in DOMAIN js |-> order[i]]
  <2>1. /\ DOMAIN js = DOMAIN queue'
        /\ \A i \in DOMAIN js : js[i] = queue'[i].key
    <3>1. results' = <<>> /\ Len(results') = 0  BY <1>1, <1>5
    <3>2. Len(queue') \in Nat /\ DOMAIN queue' = 1..Len(queue')  BY <1>4
    <3>3. DOMAIN js = 1..Len(queue')  BY <3>1, <3>2 DEF Shown
    <3>4. \A i \in 1..Len(queue') : js[i] = queue'[i].key  BY <3>1, <3>2 DEF Shown
    <3>5. QED  BY <3>2, <3>3, <3>4
  <2> HIDE DEF js
  <2>2. /\ \A i \in DOMAIN js : e[i] \in DOMAIN ks /\ js[i] = ks[e[i]]
        /\ \A i, j \in DOMAIN js : e[i] = e[j] => i = j
    <3>1. \A i \in DOMAIN js : i \in 1..n /\ e[i] = order[i]  BY <1>4, <2>1
    <3>2. \A i \in DOMAIN js : js[i] = promoted[order[i]].key
      BY <1>3, <1>4, <2>1, <3>1
    <3>3. DOMAIN ks = 1..n /\ \A m \in 1..n : ks[m] = promoted[m].key
      BY <1>2 DEF KeysOf
    <3>4. \A i \in DOMAIN js : e[i] \in DOMAIN ks /\ js[i] = ks[e[i]]
      BY <1>3, <3>1, <3>2, <3>3
    <3>5. \A i, j \in DOMAIN js : e[i] = e[j] => i = j  BY <1>2, <3>1
    <3>6. QED  BY <3>4, <3>5
  <2> HIDE DEF ks, e
  <2>3. Selected(js)
    <3>1. Selected(ks)  BY <1>5 DEF ks
    <3>2. QED  BY <2>2, <3>1, Reordered
  <2>4. Selected(Shown)'  BY <1>1, <2>3 DEF Selected, Best, HitKeys, js
  <2>5. QED  BY <1>1, <1>5, <2>4 DEF ShownInv
<1>10. BudgetHeld' /\ AddsUp' /\ UseMeansHydrated'
  BY <1>t, <1>1 DEF BudgetHeld, AddsUp, UseMeansHydrated
<1>11. QED  BY <1>6, <1>7, <1>8, <1>9, <1>10 DEF RetrievalInv

-------------------------------------------------------------------------------
\* The budget

LEMMA ChoiceIs ==
  ASSUME NEW m \in Memory, NEW choice \in BodyChoices(m)
  PROVE  LET c == Trim(m, choice) IN
         /\ c.body \in Nat \cup {None} /\ c.hydrated \in BOOLEAN
         /\ c.hydrated => c.body = m.full
<1>1. m.summary \in Nat \cup {None} /\ m.full \in Nat /\ None \notin Nat
  BY RetrievalAssumption DEF Memory
<1>2. Preview(m) \in Nat \cup {None}
  BY <1>1, MinOfTwo, RetrievalAssumption DEF Preview
<1>3. Bodies(m) \subseteq {m.full, None}  BY DEF Bodies
<1>4. /\ choice.body \in Nat \cup {None} /\ choice.hydrated \in BOOLEAN
      /\ choice.hydrated => choice.body = m.full
  <2> DEFINE b == IF level = "summary" THEN Preview(m) ELSE m.summary
             short == level = "summary" \/ (level = "standard" /\ position >= 2)
  <2>1. CASE short
    <3>1. choice.body = b /\ choice.hydrated = FALSE  BY <2>1 DEF BodyChoices
    <3>2. b \in Nat \cup {None}  BY <1>1, <1>2
    <3>3. QED  BY <3>1, <3>2
  <2>2. CASE ~short
    <3>1. PICK f \in Bodies(m) :
            choice = [body |-> IF f # None THEN f ELSE m.summary,
                      hydrated |-> f # None, summary |-> f = None]
      BY <2>2 DEF BodyChoices
    <3>2. CASE f = None
      <4>1. choice.body = m.summary /\ choice.hydrated = FALSE  BY <3>1, <3>2
      <4>2. QED  BY <1>1, <4>1
    <3>3. CASE f # None
      <4>1. f = m.full  BY <1>3, <3>3
      <4>2. choice.body = f /\ choice.hydrated = TRUE  BY <3>1, <3>3
      <4>3. QED  BY <1>1, <4>1, <4>2
    <3>4. QED  BY <3>2, <3>3
  <2>3. QED  BY <2>1, <2>2
<1>5. QED  BY <1>1, <1>4 DEF Trim

\* Steps that leave the query and its promotion alone.
LEMMA HistoryKept ==
  ASSUME RetrievalInv, UNCHANGED <<memory, asked, hits, parents, promoted>>,
         phase \notin {"query"}, phase' \notin {"query"},
         \A i \in DOMAIN queue' : \E j \in DOMAIN queue : queue'[i] = queue[j]
  PROVE  HistoryInv'
<1>1. HistoryInv  BY DEF RetrievalInv
<1>2. \A k, m : AsAsked(k, m)' <=> AsAsked(k, m)  BY DEF AsAsked
<1>3. \A i \in DOMAIN queue' : AsAsked(queue[i].key, queue[i].md)'
  BY <1>1, <1>2 DEF HistoryInv
<1>4. QED  BY <1>1, <1>2, <1>3 DEF HistoryInv

LEMMA RecordUseIs ==
  ASSUME uses \in [Group -> Nat], NEW g \in Group, RecordUse(g)
  PROVE  /\ uses' \in [Group -> Nat] /\ uses'[g] > 0
         /\ \A f \in Group \ {g} : uses'[f] = uses[f]
<1>1. uses' = [uses EXCEPT ![g] = @ + 1] /\ uses[g] + 1 \in Nat /\ uses[g] + 1 > 0
  BY DEF RecordUse
<1>2. QED  BY <1>1

LEMMA BudgetKeeps ==
  ASSUME RetrievalInv, Budget
  PROVE  RetrievalInv'
<1> DEFINE h == Head(queue)
<1>t. RetrievalTypeOK /\ HistoryInv /\ PromoteInv /\ ShownInv /\ BudgetHeld /\ AddsUp
      /\ UseMeansHydrated
  BY DEF RetrievalInv
<1>1. /\ phase = "budget" /\ queue # <<>>
      /\ UNCHANGED <<memory, asked, hits, phase, level, wanted, parents, promoted>>
  BY DEF Budget
<1>q. /\ queue \in Seq(HitRecord) /\ results \in Seq(ResultRecord) /\ used \in Nat
      /\ uses \in [Group -> Nat] /\ Len(results) \in Nat /\ Len(queue) \in Nat
      /\ Len(queue) # 0 /\ 1 \in DOMAIN queue /\ h = queue[1]
      /\ DOMAIN queue = 1..Len(queue) /\ DOMAIN results = 1..Len(results)
  BY <1>t, <1>1 DEF RetrievalTypeOK
<1>h. /\ h \in HitRecord /\ h.md \in Memory /\ h.key \in Key /\ h.md.gid \in Group
      /\ AsAsked(h.key, h.md)
  <2>1. AsAsked(h.key, h.md)  BY <1>t, <1>q DEF HistoryInv
  <2>2. h \in HitRecord /\ h.md \in Memory /\ h.key \in Key  BY <1>q, HitIs
  <2>3. h.md.gid \in Group  BY <2>2 DEF Memory
  <2>4. QED  BY <2>1, <2>2, <2>3
<1> HIDE DEF h
<1>2. PICK choice \in BodyChoices(h.md) : LET c == Trim(h.md, choice) IN
        IF Fits(c)
          THEN /\ results' = Append(results, Result(h, c))
               /\ used' = used + Tokens(c.body)
               /\ IF c.hydrated THEN RecordUse(h.md.gid) ELSE UNCHANGED uses
               /\ queue' = Tail(queue) /\ position' = position + 1
          ELSE queue' = <<>> /\ UNCHANGED <<results, used, uses, position>>
  BY DEF Budget, h
<1> DEFINE c == Trim(h.md, choice)
           r == Result(h, c)
<1>3. /\ c.body \in Nat \cup {None} /\ c.hydrated \in BOOLEAN
      /\ c.hydrated => c.body = h.md.full
  BY <1>h, ChoiceIs
<1>4. CASE Fits(c)
  <2>1. /\ results' = Append(results, r) /\ used' = used + Tokens(c.body)
        /\ IF c.hydrated THEN RecordUse(h.md.gid) ELSE UNCHANGED uses
        /\ queue' = Tail(queue) /\ position' = position + 1
    BY <1>2, <1>4
  <2> HIDE DEF c
  <2>2. /\ r.key = h.key /\ r.gid = h.md.gid /\ r.body = c.body
        /\ r.hydrated = c.hydrated /\ r \in ResultRecord
    BY <1>3, <1>h DEF Result, ResultRecord
  <2>3. Tokens(c.body) \in Nat  BY <1>3, TokensIs
  <2> HIDE DEF r
  <2>4. /\ results' \in Seq(ResultRecord) /\ Len(results') = Len(results) + 1
        /\ DOMAIN results' = 1..(Len(results) + 1)
        /\ \A i \in DOMAIN results : results'[i] = results[i] /\ i \in DOMAIN results'
        /\ results'[Len(results) + 1] = r /\ Len(results) + 1 \in DOMAIN results'
        /\ \A i \in DOMAIN results' : i \in DOMAIN results \/ i = Len(results) + 1
    BY <1>q, <2>1, <2>2
  <2>5. /\ queue' \in Seq(HitRecord) /\ Len(queue') = Len(queue) - 1
        /\ \A i \in 1..(Len(queue) - 1) : queue'[i] = queue[i + 1]
        /\ DOMAIN queue' = 1..(Len(queue) - 1)
    BY <1>q, <2>1
  <2>6. uses' \in [Group -> Nat]
    <3>1. CASE c.hydrated  BY <1>q, <1>h, <2>1, <3>1, RecordUseIs
    <3>2. CASE ~c.hydrated  BY <1>q, <2>1, <3>2
    <3>3. QED  BY <3>1, <3>2
  <2>7. RetrievalTypeOK'
    <3>1. used' \in Nat /\ position' \in Nat  BY <1>t, <1>q, <2>1, <2>3 DEF RetrievalTypeOK
    <3>2. QED  BY <1>t, <1>1, <2>4, <2>5, <2>6, <3>1 DEF RetrievalTypeOK
  <2>8. HistoryInv'
    <3>1. \A i \in DOMAIN queue' : i + 1 \in DOMAIN queue /\ queue'[i] = queue[i + 1]
      BY <1>q, <2>5
    <3>2. QED  BY <1>1, <3>1, HistoryKept
  <2>9. ShownInv'
    <3>1. ASSUME NEW i \in DOMAIN Shown'
          PROVE  i \in DOMAIN Shown /\ Shown'[i] = Shown[i]
      <4>1. i \in 1..(Len(results) + Len(queue))  BY <1>q, <2>4, <2>5 DEF Shown
      <4>2. Shown'[i] = IF i <= Len(results) + 1 THEN results'[i].key
                        ELSE queue'[i - (Len(results) + 1)].key
        BY <1>q, <2>4, <2>5, <4>1 DEF Shown
      <4>3. Shown[i] = IF i <= Len(results) THEN results[i].key
                       ELSE queue[i - Len(results)].key
        BY <4>1 DEF Shown
      <4>4. CASE i <= Len(results)
        <5>1. i \in DOMAIN results /\ i <= Len(results) + 1  BY <1>q, <4>1, <4>4
        <5>2. QED  BY <2>4, <4>1, <4>2, <4>3, <4>4, <5>1 DEF Shown
      <4>5. CASE i = Len(results) + 1
        <5>1. ~(i <= Len(results)) /\ i - Len(results) = 1 /\ i <= Len(results) + 1
          BY <1>q, <4>5
        <5>2. QED  BY <1>q, <2>2, <2>4, <4>1, <4>2, <4>3, <4>5, <5>1 DEF Shown
      <4>6. CASE i > Len(results) + 1
        <5>1. /\ ~(i <= Len(results)) /\ ~(i <= Len(results) + 1)
              /\ i - (Len(results) + 1) \in 1..(Len(queue) - 1)
              /\ (i - (Len(results) + 1)) + 1 = i - Len(results)
          BY <1>q, <4>1, <4>6
        <5>2. queue'[i - (Len(results) + 1)] = queue[i - Len(results)]  BY <2>5, <5>1
        <5>3. QED  BY <4>1, <4>2, <4>3, <5>1, <5>2 DEF Shown
      <4>7. QED  BY <1>q, <4>1, <4>4, <4>5, <4>6
    <3>2. Selected(Shown)  BY <1>t, <1>1 DEF ShownInv
    <3>3. Selected(Shown)'  BY <1>1, <3>1, <3>2, ShownKept
    <3>4. \A i \in DOMAIN results' : LET k == results'[i].key IN
            asked'[k] # None /\ results'[i].gid = asked'[k].gid
      BY <1>t, <1>1, <1>h, <2>2, <2>4 DEF ShownInv, AsAsked
    <3>5. QED  BY <1>1, <3>3, <3>4 DEF ShownInv
  <2>10. BudgetHeld'
    <3>1. Tokens(c.body) \in Nat /\ MaxTokens \in Nat  BY <2>3, RetrievalAssumption
    <3>2. CASE results = <<>>  BY <2>4, <3>2 DEF BudgetHeld
    <3>3. CASE results # <<>>
      <4>1. used + Tokens(c.body) <= MaxTokens
        BY <1>4, <1>q, <3>1, <3>3 DEF Fits, Over, c
      <4>2. QED  BY <2>1, <4>1 DEF BudgetHeld
    <3>4. QED  BY <3>2, <3>3
  <2>11. AddsUp'
    <3>1. Total(Append(results, r)) = Total(results) + Tokens(r.body)
      BY <1>q, <2>2, TotalOfAppend
    <3>2. QED  BY <1>t, <2>1, <2>2, <3>1 DEF AddsUp
  <2>12. UseMeansHydrated'
    <3>1. \A i \in DOMAIN results' :
            results'[i].hydrated => results'[i].body = asked'[results'[i].key].full
      BY <1>t, <1>1, <1>h, <1>3, <2>2, <2>4 DEF UseMeansHydrated, AsAsked
    <3>2. ASSUME NEW g \in Group
          PROVE  uses'[g] > 0 <=> \E i \in DOMAIN results' :
                                     results'[i].gid = g /\ results'[i].hydrated
      <4>1. uses[g] > 0 <=> \E i \in DOMAIN results : results[i].gid = g /\ results[i].hydrated
        BY <1>t DEF UseMeansHydrated
      <4>2. CASE c.hydrated /\ g = h.md.gid
        <5>1. uses'[g] > 0  BY <1>q, <1>h, <2>1, <4>2, RecordUseIs
        <5>2. \E i \in DOMAIN results' : results'[i].gid = g /\ results'[i].hydrated
          BY <2>2, <2>4, <4>2
        <5>3. QED  BY <5>1, <5>2
      <4>3. CASE ~(c.hydrated /\ g = h.md.gid)
        <5>1. uses'[g] = uses[g]  BY <1>q, <1>h, <2>1, <4>3, RecordUseIs
        <5>2. QED  BY <2>2, <2>4, <4>1, <4>3, <5>1
      <4>4. QED  BY <4>2, <4>3
    <3>3. QED  BY <3>1, <3>2 DEF UseMeansHydrated
  <2>13. PromoteInv'  BY <1>1 DEF PromoteInv
  <2>14. QED
    BY <2>7, <2>8, <2>9, <2>10, <2>11, <2>12, <2>13 DEF RetrievalInv
<1>5. CASE ~Fits(c)
  <2>1. queue' = <<>> /\ UNCHANGED <<results, used, uses, position>>
    BY <1>2, <1>5
  <2>2. RetrievalTypeOK'  BY <1>t, <1>1, <2>1 DEF RetrievalTypeOK
  <2>3. HistoryInv'  BY <1>1, <2>1, HistoryKept
  <2>4. ShownInv'
    <3>1. \A i \in DOMAIN Shown' : i \in DOMAIN Shown /\ Shown'[i] = Shown[i]
      BY <1>q, <2>1 DEF Shown
    <3>2. Selected(Shown)  BY <1>t, <1>1 DEF ShownInv
    <3>3. Selected(Shown)'  BY <1>1, <3>1, <3>2, ShownKept
    <3>4. QED  BY <1>t, <1>1, <2>1, <3>3 DEF ShownInv
  <2>5. PromoteInv'  BY <1>1 DEF PromoteInv
  <2>6. BudgetHeld' /\ AddsUp' /\ UseMeansHydrated'
    BY <1>t, <1>1, <2>1 DEF BudgetHeld, AddsUp, UseMeansHydrated
  <2>7. QED  BY <2>2, <2>3, <2>4, <2>5, <2>6 DEF RetrievalInv
<1>6. QED  BY <1>4, <1>5

\* Steps that leave the results alone.
LEMMA ResultsKept ==
  ASSUME RetrievalInv, UNCHANGED <<asked, hits, parents, queue, results, used, uses>>,
         phase \in {"budget", "hydrate", "done"}, phase' \in {"budget", "hydrate", "done"},
         phase' \in {"hydrate", "done"} => queue = <<>>
  PROVE  PromoteInv' /\ ShownInv' /\ BudgetHeld' /\ AddsUp' /\ UseMeansHydrated'
<1>t. ShownInv /\ BudgetHeld /\ AddsUp /\ UseMeansHydrated  BY DEF RetrievalInv
<1>1. PromoteInv'  BY DEF PromoteInv
<1>2. ShownInv'
  <2>1. \A i \in DOMAIN Shown' : i \in DOMAIN Shown /\ Shown'[i] = Shown[i]
    BY DEF Shown
  <2>2. Selected(Shown)  BY <1>t DEF ShownInv
  <2>3. Selected(Shown)'  BY <2>1, <2>2, ShownKept
  <2>4. QED  BY <1>t, <2>3 DEF ShownInv
<1>3. BudgetHeld' /\ AddsUp' /\ UseMeansHydrated'
  BY <1>t DEF BudgetHeld, AddsUp, UseMeansHydrated
<1>4. QED  BY <1>1, <1>2, <1>3

LEMMA EndsKeep ==
  ASSUME RetrievalInv, EndBudget \/ Return
  PROVE  RetrievalInv'
<1>1. /\ phase \in {"budget", "hydrate"} /\ phase' \in {"hydrate", "done"}
      /\ phase = "budget" => queue = <<>>
      /\ UNCHANGED <<memory, asked, hits, level, wanted, queue, parents, promoted,
                     position, results, used, uses>>
  BY DEF EndBudget, Return
<1>2. RetrievalTypeOK /\ ShownInv  BY DEF RetrievalInv
<1>3. queue = <<>>  BY <1>1, <1>2 DEF ShownInv
<1>4. RetrievalTypeOK'  BY <1>1, <1>2 DEF RetrievalTypeOK
<1>5. HistoryInv'  BY <1>1, HistoryKept
<1>6. PromoteInv' /\ ShownInv' /\ BudgetHeld' /\ AddsUp' /\ UseMeansHydrated'
  BY <1>1, <1>3, ResultsKept
<1>7. QED  BY <1>4, <1>5, <1>6 DEF RetrievalInv

-------------------------------------------------------------------------------
\* hydrate_keys

LEMMA HydrateKeeps ==
  ASSUME RetrievalInv, Hydrate
  PROVE  RetrievalInv'
<1> DEFINE k == Head(wanted)
           i == Max(Slots(k))
<1>t. RetrievalTypeOK /\ HistoryInv /\ PromoteInv /\ ShownInv /\ BudgetHeld /\ AddsUp
      /\ UseMeansHydrated
  BY DEF RetrievalInv
<1>1. /\ phase = "hydrate" /\ wanted # <<>> /\ wanted' = Tail(wanted)
      /\ UNCHANGED <<memory, asked, hits, phase, level, queue, parents, promoted,
                     position>>
  BY DEF Hydrate
<1>q. /\ results \in Seq(ResultRecord) /\ used \in Nat /\ uses \in [Group -> Nat]
      /\ Len(results) \in Nat /\ DOMAIN results = 1..Len(results)
      /\ queue = <<>> /\ wanted' \in Seq(Key) /\ k \in Key
  BY <1>t, <1>1 DEF RetrievalTypeOK, ShownInv
<1>2. HistoryInv'  BY <1>1, HistoryKept
<1>3. CASE UNCHANGED <<results, used, uses>>
  <2>1. RetrievalTypeOK'  BY <1>t, <1>1, <1>q, <1>3 DEF RetrievalTypeOK
  <2>2. PromoteInv' /\ ShownInv' /\ BudgetHeld' /\ AddsUp' /\ UseMeansHydrated'
    BY <1>1, <1>3, <1>q, ResultsKept
  <2>3. QED  BY <1>2, <2>1, <2>2 DEF RetrievalInv
<1>4. CASE ~ UNCHANGED <<results, used, uses>>
  <2>1. Slots(k) # {} /\ memory[k] # None  BY <1>4 DEF Hydrate
  <2>2. PICK f \in Bodies(memory[k]) :
          /\ f # None /\ Affords(f, results[i].body)
          /\ results' = [results EXCEPT ![i].body = f, ![i].hydrated = TRUE]
          /\ used' = Swapped(f, results[i].body)
          /\ RecordUse(results[i].gid)
    BY <1>4, <2>1 DEF Hydrate
  <2>3. i \in DOMAIN results /\ results[i].key = k
    <3>1. Slots(k) \in SUBSET (1..Len(results))  BY <1>q DEF Slots
    <3>2. i \in Slots(k)  BY <1>q, <2>1, <3>1, MaxIs
    <3>3. QED  BY <3>2 DEF Slots
  <2> HIDE DEF i, k
  <2>4. /\ memory[k] \in Memory /\ AsAsked(k, memory[k])
        /\ f = memory[k].full /\ f \in Nat /\ f = asked[k].full
    <3>1. memory[k] \in Memory /\ AsAsked(k, memory[k])
      BY <1>t, <1>q, <2>1 DEF RetrievalTypeOK, HistoryInv
    <3>2. memory[k].full \in Nat  BY <3>1 DEF Memory
    <3>3. f = memory[k].full  BY <2>2 DEF Bodies
    <3>4. QED  BY <3>1, <3>2, <3>3 DEF AsAsked
  <2>5. /\ results[i] \in ResultRecord /\ results[i].gid \in Group
        /\ results[i].body \in Nat \cup {None}
        /\ Tokens(results[i].body) \in Nat
    BY <1>q, <2>3, ResultIs
  <2> DEFINE r == [results[i] EXCEPT !.body = f, !.hydrated = TRUE]
  <2>6. /\ r \in ResultRecord /\ r.key = results[i].key /\ r.gid = results[i].gid
        /\ r.body = f /\ r.hydrated = TRUE
    BY <2>4, <2>5 DEF ResultRecord
  <2>7. results' = [results EXCEPT ![i] = r]  BY <2>2
  <2> HIDE DEF r
  <2>8. /\ results' \in Seq(ResultRecord) /\ Len(results') = Len(results)
        /\ DOMAIN results' = DOMAIN results /\ results'[i] = r
        /\ \A j \in DOMAIN results : j # i => results'[j] = results[j]
    BY <1>q, <2>3, <2>6, <2>7
  <2>9. Tokens(f) = f /\ MaxTokens \in Nat /\ used + f <= MaxTokens
    BY <1>q, <2>2, <2>4, RetrievalAssumption DEF Affords, Over, Tokens
  <2>10. used' = used + f - Tokens(results[i].body)  BY <2>2 DEF Swapped
  <2>11. AddsUp' /\ used' \in Nat
    <3>1. \A j \in DOMAIN results : j # i => results'[j].body = results[j].body  BY <2>8
    <3>2. /\ Total(results') = Total(results) - Tokens(results[i].body) + Tokens(results'[i].body)
          /\ Total(results') \in Nat
      BY <1>q, <2>3, <2>8, <3>1, TotalOfSwap
    <3>3. Total(results') = used' /\ Total(results) = used
      BY <1>t, <1>q, <2>4, <2>5, <2>6, <2>8, <2>9, <2>10, <3>2 DEF AddsUp
    <3>4. QED  BY <3>2, <3>3 DEF AddsUp
  <2>12. BudgetHeld'
    BY <1>q, <2>4, <2>5, <2>9, <2>10 DEF BudgetHeld
  <2>13. /\ uses' \in [Group -> Nat] /\ uses'[results[i].gid] > 0
         /\ \A g \in Group \ {results[i].gid} : uses'[g] = uses[g]
    BY <1>q, <2>2, <2>5, RecordUseIs
  <2>14. RetrievalTypeOK'  BY <1>t, <1>1, <1>q, <2>8, <2>11, <2>13 DEF RetrievalTypeOK
  <2>15. ShownInv'
    <3>1. \A j \in DOMAIN results : /\ results'[j].key = results[j].key
                                    /\ results'[j].gid = results[j].gid
      BY <2>6, <2>8
    <3>2. \A j \in DOMAIN Shown' : j \in DOMAIN Shown /\ Shown'[j] = Shown[j]
      BY <1>1, <1>q, <2>8, <3>1 DEF Shown
    <3>3. Selected(Shown)  BY <1>t, <1>1 DEF ShownInv
    <3>4. Selected(Shown)'  BY <1>1, <3>2, <3>3, ShownKept
    <3>5. \A j \in DOMAIN results' : LET q == results'[j].key IN
            asked'[q] # None /\ results'[j].gid = asked'[q].gid
      BY <1>t, <1>1, <2>8, <3>1 DEF ShownInv
    <3>6. QED  BY <1>1, <1>q, <3>4, <3>5 DEF ShownInv
  <2>16. UseMeansHydrated'
    <3>1. \A j \in DOMAIN results' :
            results'[j].hydrated => results'[j].body = asked'[results'[j].key].full
      BY <1>t, <1>1, <2>3, <2>4, <2>6, <2>8 DEF UseMeansHydrated
    <3>2. ASSUME NEW g \in Group
          PROVE  uses'[g] > 0 <=> \E j \in DOMAIN results' :
                                     results'[j].gid = g /\ results'[j].hydrated
      <4>1. uses[g] > 0 <=> \E j \in DOMAIN results : results[j].gid = g /\ results[j].hydrated
        BY <1>t DEF UseMeansHydrated
      <4>2. CASE g = results[i].gid  BY <2>3, <2>6, <2>8, <2>13, <4>2
      <4>3. CASE g # results[i].gid
        <5>1. uses'[g] = uses[g]  BY <2>13, <4>3
        <5>2. QED  BY <2>3, <2>6, <2>8, <4>1, <4>3, <5>1
      <4>4. QED  BY <4>2, <4>3
    <3>3. QED  BY <3>1, <3>2 DEF UseMeansHydrated
  <2>17. PromoteInv'  BY <1>1 DEF PromoteInv
  <2>18. QED
    BY <1>2, <2>11, <2>12, <2>14, <2>15, <2>16, <2>17 DEF RetrievalInv
<1>5. QED  BY <1>3, <1>4

-------------------------------------------------------------------------------
\* What others do, and the theorems

LEMMA OthersKeep ==
  ASSUME RetrievalInv, Environment
  PROVE  RetrievalInv'
<1>t. RetrievalTypeOK /\ HistoryInv /\ PromoteInv /\ ShownInv /\ BudgetHeld /\ AddsUp
      /\ UseMeansHydrated
  BY DEF RetrievalInv
<1>1. PICK k \in Key :
        /\ asked[k] # None
        /\ \E m \in {None, asked[k], [asked[k] EXCEPT !.live = FALSE]} :
             memory' = [memory EXCEPT ![k] = m]
  BY DEF Environment
<1>2. /\ phase # "query"
      /\ UNCHANGED <<asked, hits, phase, level, wanted, queue, parents, promoted,
                     position, results, used, uses>>
  BY DEF Environment
<1>3. memory \in [Key -> Memory \cup {None}] /\ asked[k] \in Memory
  BY <1>t, <1>1 DEF RetrievalTypeOK
<1>4. PICK m \in Memory \cup {None} :
        /\ memory' = [memory EXCEPT ![k] = m]
        /\ m # None => m.gid = asked[k].gid /\ m.full = asked[k].full
  <2> DEFINE r == [asked[k] EXCEPT !.live = FALSE]
  <2>1. r \in Memory /\ r.gid = asked[k].gid /\ r.full = asked[k].full
    BY <1>3 DEF Memory
  <2> HIDE DEF r
  <2>2. \E m \in {None, asked[k], r} : memory' = [memory EXCEPT ![k] = m]
    BY <1>1 DEF r
  <2>3. QED  BY <1>3, <2>1, <2>2
<1>5. memory'[k] = m /\ \A l \in Key : l # k => memory'[l] = memory[l]
  BY <1>3, <1>4
<1>6. memory' \in [Key -> Memory \cup {None}]  BY <1>3, <1>4
<1>7. RetrievalTypeOK'  BY <1>t, <1>2, <1>6 DEF RetrievalTypeOK
<1>8. HistoryInv'
  <2>1. \A l, n : AsAsked(l, n)' <=> AsAsked(l, n)  BY <1>2 DEF AsAsked
  <2>2. \A l \in Key : memory[l] # None => AsAsked(l, memory[l])  BY <1>t DEF HistoryInv
  <2>3. m # None => AsAsked(k, m)  BY <1>1, <1>4 DEF AsAsked
  <2>4. ASSUME NEW l \in Key, memory'[l] # None  PROVE AsAsked(l, memory'[l])
    <3>1. CASE l = k  BY <1>5, <2>3, <2>4, <3>1
    <3>2. CASE l # k  BY <1>5, <2>2, <2>4, <3>2
    <3>3. QED  BY <3>1, <3>2
  <2>5. \A l \in Key : memory'[l] # None => AsAsked(l, memory[l])'
    BY <1>2, <2>4 DEF AsAsked
  <2>6. QED  BY <1>t, <1>2, <2>1, <2>5 DEF HistoryInv
<1>9. PromoteInv'
  <2>1. \A l : Best(l)' <=> Best(l)  BY <1>2 DEF Best, HitKeys
  <2>2. HitKeys' = HitKeys  BY <1>2 DEF HitKeys
  <2>3. Selected(KeysOf(promoted)) => Selected(KeysOf(promoted))'
    BY <1>2, <2>1, <2>2 DEF Selected
  <2>4. QED  BY <1>t, <1>2, <2>1, <2>3 DEF PromoteInv
<1>10. ShownInv' /\ BudgetHeld' /\ AddsUp' /\ UseMeansHydrated'
  <2>1. BudgetHeld' /\ AddsUp' /\ UseMeansHydrated'
    BY <1>t, <1>2 DEF BudgetHeld, AddsUp, UseMeansHydrated
  <2>2. ASSUME Selected(Shown)  PROVE Selected(Shown)'
    <3>1. \A i \in DOMAIN Shown' : i \in DOMAIN Shown /\ Shown'[i] = Shown[i]
      BY <1>2 DEF Shown
    <3>2. QED  BY <1>2, <2>2, <3>1, ShownKept
  <2>3. ShownInv'  BY <1>t, <1>2, <2>2 DEF ShownInv
  <2>4. QED  BY <2>1, <2>3
<1>11. QED  BY <1>7, <1>8, <1>9, <1>10 DEF RetrievalInv

LEMMA RetrievalStep == RetrievalInv /\ [Next]_vars => RetrievalInv'
<1> SUFFICES ASSUME RetrievalInv, [Next]_vars  PROVE RetrievalInv'
  OBVIOUS
<1>1. ASSUME phase = "query", NEW n, NEW S \in kSubset(n, Live), NEW order \in SetToSeqs(S),
             NEW d \in DetailLevels, NEW hk \in HydrateKeys, Query(order, d, hk)
      PROVE  RetrievalInv'
  BY <1>1, QueryKeeps
<1>2. ASSUME NEW order \in Orders(Len(promoted)), Rank(order)  PROVE RetrievalInv'
  BY <1>2, RankKeeps
<1>3. CASE UNCHANGED vars
  <2>1. UNCHANGED <<memory, asked, hits, phase, level, wanted, queue, parents, promoted,
                    position, results, used, uses>>
    BY <1>3 DEF vars
  <2>2. RetrievalTypeOK' /\ BudgetHeld' /\ AddsUp' /\ UseMeansHydrated'
    BY <2>1 DEF RetrievalInv, RetrievalTypeOK, BudgetHeld, AddsUp, UseMeansHydrated
  <2>3. HistoryInv'
    <3>1. \A k, m : AsAsked(k, m)' <=> AsAsked(k, m)  BY <2>1 DEF AsAsked
    <3>2. QED  BY <2>1, <3>1 DEF RetrievalInv, HistoryInv
  <2>4. PromoteInv'
    <3>1. (\A k : Best(k)' <=> Best(k)) /\ HitKeys' = HitKeys
      BY <2>1 DEF Best, HitKeys
    <3>2. Selected(KeysOf(promoted)) => Selected(KeysOf(promoted))'
      BY <2>1, <3>1 DEF Selected
    <3>3. QED  BY <2>1, <3>1, <3>2 DEF RetrievalInv, PromoteInv
  <2>5. ShownInv'
    <3>1. ASSUME Selected(Shown)  PROVE Selected(Shown)'
      <4>1. \A i \in DOMAIN Shown' : i \in DOMAIN Shown /\ Shown'[i] = Shown[i]
        BY <2>1 DEF Shown
      <4>2. QED  BY <2>1, <3>1, <4>1, ShownKept
    <3>2. QED  BY <2>1, <3>1 DEF RetrievalInv, ShownInv
  <2>6. QED  BY <2>2, <2>3, <2>4, <2>5 DEF RetrievalInv
<1>4. QED
  BY <1>1, <1>2, <1>3, PromoteKeeps, BudgetKeeps, EndsKeep, HydrateKeeps, OthersKeep
     DEF Next, Call

LEMMA RetrievalInvariant == Spec => []RetrievalInv
<1>1. QED  BY InitRetrieval, RetrievalStep, PTL DEF Spec

\* _apply_budget and _apply_hydrate_keys: whatever is trimmed, swapped in or
\* given up, the results fit the token budget, unless there is but one.
THEOREM TheBudgetIsHeld == Spec => []BudgetHeld
<1>1. RetrievalInv => BudgetHeld  BY DEF RetrievalInv
<1>2. QED  BY <1>1, RetrievalInvariant, PTL

\* The sizes the two functions add up on their own are those of what is returned.
THEOREM SizesAddUp == Spec => []AddsUp
<1>1. RetrievalInv => AddsUp  BY DEF RetrievalInv
<1>2. QED  BY <1>1, RetrievalInvariant, PTL

\* record_use is called for the groups of which a full body is returned, and for
\* no other.
THEOREM UsesAreHydrations == Spec => []UseMeansHydrated
<1>1. RetrievalInv => UseMeansHydrated  BY DEF RetrievalInv
<1>2. QED  BY <1>1, RetrievalInvariant, PTL

LEMMA SlotsAreFew ==
  ASSUME NEW S, NEW n \in Nat, S \subseteq 1..n
  PROVE  /\ (\A i, j \in S : i = j) => Cardinality(S) <= 1
         /\ (\A i, j, l \in S : i = j \/ j = l \/ i = l) => Cardinality(S) <= 2
<1>1. CASE S = {}  BY <1>1, FS_EmptySet
<1>2. CASE S # {}
  <2> PICK i \in S : TRUE  BY <1>2
  <2>1. Cardinality({i}) = 1 /\ IsFiniteSet({i})  BY FS_Singleton
  <2>2. CASE S = {i}  BY <2>1, <2>2
  <2>3. CASE S # {i}
    <3> PICK j \in S : j # i  BY <2>3
    <3>1. Cardinality({i} \cup {j}) = 2  BY <2>1, FS_AddElement
    <3>2. ASSUME \A a, b, l \in S : a = b \/ b = l \/ a = l
          PROVE  S = {i} \cup {j}
      <4>1. \A l \in S : l = i \/ l = j  BY <3>2
      <4>2. QED  BY <4>1
    <3>4. ~(\A a, b \in S : a = b)  OBVIOUS
    <3>3. QED  BY <3>1, <3>2, <3>4
  <2>4. QED  BY <2>2, <2>3
<1>3. QED  BY <1>1, <1>2

\* The collapse by canonical id survives promotion, ranking, the budget and a
\* vault that moves on: no group is returned by a hit that another one of its
\* hits outranks, and nothing but a chunk's document is returned twice.
THEOREM CollapseSurvives == Spec => []ResultsAreCollapsed
<1>1. RetrievalInv => ResultsAreCollapsed
  <2> SUFFICES ASSUME RetrievalInv, NEW i \in DOMAIN results
               PROVE  LET k == results[i].key IN
                 IF k \notin parents
                   THEN /\ asked[k].live /\ Slots(k) = {i}
                        /\ \A j \in DOMAIN hits : hits[j].md.gid = results[i].gid =>
                                                    ~Outranks(hits[j].md, asked[k])
                   ELSE /\ \E j \in DOMAIN hits : hits[j].md.parent = k
                        /\ Cardinality(Slots(k)) <=
                             IF \E j \in DOMAIN hits : hits[j].key = k THEN 2 ELSE 1
    BY DEF ResultsAreCollapsed
  <2> DEFINE k == results[i].key
  <2>1. RetrievalTypeOK /\ HistoryInv /\ PromoteInv /\ ShownInv  BY DEF RetrievalInv
  <2>2. /\ results \in Seq(ResultRecord) /\ queue \in Seq(HitRecord) /\ k \in Key
        /\ Len(results) \in Nat /\ Len(queue) \in Nat /\ DOMAIN results = 1..Len(results)
    BY <2>1, ResultIs DEF RetrievalTypeOK
  <2>3. phase \in {"budget", "hydrate", "done"}
    <3>1. results # <<>>  BY <2>2
    <3>2. QED  BY <2>1, <3>1 DEF PromoteInv, RetrievalTypeOK
  <2>4. Selected(Shown) /\ results[i].gid = asked[k].gid
    BY <2>1, <2>3 DEF ShownInv
  <2>5. \A j \in DOMAIN results : j \in DOMAIN Shown /\ Shown[j] = results[j].key
    BY <2>2 DEF Shown
  <2> HIDE DEF k
  <2>6. Slots(k) \subseteq 1..Len(results)  BY <2>2 DEF Slots
  <2>7. \A j \in Slots(k) : j \in DOMAIN Shown /\ Shown[j] = k
    BY <2>5 DEF Slots
  <2>8. i \in Slots(k) /\ i \in DOMAIN Shown /\ Shown[i] = k  BY <2>5 DEF Slots, k
  <2>9. CASE k \notin parents
    <3>1. Once(Shown, k) /\ Best(k)  BY <2>2, <2>4, <2>8, <2>9 DEF Selected
    <3>2. Slots(k) = {i}  BY <2>7, <2>8, <3>1 DEF Once
    <3>3. QED  BY <2>4, <2>9, <3>1, <3>2 DEF Best, k
  <2>10. CASE k \in parents
    <3>1. \E j \in DOMAIN hits : hits[j].md.parent = k  BY <2>1, <2>10 DEF HistoryInv
    <3>2. AtMostTwice(Shown, k) /\ (k \notin HitKeys => Once(Shown, k))
      BY <2>2, <2>4 DEF Selected
    <3>3. \A a, b, l \in Slots(k) : a = b \/ b = l \/ a = l
      BY <2>7, <3>2 DEF AtMostTwice
    <3>4. k \notin HitKeys => \A a, b \in Slots(k) : a = b  BY <2>7, <3>2 DEF Once
    <3>5. k \notin HitKeys <=> ~(\E j \in DOMAIN hits : hits[j].key = k)  BY DEF HitKeys
    <3>6. Cardinality(Slots(k)) <= IF \E j \in DOMAIN hits : hits[j].key = k THEN 2 ELSE 1
      BY <2>2, <2>6, <3>3, <3>4, <3>5, SlotsAreFew
    <3>7. QED  BY <2>10, <3>1, <3>6 DEF k
  <2>11. QED  BY <2>9, <2>10
<1>2. QED  BY <1>1, RetrievalInvariant, PTL
===============================================================================
