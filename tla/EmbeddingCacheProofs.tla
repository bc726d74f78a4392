------------------------- MODULE EmbeddingCacheProofs -------------------------
(***************************************************************************)
(* Proofs, for every number of threads and texts and every capacity and    *)
(* lifetime, of the invariants of the embedding cache.                     *)
(***************************************************************************)
EXTENDS EmbeddingCache, SequenceTheorems, FiniteSetTheorems, TLAPS

-------------------------------------------------------------------------------
\* The invariant.

Slot == [text : Text, made : Nat, inserted : Nat]
Item == [made : Nat, ttl_epoch : Nat]
CallState == [text : Text \cup {None}, now : Nat, made : Nat \cup {None}, fresh : BOOLEAN]

\* The operations a thread performs with an embedding in its hands.
Carrying == {"hit", "insert", "move", "check", "pop", "table_put"}
Labels == {"idle", "raised", "lookup", "del", "table_get", "bedrock"} \cup Carrying

TypeOK ==
  /\ lru \in Seq(Slot) /\ table \in [Text -> Item \cup {None}] /\ clock \in Nat
  /\ pc \in [Thread -> Labels] /\ call \in [Thread -> CallState]
  /\ \A t \in Thread : /\ IF Running(t) THEN call[t].text \in Text ELSE call[t] = Blank
                       /\ pc[t] \in Carrying => call[t].made \in Nat

\* Unless another thread changed the dict, what a thread has seen of it is so.
Sure(t) ==
  /\ pc[t] # "raised"
  /\ pc[t] \in {"del", "hit", "move"} => Cached(call[t].text)
  /\ pc[t] = "pop" => lru # <<>>

Trusted == \A t \in Thread \ crossed : Sure(t)

\* Every entry beyond the capacity is accounted for by a thread that is about to
\* look at the size, or by one that is about to move that very entry; a thread
\* whose entry was taken away does not count, it may raise.
Evicting == {t \in Thread : pc[t] \in {"check", "pop"}}
Arriving == {x \in Text : Cached(x) /\ \E t \in Thread : pc[t] = "move" /\ call[t].text = x}

Accounted == Len(lru) <= Capacity + Cardinality(Evicting) + Cardinality(Arriving)

\* A call is not old, an item of the table not older than its lifetime and the
\* reaper's delay, and so what enters the dict.
InTime ==
  \A t \in Thread : Running(t) => call[t].now <= clock /\ clock <= call[t].now + MaxCall

ItemsAge ==
  \A x \in Text : table[x] # None =>
    /\ clock <= table[x].ttl_epoch + ReapDelay
    /\ table[x].ttl_epoch <= table[x].made + TableTTL

EntriesAge ==
  \A i \in DOMAIN lru : lru[i].inserted <= lru[i].made + TableTTL + ReapDelay

Aged(t) ==
  LET c == call[t] IN
  /\ c.made # None => c.now < c.made + TableTTL + ReapDelay + LruTTL
  /\ pc[t] = "insert" => c.now <= c.made + TableTTL + ReapDelay
  /\ c.fresh => c.now <= c.made /\ pc[t] \in Carrying \ {"hit"}
  /\ pc[t] = "table_put" => c.fresh

CallsAge == \A t \in Thread : Aged(t)

Ages == InTime /\ ItemsAge /\ EntriesAge /\ CallsAge

CacheInv == TypeOK /\ Trusted /\ Accounted /\ Ages

-------------------------------------------------------------------------------
\* The operations on the dict.

LEMMA RemoveAtIs ==
  ASSUME NEW S, NEW s \in Seq(S), NEW i \in 1..Len(s)
  PROVE  /\ RemoveAt(s, i) \in Seq(S) /\ Len(RemoveAt(s, i)) = Len(s) - 1
         /\ \A j \in 1..(Len(s) - 1) :
              RemoveAt(s, i)[j] = IF j < i THEN s[j] ELSE s[j + 1]
<1> DEFINE a == SubSeq(s, 1, i - 1)
           b == SubSeq(s, i + 1, Len(s))
<1>0. Len(s) \in Nat /\ i \in Nat /\ i <= Len(s) /\ 1 <= i  OBVIOUS
<1>1. /\ a \in Seq(S) /\ Len(a) = i - 1
      /\ \A j \in 1..(i - 1) : a[j] = s[j]
  <2>1. \A j \in 1..(i - 1) : s[j] \in S  OBVIOUS
  <2>2. i - 1 \in Int  BY <1>0
  <2>3. /\ a \in Seq(S) /\ Len(a) = IF 1 <= i - 1 THEN (i - 1) - 1 + 1 ELSE 0
        /\ \A j \in 1..((i - 1) - 1 + 1) : a[j] = s[1 + j - 1]
    BY <2>1, <2>2, SubSeqProperties
  <2>4. QED  BY <1>0, <2>3
<1>2. /\ b \in Seq(S) /\ Len(b) = Len(s) - i
      /\ \A j \in 1..(Len(s) - i) : b[j] = s[i + j]
  <2>1. \A j \in (i + 1)..Len(s) : s[j] \in S  OBVIOUS
  <2>2. i + 1 \in Int /\ Len(s) \in Int  BY <1>0
  <2>3. /\ b \in Seq(S)
        /\ Len(b) = IF i + 1 <= Len(s) THEN Len(s) - (i + 1) + 1 ELSE 0
        /\ \A j \in 1..(Len(s) - (i + 1) + 1) : b[j] = s[(i + 1) + j - 1]
    BY <2>1, <2>2, SubSeqProperties
  <2>4. QED  BY <1>0, <2>3
<1>3. RemoveAt(s, i) = a \o b  BY DEF RemoveAt
<1> HIDE DEF a, b
<1>4. /\ a \o b \in Seq(S) /\ Len(a \o b) = Len(s) - 1
      /\ \A j \in 1..(Len(s) - 1) :
           (a \o b)[j] = IF j <= i - 1 THEN a[j] ELSE b[j - (i - 1)]
  <2>1. /\ a \o b \in Seq(S) /\ Len(a \o b) = Len(a) + Len(b)
        /\ \A j \in 1..(Len(a) + Len(b)) :
             (a \o b)[j] = IF j <= Len(a) THEN a[j] ELSE b[j - Len(a)]
    BY <1>1, <1>2, ConcatProperties
  <2>2. Len(a) = i - 1 /\ Len(a) + Len(b) = Len(s) - 1  BY <1>0, <1>1, <1>2
  <2>3. QED  BY <2>1, <2>2
<1>5. ASSUME NEW j \in 1..(Len(s) - 1)
      PROVE  (a \o b)[j] = IF j < i THEN s[j] ELSE s[j + 1]
  <2>1. CASE j < i
    <3>1. j \in 1..(i - 1) /\ j <= i - 1  BY <1>0, <2>1
    <3>2. QED  BY <1>1, <1>4, <2>1, <3>1
  <2>2. CASE ~(j < i)
    <3>1. j - (i - 1) \in 1..(Len(s) - i) /\ ~(j <= i - 1)  BY <1>0, <2>2
    <3>2. b[j - (i - 1)] = s[i + (j - (i - 1))]  BY <1>2, <3>1
    <3>3. i + (j - (i - 1)) = j + 1  BY <1>0
    <3>4. QED  BY <1>4, <2>2, <3>1, <3>2, <3>3
  <2>3. QED  BY <2>1, <2>2
<1>6. QED  BY <1>3, <1>4, <1>5

LEMMA CachedIs ==
  ASSUME NEW x
  PROVE  /\ Cached(x) <=> \E i \in DOMAIN lru : lru[i].text = x
         /\ Cached(x) => Place(x) \in DOMAIN lru /\ Entry(x).text = x
  BY DEF Cached, Entries, Place, Entry

\* s holds entries of the dict only, and all but those of text x.
Within(s) == s \in Seq(Slot) /\ \A j \in DOMAIN s : \E i \in DOMAIN lru : s[j] = lru[i]
AllBut(s, x) ==
  \A i \in DOMAIN lru : lru[i].text # x => \E j \in DOMAIN s : s[j] = lru[i]

LEMMA OthersAre ==
  ASSUME lru \in Seq(Slot), NEW x
  PROVE  /\ Within(Others(x)) /\ AllBut(Others(x), x)
         /\ Len(Others(x)) = IF Cached(x) THEN Len(lru) - 1 ELSE Len(lru)
<1>1. CASE ~Cached(x)
  BY <1>1 DEF Others, Within, AllBut
<1>2. CASE Cached(x)
  <2> DEFINE i == Place(x)
             s == Others(x)
  <2>1. i \in 1..Len(lru) /\ lru[i].text = x  BY <1>2, CachedIs DEF Entry
  <2>2. s = RemoveAt(lru, i)  BY <1>2 DEF Others
  <2> HIDE DEF i, s
  <2>3. /\ s \in Seq(Slot) /\ Len(s) = Len(lru) - 1
        /\ \A j \in 1..(Len(lru) - 1) : s[j] = IF j < i THEN lru[j] ELSE lru[j + 1]
    BY <2>1, <2>2, RemoveAtIs
  <2>4. Within(s)
    <3>1. ASSUME NEW j \in DOMAIN s  PROVE \E k \in DOMAIN lru : s[j] = lru[k]
      <4>1. j \in 1..(Len(lru) - 1)  BY <2>3
      <4>2. j \in DOMAIN lru /\ j + 1 \in DOMAIN lru  BY <4>1
      <4>3. QED  BY <2>3, <4>1, <4>2
    <3>2. QED  BY <2>3, <3>1 DEF Within
  <2>5. ASSUME NEW k \in DOMAIN lru, lru[k].text # x
        PROVE  \E j \in DOMAIN s : s[j] = lru[k]
    <3>1. k # i /\ k \in 1..Len(lru)  BY <2>1, <2>5
    <3>2. CASE k < i
      <4>1. k \in 1..(Len(lru) - 1)  BY <2>1, <3>1, <3>2
      <4>2. s[k] = lru[k] /\ k \in DOMAIN s  BY <2>3, <3>2, <4>1
      <4>3. QED  BY <4>2
    <3>3. CASE i < k
      <4>1. k - 1 \in 1..(Len(lru) - 1) /\ ~(k - 1 < i) /\ (k - 1) + 1 = k
        BY <2>1, <3>1, <3>3
      <4>2. s[k - 1] = lru[k] /\ k - 1 \in DOMAIN s  BY <2>3, <4>1
      <4>3. QED  BY <4>2
    <3>4. QED  BY <2>1, <3>1, <3>2, <3>3
  <2>6. QED  BY <1>2, <2>3, <2>4, <2>5 DEF AllBut, s
<1>3. QED  BY <1>1, <1>2

\* What a step does to the dict: nothing enters it, and only text x leaves it.
NothingNew == Within(lru')
Loses(x) == \A y : Cached(y) /\ y # x => Cached(y)'
LosesNone == \A y : Cached(y) => Cached(y)'

LEMMA Removing ==
  ASSUME lru \in Seq(Slot), NEW x, lru' = Others(x)
  PROVE  /\ NothingNew /\ Loses(x)
         /\ Len(lru') = IF Cached(x) THEN Len(lru) - 1 ELSE Len(lru)
<1>1. NothingNew /\ AllBut(lru', x)  BY OthersAre DEF NothingNew
<1>2. Loses(x)
  BY <1>1 DEF AllBut, Loses, Cached, Entries
<1>3. QED  BY <1>1, <1>2, OthersAre

LEMMA Moving ==
  ASSUME lru \in Seq(Slot), NEW x, Cached(x), MoveToEnd(x)
  PROVE  NothingNew /\ LosesNone /\ Len(lru') = Len(lru)
<1> DEFINE s == Others(x)
<1>1. Within(s) /\ AllBut(s, x) /\ Len(s) = Len(lru) - 1  BY OthersAre
<1>2. Place(x) \in DOMAIN lru /\ Entry(x) = lru[Place(x)] /\ Entry(x).text = x
  BY CachedIs DEF Entry
<1>3. lru' = Append(s, Entry(x))  BY DEF MoveToEnd
<1> HIDE DEF s
<1>4. s \in Seq(Slot) /\ Entry(x) \in Slot  BY <1>1, <1>2 DEF Within
<1>5. /\ lru' \in Seq(Slot) /\ Len(lru') = Len(s) + 1
      /\ \A i \in 1..Len(s) : lru'[i] = s[i]
      /\ lru'[Len(s) + 1] = Entry(x)
  BY <1>3, <1>4, AppendProperties
<1>6. NothingNew
  <2>1. ASSUME NEW j \in DOMAIN lru'  PROVE \E i \in DOMAIN lru : lru'[j] = lru[i]
    <3>1. j \in 1..Len(s) \/ j = Len(s) + 1  BY <1>4, <1>5
    <3>2. QED  BY <1>1, <1>2, <1>4, <1>5, <3>1 DEF Within
  <2>2. QED  BY <1>5, <2>1 DEF NothingNew, Within
<1>7. LosesNone
  <2>1. ASSUME NEW y, Cached(y)  PROVE \E j \in DOMAIN lru' : lru'[j].text = y
    <3>1. CASE y = x
      <4>1. Len(s) + 1 \in DOMAIN lru'  BY <1>4, <1>5
      <4>2. QED  BY <1>2, <1>5, <3>1, <4>1
    <3>2. CASE y # x
      <4> PICK i \in DOMAIN lru : lru[i].text = y  BY <2>1, CachedIs
      <4> PICK j \in DOMAIN s : s[j] = lru[i]  BY <1>1, <3>2 DEF AllBut
      <4>1. j \in DOMAIN lru' /\ lru'[j] = s[j]  BY <1>4, <1>5
      <4>2. QED  BY <4>1
    <3>3. QED  BY <3>1, <3>2
  <2>2. QED  BY <2>1 DEF LosesNone, Cached, Entries
<1>8. QED  BY <1>1, <1>4, <1>5, <1>6, <1>7

LEMMA Popping ==
  ASSUME lru \in Seq(Slot), lru # <<>>, lru' = Tail(lru)
  PROVE  NothingNew /\ Loses(Head(lru).text) /\ Len(lru') = Len(lru) - 1
<1>1. /\ lru' \in Seq(Slot) /\ Len(lru') = Len(lru) - 1
      /\ \A i \in 1..Len(lru') : lru'[i] = lru[i + 1]
  BY HeadTailProperties
<1>2. \A j \in DOMAIN lru' : j + 1 \in DOMAIN lru /\ lru'[j] = lru[j + 1]  BY <1>1
<1>3. NothingNew  BY <1>1, <1>2 DEF NothingNew, Within
<1>4. ASSUME NEW y, Cached(y), y # Head(lru).text
      PROVE  \E j \in DOMAIN lru' : lru'[j].text = y
  <2> PICK i \in DOMAIN lru : lru[i].text = y  BY <1>4, CachedIs
  <2>1. i # 1 /\ i \in 1..Len(lru)  BY <1>4
  <2>2. i - 1 \in 1..Len(lru') /\ (i - 1) + 1 = i  BY <1>1, <2>1
  <2>3. lru'[i - 1] = lru[i] /\ i - 1 \in DOMAIN lru'  BY <1>1, <2>2
  <2>4. QED  BY <2>3
<1>5. QED  BY <1>1, <1>3, <1>4 DEF Loses, Cached, Entries

Given(t) == [text |-> call[t].text, made |-> call[t].made, inserted |-> call[t].now]

LEMMA Inserting ==
  ASSUME lru \in Seq(Slot), NEW t \in Thread, Insert(t), Given(t) \in Slot
  PROVE  /\ lru' \in Seq(Slot) /\ LosesNone
         /\ \E j \in DOMAIN lru' : lru'[j].text = call[t].text
         /\ \A j \in DOMAIN lru' : lru'[j] = Given(t) \/ \E i \in DOMAIN lru : lru'[j] = lru[i]
         /\ Len(lru') = IF Cached(call[t].text) THEN Len(lru) ELSE Len(lru) + 1
<1> DEFINE x == call[t].text
           e == Given(t)
<1>e. e.text = x  BY DEF Given
<1>1. CASE Cached(x)
  <2>1. lru' = [i \in DOMAIN lru |-> IF lru[i].text = x THEN e ELSE lru[i]]
    BY <1>1 DEF Insert, Given
  <2> HIDE DEF x, e
  <2>2. /\ lru' \in Seq(Slot) /\ Len(lru') = Len(lru) /\ DOMAIN lru' = DOMAIN lru
        /\ \A i \in DOMAIN lru : lru'[i] = e \/ lru'[i] = lru[i]
        /\ \A i \in DOMAIN lru : lru'[i].text = lru[i].text
    <3>1. lru' \in [1..Len(lru) -> Slot] /\ DOMAIN lru' = DOMAIN lru
      BY <2>1 DEF e
    <3>2. QED  BY <1>e, <2>1, <3>1
  <2>3. \A y : Cached(y) => Cached(y)'  BY <2>2 DEF Cached, Entries
  <2>4. \E j \in DOMAIN lru' : lru'[j].text = x  BY <1>1, <2>2, CachedIs
  <2>5. QED  BY <1>1, <2>2, <2>3, <2>4 DEF LosesNone, x, e
<1>2. CASE ~Cached(x)
  <2>1. lru' = Append(lru, e)  BY <1>2 DEF Insert, Given
  <2> HIDE DEF x, e
  <2>2. /\ lru' \in Seq(Slot) /\ Len(lru') = Len(lru) + 1
        /\ \A i \in 1..Len(lru) : lru'[i] = lru[i]
        /\ lru'[Len(lru) + 1] = e
    BY <2>1, AppendProperties DEF e
  <2>3. \A i \in DOMAIN lru : i \in DOMAIN lru' /\ lru'[i] = lru[i]  BY <2>2
  <2>4. \A y : Cached(y) => Cached(y)'  BY <2>3 DEF Cached, Entries
  <2>5. Len(lru) + 1 \in DOMAIN lru'  BY <2>2
  <2>6. \E j \in DOMAIN lru' : lru'[j].text = x  BY <1>e, <2>2, <2>5
  <2>7. ASSUME NEW j \in DOMAIN lru'
        PROVE  lru'[j] = e \/ \E i \in DOMAIN lru : lru'[j] = lru[i]
    <3>1. j \in 1..Len(lru) \/ j = Len(lru) + 1  BY <2>2
    <3>2. QED  BY <2>2, <3>1
  <2>8. QED  BY <1>2, <2>2, <2>4, <2>6, <2>7 DEF LosesNone, x, e
<1>3. QED  BY <1>1, <1>2

-------------------------------------------------------------------------------
\* Types.

\* A step of t leaves t somewhere, with something in its hands, and no other
\* thread anywhere else.
Leaves(t, l, c) ==
  /\ l \in Labels /\ c \in CallState
  /\ Goto(t, l) /\ Holds(t, c)
  /\ IF l \in {"idle", "raised"} THEN c = Blank ELSE c.text \in Text
  /\ l \in Carrying => c.made \in Nat

LEMMA BlankTyped == Blank \in CallState /\ Blank.made = None /\ ~Blank.fresh
  BY CacheAssumption DEF Blank, CallState

LEMMA EmbedLeaves ==
  ASSUME TypeOK, NEW t \in Thread, Embed(t)
  PROVE  \E l, c : Leaves(t, l, c)
<1>c. /\ call[t] \in CallState /\ call = [call EXCEPT ![t] = call[t]]
      /\ Running(t) => call[t].text \in Text
      /\ pc[t] \in Carrying => call[t].made \in Nat
  BY DEF TypeOK
<1>n. None \notin Nat  BY CacheAssumption
<1>1. ASSUME NEW l \in Labels \ {"idle", "raised"}, Goto(t, l), UNCHANGED call, Running(t),
             l \in Carrying => pc[t] \in Carrying
      PROVE  Leaves(t, l, call[t])
  BY <1>1, <1>c DEF Leaves, Holds
<1>2. ASSUME Return(t)  PROVE Leaves(t, "idle", Blank)
  BY <1>2, BlankTyped DEF Return, Leaves, Labels, Carrying
<1>3. ASSUME Raise(t)  PROVE Leaves(t, "raised", Blank)
  BY <1>3, BlankTyped DEF Raise, Leaves, Labels, Carrying
<1>4. ASSUME NEW x \in Text, Begin(t, x)  PROVE \E l, c : Leaves(t, l, c)
  <2> DEFINE c == [Blank EXCEPT !.text = x, !.now = clock]
  <2>1. c \in CallState /\ c.text = x  BY DEF Blank, CallState, TypeOK
  <2>2. Leaves(t, "lookup", c)  BY <1>4, <2>1 DEF Begin, Leaves, Labels, Carrying
  <2>3. QED  BY <2>2
<1>5. CASE Lookup(t)
  <2>1. Running(t)  BY <1>5 DEF Lookup, Running
  <2>2. CASE Goto(t, "table_get") /\ UNCHANGED call
    BY <1>1, <2>1, <2>2 DEF Labels, Carrying
  <2>3. CASE Goto(t, "del") /\ UNCHANGED call
    BY <1>1, <2>1, <2>3 DEF Labels, Carrying
  <2>4. ASSUME Cached(call[t].text), Goto(t, "hit"),
               Holds(t, [call[t] EXCEPT !.made = Entry(call[t].text).made])
        PROVE  \E l, c : Leaves(t, l, c)
    <3> DEFINE c == [call[t] EXCEPT !.made = Entry(call[t].text).made]
    <3>1. Entry(call[t].text) \in Slot  BY <2>4, CachedIs DEF Entry, TypeOK
    <3>2. c \in CallState /\ c.text = call[t].text /\ c.made \in Nat
      BY <1>c, <3>1 DEF CallState, Slot
    <3>3. Leaves(t, "hit", c)
      BY <1>c, <2>1, <2>4, <3>2 DEF Leaves, Labels, Carrying
    <3>4. QED  BY <3>3
  <2>5. QED  BY <1>5, <2>2, <2>3, <2>4 DEF Lookup
<1>6. CASE Delete(t)
  BY <1>1, <1>3, <1>6 DEF Delete, Running, Labels, Carrying
<1>7. CASE Hit(t)
  BY <1>2, <1>3, <1>7 DEF Hit
<1>8. CASE TableGet(t)
  <2>1. Running(t)  BY <1>8 DEF TableGet, Running
  <2>2. CASE Goto(t, "bedrock") /\ UNCHANGED call
    BY <1>1, <2>1, <2>2 DEF Labels, Carrying
  <2>3. ASSUME table[call[t].text] # None, Goto(t, "insert"),
               Holds(t, [call[t] EXCEPT !.made = table[call[t].text].made])
        PROVE  \E l, c : Leaves(t, l, c)
    <3> DEFINE c == [call[t] EXCEPT !.made = table[call[t].text].made]
    <3>1. table[call[t].text] \in Item  BY <1>c, <2>1, <2>3 DEF TypeOK
    <3>2. c \in CallState /\ c.text = call[t].text /\ c.made \in Nat
      BY <1>c, <3>1 DEF CallState, Item
    <3>3. Leaves(t, "insert", c)
      BY <1>c, <2>1, <2>3, <3>2 DEF Leaves, Labels, Carrying
    <3>4. QED  BY <3>3
  <2>4. QED  BY <1>8, <2>2, <2>3 DEF TableGet
<1>9. CASE InvokeBedrock(t)
  <2> DEFINE c == [call[t] EXCEPT !.made = clock, !.fresh = TRUE]
  <2>1. Running(t)  BY <1>9 DEF InvokeBedrock, Running
  <2>2. c \in CallState /\ c.text = call[t].text /\ c.made \in Nat
    BY <1>c DEF CallState, TypeOK
  <2>3. CASE Goto(t, "insert") /\ Holds(t, c)
    <3>1. Leaves(t, "insert", c)
      BY <1>c, <2>1, <2>2, <2>3 DEF Leaves, Labels, Carrying
    <3>2. QED  BY <3>1
  <2>4. QED  BY <1>2, <1>9, <2>3 DEF InvokeBedrock
<1>10. CASE Insert(t)
  BY <1>1, <1>10 DEF Insert, Running, Labels, Carrying
<1>11. CASE Move(t)
  BY <1>1, <1>3, <1>11 DEF Move, Running, Labels, Carrying
<1>12. CASE Check(t)
  BY <1>1, <1>2, <1>12 DEF Check, Running, Labels, Carrying
<1>13. CASE Pop(t)
  BY <1>1, <1>3, <1>13 DEF Pop, Running, Labels, Carrying
<1>14. CASE TablePut(t)
  BY <1>2, <1>14 DEF TablePut
<1>15. QED
  BY <1>4, <1>5, <1>6, <1>7, <1>8, <1>9, <1>10, <1>11, <1>12, <1>13, <1>14 DEF Embed

LEMMA GivenTyped ==
  ASSUME TypeOK, NEW t \in Thread, Insert(t)
  PROVE  Given(t) \in Slot
<1>1. Running(t) /\ pc[t] \in Carrying  BY DEF Insert, Running, Carrying
<1>2. call[t].text \in Text /\ call[t].made \in Nat /\ call[t].now \in Nat
  BY <1>1 DEF TypeOK, CallState
<1>3. QED  BY <1>2 DEF Given, Slot

\* What t's step does to the dict, said once for all actions.
LEMMA EmbedDict ==
  ASSUME TypeOK, NEW t \in Thread, Embed(t)
  PROVE  \/ UNCHANGED lru
         \/ Delete(t) /\ NothingNew /\ Loses(call[t].text)
            /\ Len(lru') = IF Cached(call[t].text) THEN Len(lru) - 1 ELSE Len(lru)
         \/ (Hit(t) \/ Move(t)) /\ Cached(call[t].text)
            /\ NothingNew /\ LosesNone /\ Len(lru') = Len(lru)
         \/ Pop(t) /\ lru # <<>> /\ NothingNew /\ Loses(Head(lru).text)
            /\ Len(lru') = Len(lru) - 1
         \/ Insert(t) /\ Given(t) \in Slot
<1>l. lru \in Seq(Slot)  BY DEF TypeOK
<1>1. CASE Delete(t)
  BY <1>l, <1>1, Removing DEF Delete
<1>2. CASE Hit(t) \/ Move(t)
  <2>1. UNCHANGED lru \/ (Cached(call[t].text) /\ MoveToEnd(call[t].text))
    BY <1>2 DEF Hit, Move
  <2>2. QED  BY <1>l, <1>2, <2>1, Moving
<1>3. CASE Pop(t)
  <2>1. UNCHANGED lru \/ (lru # <<>> /\ lru' = Tail(lru))  BY <1>3 DEF Pop
  <2>2. QED  BY <1>l, <1>3, <2>1, Popping
<1>4. CASE Insert(t)
  BY <1>4, GivenTyped
<1>5. QED
  BY <1>1, <1>2, <1>3, <1>4
  DEF Embed, Begin, Lookup, TableGet, InvokeBedrock, Check, TablePut

LEMMA TypeStep ==
  ASSUME TypeOK, [Next]_vars
  PROVE  TypeOK'
<1>1. CASE UNCHANGED vars
  BY <1>1 DEF vars, progVars, TypeOK, Running
<1>2. CASE Tick
  BY <1>2 DEF Tick, TypeOK, Running
<1>3. ASSUME NEW x \in Text, Reap(x)  PROVE TypeOK'
  BY <1>3 DEF Reap, TypeOK, Running
<1>4. ASSUME NEW t \in Thread, Embed(t)  PROVE TypeOK'
  <2> PICK l, c : Leaves(t, l, c)  BY <1>4, EmbedLeaves
  <2>1. /\ pc' \in [Thread -> Labels] /\ pc'[t] = l
        /\ call' \in [Thread -> CallState] /\ call'[t] = c
        /\ \A u \in Thread : u # t => pc'[u] = pc[u] /\ call'[u] = call[u]
    BY DEF Leaves, Goto, Holds, TypeOK
  <2>2. \A u \in Thread :
          /\ IF Running(u)' THEN call'[u].text \in Text ELSE call'[u] = Blank
          /\ pc'[u] \in Carrying => call'[u].made \in Nat
    BY <2>1 DEF Leaves, TypeOK, Running
  <2>3. lru' \in Seq(Slot)
    BY <1>4, EmbedDict, Inserting DEF TypeOK, NothingNew, Within
  <2>4. clock' = clock
    BY <1>4 DEF Embed, Begin, Lookup, Delete, Hit, TableGet, InvokeBedrock, Insert, Move,
                Check, Pop, TablePut
  <2>5. table' \in [Text -> Item \cup {None}]
    <3>1. CASE TablePut(t)
      <4>1. call[t].now \in Nat /\ call[t].made \in Nat /\ TableTTL \in Nat
        BY <3>1, CacheAssumption DEF TablePut, TypeOK, CallState, Carrying
      <4>2. [made |-> call[t].made, ttl_epoch |-> call[t].now + TableTTL] \in Item
        BY <4>1 DEF Item
      <4>3. QED  BY <3>1, <4>2 DEF TablePut, TypeOK
    <3>2. CASE ~TablePut(t)
      <4>1. UNCHANGED table
        BY <1>4, <3>2
        DEF Embed, Begin, Lookup, Delete, Hit, TableGet, InvokeBedrock, Insert, Move,
            Check, Pop
      <4>2. QED  BY <4>1 DEF TypeOK
    <3>3. QED  BY <3>1, <3>2
  <2>6. QED  BY <2>1, <2>2, <2>3, <2>4, <2>5 DEF TypeOK
<1>5. QED  BY <1>1, <1>2, <1>3, <1>4 DEF Next

-------------------------------------------------------------------------------
\* What a thread has seen.

LEMMA OwnStepSure ==
  ASSUME TypeOK, NEW t \in Thread, Embed(t), Running(t) => Sure(t)
  PROVE  Sure(t)'
<1>l. lru \in Seq(Slot) /\ Capacity \in Nat /\ pc[t] \in Labels
  BY CacheAssumption DEF TypeOK
<1>1. ASSUME NEW l \in {"idle", "lookup", "table_get", "bedrock", "insert", "check", "table_put"},
             Goto(t, l)
      PROVE  Sure(t)'
  BY <1>1 DEF Goto, Sure, TypeOK
<1>2. ASSUME Return(t)  PROVE Sure(t)'
  BY <1>1, <1>2 DEF Return
<1>3. ASSUME NEW x \in Text, Begin(t, x)  PROVE Sure(t)'
  BY <1>1, <1>3 DEF Begin
<1>4. CASE Lookup(t)
  <2>1. CASE Goto(t, "table_get")  BY <1>1, <2>1
  <2>2. ASSUME Cached(call[t].text), UNCHANGED lru, NEW l \in {"del", "hit"}, Goto(t, l),
               call'[t].text = call[t].text
        PROVE  Sure(t)'
    <3>1. Cached(call[t].text)'  BY <2>2 DEF Cached, Entries
    <3>2. QED  BY <2>2, <3>1 DEF Goto, Sure, TypeOK
  <2>3. Holds(t, [call[t] EXCEPT !.made = Entry(call[t].text).made]) \/ UNCHANGED call
          => call'[t].text = call[t].text
    BY DEF Holds, TypeOK, CallState
  <2>4. QED  BY <1>4, <2>1, <2>2, <2>3 DEF Lookup
<1>5. CASE Delete(t)
  BY <1>1, <1>5 DEF Delete, Sure, Running
<1>6. CASE Hit(t)
  BY <1>2, <1>6 DEF Hit, Sure, Running
<1>7. CASE TableGet(t)
  BY <1>1, <1>7 DEF TableGet
<1>8. CASE InvokeBedrock(t)
  BY <1>1, <1>2, <1>8 DEF InvokeBedrock
<1>9. CASE Insert(t)
  <2>1. Given(t) \in Slot  BY <1>9, GivenTyped
  <2>2. \E j \in DOMAIN lru' : lru'[j].text = call[t].text
    BY <1>l, <1>9, <2>1, Inserting
  <2>3. Cached(call[t].text)'  BY <1>9, <2>2 DEF Insert, Cached, Entries
  <2>4. pc'[t] = "move"  BY <1>9 DEF Insert, Goto, TypeOK
  <2>5. QED  BY <2>3, <2>4 DEF Sure
<1>10. CASE Move(t)
  BY <1>1, <1>10 DEF Move, Sure, Running
<1>11. CASE Check(t)
  <2>1. CASE OverCapacity
    <3>1. lru' # <<>>
      <4>1. Len(lru) > 0  BY <1>l, <2>1 DEF OverCapacity
      <4>2. QED  BY <1>11, <4>1, EmptySeq DEF Check
    <3>2. pc'[t] = "pop"  BY <1>11, <2>1 DEF Check, Goto, TypeOK
    <3>3. QED  BY <3>1, <3>2 DEF Sure
  <2>2. CASE ~OverCapacity
    BY <1>1, <1>2, <1>11, <2>2 DEF Check
  <2>3. QED  BY <2>1, <2>2
<1>12. CASE Pop(t)
  BY <1>1, <1>12 DEF Pop, Sure, Running
<1>13. CASE TablePut(t)
  BY <1>2, <1>13 DEF TablePut
<1>14. QED
  BY <1>3, <1>4, <1>5, <1>6, <1>7, <1>8, <1>9, <1>10, <1>11, <1>12, <1>13 DEF Embed

LEMMA TrustedStep ==
  ASSUME TypeOK, Trusted, [Next]_vars
  PROVE  Trusted'
<1>1. ASSUME UNCHANGED <<lru, pc, call, crossed>>  PROVE Trusted'
  BY <1>1 DEF Trusted, Sure, Cached, Entries
<1>2. CASE UNCHANGED vars
  BY <1>1, <1>2 DEF vars, progVars
<1>3. CASE (Tick \/ \E x \in Text : Reap(x)) /\ UNCHANGED crossed
  BY <1>1, <1>3 DEF Tick, Reap
<1>4. ASSUME NEW t \in Thread, Embed(t), Watch(t), NEW u \in Thread \ crossed'
      PROVE  Sure(u)'
  <2>1. CASE u = t
    <3>1. Running(t) => t \notin crossed  BY <1>4, <2>1 DEF Watch, Running
    <3>2. QED  BY <1>4, <2>1, <3>1, OwnStepSure DEF Trusted
  <2>2. CASE u # t
    <3>1. pc'[u] = pc[u] /\ call'[u] = call[u]
      BY <1>4, <2>2, EmbedLeaves DEF Leaves, Goto, Holds, TypeOK
    <3>2. u \notin crossed /\ (Running(u) => lru' = lru)  BY <1>4, <2>2 DEF Watch
    <3>3. Sure(u)  BY <3>2 DEF Trusted
    <3>4. CASE lru' = lru
      BY <3>1, <3>3, <3>4 DEF Sure, Cached, Entries
    <3>5. CASE ~Running(u)
      BY <3>1, <3>3, <3>5 DEF Sure, Running
    <3>6. QED  BY <3>2, <3>4, <3>5
  <2>3. QED  BY <2>1, <2>2
<1>5. QED  BY <1>2, <1>3, <1>4 DEF Next, Trusted

-------------------------------------------------------------------------------
\* The size of the dict.

Movers == {t \in Thread : pc[t] = "move"}

Counted ==
  /\ IsFiniteSet(Evicting) /\ IsFiniteSet(Movers) /\ IsFiniteSet(Arriving)
  /\ Cardinality(Evicting) \in Nat /\ Cardinality(Arriving) \in Nat
  /\ Cardinality(Movers) \in Nat /\ Cardinality(Arriving) <= Cardinality(Movers)

LEMMA Counts == Counted
<1>1. IsFiniteSet(Evicting) /\ IsFiniteSet(Movers)
  BY CacheAssumption, FS_Subset DEF Evicting, Movers
<1>2. IsFiniteSet(Arriving) /\ Cardinality(Arriving) <= Cardinality(Movers)
  <2> DEFINE f == [x \in Arriving |-> CHOOSE t \in Movers : call[t].text = x]
  <2>1. \A x \in Arriving : f[x] \in Movers /\ call[f[x]].text = x
    <3>1. \A x \in Arriving : \E t \in Movers : call[t].text = x  BY DEF Arriving, Movers
    <3>2. QED  BY <3>1
  <2>2. f \in [Arriving -> Movers]  BY <2>1
  <2> HIDE DEF f
  <2>3. f \in Injection(Arriving, Movers)  BY <2>1, <2>2 DEF Injection, IsInjective
  <2>4. QED  BY <1>1, <2>3, FS_Injection
<1>3. QED  BY <1>1, <1>2, FS_CardinalityType DEF Counted

LEMMA Grows ==
  ASSUME NEW A, NEW B, NEW x, IsFiniteSet(A), IsFiniteSet(B)
  PROVE  /\ A \subseteq B => Cardinality(A) <= Cardinality(B)
         /\ A \subseteq B /\ x \in B \ A => Cardinality(A) + 1 <= Cardinality(B)
         /\ A \ {x} \subseteq B => Cardinality(A) <= Cardinality(B) + 1
<1>c. Cardinality(A) \in Nat /\ Cardinality(B) \in Nat  BY FS_CardinalityType
<1>1. ASSUME A \subseteq B  PROVE Cardinality(A) <= Cardinality(B)
  BY <1>1, FS_Subset
<1>2. ASSUME A \subseteq B, x \in B \ A  PROVE Cardinality(A) + 1 <= Cardinality(B)
  <2>1. Cardinality(A \cup {x}) = Cardinality(A) + 1  BY <1>2, FS_AddElement
  <2>2. A \cup {x} \subseteq B  BY <1>2
  <2>3. QED  BY <2>1, <2>2, FS_Subset
<1>3. ASSUME A \ {x} \subseteq B  PROVE Cardinality(A) <= Cardinality(B) + 1
  <2>1. IsFiniteSet(B \cup {x}) /\ Cardinality(B \cup {x}) <= Cardinality(B) + 1
    <3>1. /\ IsFiniteSet(B \cup {x})
          /\ Cardinality(B \cup {x}) \in {Cardinality(B), Cardinality(B) + 1}
      BY FS_AddElement
    <3>2. QED  BY <1>c, <3>1
  <2>2. A \subseteq B \cup {x}  BY <1>3
  <2>3. Cardinality(A) <= Cardinality(B \cup {x})  BY <2>1, <2>2, FS_Subset
  <2>4. Cardinality(B \cup {x}) \in Nat  BY <2>1, FS_CardinalityType
  <2>5. QED  BY <1>c, <2>1, <2>3, <2>4
<1>4. QED  BY <1>1, <1>2, <1>3

LEMMA CountsNext == Counted'
  BY Counts, PTL

LEMMA SizeStep ==
  ASSUME TypeOK, Accounted, [Next]_vars
  PROVE  Accounted'
<1>l. Len(lru) \in Nat /\ Len(lru') \in Nat /\ Capacity \in Nat
  <2>1. TypeOK'  BY TypeStep
  <2>2. QED  BY <2>1, CacheAssumption DEF TypeOK
<1> DEFINE e == Cardinality(Evicting)
           a == Cardinality(Arriving)
           ee == Cardinality(Evicting')
           aa == Cardinality(Arriving')
<1>c. /\ IsFiniteSet(Evicting) /\ IsFiniteSet(Arriving)
      /\ IsFiniteSet(Evicting') /\ IsFiniteSet(Arriving')
      /\ e \in Nat /\ a \in Nat /\ ee \in Nat /\ aa \in Nat
  BY Counts, CountsNext DEF Counted
<1>i. Len(lru) <= Capacity + e + a  BY DEF Accounted
<1>g. SUFFICES Len(lru') <= Capacity + ee + aa  BY DEF Accounted
<1> HIDE DEF e, a, ee, aa
<1>0. ASSUME UNCHANGED <<lru, pc, call>>  PROVE Len(lru') <= Capacity + ee + aa
  <2>1. Evicting' = Evicting /\ Arriving' = Arriving
    BY <1>0 DEF Evicting, Arriving, Cached, Entries
  <2>2. ee = e /\ aa = a  BY <2>1 DEF e, a, ee, aa
  <2>3. QED  BY <1>i, <1>0, <2>2
<1>1. CASE UNCHANGED vars
  BY <1>0, <1>1 DEF vars, progVars
<1>2. CASE Tick \/ \E x \in Text : Reap(x)
  BY <1>0, <1>2 DEF Tick, Reap
<1>3. ASSUME NEW t \in Thread, Embed(t)  PROVE Len(lru') <= Capacity + ee + aa
  <2> DEFINE x == call[t].text
  <2>u. \A u \in Thread : u # t => pc'[u] = pc[u] /\ call'[u] = call[u]
    BY <1>3, EmbedLeaves DEF Leaves, Goto, Holds, TypeOK
  <2>p. ASSUME NEW l, Goto(t, l)  PROVE pc'[t] = l
    BY <2>p DEF Goto, TypeOK
  \* Whether t counts as evicting before and after.
  <2>s. ASSUME pc[t] \in {"check", "pop"} <=> pc'[t] \in {"check", "pop"}
        PROVE  ee = e
    <3>1. Evicting' = Evicting  BY <2>s, <2>u DEF Evicting
    <3>2. QED  BY <3>1 DEF e, ee
  \* What arrives goes on arriving, but for one text.
  <2>k. ASSUME LosesNone, pc[t] # "move"
        PROVE  a <= aa
    <3>1. Arriving \subseteq Arriving'  BY <2>k, <2>u DEF Arriving, LosesNone
    <3>2. QED  BY <3>1, <1>c, Grows DEF a, aa
  <2>y. ASSUME NEW y, Loses(y), pc[t] # "move" \/ y = x
        PROVE  a <= aa + 1
    <3>1. Arriving \ {y} \subseteq Arriving'
      BY <2>y, <2>u DEF Arriving, Loses
    <3>2. QED  BY <3>1, <1>c, Grows DEF a, aa
  <2>n. ASSUME UNCHANGED lru  PROVE LosesNone
    BY <2>n DEF LosesNone, Cached, Entries
  <2>1. ASSUME UNCHANGED lru, pc[t] \notin {"move", "check", "pop"},
               NEW l \in Labels \ {"check", "pop"}, Goto(t, l)
        PROVE  Len(lru') <= Capacity + ee + aa
    <3>1. ee = e /\ a <= aa  BY <2>1, <2>p, <2>s, <2>k, <2>n
    <3>2. QED  BY <1>l, <1>c, <1>i, <2>1, <3>1
  <2>2. CASE Lookup(t) \/ TableGet(t) \/ InvokeBedrock(t) \/ TablePut(t)
             \/ \E z \in Text : Begin(t, z)
    BY <2>1, <2>2 DEF Begin, Lookup, TableGet, InvokeBedrock, TablePut, Return, Running,
                       Labels, Carrying, TypeOK
  <2>3. CASE Hit(t)
    <3>1. ee = e  BY <2>3, <2>p, <2>s DEF Hit, Return, Raise
    <3>2. UNCHANGED lru \/ (LosesNone /\ Len(lru') = Len(lru))
      BY <1>3, <2>3, EmbedDict DEF Hit, Delete, Pop, Insert
    <3>3. a <= aa  BY <2>3, <2>k, <2>n, <3>2 DEF Hit
    <3>4. QED  BY <1>l, <1>c, <1>i, <3>1, <3>2, <3>3
  <2>4. CASE Delete(t)
    <3>1. ee = e  BY <2>4, <2>p, <2>s DEF Delete, Raise
    <3>2. Loses(x) /\ Len(lru') = IF Cached(x) THEN Len(lru) - 1 ELSE Len(lru)
      BY <2>4, Removing DEF Delete, TypeOK
    <3>3. CASE Cached(x)
      <4>1. a <= aa + 1  BY <2>y, <3>2
      <4>2. QED  BY <1>l, <1>c, <1>i, <3>1, <3>2, <3>3, <4>1
    <3>4. CASE ~Cached(x)
      <4>1. LosesNone  BY <3>2, <3>4 DEF Loses, LosesNone
      <4>2. a <= aa  BY <2>4, <2>k, <4>1 DEF Delete
      <4>3. QED  BY <1>l, <1>c, <1>i, <3>1, <3>2, <3>4, <4>2
    <3>5. QED  BY <3>3, <3>4
  <2>5. CASE Insert(t)
    <3>1. pc'[t] = "move" /\ pc[t] = "insert" /\ call'[t] = call[t]
      BY <2>5, <2>p DEF Insert
    <3>2. ee = e  BY <2>s, <3>1
    <3>3. /\ LosesNone /\ \E j \in DOMAIN lru' : lru'[j].text = x
          /\ Len(lru') = IF Cached(x) THEN Len(lru) ELSE Len(lru) + 1
      BY <2>5, GivenTyped, Inserting DEF TypeOK
    <3>4. a <= aa  BY <2>k, <3>1, <3>3
    <3>5. CASE Cached(x)
      BY <1>l, <1>c, <1>i, <3>2, <3>3, <3>4, <3>5
    <3>6. CASE ~Cached(x)
      <4>1. x \in Text  BY <3>1 DEF TypeOK, Running
      <4>2. x \in Arriving'
        BY <3>1, <3>3, <4>1 DEF Arriving, Cached, Entries
      <4>3. x \notin Arriving  BY <3>6 DEF Arriving
      <4>4. Arriving \subseteq Arriving'  BY <2>u, <3>1, <3>3 DEF Arriving, LosesNone
      <4>5. a + 1 <= aa  BY <1>c, <4>2, <4>3, <4>4, Grows DEF a, aa
      <4>6. QED  BY <1>l, <1>c, <1>i, <3>2, <3>3, <3>6, <4>5
    <3>7. QED  BY <3>5, <3>6
  <2>6. CASE Move(t) /\ Cached(x)
    <3>1. pc'[t] = "check" /\ pc[t] = "move"  BY <2>6, <2>p DEF Move
    <3>2. LosesNone /\ Len(lru') = Len(lru)  BY <2>6, Moving DEF Move, TypeOK
    <3>3. a <= aa + 1  BY <2>y, <3>2 DEF Loses, LosesNone
    <3>4. Evicting \subseteq Evicting' /\ t \in Evicting' \ Evicting
      BY <2>u, <3>1 DEF Evicting
    <3>5. e + 1 <= ee  BY <1>c, <3>4, Grows DEF e, ee
    <3>6. QED  BY <1>l, <1>c, <1>i, <3>2, <3>3, <3>5
  <2>7. CASE Move(t) /\ ~Cached(x)
    <3>1. pc'[t] = "raised" /\ pc[t] = "move" /\ UNCHANGED lru
      BY <2>7, <2>p DEF Move, Raise
    <3>2. ee = e  BY <2>s, <3>1
    <3>3. Arriving \subseteq Arriving'
      BY <2>7, <2>u, <3>1 DEF Arriving, Cached, Entries
    <3>4. a <= aa  BY <1>c, <3>3, Grows DEF a, aa
    <3>5. QED  BY <1>l, <1>c, <1>i, <3>1, <3>2, <3>4
  <2>8. CASE Check(t)
    <3>1. UNCHANGED lru /\ pc[t] = "check"  BY <2>8 DEF Check
    <3>2. CASE OverCapacity
      <4>1. pc'[t] = "pop"  BY <2>8, <2>p, <3>2 DEF Check
      <4>2. ee = e /\ a <= aa  BY <2>s, <2>k, <2>n, <3>1, <4>1
      <4>3. QED  BY <1>l, <1>c, <1>i, <3>1, <4>2
    <3>3. CASE ~OverCapacity
      BY <1>l, <1>c, <3>1, <3>3 DEF OverCapacity
    <3>4. QED  BY <3>2, <3>3
  <2>9. CASE Pop(t)
    <3>1. CASE lru = <<>>
      <4>1. Len(lru') = 0  BY <2>9, <3>1 DEF Pop
      <4>2. QED  BY <1>l, <1>c, <4>1
    <3>2. CASE lru # <<>>
      <4>1. pc'[t] = "check" /\ pc[t] = "pop" /\ lru' = Tail(lru)
        BY <2>9, <2>p, <3>2 DEF Pop
      <4>2. Loses(Head(lru).text) /\ Len(lru') = Len(lru) - 1
        BY <3>2, <4>1, Popping DEF TypeOK
      <4>3. ee = e /\ a <= aa + 1  BY <2>s, <2>y, <4>1, <4>2
      <4>4. QED  BY <1>l, <1>c, <1>i, <4>2, <4>3
    <3>3. QED  BY <3>1, <3>2
  <2>10. QED
    BY <1>3, <2>2, <2>3, <2>4, <2>5, <2>6, <2>7, <2>8, <2>9 DEF Embed
<1>4. QED  BY <1>1, <1>2, <1>3 DEF Next

-------------------------------------------------------------------------------
\* Ages.

LEMMA Durations ==
  /\ LruTTL \in Nat /\ TableTTL \in Nat /\ ReapDelay \in Nat /\ MaxCall \in Nat
  /\ LruTTL > 0 /\ MaxCall <= TableTTL + ReapDelay /\ None \notin Nat
  BY CacheAssumption

\* The time of a call is that of its beginning, and nothing it is handed on the
\* way is older than its source may be.
LEMMA OwnStepAged ==
  ASSUME TypeOK, InTime, ItemsAge, EntriesAge, NEW t \in Thread, Aged(t), Embed(t)
  PROVE  /\ Aged(t)'
         /\ Running(t)' => call'[t].now = IF Running(t) THEN call[t].now ELSE clock
<1>d. /\ LruTTL \in Nat /\ TableTTL \in Nat /\ ReapDelay \in Nat
      /\ LruTTL > 0 /\ None \notin Nat /\ clock \in Nat
  BY Durations DEF TypeOK
<1>c. /\ call[t] \in CallState /\ call[t].now \in Nat
      /\ Running(t) => call[t].now <= clock /\ call[t].text \in Text
  BY DEF TypeOK, CallState, InTime
<1> DEFINE Claim == /\ Aged(t)'
                    /\ Running(t)' => call'[t].now = IF Running(t) THEN call[t].now ELSE clock
<1>p. ASSUME NEW l, Goto(t, l)  PROVE pc'[t] = l
  BY <1>p DEF Goto, TypeOK
<1>h. ASSUME NEW c, Holds(t, c)  PROVE call'[t] = c
  BY <1>h DEF Holds, TypeOK
<1>1. ASSUME Return(t) \/ Raise(t)  PROVE Claim
  <2>1. pc'[t] \in {"idle", "raised"} /\ call'[t] = Blank
    BY <1>1, <1>p, <1>h DEF Return, Raise
  <2>2. QED  BY <2>1, BlankTyped DEF Aged, Running
<1>2. ASSUME NEW x \in Text, Begin(t, x)  PROVE Claim
  <2> DEFINE c == [Blank EXCEPT !.text = x, !.now = clock]
  <2>1. pc'[t] = "lookup" /\ call'[t] = c /\ ~Running(t)
    BY <1>2, <1>p, <1>h DEF Begin
  <2>2. c.made = None /\ ~c.fresh /\ c.now = clock  BY DEF Blank
  <2> HIDE DEF c
  <2>3. QED  BY <2>1, <2>2 DEF Aged
\* The thread goes on with what it holds.
<1>3. ASSUME NEW l, Goto(t, l), UNCHANGED call, Running(t),
             l # "insert", call[t].fresh => l \in Carrying \ {"hit"},
             l = "table_put" => call[t].fresh
      PROVE  Claim
  BY <1>3, <1>p DEF Aged
<1>4. CASE Lookup(t)
  <2>r. Running(t) /\ pc[t] = "lookup" /\ ~call[t].fresh
    BY <1>4 DEF Lookup, Running, Aged, Carrying
  <2>1. CASE UNCHANGED call
    BY <1>3, <1>4, <2>r, <2>1 DEF Lookup
  <2>2. ASSUME Cached(call[t].text), ~Stale(call[t]), Goto(t, "hit"),
               Holds(t, [call[t] EXCEPT !.made = Entry(call[t].text).made])
        PROVE  Claim
    <3> DEFINE c == [call[t] EXCEPT !.made = Entry(call[t].text).made]
               e == Entry(call[t].text)
    <3>1. pc'[t] = "hit" /\ call'[t] = c  BY <2>2, <1>p, <1>h
    <3>2. c.made = e.made /\ c.now = call[t].now /\ c.fresh = call[t].fresh
      BY <1>c DEF CallState
    <3>3. e \in Slot /\ e.inserted <= e.made + TableTTL + ReapDelay
      BY <2>2, CachedIs DEF Entry, EntriesAge, TypeOK
    <3>4. call[t].now < e.inserted + LruTTL
      <4>1. e.inserted \in Nat  BY <3>3 DEF Slot
      <4>2. QED  BY <1>c, <1>d, <2>2, <4>1 DEF Stale
    <3>5. e.made \in Nat /\ e.inserted \in Nat  BY <3>3 DEF Slot
    <3> HIDE DEF c, e
    <3>6. call[t].now < e.made + TableTTL + ReapDelay + LruTTL
      BY <1>c, <1>d, <3>3, <3>4, <3>5
    <3>7. QED  BY <2>r, <3>1, <3>2, <3>6 DEF Aged
  <2>3. QED  BY <1>4, <2>1, <2>2 DEF Lookup
<1>5. CASE TableGet(t)
  <2>r. Running(t) /\ ~call[t].fresh
    BY <1>5 DEF TableGet, Running, Aged, Carrying
  <2>1. CASE Goto(t, "bedrock") /\ UNCHANGED call
    BY <1>3, <2>r, <2>1
  <2>2. ASSUME table[call[t].text] # None, Goto(t, "insert"),
               Holds(t, [call[t] EXCEPT !.made = table[call[t].text].made])
        PROVE  Claim
    <3> DEFINE i == table[call[t].text]
               c == [call[t] EXCEPT !.made = i.made]
    <3>1. pc'[t] = "insert" /\ call'[t] = c  BY <2>2, <1>p, <1>h
    <3>2. c.made = i.made /\ c.now = call[t].now /\ c.fresh = call[t].fresh
      BY <1>c DEF CallState
    <3>3. /\ i \in Item
          /\ clock <= i.ttl_epoch + ReapDelay /\ i.ttl_epoch <= i.made + TableTTL
      BY <1>c, <2>r, <2>2 DEF ItemsAge, TypeOK
    <3>4. i.made \in Nat /\ i.ttl_epoch \in Nat  BY <3>3 DEF Item
    <3> HIDE DEF c, i
    <3>5. call[t].now <= i.made + TableTTL + ReapDelay
      BY <1>c, <1>d, <2>r, <3>3, <3>4
    <3>6. call[t].now < i.made + TableTTL + ReapDelay + LruTTL
      BY <1>c, <1>d, <3>4, <3>5
    <3>7. QED  BY <2>r, <3>1, <3>2, <3>5, <3>6 DEF Aged
  <2>3. QED  BY <1>5, <2>1, <2>2 DEF TableGet
<1>6. CASE InvokeBedrock(t)
  <2>r. Running(t)  BY <1>6 DEF InvokeBedrock, Running
  <2> DEFINE c == [call[t] EXCEPT !.made = clock, !.fresh = TRUE]
  <2>1. ASSUME Goto(t, "insert"), Holds(t, c)  PROVE Claim
    <3>1. pc'[t] = "insert" /\ call'[t] = c  BY <2>1, <1>p, <1>h
    <3>2. c.made = clock /\ c.now = call[t].now /\ c.fresh
      BY <1>c DEF CallState
    <3> HIDE DEF c
    <3>3. /\ call[t].now <= clock /\ call[t].now <= clock + TableTTL + ReapDelay
          /\ call[t].now < clock + TableTTL + ReapDelay + LruTTL
      BY <1>c, <1>d, <2>r
    <3>4. QED  BY <2>r, <3>1, <3>2, <3>3 DEF Aged, Carrying
  <2>2. QED  BY <1>1, <1>6, <2>1 DEF InvokeBedrock
<1>7. CASE Delete(t)
  BY <1>1, <1>3, <1>7 DEF Delete, Running, Aged, Carrying
<1>8. CASE Hit(t) \/ TablePut(t)
  BY <1>1, <1>8 DEF Hit, TablePut
<1>9. CASE Insert(t)
  BY <1>3, <1>9 DEF Insert, Running, Carrying
<1>10. CASE Move(t)
  BY <1>1, <1>3, <1>10 DEF Move, Running, Carrying
<1>11. CASE Check(t)
  BY <1>1, <1>3, <1>11 DEF Check, Running, Carrying
<1>12. CASE Pop(t)
  BY <1>1, <1>3, <1>12 DEF Pop, Running, Carrying
<1>13. QED
  BY <1>2, <1>4, <1>5, <1>6, <1>7, <1>8, <1>9, <1>10, <1>11, <1>12 DEF Embed

LEMMA AgesStep ==
  ASSUME TypeOK, Ages, [Next]_vars
  PROVE  Ages'
<1>d. /\ LruTTL \in Nat /\ TableTTL \in Nat /\ ReapDelay \in Nat /\ MaxCall \in Nat
      /\ MaxCall <= TableTTL + ReapDelay /\ clock \in Nat
  BY Durations DEF TypeOK
<1>a. \A t \in Thread : Aged(t)  BY DEF Ages, CallsAge
<1>1. CASE UNCHANGED vars
  BY <1>1
  DEF vars, progVars, Ages, InTime, ItemsAge, EntriesAge, CallsAge, Aged, Running
<1>2. CASE Tick
  <2>1. InTime'
    <3>1. ASSUME NEW t \in Thread, Running(t)
          PROVE  call[t].now <= clock + 1 /\ clock + 1 <= call[t].now + MaxCall
      <4>1. /\ call[t].now \in Nat /\ call[t].now <= clock
            /\ clock < call[t].now + MaxCall
        BY <1>2, <3>1 DEF Tick, Ages, InTime, TypeOK, CallState
      <4>2. QED  BY <1>d, <4>1
    <3>2. QED  BY <1>2, <3>1 DEF Tick, InTime, Running
  <2>2. ItemsAge'
    <3>1. ASSUME NEW x \in Text, table[x] # None
          PROVE  clock + 1 <= table[x].ttl_epoch + ReapDelay
      <4>1. table[x] \in Item  BY <3>1 DEF TypeOK
      <4>2. table[x].ttl_epoch \in Nat /\ clock < table[x].ttl_epoch + ReapDelay
        BY <1>2, <3>1, <4>1 DEF Tick, Item
      <4>3. QED  BY <1>d, <4>2
    <3>2. QED  BY <1>2, <3>1 DEF Tick, Ages, ItemsAge
  <2>3. EntriesAge' /\ CallsAge'
    BY <1>2 DEF Tick, Ages, EntriesAge, CallsAge, Aged
  <2>4. QED  BY <2>1, <2>2, <2>3 DEF Ages
<1>3. ASSUME NEW x \in Text, Reap(x)  PROVE Ages'
  BY <1>3 DEF Reap, TypeOK, Ages, InTime, ItemsAge, EntriesAge, CallsAge, Aged, Running
<1>4. ASSUME NEW t \in Thread, Embed(t)  PROVE Ages'
  <2>k. clock' = clock
    BY <1>4 DEF Embed, Begin, Lookup, Delete, Hit, TableGet, InvokeBedrock, Insert, Move,
                Check, Pop, TablePut
  <2>u. \A u \in Thread : u # t => pc'[u] = pc[u] /\ call'[u] = call[u]
    BY <1>4, EmbedLeaves DEF Leaves, Goto, Holds, TypeOK
  <2>t. /\ Aged(t)'
        /\ Running(t)' => call'[t].now = IF Running(t) THEN call[t].now ELSE clock
    BY <1>a, <1>4, OwnStepAged DEF Ages
  <2>1. InTime'
    <3>1. ASSUME NEW u \in Thread, Running(u)'
          PROVE  call'[u].now <= clock /\ clock <= call'[u].now + MaxCall
      <4>1. CASE u # t
        BY <2>u, <3>1, <4>1 DEF Ages, InTime, Running
      <4>2. CASE u = t /\ Running(t)
        BY <2>t, <3>1, <4>2 DEF Ages, InTime
      <4>3. CASE u = t /\ ~Running(t)
        <5>1. call'[u].now = clock  BY <2>t, <3>1, <4>3
        <5>2. QED  BY <1>d, <5>1
      <4>4. QED  BY <4>1, <4>2, <4>3
    <3>2. QED  BY <2>k, <3>1 DEF InTime
  <2>2. CallsAge'
    <3>1. ASSUME NEW u \in Thread  PROVE Aged(u)'
      BY <1>a, <2>t, <2>u DEF Aged
    <3>2. QED  BY <3>1 DEF CallsAge
  <2>3. EntriesAge'
    <3>1. CASE NothingNew
      BY <3>1 DEF Ages, EntriesAge, NothingNew, Within
    <3>2. CASE Insert(t)
      <4>1. Given(t) \in Slot  BY <3>2, GivenTyped
      <4>2. \A j \in DOMAIN lru' :
              lru'[j] = Given(t) \/ \E i \in DOMAIN lru : lru'[j] = lru[i]
        BY <3>2, <4>1, Inserting DEF TypeOK
      <4>3. Given(t).inserted <= Given(t).made + TableTTL + ReapDelay
        BY <1>a, <3>2 DEF Given, Aged, Insert
      <4>4. QED  BY <4>2, <4>3 DEF Ages, EntriesAge
    <3>3. CASE UNCHANGED lru
      BY <3>3 DEF Ages, EntriesAge
    <3>4. QED  BY <1>4, <3>1, <3>2, <3>3, EmbedDict
  <2>4. ItemsAge'
    <3>1. CASE UNCHANGED table
      BY <2>k, <3>1 DEF Ages, ItemsAge
    <3>2. ASSUME TablePut(t), table' = [table EXCEPT ![call[t].text] =
                   [made |-> call[t].made, ttl_epoch |-> call[t].now + TableTTL]]
          PROVE  ItemsAge'
      <4>1. pc[t] = "table_put" /\ Running(t)  BY <3>2 DEF TablePut, Running
      <4>2. /\ call[t].now \in Nat /\ call[t].made \in Nat /\ call[t].text \in Text
            /\ call[t].now <= call[t].made /\ clock <= call[t].now + MaxCall
        BY <1>a, <4>1 DEF Aged, Carrying, Ages, InTime, TypeOK, CallState
      <4>3. /\ clock <= (call[t].now + TableTTL) + ReapDelay
            /\ call[t].now + TableTTL <= call[t].made + TableTTL
        BY <1>d, <4>2
      <4>4. ASSUME NEW x \in Text, table'[x] # None
            PROVE  /\ clock <= table'[x].ttl_epoch + ReapDelay
                   /\ table'[x].ttl_epoch <= table'[x].made + TableTTL
        <5>1. CASE x = call[t].text
          <6>1. table'[x] = [made |-> call[t].made, ttl_epoch |-> call[t].now + TableTTL]
            BY <3>2, <4>2, <5>1 DEF TypeOK
          <6>2. QED  BY <4>3, <6>1
        <5>2. CASE x # call[t].text
          BY <3>2, <4>4, <5>2 DEF Ages, ItemsAge, TypeOK
        <5>3. QED  BY <5>1, <5>2
      <4>5. QED  BY <2>k, <4>4 DEF ItemsAge
    <3>3. UNCHANGED table \/ (TablePut(t) /\ table' = [table EXCEPT ![call[t].text] =
                   [made |-> call[t].made, ttl_epoch |-> call[t].now + TableTTL]])
      BY <1>4
      DEF Embed, Begin, Lookup, Delete, Hit, TableGet, InvokeBedrock, Insert, Move,
          Check, Pop, TablePut
    <3>4. QED  BY <3>1, <3>2, <3>3
  <2>5. QED  BY <2>1, <2>2, <2>3, <2>4 DEF Ages
<1>5. QED  BY <1>1, <1>2, <1>3, <1>4 DEF Next

-------------------------------------------------------------------------------
\* The theorems.

LEMMA CacheInit == Init => CacheInv
<1> SUFFICES ASSUME Init  PROVE CacheInv  OBVIOUS
<1>1. TypeOK
  <2>1. <<>> \in Seq(Slot)  BY EmptySeq
  <2>2. QED  BY <2>1, BlankTyped DEF Init, TypeOK, Labels, Carrying, Running
<1>2. Len(lru) = 0 /\ Capacity \in Nat  BY CacheAssumption DEF Init
<1>3. Accounted
  BY <1>2, Counts DEF Accounted, Counted
<1>4. Trusted /\ Ages
  BY BlankTyped
  DEF Init, Trusted, Sure, InTime, ItemsAge, EntriesAge, CallsAge, Aged, Ages, Running
<1>5. QED  BY <1>1, <1>3, <1>4 DEF CacheInv

LEMMA CacheStep == CacheInv /\ [Next]_vars => CacheInv'
  BY TypeStep, TrustedStep, SizeStep, AgesStep DEF CacheInv

LEMMA CacheInvariant == Spec => []CacheInv
  BY CacheInit, CacheStep, PTL DEF Spec

\* _lru_put: entries beyond the capacity are matched by threads that are still to
\* look at the size, whatever the threads take from under each other.
THEOREM DictIsBounded == Spec => []Bounded
<1>1. CacheInv => Bounded
  <2> SUFFICES ASSUME CacheInv  PROVE Bounded  OBVIOUS
  <2> DEFINE e == Cardinality(Evicting)
             m == Cardinality(Movers)
             a == Cardinality(Arriving)
  <2>1. {t \in Thread : pc[t] \in {"move", "check", "pop"}} = Evicting \cup Movers
    BY DEF Evicting, Movers
  <2>2. Evicting \cap Movers = {}  BY DEF Evicting, Movers
  <2>3. Cardinality(Evicting \cup Movers) = e + m
    <3>1. Cardinality(Evicting \cup Movers) = e + m - Cardinality(Evicting \cap Movers)
      BY Counts, FS_Union DEF Counted
    <3>2. Cardinality(Evicting \cap Movers) = 0  BY <2>2, FS_EmptySet
    <3>3. e \in Nat /\ m \in Nat  BY Counts DEF Counted
    <3> HIDE DEF e, m
    <3>4. QED  BY <3>1, <3>2, <3>3
  <2>4. Len(lru) <= Capacity + e + a  BY DEF CacheInv, Accounted
  <2>5. /\ e \in Nat /\ m \in Nat /\ a \in Nat /\ a <= m
        /\ Len(lru) \in Nat /\ Capacity \in Nat
    BY Counts, CacheAssumption DEF Counted, CacheInv, TypeOK
  <2> HIDE DEF e, m, a
  <2>6. Len(lru) <= Capacity + (e + m)  BY <2>4, <2>5
  <2>7. QED  BY <2>1, <2>3, <2>6 DEF Bounded
<1>2. QED  BY <1>1, CacheInvariant, PTL

\* EmbeddingCache: the lifetimes of the tiers add up and no more, for a call in the
\* middle of which time passes and which writes back a time it read at its beginning.
THEOREM EmbeddingsAreYoung == Spec => []AgeIsBounded
<1>1. CacheInv => AgeIsBounded
  <2> SUFFICES ASSUME CacheInv, NEW t \in Thread, call[t].made # None
               PROVE  clock < call[t].made + TableTTL + ReapDelay + LruTTL + MaxCall
    BY DEF AgeIsBounded
  <2>1. Running(t)  BY BlankTyped DEF CacheInv, TypeOK
  <2>2. /\ call[t].now \in Nat /\ call[t].made \in Nat /\ clock \in Nat
        /\ clock <= call[t].now + MaxCall
        /\ call[t].now < call[t].made + TableTTL + ReapDelay + LruTTL
    BY <2>1 DEF CacheInv, TypeOK, CallState, Ages, InTime, CallsAge, Aged
  <2>3. QED  BY <2>2, Durations
<1>2. QED  BY <1>1, CacheInvariant, PTL

\* EmbeddingCache: the dict raises nothing to a thread that had it to itself.
THEOREM LoneCallsDoNotRaise == Spec => []RaisesOnlyWhenCrossed
<1>1. CacheInv => RaisesOnlyWhenCrossed
  BY DEF CacheInv, Trusted, Sure, RaisesOnlyWhenCrossed
<1>2. QED  BY <1>1, CacheInvariant, PTL
===============================================================================
