------------------------------ MODULE MCRetrieval ------------------------------
(***************************************************************************)
(* Instances of Retrieval for TLC: a document with two chunks, a second    *)
(* version of the document, and a memory stored twice under the same       *)
(* version by writers that raced.  Sizes are chosen around the budget.     *)
(***************************************************************************)
EXTENDS Retrieval

CONSTANTS doc, doc2, chunk1, chunk2, early, late,
          gdoc, gc1, gc2, gm

Entry(g, v, t, live, kind, parent, summary, full, inline) ==
  [gid |-> g, version |-> v, created_at |-> t, live |-> live, kind |-> kind,
   parent |-> parent, summary |-> summary, full |-> full, inline |-> inline]

Document(live, summary, full) ==
  Entry(gdoc, 1, 1, live, "document", None, summary, full, FALSE)

Chunk(g) == Entry(g, 1, 1, TRUE, "chunk", doc, None, 2, TRUE)

\* A document alone, or retired by its second version, or gone.
Documents == {[d \in {doc, doc2} |-> IF d = doc THEN Document(TRUE, 1, 4) ELSE None],
              [d \in {doc, doc2} |-> IF d = doc THEN Document(FALSE, None, 3)
                 ELSE Entry(gdoc, 2, 2, TRUE, "document", None, 1, 4, FALSE)]}

\* The same version twice, from one second or from two; the summary of late
\* may be an empty string.
Pair(t, s) == [k \in {early, late} |->
                 IF k = early THEN Entry(gm, 1, 1, TRUE, "memory", None, 1, 3, TRUE)
                              ELSE Entry(gm, 1, t, TRUE, "memory", None, s, 5, TRUE)]

MCVaults == {[k \in Key |-> IF k \in {doc, doc2} THEN d[k]
                            ELSE IF k \in {early, late} THEN Pair(s + 1, s)[k]
                            ELSE IF k = chunk1 THEN Chunk(gc1) ELSE Chunk(gc2)] :
               d \in Documents, s \in {0, 1}}

MCHydrateKeys == {<<>>, <<late, doc>>, <<late, late>>}
===============================================================================
