------------------------------- MODULE Contents -------------------------------
(***************************************************************************)
(* Where contents are kept.  A content too large to be kept in the         *)
(* metadata of its vector goes to the content bucket, under a key derived  *)
(* from the vector's, before the vector is written; purge_memory deletes   *)
(* the objects one by one after the vectors.  The write side is that of    *)
(* MemoryClient, with these calls put in their places.                     *)
(*                                                                         *)
(* An object's key determines its content, so the bucket is the set of     *)
(* addresses that have one.  Several tasks: a content belongs to one task  *)
(* (a bound on what callers store), which makes the dedup query's filter   *)
(* by task the comparison of contents it is in MemoryClient.               *)
(***************************************************************************)
EXTENDS MemoryClient

CONSTANTS
  External,   \* contents beyond the inline limit
  Task,       \* coordination keys the contents are stored under
  TaskOf      \* the task of a content, and of the group it started

ASSUME ContentsAssumption ==
  External \subseteq Content /\ TaskOf \in [Content -> Task]

VARIABLES
  body,     \* the content bucket: addresses whose object is there
  routed,   \* callers whose content is where it belongs, its vector not yet
  doomed,   \* objects a purge has still to delete
  raced     \* history: vectors a caller wrote beside a purge of them

bodyVars == <<body, routed, doomed, raced>>

Outside(x) == x[2].content \in External

-------------------------------------------------------------------------------
\* _route_content: the object is put, then its vector is.
RouteContent(p) ==
  /\ pc[p] = "vector" /\ p \notin routed
  /\ routed' = routed \cup {p}
  /\ body' = body \cup {x \in {Here(p)} : Outside(x)}
  /\ UNCHANGED <<storeVars, clientVars, doomed>>

\* Wrong on purpose (mutant of WriteRouted): the vector may be written first.
WriteUnrouted(p) ==
  /\ WriteVector(p)
  /\ routed' = routed \ {p} /\ UNCHANGED <<body, doomed>>

WriteRouted(p) ==
  /\ p \in routed /\ WriteVector(p)
  /\ routed' = routed \ {p} /\ UNCHANGED <<body, doomed>>

\* The addresses p is about to write, or to have deleted.
Writing(p) ==
  IF pc[p] \in {"vector", "ttl", "rewrite", "archive_put"} THEN {Here(p), Old(p)} ELSE {}

Purging(p) ==
  CASE pc[p] = "purge_vectors" ->
         {loc[p].idx} \X (loc[p].row.superseded_keys \cup ({loc[p].row.latest_key} \ {None}))
    [] pc[p] = "purge_row" -> doomed[p]
    [] OTHER -> {}

\* purge_memory deletes the vectors its row names, then their objects ...
PurgeDeletesVectors(p) ==
  /\ PurgeVectors(p)
  /\ doomed' = [doomed EXCEPT ![p] = Purging(p)]
  /\ UNCHANGED <<body, routed>>

\* ... each as well as it can, in whatever order ...
PurgeDeletesBody(p) ==
  /\ pc[p] = "purge_row"
  /\ \E x \in doomed[p] :
       /\ doomed' = [doomed EXCEPT ![p] = @ \ {x}]
       /\ body' = body \ {x} \/ body' = body
  /\ UNCHANGED <<storeVars, clientVars, routed>>

\* ... and the row last.
PurgeDeletesRow(p) ==
  /\ doomed[p] = {} /\ PurgeRow(p)
  /\ UNCHANGED <<body, routed, doomed>>

\* Every other call leaves the objects alone.
ElseProceeds(p) ==
  /\ pc[p] \notin {"vector", "purge_vectors", "purge_row"} /\ ProceedClient(p)
  /\ UNCHANGED <<body, routed, doomed>>

Dies(p) ==
  /\ Crash(p)
  /\ routed' = routed \ {p} /\ doomed' = [doomed EXCEPT ![p] = {}]
  /\ UNCHANGED body

Asks(p) ==
  /\ \E i \in Index :
       \/ \E c \in Content, e \in Expiries, m \in Modes : RequestStore(p, i, c, None, e, m)
       \/ \E c \in Content, e \in Expiries, k \in Key :
            TaskOf[c] = TaskOf[k.content] /\ RequestSupersede(p, i, c, e, k)
       \/ \E k \in Key : RequestArchive(p, i, k)
       \/ \E g \in Cid : RequestPurge(p, i, g)
  /\ UNCHANGED <<body, routed, doomed>>

Writer(p) ==
  /\ \/ Asks(p) \/ RouteContent(p) \/ WriteRouted(p)
     \/ PurgeDeletesVectors(p) \/ PurgeDeletesBody(p) \/ PurgeDeletesRow(p)
     \/ ElseProceeds(p) \/ Dies(p)
  /\ raced' = raced \cup {x \in Addr : \E q, r \in Proc : x \in Writing(q)' \cap Purging(r)'}

ContentsInit ==
  /\ StoreInit /\ ClientInit
  /\ body = {} /\ routed = {} /\ doomed = [p \in Proc |-> {}] /\ raced = {}

-------------------------------------------------------------------------------
\* _route_content and purge_memory: what is found can be read.  A memory whose
\* content was put outside has its object, whatever crashed on the way, unless it
\* was written beside a purge of its own group.
ContentSurvives ==
  \A x \in Addr : Exists(x) /\ Outside(x) => x \in body \cup raced
===============================================================================
