----------------------------- MODULE SessionProofs -----------------------------
(***************************************************************************)
(* Proofs, for every number of threads, roles and retries, of what a       *)
(* session promises at each step: no call is refused half way, a login     *)
(* that holds can sign, a healthy report covers what a start needs.        *)
(***************************************************************************)
EXTENDS Session, SequenceTheorems, TLAPS

-------------------------------------------------------------------------------
\* The invariant.

Fates == {"refused", "vectors", "other"}
Results == {"pass", "fail", "skip", "not requested"}

CallState == [at : {"idle", "send", "sleep", "doctor"}, todo : Seq(Fates),
              attempt : Nat, checks : [1..4 -> Results \cup {None}]]

BootCallsOf(h, r) ==
  (IF r \in Scoped(h) THEN {"config", "arn", "identity", "assume"}
                      ELSE {"config", "identity"})
  \cup (IF h = "mcp" THEN {"packs"} ELSE {})

BootCalls == BootCallsOf(host, role)

TypeOK ==
  /\ login \in BOOLEAN /\ fault \in Faults
  /\ host \in {None, "mcp", "cli"} /\ (host # None => role \in Given)
  /\ boot \in Seq(BootCalls)
  /\ call \in [Thread -> CallState]

\* A program serves only when it is up, and a vv process does one thing.
Attended ==
  /\ ~Up => \A t \in Thread : ~Busy(t)
  /\ host = "cli" => \A t, u \in Thread : Busy(t) /\ Busy(u) => t = u

\* A call under way has something left to ask, and a tool of the server nothing
\* that is refused.
Asked ==
  \A t \in Thread : Asking(t) =>
    /\ call[t].todo # <<>>
    /\ host = "mcp" => call[t].todo \in Seq(Fates \ {"refused"})

\* During a call that is marked as not lapsed the role could always be assumed.
LapsesSeen == \A t \in Thread : Asking(t) /\ ~Answered("assume") => t \in lapsed

\* The first two checks pass or fail; a later one is skipped only when one before
\* it has not passed; a check has its result after those before it.
Reasoned(checks) ==
  /\ checks[1] \in {None, "pass", "fail"} /\ checks[2] \in {None, "pass", "fail"}
  /\ checks[2] # None => checks[1] # None
  /\ checks[3] # None => checks[2] # None
  /\ checks[3] # "not requested"
  /\ checks[3] = "skip" => ~(Passed(checks, 1) /\ Passed(checks, 2))
  /\ checks[4] # None => checks[3] # None
  /\ checks[4] = "skip" => ~(Passed(checks, 2) /\ Passed(checks, 3))

DoctorReasons == \A t \in Thread : Diagnosing(t) => Reasoned(call[t].checks)

\* What a doctor beside whom nothing changed has found still holds.
DoctorKnows ==
  \A t \in Thread : Diagnosing(t) /\ t \notin moved =>
    LET checks == call[t].checks IN
    /\ Passed(checks, 1) => login
    /\ Passed(checks, 2) => Answered("config")
    /\ Passed(checks, 3) /\ role # "none" => Answered("arn") /\ Answered("assume")

\* So does what a healthy report has vouched for.
Vouched ==
  vouched # None =>
    /\ login /\ Answered("config")
    /\ vouched # "none" => Answered("arn") /\ Answered("assume")

SessionInv == /\ TypeOK /\ Attended /\ Asked /\ LapsesSeen
              /\ DoctorReasons /\ DoctorKnows /\ Vouched

-------------------------------------------------------------------------------
\* The calls of a verb.

Names == {"embed", "query", "get", "list", "object", "put", "delete"}

LEMMA CallsOfTyped ==
  ASSUME NEW v \in Verbs \cup {"purge"}
  PROVE  /\ CallsOf(v) \in Seq(Names) /\ CallsOf(v) # <<>>
         /\ v \in Verbs => CallsOf(v) \in Seq(Names \ {"delete"})
         /\ v \in ReadOnlyVerbs => CallsOf(v) \in Seq({"embed", "query", "get", "list"})
<1> USE DEF Names, Verbs, ReadOnlyVerbs
<1>1. CASE v \in {"retrieve_memory", "galaxy_search", "linked_by"}
  <2>1. CallsOf(v) = <<"embed", "query", "get">>  BY <1>1 DEF CallsOf
  <2>2. QED  BY <1>1, <2>1
<1>2. CASE v \in {"hydrate_memory", "expand_cites", "get_memory", "reinforce"}
  <2>1. CallsOf(v) = <<"get">>  BY <1>2 DEF CallsOf
  <2>2. QED  BY <1>2, <2>1
<1>3. CASE v \in {"retrieve_pack", "list_memories"}
  <2>1. CallsOf(v) = <<"list", "get">>  BY <1>3 DEF CallsOf
  <2>2. QED  BY <1>3, <2>1
<1>4. CASE v = "fetch_working_set"
  <2>1. CallsOf(v) = <<"list", "get", "get">>  BY <1>4 DEF CallsOf
  <2>2. /\ CallsOf(v) \in Seq(Names) /\ CallsOf(v) \in Seq(Names \ {"delete"})
        /\ CallsOf(v) \in Seq({"embed", "query", "get", "list"})
    BY <2>1
  <2>3. QED  BY <2>1, <2>2
<1>s. /\ StoreCalls \in Seq(Names \ {"delete"}) /\ StoreCalls \in Seq(Names)
      /\ StoreCalls # <<>>
  BY DEF StoreCalls
<1>5. CASE v \in {"store_memory", "restore_memory"}
  <2>1. CallsOf(v) = StoreCalls  BY <1>5 DEF CallsOf
  <2>2. v \notin ReadOnlyVerbs  BY <1>5
  <2>3. QED  BY <1>s, <2>1, <2>2
<1>6. CASE v = "pin_working_set"
  <2>1. CallsOf(v) = <<"list">> \o StoreCalls  BY <1>6 DEF CallsOf
  <2>2. v \notin ReadOnlyVerbs  BY <1>6
  <2>3. <<"list">> \in Seq(Names \ {"delete"}) /\ <<"list">> # <<>>
    OBVIOUS
  <2>4. CallsOf(v) \in Seq(Names \ {"delete"}) /\ CallsOf(v) # <<>>
    BY <1>s, <2>1, <2>3, ConcatProperties, ConcatEqualIffEmpty
  <2>5. CallsOf(v) \in Seq(Names)  BY <2>4, SeqMonotonic
  <2>6. QED  BY <2>2, <2>4, <2>5
<1>7. CASE v = "archive_memory"
  <2>1. CallsOf(v) = <<"get", "put">>  BY <1>7 DEF CallsOf
  <2>2. v \notin ReadOnlyVerbs  BY <1>7
  <2>3. CallsOf(v) \in Seq(Names \ {"delete"}) /\ CallsOf(v) \in Seq(Names)  BY <2>1
  <2>4. QED  BY <2>1, <2>2, <2>3
<1>8. CASE v = "purge"
  <2>1. CallsOf(v) = <<"delete">>  BY <1>8 DEF CallsOf
  <2>2. v \notin Verbs /\ v \notin ReadOnlyVerbs  BY <1>8
  <2>3. QED  BY <2>1, <2>2
<1>9. QED  BY <1>1, <1>2, <1>3, <1>4, <1>5, <1>6, <1>7, <1>8

LEMMA CallsTyped ==
  ASSUME NEW v \in Verbs \cup {"purge"}, NEW i
  PROVE  Calls(v, i) \in Seq(Fates) /\ Calls(v, i) # <<>>
<1> DEFINE n == Len(CallsOf(v))
<1>1. n \in Nat /\ n > 0 /\ DOMAIN CallsOf(v) = 1..n
  BY CallsOfTyped
<1>2. Calls(v, i) \in [1..n -> Fates]  BY <1>1 DEF Calls, Fates
<1> HIDE DEF n
<1>3. QED  BY <1>1, <1>2

\* What the tools of the server offer a role is granted to it.
LEMMA OfferedCalls ==
  ASSUME host = "mcp", NEW v, NEW i,
         LET r == IF role \in Tooled THEN role ELSE "planner"
         IN v \in VerbsOf(r) /\ i \in AllowedIndexes(r)
  PROVE  Calls(v, i) \in Seq(Fates \ {"refused"})
<1> DEFINE r == IF role \in Tooled THEN role ELSE "planner"
           n == Len(CallsOf(v))
<1>1. v \in Verbs /\ (r = "auditor" => v \in ReadOnlyVerbs)
  BY DEF VerbsOf, Verbs
<1>2. /\ n \in Nat /\ DOMAIN CallsOf(v) = 1..n
      /\ CallsOf(v) \in Seq(Names \ {"delete"})
      /\ r = "auditor" => CallsOf(v) \in Seq({"embed", "query", "get", "list"})
  BY <1>1, CallsOfTyped
<1>3. ASSUME NEW m \in 1..n  PROVE Granted(Identity, CallsOf(v)[m], i)
  <2>1. CASE role \notin Tooled
    BY <2>1 DEF Identity, Scoped, Granted
  <2>2. CASE role = "auditor"
    <3>1. CallsOf(v)[m] \in {"embed", "query", "get", "list"}
      BY <1>2, <2>2 DEF Tooled
    <3>2. Identity = "auditor"  BY <2>2 DEF Identity, Scoped, Tooled
    <3>3. QED  BY <3>1, <3>2 DEF Granted, Vectors
  <2>3. CASE role \in {"planner", "researcher"}
    <3>1. CallsOf(v)[m] # "delete"  BY <1>2
    <3>2. Identity = role /\ r = role  BY <2>3 DEF Identity, Scoped, Tooled
    <3>3. i \in {"shared", role}  BY <2>3, <3>2 DEF AllowedIndexes
    <3>4. QED  BY <2>3, <3>1, <3>2, <3>3 DEF Granted
  <2>4. QED  BY <2>1, <2>2, <2>3 DEF Tooled
<1>4. Calls(v, i) \in [1..n -> Fates \ {"refused"}]
  BY <1>2, <1>3 DEF Calls, Fates
<1> HIDE DEF n
<1>5. QED  BY <1>2, <1>4

-------------------------------------------------------------------------------
\* What a step does to a call: it ends, goes on, begins, or is a diagnosis that
\* begins or learns one result.

Speakable(c) == /\ c.todo # <<>>
                /\ host = "mcp" => c.todo \in Seq(Fates \ {"refused"})

CallEnds(t) ==
  /\ Busy(t) /\ Do(t, Idle)
  /\ (host = "cli" /\ Down) \/ UNCHANGED proc

CallGoesOn(t) ==
  /\ Asking(t) /\ UNCHANGED proc
  /\ \E c \in CallState : c.at \in {"send", "sleep"} /\ Speakable(c) /\ Do(t, c)

CallBegins(t) ==
  /\ Up /\ ~Busy(t) /\ (host = "cli" => \A u \in Thread : ~Busy(u))
  /\ UNCHANGED proc
  /\ \E c \in CallState : c.at = "send" /\ Speakable(c) /\ Do(t, c)

DoctorBegins(t) ==
  /\ Do(t, [Idle EXCEPT !.at = "doctor"])
  /\ \/ host = "mcp" /\ Up /\ ~Busy(t) /\ UNCHANGED proc
     \/ host = None /\ host' = "cli" /\ role' \in Given /\ boot' = <<>>

CallMoves(t) == \/ CallEnds(t) \/ CallGoesOn(t) \/ CallBegins(t)
                \/ DoctorBegins(t) \/ Check(t)

LEMMA IdleTyped ==
  /\ Idle \in CallState /\ Idle.at = "idle"
  /\ [Idle EXCEPT !.at = "doctor"] \in CallState
  /\ [Idle EXCEPT !.at = "doctor"].at = "doctor"
  /\ [Idle EXCEPT !.at = "doctor"].checks = Unchecked
<1>1. <<>> \in Seq(Fates)  BY EmptySeq
<1>2. QED  BY <1>1 DEF Idle, CallState, Unchecked

LEMMA FreshCall ==
  ASSUME NEW todo \in Seq(Fates)
  PROVE  LET c == [Idle EXCEPT !.at = "send", !.todo = todo]
         IN c \in CallState /\ c.at = "send" /\ c.todo = todo
  BY DEF Idle, CallState, Unchecked

\* How a call under way goes on is what Answer and Wake say.
LEMMA AnswerMoves ==
  ASSUME TypeOK, Asked, NEW t \in Thread, Answer(t) \/ Wake(t)
  PROVE  CallMoves(t)
<1>c. call[t] \in CallState /\ call[t].todo \in Seq(Fates)  BY DEF TypeOK, CallState
<1>a. Asking(t) /\ Busy(t)
  BY DEF Answer, Unsigned, Refused, Succeeds, Fails, Throttled, Wake, Sending, Asking, Busy
<1>s. Speakable(call[t])  BY <1>a DEF Asked, Speakable
<1>e. ASSUME NEW c, Ends(t, c)  PROVE CallEnds(t)
  BY <1>a, <1>e DEF Ends, CallEnds, Return, proc
<1>1. CASE Unsigned(t) \/ Refused(t) \/ Fails(t)
  BY <1>e, <1>1 DEF Unsigned, Refused, Fails, CallMoves
<1>2. CASE Throttled(t)
  <2> DEFINE c == [call[t] EXCEPT !.at = "sleep"]
  <2>1. c \in CallState /\ c.at = "sleep" /\ c.todo = call[t].todo
    BY <1>c DEF CallState
  <2> HIDE DEF c
  <2>2. Speakable(c)  BY <1>s, <2>1 DEF Speakable
  <2>3. (\E d \in Signed : Ends(t, d)) \/ (Do(t, c) /\ UNCHANGED proc)
    BY <1>2 DEF Throttled, c
  <2>4. QED  BY <1>a, <1>e, <2>1, <2>2, <2>3 DEF CallMoves, CallGoesOn
<1>3. CASE Wake(t)
  <2> DEFINE c == [call[t] EXCEPT !.at = "send", !.attempt = @ + 1]
  <2>0. call[t].attempt + 1 \in Nat  BY <1>c DEF CallState
  <2>1. c \in CallState /\ c.at = "send" /\ c.todo = call[t].todo
    BY <1>c, <2>0 DEF CallState
  <2> HIDE DEF c
  <2>2. Speakable(c)  BY <1>s, <2>1 DEF Speakable
  <2>3. Do(t, c) /\ UNCHANGED proc  BY <1>3 DEF Wake, c
  <2>4. QED  BY <1>a, <2>1, <2>2, <2>3 DEF CallMoves, CallGoesOn
<1>4. CASE Succeeds(t)
  <2> DEFINE todo == call[t].todo
             c == [call[t] EXCEPT !.todo = Tail(todo), !.attempt = 0]
  <2>1. todo # <<>> /\ (host = "mcp" => todo \in Seq(Fates \ {"refused"}))
    BY <1>s DEF Speakable
  <2>2. CASE Len(todo) = 1
    BY <1>e, <1>4, <2>2 DEF Succeeds, CallMoves
  <2>3. CASE Len(todo) # 1
    <3>1. /\ Tail(todo) \in Seq(Fates)
          /\ host = "mcp" => Tail(todo) \in Seq(Fates \ {"refused"})
      BY <1>c, <2>1, HeadTailProperties
    <3>2. Len(todo) \in Nat /\ Len(todo) # 0 /\ Len(Tail(todo)) = Len(todo) - 1
      BY <1>c, <2>1
    <3>3. Tail(todo) # <<>>
      <4>1. Len(Tail(todo)) # 0  BY <2>3, <3>2
      <4>2. QED  BY <4>1, EmptySeq
    <3>4. c \in CallState /\ c.at = "send" /\ c.todo = Tail(todo)
      BY <1>c, <1>4, <3>1 DEF CallState, Succeeds, Sending
    <3>5. Do(t, c) /\ UNCHANGED proc  BY <1>4, <2>3 DEF Succeeds
    <3> HIDE DEF c, todo
    <3>6. Speakable(c)  BY <3>1, <3>3, <3>4 DEF Speakable
    <3>7. QED  BY <1>a, <3>4, <3>5, <3>6 DEF CallMoves, CallGoesOn
  <2>4. QED  BY <2>2, <2>3
<1>5. QED  BY <1>1, <1>2, <1>3, <1>4 DEF Answer

LEMMA BeginMoves ==
  ASSUME TypeOK, NEW t \in Thread, BeginTool(t) \/ BeginCommand(t)
  PROVE  CallMoves(t)
<1>1. CASE BeginTool(t)
  <2> DEFINE r == IF role \in Tooled THEN role ELSE "planner"
  <2> PICK v \in VerbsOf(r), i \in AllowedIndexes(r) :
        Do(t, [Idle EXCEPT !.at = "send", !.todo = Calls(v, i)])
    BY <1>1 DEF BeginTool
  <2> DEFINE c == [Idle EXCEPT !.at = "send", !.todo = Calls(v, i)]
  <2>1. v \in Verbs /\ host = "mcp"  BY <1>1 DEF VerbsOf, Verbs, BeginTool
  <2>2. Calls(v, i) \in Seq(Fates) /\ Calls(v, i) # <<>>  BY <2>1, CallsTyped
  <2>3. Calls(v, i) \in Seq(Fates \ {"refused"})  BY <2>1, OfferedCalls
  <2>4. c \in CallState /\ c.at = "send" /\ c.todo = Calls(v, i)  BY <2>2, FreshCall
  <2> HIDE DEF c, r
  <2>5. Speakable(c)  BY <2>2, <2>3, <2>4 DEF Speakable
  <2>6. host # "cli"  BY <2>1
  <2>7. QED  BY <1>1, <2>4, <2>5, <2>6 DEF BeginTool, CallMoves, CallBegins, c
<1>2. CASE BeginCommand(t)
  <2> PICK v \in {"store_memory", "retrieve_memory", "list_memories", "get_memory",
                  "archive_memory", "restore_memory", "purge"} :
        Do(t, [Idle EXCEPT !.at = "send", !.todo = Calls(v, "shared")])
    BY <1>2 DEF BeginCommand
  <2> DEFINE c == [Idle EXCEPT !.at = "send", !.todo = Calls(v, "shared")]
  <2>1. v \in Verbs \cup {"purge"}  BY DEF Verbs, ReadOnlyVerbs
  <2>2. Calls(v, "shared") \in Seq(Fates) /\ Calls(v, "shared") # <<>>
    BY <2>1, CallsTyped
  <2>3. c \in CallState /\ c.at = "send" /\ c.todo = Calls(v, "shared")
    BY <2>2, FreshCall
  <2> HIDE DEF c
  <2>4. host # "mcp"  BY <1>2 DEF BeginCommand
  <2>5. Speakable(c)  BY <2>2, <2>3, <2>4 DEF Speakable
  <2>6. QED  BY <1>2, <2>3, <2>5 DEF BeginCommand, CallMoves, CallBegins, c
<1>3. QED  BY <1>1, <1>2

LEMMA DoctorMoves ==
  ASSUME NEW t \in Thread,
         BeginDoctor(t) \/ Reported(t) \/ \E r \in Given : VvDoctor(t, r)
  PROVE  CallMoves(t)
  BY DEF BeginDoctor, Reported, VvDoctor, Diagnose, CallMoves, DoctorBegins, CallEnds,
         Ends, Return, Diagnosing, Busy, proc

Moves == \E t \in Thread : CallMoves(t)

\* Every step but a stutter is one of these.
LEMMA Kinds ==
  ASSUME TypeOK, Asked, Next
  PROVE  \/ Environment
         \/ /\ UNCHANGED env
            /\ \/ \E h \in {"mcp", "cli"}, r \in Given : Launch(h, r)
               \/ Start \/ Stop \/ Moves
<1>1. ASSUME NEW t \in Thread,
             \/ BeginTool(t) \/ BeginCommand(t) \/ BeginDoctor(t)
             \/ (\E r \in Given : VvDoctor(t, r)) \/ Proceed(t)
      PROVE  CallMoves(t)
  BY <1>1, AnswerMoves, BeginMoves, DoctorMoves DEF Proceed, CallMoves
<1>2. QED  BY <1>1 DEF Next, Program, Moves

-------------------------------------------------------------------------------
\* One check of the doctor.

LEMMA OutcomesAre ==
  \A checks : /\ Outcomes(1, checks) = {Identified}
              /\ Outcomes(2, checks) = {Configured}
              /\ Outcomes(3, checks) = {Assumed(checks)}
              /\ Outcomes(4, checks) = {Probed(checks), "not requested"}
  BY DEF Outcomes

LEMMA OutcomesTyped ==
  ASSUME NEW n \in 1..4, NEW checks, NEW o \in Outcomes(n, checks)
  PROVE  o \in Results
<1>1. \A b : PassIf(b) \in Results  BY DEF PassIf, Results
<1>2. Assumed(checks) \in Results /\ Probed(checks) \in Results
  BY <1>1 DEF Assumed, Probed, Results
<1>3. Identified \in Results /\ Configured \in Results /\ "not requested" \in Results
  BY <1>1 DEF Identified, Configured, Results
<1>4. CASE n = 1
  <2>1. Outcomes(n, checks) = {Identified}  BY <1>4, OutcomesAre
  <2>2. QED  BY <1>3, <2>1
<1>5. CASE n = 2
  <2>1. Outcomes(n, checks) = {Configured}  BY <1>5, OutcomesAre
  <2>2. QED  BY <1>3, <2>1
<1>6. CASE n = 3
  <2>1. Outcomes(n, checks) = {Assumed(checks)}  BY <1>6, OutcomesAre
  <2>2. QED  BY <1>2, <2>1
<1>7. CASE n = 4
  <2>1. Outcomes(n, checks) = {Probed(checks), "not requested"}  BY <1>7, OutcomesAre
  <2>2. QED  BY <1>2, <1>3, <2>1
<1>8. QED  BY <1>4, <1>5, <1>6, <1>7

LEMMA CheckResult ==
  ASSUME TypeOK, NEW t \in Thread, Check(t)
  PROVE  \E n \in 1..4, o \in Results, c \in CallState :
           /\ call[t].checks[n] = None
           /\ \A k \in 1..(n - 1) : call[t].checks[k] # None
           /\ o \in Outcomes(n, call[t].checks)
           /\ c.at = "doctor" /\ c.checks = [call[t].checks EXCEPT ![n] = o]
           /\ Do(t, c)
<1> PICK n \in 1..4 :
      /\ call[t].checks[n] = None /\ \A k \in 1..(n - 1) : call[t].checks[k] # None
      /\ \E o \in Outcomes(n, call[t].checks) :
           Do(t, [call[t] EXCEPT !.checks[n] = o])
  BY DEF Check
<1> PICK o \in Outcomes(n, call[t].checks) : Do(t, [call[t] EXCEPT !.checks[n] = o])
  OBVIOUS
<1> DEFINE c == [call[t] EXCEPT !.checks[n] = o]
<1>c. call[t] \in CallState  BY DEF TypeOK
<1>1. o \in Results  BY OutcomesTyped
<1>2. [call[t].checks EXCEPT ![n] = o] \in [1..4 -> Results \cup {None}]
  BY <1>c, <1>1 DEF CallState
<1>3. c.checks = [call[t].checks EXCEPT ![n] = o] /\ c.at = "doctor"
  BY <1>c DEF CallState, Check, Diagnosing
<1>4. c \in CallState  BY <1>c, <1>2, <1>3 DEF CallState
<1> HIDE DEF c
<1>5. Do(t, c)  BY DEF c
<1>6. QED  BY <1>1, <1>3, <1>4, <1>5

\* It keeps the report in order.
LEMMA CheckReasoned ==
  ASSUME NEW checks \in [1..4 -> Results \cup {None}], Reasoned(checks),
         NEW n \in 1..4, checks[n] = None, \A k \in 1..(n - 1) : checks[k] # None,
         NEW o \in Outcomes(n, checks)
  PROVE  Reasoned([checks EXCEPT ![n] = o])
<1> DEFINE after == [checks EXCEPT ![n] = o]
<1>n. None \notin {"pass", "fail", "skip", "not requested"}  BY SessionAssumption
<1>b. /\ n > 1 => 1 \in 1..(n - 1)
      /\ n > 2 => 2 \in 1..(n - 1)
      /\ n > 3 => 3 \in 1..(n - 1)
  OBVIOUS
<1>k. \A k \in 1..(n - 1) : checks[k] # None  OBVIOUS
<1>f. /\ n > 1 => checks[1] # None
      /\ n > 2 => checks[2] # None
      /\ n > 3 => checks[3] # None
  BY <1>b, <1>k
<1>r. /\ checks[1] = None => checks[2] = None
      /\ checks[2] = None => checks[3] = None
      /\ checks[3] = None => checks[4] = None
  BY DEF Reasoned
<1>1. \A k \in 1..4 : after[k] = IF k = n THEN o ELSE checks[k]  OBVIOUS
<1>o. o \in Outcomes(n, checks)  OBVIOUS
<1> HIDE DEF after
<1> SUFFICES Reasoned(after)  BY DEF after
<1>2. CASE n = 1
  <2>1. o \in {"pass", "fail"}
    BY <1>o, <1>2, OutcomesAre DEF Identified, PassIf
  <2>2. checks[2] = None /\ checks[3] = None /\ checks[4] = None
    BY <1>2, <1>r
  <2>3. after[1] = o /\ after[2] = None /\ after[3] = None /\ after[4] = None
    BY <1>1, <1>2, <2>2
  <2>4. QED  BY <1>n, <2>1, <2>3 DEF Reasoned
<1>3. CASE n = 2
  <2>1. o \in {"pass", "fail"}
    BY <1>o, <1>3, OutcomesAre DEF Configured, PassIf
  <2>2. checks[1] # None /\ checks[3] = None /\ checks[4] = None
    BY <1>f, <1>r, <1>3
  <2>3. after[1] = checks[1] /\ after[2] = o /\ after[3] = None /\ after[4] = None
    BY <1>1, <1>3, <2>2
  <2>4. QED  BY <1>n, <2>1, <2>2, <2>3 DEF Reasoned
<1>4. CASE n = 3
  <2>1. /\ o \in {"pass", "fail", "skip"}
        /\ o = "skip" => ~(Passed(checks, 1) /\ Passed(checks, 2))
    BY <1>o, <1>4, OutcomesAre DEF Assumed, PassIf
  <2>2. checks[1] # None /\ checks[2] # None /\ checks[4] = None
    BY <1>f, <1>r, <1>4
  <2>3. /\ after[1] = checks[1] /\ after[2] = checks[2] /\ after[3] = o
        /\ after[4] = None
    BY <1>1, <1>4, <2>2
  <2>4. QED  BY <1>n, <2>1, <2>2, <2>3 DEF Reasoned, Passed
<1>5. CASE n = 4
  <2>1. o = "skip" => ~(Passed(checks, 2) /\ Passed(checks, 3))
    BY <1>o, <1>5, OutcomesAre DEF Probed, PassIf
  <2>2. checks[1] # None /\ checks[2] # None /\ checks[3] # None
    BY <1>f, <1>5
  <2>3. /\ after[1] = checks[1] /\ after[2] = checks[2] /\ after[3] = checks[3]
        /\ after[4] = o
    BY <1>1, <1>5
  <2>4. QED  BY <1>n, <2>1, <2>2, <2>3 DEF Reasoned, Passed
<1>6. QED  BY <1>2, <1>3, <1>4, <1>5

-------------------------------------------------------------------------------
\* Each part of the invariant over the kinds of steps.

LEMMA MoveTyped ==
  ASSUME TypeOK, NEW t \in Thread, CallMoves(t)
  PROVE  /\ \E c \in CallState : Do(t, c)
         /\ call' \in [Thread -> CallState]
         /\ \A u \in Thread : u # t => call'[u] = call[u]
<1>1. \E c \in CallState : Do(t, c)
  BY IdleTyped, CheckResult
  DEF CallMoves, CallEnds, CallGoesOn, CallBegins, DoctorBegins
<1>2. QED  BY <1>1 DEF Do, TypeOK

LEMMA TypeStep ==
  ASSUME TypeOK, Asked, [Next]_vars
  PROVE  TypeOK'
<1>n. None \notin {"mcp", "cli"} /\ None \notin Given  BY SessionAssumption
<1>1. CASE UNCHANGED vars
  BY <1>1 DEF vars, env, proc, TypeOK, BootCalls
<1>2. CASE Environment
  BY <1>2 DEF Environment, LoginChanges, Redeploy, Age, env, proc, TypeOK, Faults, BootCalls
<1>3. ASSUME UNCHANGED env, NEW h \in {"mcp", "cli"}, NEW r \in Given, Launch(h, r)
      PROVE  TypeOK'
  <2>1. StartCalls(h, r) \in Seq(BootCallsOf(h, r))
    <3>1. CASE r \in Scoped(h)
      <4>1. StartCalls(h, r) = <<"config", "arn", "identity", "assume">>
        BY <3>1 DEF StartCalls
      <4>2. {"config", "arn", "identity", "assume"} \subseteq BootCallsOf(h, r)
        BY <3>1 DEF BootCallsOf
      <4>3. QED  BY <4>1, <4>2
    <3>2. CASE r \notin Scoped(h)
      <4>1. StartCalls(h, r) = <<"config", "identity">>  BY <3>2 DEF StartCalls
      <4>2. {"config", "identity"} \subseteq BootCallsOf(h, r)
        BY <3>2 DEF BootCallsOf
      <4>3. QED  BY <4>1, <4>2
    <3>3. QED  BY <3>1, <3>2
  <2>2. QED  BY <1>3, <2>1 DEF Launch, env, TypeOK, BootCalls
<1>4. ASSUME UNCHANGED env, Down, call' \in [Thread -> CallState]
      PROVE  TypeOK'
  <2>1. <<>> \in Seq(BootCalls')  BY EmptySeq
  <2>2. QED  BY <1>4, <2>1, <1>n DEF Down, env, TypeOK
<1>5. CASE UNCHANGED env /\ StartProceeds
  <2>1. Tail(boot) \in Seq(BootCalls)  BY <1>5, HeadTailProperties DEF StartProceeds, TypeOK
  <2>2. Then(Tail(boot)) \in Seq(BootCalls)
    <3>1. CASE host = "mcp"
      <4>1. "packs" \in BootCalls  BY <3>1 DEF BootCalls, BootCallsOf
      <4>2. Append(Tail(boot), "packs") \in Seq(BootCalls)  BY <2>1, <4>1, AppendProperties
      <4>3. QED  BY <2>1, <4>2 DEF Then
    <3>2. CASE host # "mcp"  BY <2>1, <3>2 DEF Then
    <3>3. QED  BY <3>1, <3>2
  <2>3. QED  BY <1>5, <2>2 DEF StartProceeds, env, TypeOK, BootCalls
<1>6. CASE UNCHANGED env /\ StartFails
  BY <1>4, <1>6 DEF StartFails, TypeOK
<1>7. CASE UNCHANGED env /\ Stop
  BY <1>4, <1>7, IdleTyped DEF Stop
<1>8. ASSUME UNCHANGED env, NEW t \in Thread, CallMoves(t)
      PROVE  TypeOK'
  <2>1. call' \in [Thread -> CallState]  BY <1>8, MoveTyped
  <2>2. CASE UNCHANGED proc
    BY <1>8, <2>1, <2>2 DEF proc, env, TypeOK, BootCalls
  <2>3. CASE Down
    BY <1>4, <1>8, <2>1, <2>3
  <2>4. CASE host' = "cli" /\ role' \in Given /\ boot' = <<>>
    <3>1. <<>> \in Seq(BootCalls')  BY EmptySeq
    <3>2. QED  BY <1>8, <2>1, <2>4, <3>1 DEF env, TypeOK
  <2>5. QED
    BY <1>8, <2>2, <2>3, <2>4
    DEF CallMoves, CallEnds, CallGoesOn, CallBegins, DoctorBegins, Check
<1>9. QED
  BY <1>1, <1>2, <1>3, <1>5, <1>6, <1>7, <1>8, Kinds DEF Start, Moves

LEMMA AttendedStep ==
  ASSUME TypeOK, Asked, Attended, [Next]_vars
  PROVE  Attended'
<1>n. None \notin {"mcp", "cli"}  BY SessionAssumption
<1> USE DEF Attended, Up, Busy
<1>1. CASE UNCHANGED vars
  BY <1>1 DEF vars, proc
<1>2. CASE Environment
  BY <1>2 DEF Environment, proc
<1>3. ASSUME NEW h \in {"mcp", "cli"}, NEW r \in Given, Launch(h, r)
      PROVE  Attended'
  BY <1>3 DEF Launch
<1>4. CASE Start
  BY <1>4 DEF Start, StartProceeds, StartFails, Down
<1>5. CASE Stop
  BY <1>5, IdleTyped DEF Stop
<1>6. ASSUME NEW t \in Thread, CallMoves(t)
      PROVE  Attended'
  <2> PICK c \in CallState : Do(t, c)  BY <1>6, MoveTyped
  <2>u. call'[t] = c /\ \A u \in Thread : u # t => call'[u] = call[u]
    BY DEF Do, TypeOK
  <2>1. CASE CallEnds(t)
    <3>1. call'[t] = Idle  BY <2>1 DEF CallEnds, Do, TypeOK
    <3>2. QED  BY <2>1, <2>u, <3>1, IdleTyped DEF CallEnds, Down, proc
  <2>2. CASE CallGoesOn(t)
    BY <2>2, <2>u DEF CallGoesOn, Asking, proc
  <2>3. CASE CallBegins(t)
    BY <2>3, <2>u DEF CallBegins, proc
  <2>4. CASE DoctorBegins(t)
    BY <1>n, <2>4, <2>u DEF DoctorBegins, proc
  <2>5. CASE Check(t)
    BY <2>5, <2>u DEF Check, Diagnosing, proc
  <2>6. QED  BY <1>6, <2>1, <2>2, <2>3, <2>4, <2>5 DEF CallMoves
<1>7. QED  BY <1>1, <1>2, <1>3, <1>4, <1>5, <1>6, Kinds DEF Moves

LEMMA AskedStep ==
  ASSUME TypeOK, Asked, Attended, [Next]_vars
  PROVE  Asked'
<1>b. \A t \in Thread : Asking(t) => Busy(t)  BY DEF Asking, Busy
<1>1. CASE UNCHANGED vars
  BY <1>1 DEF vars, proc, Asked, Asking
<1>2. CASE Environment
  BY <1>2 DEF Environment, proc, Asked, Asking
<1>3. ASSUME ~Up, UNCHANGED call  PROVE Asked'
  BY <1>b, <1>3 DEF Attended, Asked, Asking
<1>4. ASSUME NEW h \in {"mcp", "cli"}, NEW r \in Given, Launch(h, r)
      PROVE  Asked'
  BY <1>3, <1>4 DEF Launch, Up
<1>5. CASE Start
  BY <1>3, <1>5 DEF Start, StartProceeds, StartFails, Up
<1>6. CASE Stop
  BY <1>6, IdleTyped DEF Stop, Asked, Asking
<1>7. ASSUME NEW t \in Thread, CallMoves(t)
      PROVE  Asked'
  <2> PICK c \in CallState : Do(t, c)  BY <1>7, MoveTyped
  <2>u. call'[t] = c /\ \A u \in Thread : u # t => call'[u] = call[u]
    BY DEF Do, TypeOK
  <2>1. CASE CallEnds(t)
    <3>1. call'[t] = Idle  BY <2>1 DEF CallEnds, Do, TypeOK
    <3>2. CASE host = "cli"
      <4>1. \A u \in Thread : u # t => ~Busy(u)  BY <2>1, <3>2 DEF CallEnds, Attended
      <4>2. \A u \in Thread : ~Asking(u)'
        BY <1>b, <2>u, <3>1, <4>1, IdleTyped DEF Asking
      <4>3. QED  BY <4>2 DEF Asked
    <3>3. CASE host # "cli"
      <4>1. UNCHANGED proc  BY <2>1, <3>3 DEF CallEnds
      <4>2. QED  BY <2>u, <3>1, <4>1, IdleTyped DEF Asked, Asking, proc
    <3>4. QED  BY <3>2, <3>3
  <2>2. ASSUME UNCHANGED proc, NEW d, Speakable(d), Do(t, d)
        PROVE  Asked'
    <3>1. call'[t] = d  BY <2>2 DEF Do, TypeOK
    <3>2. QED  BY <2>2, <2>u, <3>1 DEF Speakable, Asked, Asking, proc
  <2>3. CASE CallGoesOn(t)
    BY <2>2, <2>3 DEF CallGoesOn
  <2>4. CASE CallBegins(t)
    BY <2>2, <2>4 DEF CallBegins
  <2>5. CASE DoctorBegins(t)
    <3>1. call'[t] = [Idle EXCEPT !.at = "doctor"]
      BY <2>5 DEF DoctorBegins, Do, TypeOK
    <3>2. ~Asking(t)'  BY <3>1, IdleTyped DEF Asking
    <3>3. CASE UNCHANGED proc
      BY <2>u, <3>2, <3>3 DEF Asked, Asking, proc
    <3>4. CASE host = None
      BY <1>b, <2>u, <3>2, <3>4 DEF Asked, Asking, Attended, Up
    <3>5. QED  BY <2>5, <3>3, <3>4 DEF DoctorBegins
  <2>6. CASE Check(t)
    <3>1. c.at = "doctor"  BY <2>6, <2>u, CheckResult DEF Do, TypeOK
    <3>2. QED  BY <2>6, <2>u, <3>1 DEF Check, Asked, Asking, proc
  <2>7. QED  BY <1>7, <2>1, <2>3, <2>4, <2>5, <2>6 DEF CallMoves
<1>8. QED  BY <1>1, <1>2, <1>4, <1>5, <1>6, <1>7, Kinds DEF Moves

LEMMA LapsesStep ==
  ASSUME LapsesSeen, [Next]_vars
  PROVE  LapsesSeen'
<1>1. CASE UNCHANGED vars
  BY <1>1 DEF vars, env, LapsesSeen, Asking, Answered
<1>2. CASE Next
  BY <1>2 DEF Next, Watch, LapsesSeen
<1>3. QED  BY <1>1, <1>2

\* A thread that diagnoses has just begun, or did before under the same role, and
\* has learned nothing or, while nothing changed, one result.
Learns(u) ==
  \E n \in 1..4 : \E o \in Outcomes(n, call[u].checks) :
    /\ call[u].checks[n] = None
    /\ \A k \in 1..(n - 1) : call[u].checks[k] # None
    /\ call'[u].checks = [call[u].checks EXCEPT ![n] = o]

LEMMA Diagnoses ==
  ASSUME TypeOK, Asked, Attended, Next, NEW u \in Thread, Diagnosing(u)'
  PROVE  \/ call'[u].checks = Unchecked
         \/ /\ Diagnosing(u) /\ role' = role
            /\ call'[u] = call[u] \/ (UNCHANGED env /\ Learns(u))
<1>b. Diagnosing(u) => Busy(u)  BY DEF Diagnosing, Busy
<1>d. call'[u] = call[u] => Diagnosing(u)  BY DEF Diagnosing
<1>1. CASE Environment
  BY <1>1, <1>d DEF Environment, proc
<1>2. ASSUME ~Up, UNCHANGED call  PROVE FALSE
  BY <1>2, <1>b, <1>d DEF Attended
<1>3. ASSUME NEW h \in {"mcp", "cli"}, NEW r \in Given, Launch(h, r)
      PROVE  FALSE
  BY <1>2, <1>3 DEF Launch, Up
<1>4. CASE Start
  BY <1>2, <1>4 DEF Start, StartProceeds, StartFails, Up
<1>5. CASE Stop
  BY <1>5, IdleTyped DEF Stop, Diagnosing
<1>6. ASSUME NEW t \in Thread, CallMoves(t), UNCHANGED env
      PROVE  \/ call'[u].checks = Unchecked
             \/ /\ Diagnosing(u) /\ role' = role
                /\ call'[u] = call[u] \/ (UNCHANGED env /\ Learns(u))
  <2>1. CASE u # t
    <3>1. call'[u] = call[u] /\ Diagnosing(u) /\ Busy(u)
      BY <1>6, <1>b, <1>d, <2>1, MoveTyped
    <3>2. host # None  BY <3>1 DEF Attended, Up
    <3>3. role' = role
      BY <1>6, <2>1, <3>1, <3>2
      DEF CallMoves, CallEnds, CallGoesOn, CallBegins, DoctorBegins, Check, Attended, proc
    <3>4. QED  BY <3>1, <3>3
  <2>2. CASE u = t
    <3>1. CASE CallEnds(t)
      <4>1. call'[t] = Idle  BY <3>1 DEF CallEnds, Do, TypeOK
      <4>2. QED  BY <2>2, <4>1, IdleTyped DEF Diagnosing
    <3>2. ASSUME NEW c, c.at \in {"send", "sleep"}, Do(t, c)  PROVE FALSE
      <4>1. call'[t] = c  BY <3>2 DEF Do, TypeOK
      <4>2. QED  BY <2>2, <3>2, <4>1 DEF Diagnosing
    <3>3. CASE CallGoesOn(t) \/ CallBegins(t)
      BY <3>2, <3>3 DEF CallGoesOn, CallBegins
    <3>4. CASE DoctorBegins(t)
      <4>1. call'[t] = [Idle EXCEPT !.at = "doctor"]
        BY <3>4 DEF DoctorBegins, Do, TypeOK
      <4>2. QED  BY <2>2, <4>1, IdleTyped
    <3>5. CASE Check(t)
      <4> PICK n \in 1..4, o \in Results, c \in CallState :
             /\ call[t].checks[n] = None
             /\ \A k \in 1..(n - 1) : call[t].checks[k] # None
             /\ o \in Outcomes(n, call[t].checks)
             /\ c.at = "doctor" /\ c.checks = [call[t].checks EXCEPT ![n] = o]
             /\ Do(t, c)
        BY <3>5, CheckResult
      <4>1. call'[t] = c  BY DEF Do, TypeOK
      <4>2. Learns(t)  BY <4>1 DEF Learns
      <4>3. Diagnosing(t) /\ role' = role  BY <3>5 DEF Check, proc
      <4>4. QED  BY <1>6, <2>2, <4>2, <4>3
    <3>6. QED  BY <1>6, <3>1, <3>3, <3>4, <3>5 DEF CallMoves
  <2>3. QED  BY <2>1, <2>2
<1>7. QED  BY <1>1, <1>3, <1>4, <1>5, <1>6, Kinds DEF Moves

LEMMA DoctorReasonsStep ==
  ASSUME TypeOK, Asked, Attended, DoctorReasons, [Next]_vars
  PROVE  DoctorReasons'
<1>1. CASE UNCHANGED vars
  BY <1>1 DEF vars, DoctorReasons, Diagnosing
<1>2. ASSUME Next, NEW u \in Thread, Diagnosing(u)'
      PROVE  Reasoned(call'[u].checks)
  <2>1. CASE call'[u].checks = Unchecked
    <3>1. /\ Unchecked[1] = None /\ Unchecked[2] = None
          /\ Unchecked[3] = None /\ Unchecked[4] = None
      BY DEF Unchecked
    <3>2. None \notin {"pass", "skip", "not requested"}  BY SessionAssumption
    <3>3. Reasoned(Unchecked)  BY <3>1, <3>2 DEF Reasoned, Passed
    <3>4. QED  BY <2>1, <3>3
  <2>2. CASE Diagnosing(u) /\ call'[u] = call[u]
    BY <2>2 DEF DoctorReasons
  <2>3. CASE Diagnosing(u) /\ Learns(u)
    <3>1. Reasoned(call[u].checks)  BY <2>3 DEF DoctorReasons
    <3>2. call[u].checks \in [1..4 -> Results \cup {None}]  BY DEF TypeOK, CallState
    <3>3. QED  BY <2>3, <3>1, <3>2, CheckReasoned DEF Learns
  <2>4. QED  BY <1>2, <2>1, <2>2, <2>3, Diagnoses
<1>3. QED  BY <1>1, <1>2 DEF DoctorReasons

\* What has passed is so now, if what passed before is.
Known(checks) ==
  /\ Passed(checks, 1) => login
  /\ Passed(checks, 2) => Answered("config")
  /\ Passed(checks, 3) /\ role # "none" => Answered("arn") /\ Answered("assume")

LEMMA CheckKnown ==
  ASSUME NEW checks \in [1..4 -> Results \cup {None}], Known(checks),
         NEW n \in 1..4, NEW o \in Outcomes(n, checks)
  PROVE  Known([checks EXCEPT ![n] = o])
<1> DEFINE after == [checks EXCEPT ![n] = o]
<1>1. \A k \in 1..4 : after[k] = IF k = n THEN o ELSE checks[k]  OBVIOUS
<1>o. o \in Outcomes(n, checks)  OBVIOUS
<1>p. \A b : (PassIf(b) = "pass") => b  BY DEF PassIf
<1> HIDE DEF after
<1> SUFFICES Known(after)  BY DEF after
<1>2. \A k \in 1..4 : k # n => (Passed(after, k) <=> Passed(checks, k))
  BY <1>1 DEF Passed
<1>3. Passed(after, n) <=> o = "pass"  BY <1>1 DEF Passed
<1>4. CASE n = 1
  <2>1. o = Identified  BY <1>4, <1>o, OutcomesAre
  <2>2. QED  BY <1>2, <1>3, <1>4, <1>p, <2>1 DEF Known, Identified
<1>5. CASE n = 2
  <2>1. o = Configured  BY <1>5, <1>o, OutcomesAre
  <2>2. QED  BY <1>2, <1>3, <1>5, <1>p, <2>1 DEF Known, Configured
<1>6. CASE n = 3
  <2>1. o = Assumed(checks)  BY <1>6, <1>o, OutcomesAre
  <2>2. o = "pass" /\ role # "none" => Answered("arn") /\ Answered("assume")
    BY <1>p, <2>1 DEF Assumed
  <2>3. QED  BY <1>2, <1>3, <1>6, <2>2 DEF Known
<1>7. CASE n = 4
  BY <1>2, <1>7 DEF Known
<1>8. QED  BY <1>4, <1>5, <1>6, <1>7

LEMMA DoctorKnowsStep ==
  ASSUME TypeOK, Asked, Attended, DoctorKnows, [Next]_vars
  PROVE  DoctorKnows'
<1>1. CASE UNCHANGED vars
  BY <1>1 DEF vars, env, proc, DoctorKnows, Diagnosing, Answered
<1>2. ASSUME Next, NEW u \in Thread, Diagnosing(u)', u \notin moved'
      PROVE  Known(call[u].checks)'
  <2>1. CASE call'[u].checks = Unchecked
    <3>1. \A n \in 1..4 : Unchecked[n] = None  BY DEF Unchecked
    <3>2. None # "pass"  BY SessionAssumption
    <3>3. QED  BY <2>1, <3>1, <3>2 DEF Known, Passed
  <2>2. ASSUME Diagnosing(u), role' = role
        PROVE  Known(call[u].checks) /\ UNCHANGED env
    <3>1. u \notin moved /\ UNCHANGED env  BY <1>2, <2>2 DEF Next, Watch
    <3>2. QED  BY <2>2, <3>1 DEF DoctorKnows, Known
  <2>3. ASSUME NEW checks, Known(checks), role' = role, UNCHANGED env,
               call'[u].checks = checks
        PROVE  Known(call[u].checks)'
    BY <2>3 DEF Known, env, Answered
  <2>4. CASE Diagnosing(u) /\ role' = role /\ call'[u] = call[u]
    BY <2>2, <2>3, <2>4
  <2>5. CASE Diagnosing(u) /\ role' = role /\ Learns(u)
    <3> PICK n \in 1..4 : \E o \in Outcomes(n, call[u].checks) :
          call'[u].checks = [call[u].checks EXCEPT ![n] = o]
      BY <2>5 DEF Learns
    <3> PICK o \in Outcomes(n, call[u].checks) :
          call'[u].checks = [call[u].checks EXCEPT ![n] = o]
      OBVIOUS
    <3>1. call[u].checks \in [1..4 -> Results \cup {None}]  BY DEF TypeOK, CallState
    <3>2. Known([call[u].checks EXCEPT ![n] = o])
      BY <2>2, <2>5, <3>1, CheckKnown
    <3>3. QED  BY <2>2, <2>3, <2>5, <3>2
  <2>6. QED  BY <1>2, <2>1, <2>4, <2>5, Diagnoses
<1>3. QED  BY <1>1, <1>2 DEF DoctorKnows, Known

\* In a healthy report the first three checks have passed, and the fourth if it
\* was asked for.
LEMMA HealthyReport ==
  ASSUME TypeOK, DoctorReasons, NEW t \in Thread, Reported(t), Healthy(t)
  PROVE  /\ Passed(call[t].checks, 1) /\ Passed(call[t].checks, 2)
         /\ Passed(call[t].checks, 3)
         /\ call[t].checks[4] # "not requested" => Passed(call[t].checks, 4)
<1> DEFINE checks == call[t].checks
<1>1. Diagnosing(t) /\ \A n \in 1..4 : checks[n] # None /\ checks[n] # "fail"
  BY DEF Reported, Healthy
<1>2. \A n \in 1..4 : checks[n] \in Results \cup {None}  BY DEF TypeOK, CallState
<1>3. Reasoned(checks)  BY <1>1 DEF DoctorReasons
<1> HIDE DEF checks
<1>4. checks[1] = "pass" /\ checks[2] = "pass"
  <2>1. checks[1] \notin {None, "fail"} /\ checks[2] \notin {None, "fail"}  BY <1>1
  <2>2. QED  BY <1>3, <2>1 DEF Reasoned
<1>5. checks[3] \in Results /\ checks[4] \in Results  BY <1>1, <1>2
<1>6. checks[3] = "pass"
  <2>1. checks[3] # "skip" /\ checks[3] # "not requested"
    BY <1>3, <1>4 DEF Reasoned, Passed
  <2>2. checks[3] # "fail"  BY <1>1
  <2>3. QED  BY <1>5, <2>1, <2>2 DEF Results
<1>7. checks[4] # "not requested" => checks[4] = "pass"
  <2>1. checks[4] # "skip"  BY <1>3, <1>4, <1>6 DEF Reasoned, Passed
  <2>2. checks[4] # "fail"  BY <1>1
  <2>3. QED  BY <1>5, <2>1, <2>2 DEF Results
<1>8. QED  BY <1>4, <1>6, <1>7 DEF Passed, checks

LEMMA VouchedStep ==
  ASSUME TypeOK, DoctorReasons, DoctorKnows, Vouched, [Next]_vars
  PROVE  Vouched'
<1>1. CASE UNCHANGED vars
  BY <1>1 DEF vars, env, Vouched, Answered
<1>2. CASE Next
  <2>w. Watch  BY <1>2 DEF Next
  <2>1. CASE env' # env
    <3>1. vouched' = None  BY <2>w, <2>1 DEF Watch
    <3>2. QED  BY <3>1 DEF Vouched
  <2>2. ASSUME UNCHANGED env, NEW t \in Thread, Reported(t), Healthy(t), t \notin moved
        PROVE  Vouched'
    <3>1. vouched' = role  BY <2>w, <2>2 DEF Watch
    <3>2. Known(call[t].checks)  BY <2>2 DEF DoctorKnows, Known, Reported
    <3>3. /\ login /\ Answered("config")
          /\ role # "none" => Answered("arn") /\ Answered("assume")
      BY <2>2, <3>2, HealthyReport DEF Known
    <3>4. QED  BY <2>2, <3>1, <3>3 DEF Vouched, env, Answered
  <2>3. ASSUME UNCHANGED env, vouched' \in {None, vouched}
        PROVE  Vouched'
    BY <2>3 DEF Vouched, env, Answered
  <2>4. QED  BY <2>w, <2>1, <2>2, <2>3 DEF Watch
<1>3. QED  BY <1>1, <1>2

LEMMA SessionInit == Init => SessionInv
<1> SUFFICES ASSUME Init PROVE SessionInv  OBVIOUS
<1>n. None \notin {"mcp", "cli"}  BY SessionAssumption
<1>1. TypeOK
  <2>1. <<>> \in Seq(BootCalls)  BY EmptySeq
  <2>2. QED  BY <2>1, IdleTyped DEF Init, TypeOK, Faults
<1>2. \A t \in Thread : call[t].at = "idle"  BY IdleTyped DEF Init
<1>3. QED
  BY <1>1, <1>2
  DEF Init, SessionInv, Attended, Asked, LapsesSeen, DoctorReasons, DoctorKnows, Vouched,
      Busy, Asking, Diagnosing

LEMMA SessionStep == SessionInv /\ [Next]_vars => SessionInv'
  BY TypeStep, AttendedStep, AskedStep, LapsesStep, DoctorReasonsStep, DoctorKnowsStep,
     VouchedStep
  DEF SessionInv

-------------------------------------------------------------------------------
\* The theorems.

\* memory_client_for_agent: a tool call that cannot be signed met, while it ran, a
\* login that had run out or a role that could not be assumed; what was so before it
\* began, and whatever became of the credentials then, does not matter.
THEOREM LoginsHeal == Spec => LoginHeals
<1>1. ASSUME SessionInv, NEW t \in Thread, Unsigned(t)
      PROVE  t \in lapsed
  <2>1. Asking(t)  BY <1>1 DEF Unsigned, Sending, Asking
  <2>2. SUFFICES ASSUME Answered("assume")  PROVE FALSE
    BY <1>1, <2>1 DEF SessionInv, LapsesSeen
  <2>3. CASE Identity = "ambient"
    BY <1>1, <2>2, <2>3 DEF Unsigned, Signed, Answered
  <2>4. CASE Identity # "ambient"
    <3>1. "fresh" \in Signed  BY <2>2, <2>4 DEF Signed
    <3>2. QED  BY <1>1, <3>1 DEF Unsigned
  <2>5. QED  BY <2>3, <2>4
<1>2. SessionInv /\ [Next]_vars
        => [\A t \in Thread : Unsigned(t) => t \in lapsed]_vars
  BY <1>1
<1>3. QED  BY <1>2, SessionInit, SessionStep, PTL DEF Spec, LoginHeals

\* run_doctor and build_from_env: a program started under the role of a healthy
\* report, the deployment and the login unchanged since the doctor began, gets every
\* answer its start needs; nothing but packs that are malformed ends the start, and
\* that of the server alone.
THEOREM HealthyIsAnswered == Spec => OnlyPacksSurprise
<1>1. ASSUME SessionInv, StartFails, vouched = role,
             ~(host = "mcp" /\ Head(boot) = "packs")
      PROVE  FALSE
  <2>1. host # None /\ role \in Given /\ Head(boot) \in BootCalls
    BY <1>1 DEF SessionInv, TypeOK, StartFails
  <2>2. role # None  BY <2>1, SessionAssumption
  <2>3. /\ login /\ Answered("config")
        /\ role # "none" => Answered("arn") /\ Answered("assume")
    BY <1>1, <2>2 DEF SessionInv, Vouched
  <2>4. Answered("identity")
    <3>1. fault # "identity"  BY <1>1, SessionAssumption DEF SessionInv, TypeOK, Faults
    <3>2. QED  BY <2>3, <3>1 DEF Answered
  <2>5. role \in Scoped(host) => role # "none"  BY DEF Scoped, Tooled
  <2>6. Head(boot) # "packs"  BY <1>1, <2>1 DEF BootCalls, BootCallsOf
  <2>7. Answered(Head(boot))
    BY <2>1, <2>3, <2>4, <2>5, <2>6 DEF BootCalls, BootCallsOf
  <2>8. QED  BY <1>1, <2>6, <2>7 DEF StartFails
<1>2. SessionInv /\ [Next]_vars
        => [StartFails => vouched # role \/ (host = "mcp" /\ Head(boot) = "packs")]_vars
  BY <1>1
<1>3. QED  BY <1>2, SessionInit, SessionStep, PTL DEF Spec, OnlyPacksSurprise

\* run_doctor: in a report without a failure the assumption was tested and passed,
\* and the probe too if it was asked for; a skip needs a failure before it.
THEOREM SkipsHideNothing == Spec => SkipHidesNothing
<1>1. SessionInv /\ [Next]_vars
        => [\A t \in Thread : Reported(t) /\ Healthy(t) =>
              /\ Passed(call[t].checks, 3)
              /\ call[t].checks[4] # "not requested" => Passed(call[t].checks, 4)]_vars
  BY HealthyReport DEF SessionInv
<1>2. QED  BY <1>1, SessionInit, SessionStep, PTL DEF Spec, SkipHidesNothing

\* create_memory_tools and the role policies of the stack: whatever role the server
\* is given, a known one or not, no tool it offers is refused half way.
THEOREM OffersAreGranted == Spec => OfferedIsGranted
<1>1. ASSUME SessionInv, NEW t \in Thread, Refused(t)
      PROVE  host = "cli"
  <2>1. Asking(t) /\ Busy(t) /\ call[t].todo # <<>> /\ Head(call[t].todo) = "refused"
    BY <1>1 DEF SessionInv, Asked, Refused, Sending, Asking, Busy, Permitted, Request
  <2>2. host # None  BY <1>1, <2>1 DEF SessionInv, Attended, Up
  <2>3. host # "mcp"
    BY <1>1, <2>1, HeadTailProperties DEF SessionInv, Asked
  <2>4. QED  BY <1>1, <2>2, <2>3 DEF SessionInv, TypeOK
<1>2. SessionInv /\ [Next]_vars => [\A t \in Thread : Refused(t) => host = "cli"]_vars
  BY <1>1
<1>3. QED  BY <1>2, SessionInit, SessionStep, PTL DEF Spec, OfferedIsGranted
===============================================================================
