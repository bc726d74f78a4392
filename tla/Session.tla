------------------------------- MODULE Session -------------------------------
(***************************************************************************)
(* The process an agent reaches the vault through: the MCP server, which   *)
(* lives for days and runs each tool call on a worker thread, or one vv    *)
(* command.  It is built from its environment in a few remote calls, runs  *)
(* under a role's credentials that expire and are refreshed from the base  *)
(* login, and diagnoses itself with the doctor.  The login expires and is  *)
(* renewed, and the deployment breaks and is repaired, between any two     *)
(* calls.                                                                  *)
(*                                                                         *)
(* Abstracted: arguments and results; a tool is the sequence of all the    *)
(* calls it may make that fail it when they fail: one it does not make     *)
(* this time is one that succeeds, one made for each of several keys is    *)
(* made once, and the best-effort ones are left out; a request lost by the *)
(* network is one the service fails, and is left out of the start and of   *)
(* the doctor.  The program is installed as it should be: its imports, and *)
(* the doctor's checks of Python and of the mcp package, are left out.     *)
(***************************************************************************)
EXTENDS Naturals, Sequences

CONSTANTS
  Thread,       \* worker threads of the server
  Given,        \* roles the environment or --role names in this instance
  MaxRetries,   \* of a throttled S3 Vectors request
  None

ASSUME SessionAssumption ==
  /\ MaxRetries \in Nat
  /\ None \notin Given \cup {"mcp", "cli", "identity"}
                \cup {"pass", "fail", "skip", "not requested"}

VARIABLES
  login,     \* the base credentials (an SSO login) can be used
  fault,     \* what is wrong with the deployment, if anything
  host,      \* the program that runs, None when none does
  role,      \* the role it was given
  boot,      \* what is left of its start: remote calls, malformed packs
  creds,     \* the assumed role's credentials
  call,      \* what each thread is doing
  moved,     \* history: threads during whose call the environment changed
  lapsed,    \* history: threads during whose call the role could not be assumed
  vouched    \* history: role last reported healthy; nothing changed, and no
             \* program was given another role, since

env == <<login, fault>>
proc == <<host, role, boot>>
vars == <<env, proc, creds, call, moved, lapsed, vouched>>

Tooled == {"planner", "researcher", "auditor"}
Scoped(h) == IF h = "mcp" THEN Tooled ELSE Tooled \cup {"admin"}
ValidRoles == Tooled \cup {"admin", "none"}

\* Under what identity the program runs: any other role is nobody's, and the
\* caller's own credentials are used.
Identity == IF role \in Scoped(host) THEN role ELSE "ambient"

-------------------------------------------------------------------------------
\* What a role is offered, and what the deployment grants it.

\* But for whoami, which makes no call.
ReadOnlyVerbs ==
  {"retrieve_memory", "retrieve_pack", "hydrate_memory", "fetch_working_set",
   "expand_cites", "list_memories", "get_memory", "linked_by", "galaxy_search"}

Verbs == ReadOnlyVerbs \cup {"store_memory", "pin_working_set", "restore_memory",
                             "archive_memory", "reinforce"}

\* Wrong on purpose (mutant of VerbsOf): the auditor gets every verb.
AllVerbsOf(r) == Verbs

VerbsOf(r) == IF r = "auditor" THEN ReadOnlyVerbs ELSE Verbs

AllowedIndexes(r) ==
  CASE r = "auditor" -> {"shared", "planner", "researcher"}
    [] r = "researcher" -> {"shared", "researcher"}
    [] OTHER -> {"shared", "planner"}

\* The parent of a chunk is read, the old version of a supersession too; content
\* that is too long is put outside as an object; the old version is put again.
StoreCalls == <<"get", "embed", "query", "get", "object", "put", "put">>

CallsOf(v) ==
  CASE v \in {"retrieve_memory", "galaxy_search", "linked_by"} -> <<"embed", "query", "get">>
    [] v \in {"hydrate_memory", "expand_cites", "get_memory", "reinforce"} -> <<"get">>
    [] v \in {"retrieve_pack", "list_memories"} -> <<"list", "get">>
    [] v = "fetch_working_set" -> <<"list", "get", "get">>
    [] v \in {"store_memory", "restore_memory"} -> StoreCalls
    [] v = "pin_working_set" -> <<"list">> \o StoreCalls
    [] v = "archive_memory" -> <<"get", "put">>
    [] v = "purge" -> <<"delete">>

Vectors == {"query", "get", "put", "delete"}

\* IAM: the vector calls and the content objects by index, embedding and the rows
\* for every role.
Granted(identity, c, i) ==
  \/ c \notin Vectors \cup {"object"}
  \/ identity \in {"admin", "ambient"}
  \/ identity = "auditor" /\ c \in {"query", "get"}
  \/ identity \in {"planner", "researcher"} /\ c # "delete" /\ i \in {"shared", identity}

\* The calls of verb v on index i, as what becomes of them depends on it.
Calls(v, i) ==
  [n \in DOMAIN CallsOf(v) |->
     IF ~Granted(Identity, CallsOf(v)[n], i) THEN "refused"
     ELSE IF CallsOf(v)[n] \in Vectors THEN "vectors" ELSE "other"]

-------------------------------------------------------------------------------
Checks == <<"identity", "config", "assumption", "plane">>
Unchecked == [i \in 1..4 |-> None]

Idle == [at |-> "idle", todo |-> <<>>, attempt |-> 0,
         checks |-> Unchecked]

Busy(t) == call[t].at # "idle"
Asking(t) == call[t].at \in {"send", "sleep"}
Diagnosing(t) == call[t].at = "doctor"
Up == host # None /\ boot = <<>>

Do(t, c) == call' = [call EXCEPT ![t] = c]

Down == host' = None /\ role' = None /\ boot' = <<>> /\ creds' = None

\* The tool answers, with a result or an error; a vv process ends with it.
Return(t) == Do(t, Idle)

Ends(t, c) ==
  /\ Return(t)
  /\ IF host = "cli" THEN Down ELSE creds' = c /\ UNCHANGED proc

-------------------------------------------------------------------------------
\* build_from_env and vv's build_client.

StartCalls(h, r) ==
  IF r \in Scoped(h) THEN <<"config", "arn", "identity", "assume">>
                     ELSE <<"config", "identity">>

\* The server's tools are built last, from the packs it read with its config:
\* packs that are malformed end the start.  The other programs do not parse them.
Then(calls) ==
  IF Head(boot) = "config" /\ host = "mcp" /\ fault = "packs"
    THEN Append(calls, "packs") ELSE calls

Launch(h, r) ==
  /\ host = None /\ (h = "cli" => r \in ValidRoles)
  /\ host' = h /\ role' = r /\ boot' = StartCalls(h, r)
  /\ UNCHANGED <<creds, call>>

\* A start call is answered as the login and the deployment allow.
Answered(c) == login /\ fault # c

StartProceeds ==
  /\ host # None /\ boot # <<>> /\ Head(boot) # "packs" /\ Answered(Head(boot))
  /\ boot' = Then(Tail(boot))
  /\ creds' = IF Head(boot) = "assume" THEN "fresh" ELSE creds
  /\ UNCHANGED <<host, role, call>>

StartFails ==
  /\ host # None /\ boot # <<>> /\ (Head(boot) = "packs" \/ ~Answered(Head(boot)))
  /\ Down /\ UNCHANGED call

\* The client closes the server, or it is killed in the middle of calls.
Stop == /\ host # None /\ Down /\ call' = [t \in Thread |-> Idle]

-------------------------------------------------------------------------------
\* One tool call, or one vv command.

\* An unknown tool and an index not allowed are answered without a call.
BeginTool(t) ==
  /\ host = "mcp" /\ Up /\ ~Busy(t)
  /\ LET r == IF role \in Tooled THEN role ELSE "planner" IN
     \E v \in VerbsOf(r), i \in AllowedIndexes(r) :
       Do(t, [Idle EXCEPT !.at = "send", !.todo = Calls(v, i)])
  /\ UNCHANGED <<proc, creds>>

BeginCommand(t) ==
  /\ host = "cli" /\ Up /\ \A u \in Thread : ~Busy(u)
  /\ \E v \in {"store_memory", "retrieve_memory", "list_memories", "get_memory",
               "archive_memory", "restore_memory", "purge"} :
       Do(t, [Idle EXCEPT !.at = "send", !.todo = Calls(v, "shared")])
  /\ UNCHANGED <<proc, creds>>

\* Wrong on purpose (mutant of Signed): a static session, assumed once.
SignedOnce ==
  IF Identity = "ambient" THEN {x \in {creds} : login}
  ELSE {creds} \ {"expired"}

\* What the credentials can be when a request has been signed: as they were while
\* there is time left, or refreshed by assuming the role again with the login as it
\* is now.  Nothing: the request cannot be signed.
Signed ==
  IF Identity = "ambient" THEN {x \in {creds} : login}
  ELSE {c \in {"fresh", "due"} : c = creds \/ (c = "fresh" /\ Answered("assume"))}

Sending(t) == call[t].at = "send"
Request(t) == Head(call[t].todo)
Permitted(t) == Request(t) # "refused"

Unsigned(t) == Sending(t) /\ Signed = {} /\ Ends(t, creds)

Refused(t) == Sending(t) /\ ~Permitted(t) /\ \E c \in Signed : Ends(t, c)

Succeeds(t) ==
  /\ Sending(t) /\ Permitted(t) /\ (Request(t) = "vectors" => fault # "data")
  /\ \E c \in Signed :
       IF Len(call[t].todo) = 1 THEN Ends(t, c)
       ELSE /\ Do(t, [call[t] EXCEPT !.todo = Tail(@), !.attempt = 0])
            /\ creds' = c /\ UNCHANGED proc

Fails(t) == Sending(t) /\ Permitted(t) /\ \E c \in Signed : Ends(t, c)

\* TooManyRequestsException, from S3 Vectors: wait and send again, at most
\* MaxRetries times.
Throttled(t) ==
  /\ Sending(t) /\ Permitted(t) /\ Request(t) = "vectors"
  /\ \E c \in Signed :
       IF call[t].attempt >= MaxRetries THEN Ends(t, c)
       ELSE /\ Do(t, [call[t] EXCEPT !.at = "sleep"])
            /\ creds' = c /\ UNCHANGED proc

\* Wrong on purpose (mutant of Wake): the attempt is not counted.
WakeUncounted(t) ==
  /\ call[t].at = "sleep"
  /\ Do(t, [call[t] EXCEPT !.at = "send"]) /\ UNCHANGED <<proc, creds>>

Wake(t) ==
  /\ call[t].at = "sleep"
  /\ Do(t, [call[t] EXCEPT !.at = "send", !.attempt = @ + 1])
  /\ UNCHANGED <<proc, creds>>

-------------------------------------------------------------------------------
\* The doctor: a tool of the server, or a vv command that builds no client.

Diagnose(t) == Do(t, [Idle EXCEPT !.at = "doctor"])

\* Bound: one at a time; two diagnoses share nothing.
BeginDoctor(t) ==
  /\ host = "mcp" /\ Up /\ ~Busy(t) /\ ~\E u \in Thread : Diagnosing(u)
  /\ Diagnose(t)
  /\ UNCHANGED <<proc, creds>>

VvDoctor(t, r) ==
  /\ host = None /\ r \in ValidRoles
  /\ Diagnose(t)
  /\ host' = "cli" /\ role' = r /\ boot' = <<>> /\ UNCHANGED creds

PassIf(b) == IF b THEN "pass" ELSE "fail"

Identified == PassIf(login)

\* Wrong on purpose (mutant of Configured): the parameters are not all read.
ConfiguredPartly == PassIf(login)

Configured == PassIf(Answered("config"))

Passed(checks, n) == checks[n] = "pass"

\* Wrong on purpose (mutant of Assumed): a role that cannot be assumed is
\* reported as not tested.
AssumedOrSkipped(checks) ==
  IF role = "none" \/ (/\ Passed(checks, 1) /\ Passed(checks, 2)
                       /\ Answered("arn") /\ Answered("assume"))
    THEN "pass" ELSE "skip"

\* The role is assumed with the base session that identified the caller.
Assumed(checks) ==
  IF role = "none" THEN "pass"
  ELSE IF ~(Passed(checks, 1) /\ Passed(checks, 2)) THEN "skip"
  ELSE PassIf(Answered("arn") /\ Answered("assume"))

\* One list of the shared index, under the assumed role or the base session.
Probed(checks) ==
  IF ~Passed(checks, 2) \/ ~Passed(checks, 3) THEN "skip"
  ELSE PassIf(fault # "data" /\ (role = "none" => login))

\* The probe is an argument, read when the other checks are done.
Outcomes(n, checks) ==
  CASE n = 1 -> {Identified}
    [] n = 2 -> {Configured}
    [] n = 3 -> {Assumed(checks)}
    [] n = 4 -> {Probed(checks), "not requested"}

Check(t) ==
  /\ Diagnosing(t) /\ role \in ValidRoles
  /\ \E n \in 1..4 :
       /\ call[t].checks[n] = None /\ \A k \in 1..(n - 1) : call[t].checks[k] # None
       /\ \E o \in Outcomes(n, call[t].checks) :
            Do(t, [call[t] EXCEPT !.checks[n] = o])
  /\ UNCHANGED <<proc, creds>>

\* A role that is not valid is the only thing reported, as a failure.
Reported(t) ==
  /\ Diagnosing(t)
  /\ role \in ValidRoles => \A n \in 1..4 : call[t].checks[n] # None
  /\ Ends(t, creds)

Healthy(t) ==
  role \in ValidRoles /\ \A n \in 1..4 : call[t].checks[n] # "fail"

-------------------------------------------------------------------------------
\* Time and people: the login runs out and is renewed, assumed credentials age,
\* somebody breaks and mends the deployment.

LoginChanges == login' = ~login /\ UNCHANGED <<fault, creds>>

\* "packs": the parameter of the packs is there, and is not what it should be.
Faults == {None, "config", "arn", "assume", "data", "packs"}

Redeploy == /\ fault' \in Faults \ {fault} /\ (fault = None \/ fault' = None)
            /\ UNCHANGED <<login, creds>>

Age == /\ creds \in {"fresh", "due"}
       /\ creds' = IF creds = "fresh" THEN "due" ELSE "expired"
       /\ UNCHANGED env

Environment == /\ LoginChanges \/ Redeploy \/ Age
               /\ UNCHANGED <<proc, call>>

\* What a thread does about its call once it is asked.
Answer(t) == Unsigned(t) \/ Refused(t) \/ Succeeds(t) \/ Fails(t) \/ Throttled(t)

Proceed(t) == Answer(t) \/ Wake(t) \/ Check(t) \/ Reported(t)

Start == StartProceeds \/ StartFails

Program ==
  /\ \/ \E h \in {"mcp", "cli"}, r \in Given : Launch(h, r)
     \/ Start \/ Stop
     \/ \E t \in Thread : \/ BeginTool(t) \/ BeginCommand(t) \/ BeginDoctor(t)
                          \/ \E r \in Given : VvDoctor(t, r)
                          \/ Proceed(t)
  /\ UNCHANGED env

\* History, read by the properties alone.
Watch ==
  /\ lapsed' = {t \in Thread : Asking(t)' /\ (t \in lapsed \/ ~Answered("assume")')}
  /\ moved' = {t \in Thread : Diagnosing(t)' /\ (t \in moved \/ (Diagnosing(t) /\ env' # env))}
  /\ vouched' =
       IF env' # env THEN None
       ELSE IF \E t \in Thread : Reported(t) /\ Healthy(t) /\ t \notin moved THEN role
       ELSE IF role' \in {None, vouched} THEN vouched ELSE None

Init ==
  /\ login \in BOOLEAN /\ fault = None
  /\ host = None /\ role = None /\ boot = <<>> /\ creds = None
  /\ call = [t \in Thread |-> Idle]
  /\ moved = {} /\ lapsed = {} /\ vouched = None

Next == (Environment \/ Program) /\ Watch

\* A worker thread is run until it answers; nothing is assumed of the
\* environment, of the client that asks, or of a start.
Fairness == \A t \in Thread : WF_vars(Proceed(t) /\ UNCHANGED env /\ Watch)

Spec == Init /\ [][Next]_vars /\ Fairness

-------------------------------------------------------------------------------
\* _call and execute_tool: whatever throttling, refusals and expired logins a
\* call meets, the agent gets its answer.
EveryCallReturns == \A t \in Thread : Busy(t) ~> ~Busy(t)

\* memory_client_for_agent: a renewed login heals a server that is running.  A
\* call during which the login holds can be signed, however often the assumed
\* credentials and the login ran out before it.
LoginHeals == [][\A t \in Thread : Unsigned(t) => t \in lapsed]_vars

\* A program given the role of a healthy report, the environment unchanged since
\* the doctor began, is answered every call of its start: of what a start needs,
\* malformed packs are the one thing that the doctor does not find, and they stop
\* the server alone.
OnlyPacksSurprise ==
  [][StartFails => vouched # role \/ (host = "mcp" /\ Head(boot) = "packs")]_vars

\* A skipped check is never required, and does not have to be: a report is
\* healthy only if each check it was asked for passed.
SkipHidesNothing ==
  [][\A t \in Thread : Reported(t) /\ Healthy(t) =>
       /\ Passed(call[t].checks, 3)
       /\ call[t].checks[4] # "not requested" => Passed(call[t].checks, 4)]_vars

\* create_memory_tools offers a role no verb and no index that the stack's IAM
\* policies then refuse: no tool call of the server dies half way of that.
OfferedIsGranted == [][\A t \in Thread : Refused(t) => host = "cli"]_vars
===============================================================================
