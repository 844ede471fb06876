----------------------------- MODULE LabEngine -----------------------------
(***************************************************************************)
(* internal/lab/engine.go over internal/docker/client.go: the operations   *)
(* that create, use and destroy sandboxes, run by the MCP request loop of  *)
(* "lab-runner serve" next to the stale-session reaper (cmdServe).  The    *)
(* engine keeps no state of its own: it drives the records of              *)
(* SessionManager and the Docker resources of each session's compose       *)
(* project, through calls that take long, can fail, and interleave.        *)
(***************************************************************************)
EXTENDS SessionManager

CONSTANTS
  Reaper,          \* the goroutine of RunStaleSessionReaper
  Ops,             \* the operations the clients request
  TTLCoversWork    \* whether deadlines leave time for startups and for the
                   \* commands of ephemeral sandboxes

OpNames == {"start", "run", "http", "exec", "read", "stop", "reset"}

ASSUME EngineAssumption ==
  /\ Reaper \notin Callers
  /\ Ops \subseteq OpNames
  /\ TTLCoversWork \in BOOLEAN

Procs == Callers \cup {Reaper}

\* What docker compose up creates, in the order it does.
Kinds == {"network", "volume", "runner"}

VARIABLES
  proc,      \* what each goroutine is doing, where it is, on which session,
             \* and the resource identities it read when its cleanup began
  present,   \* the Docker resources that exist for each session
  todo,      \* candidates of the current sweep not yet handled
  claims     \* history: sessions reported to a caller as entirely removed

engine == <<proc, present, todo, claims>>
labVars == <<vars, engine>>

Unoccupied == [op |-> "none", pc |-> "idle", id |-> NoSession, snap |-> FALSE]

StartupSteps == {"transition", "network", "volume", "runner", "check", "record",
                 "command"}
RollbackSteps == {"rblookup", "rbdown", "rbverify", "rbremove", "rbfail"}
CleanupSteps == {"lookup", "inspect", "mark", "drain", "down", "verify",
                 "remove", "failed"}
LeasedSteps == {"lease", "leased", "release", "again"}

\* "answered" is an HTTP request in an ephemeral sandbox that has its
\* response; "stat" is the first of the two executions of ReadFile.
ProcOps == OpNames \cup {"answered", "stat", "reap", "none"}

Goto(p, from, to) ==
  /\ proc[p].pc = from
  /\ proc' = [proc EXCEPT ![p].pc = to]

Become(p, from, next) ==
  /\ proc[p].pc = from
  /\ proc' = [proc EXCEPT ![p] = next]

\* A client may name any session whose creating request has returned.
Addressable(s) ==
  /\ s \in issued
  /\ \A c \in Callers :
       proc[c].id = s => proc[c].pc \notin StartupSteps \cup RollbackSteps

-----------------------------------------------------------------------------
(* Run, StartSession and the ephemeral path of execInternalArgv: create    *)
(* the record, bring the sandbox up, record its resources.                 *)

ModeOf(op) == IF op = "start" THEN "persistent" ELSE "ephemeral"

\* execInternalArgv never moves its session to "starting".
FirstStep(op) == IF op = "http" THEN "network" ELSE "transition"

Create(c, op, s) ==
  /\ CreateSession(s, ModeOf(op))
  /\ proc' = [proc EXCEPT ![c] =
                [op |-> op, pc |-> FirstStep(op), id |-> s, snap |-> FALSE]]
  /\ UNCHANGED <<present, todo, claims>>

BeginStartup(c, op, s) ==
  /\ proc[c].pc = "idle"
  /\ op \in Ops \cap {"start", "run", "http"}
  /\ \/ Create(c, op, s)
     \/ CreateFails(s) /\ UNCHANGED engine

\* ResetSession has stopped the old session and starts its replacement; it
\* returns without one when the limit is reached, the save fails, the runner
\* image is missing or the network policy no longer allows what the old one had.
Restart(c) ==
  /\ proc[c].pc = "restart"
  /\ \/ \E s \in Ids : Create(c, "start", s)
     \/ /\ UNCHANGED vars \/ \E s \in Ids : CreateFails(s)
        /\ Become(c, "restart", Unoccupied)
        /\ UNCHANGED <<present, todo, claims>>

\* The error of Transition is ignored: an expired session goes on starting.
Transit(c) ==
  LET s == proc[c].id IN
  /\ Goto(c, "transition", "network")
  /\ \/ Transition(s, "created", "starting")
     \/ /\ Exists(s) => sessions[s].status # "created"
        /\ UNCHANGED vars
  /\ UNCHANGED <<present, todo, claims>>

BringUp(c, kind, next) ==
  /\ Goto(c, kind, next)
  /\ present' = [present EXCEPT ![proc[c].id] = @ \cup {kind}]
  /\ UNCHANGED <<vars, todo, claims>>

\* docker compose up: a runner needs its network and its volume; afterwards
\* ComposeUp looks for exactly one resource of each kind.
ComposeUp(c) ==
  \/ BringUp(c, "network", "volume")
  \/ BringUp(c, "volume", "runner")
  \/ /\ proc[c].pc = "runner" => {"network", "volume"} \subseteq present[proc[c].id]
     /\ BringUp(c, "runner", "check")
  \/ /\ proc[c].pc = "check"
     /\ Goto(c, "check", "record")
     /\ present[proc[c].id] = Kinds
     /\ UNCHANGED <<vars, present, todo, claims>>

\* Writing the compose file, docker compose up, or the look afterwards fails.
ComposeUpFails(c) ==
  /\ proc[c].pc \in {"network", "volume", "runner", "check"}
  /\ proc' = [proc EXCEPT ![c].pc = "rblookup"]
  /\ UNCHANGED <<vars, present, todo, claims>>

\* UpdateSessionState to "ready", its error ignored; StartSession returns
\* success, the ephemeral operations go on to their command.
RecordReady(c) ==
  LET s == proc[c].id IN
  /\ IF proc[c].op = "start" THEN Become(c, "record", Unoccupied)
                             ELSE Goto(c, "record", "command")
  /\ IF Exists(s) THEN MarkReady(s) ELSE UNCHANGED vars
  /\ UNCHANGED <<present, todo, claims>>

\* The command of an ephemeral sandbox runs without a lease.  Whether it
\* succeeds or not, the deferred cleanup follows; an HTTP request that got
\* its response will report a full cleanup, whatever that cleanup returns.
CommandReturns(c) ==
  /\ proc[c].pc = "command"
  /\ \/ Goto(c, "command", "lookup")
     \/ /\ proc[c].op = "http"
        /\ proc' = [proc EXCEPT ![c].op = "answered", ![c].pc = "lookup"]
  /\ UNCHANGED <<vars, present, todo, claims>>

-----------------------------------------------------------------------------
(* rollbackStartup.                                                        *)

AfterRollback(c) ==
  IF proc[c].op = "start" THEN Unoccupied ELSE [proc[c] EXCEPT !.pc = "lookup"]

\* Nothing is left to do for a session whose record is gone.
RollbackLookup(c) ==
  LET s == proc[c].id IN
  /\ \/ /\ Become(c, "rblookup", AfterRollback(c))
        /\ ~ Exists(s)
        /\ UNCHANGED vars
     \/ /\ Goto(c, "rblookup", "rbdown")
        /\ Exists(s)
        /\ GetSession(s)
  /\ UNCHANGED <<present, todo, claims>>

\* docker compose down, its error ignored: it may remove anything.
RollbackDown(c) ==
  LET s == proc[c].id IN
  /\ Goto(c, "rbdown", "rbverify")
  /\ \E left \in SUBSET present[s] : present' = [present EXCEPT ![s] = left]
  /\ UNCHANGED <<vars, todo, claims>>

\* The verification itself may fail, which counts as "still there".
RollbackVerify(c) ==
  /\ \/ /\ Goto(c, "rbverify", "rbremove")
        /\ present[proc[c].id] = {}
     \/ Goto(c, "rbverify", "rbfail")
  /\ UNCHANGED <<vars, present, todo, claims>>

RollbackRemove(c) ==
  LET s == proc[c].id IN
  /\ Become(c, "rbremove", AfterRollback(c))
  /\ IF Exists(s) /\ Drained(s) THEN RemoveSession(s) \/ RemoveFails(s)
                                ELSE UNCHANGED vars
  /\ UNCHANGED <<present, todo, claims>>

RollbackFails(c) ==
  LET s == proc[c].id IN
  /\ Become(c, "rbfail", AfterRollback(c))
  /\ IF Exists(s) THEN RecordCleanupFailure(s) ELSE UNCHANGED vars
  /\ UNCHANGED <<present, todo, claims>>

-----------------------------------------------------------------------------
(* cleanupSession: StopSession, ResetSession, the deferred cleanup of the  *)
(* ephemeral operations and every candidate of a sweep.                    *)

\* The operation's own return: ResetSession goes on when the old session is
\* gone; everything else ends here.
AfterCleanup(p, success) ==
  IF proc[p].op = "reset" /\ success
    THEN [Unoccupied EXCEPT !.op = "reset", !.pc = "restart"]
    ELSE Unoccupied

\* A fault: the caller is told of a removal whatever came of it.
Report_Always(p, success) ==
  claims' = IF proc[p].op \in {"answered", "run", "stop", "reset", "reap"}
              THEN claims \cup {proc[p].id} ELSE claims

\* What the caller is told: the summary of the cleanup, except that
\* HTTPRequest discards it and fills in one that says all is removed.
Report(p, success) ==
  claims' = IF \/ proc[p].op = "answered"
               \/ success /\ proc[p].op \in {"run", "stop", "reset", "reap"}
              THEN claims \cup {proc[p].id} ELSE claims

Return(p, from, success) ==
  /\ Become(p, from, AfterCleanup(p, success))
  /\ Report(p, success)
  /\ UNCHANGED <<present, todo>>

\* ResetSession looks the old session up once before it stops it.
BeginStop(c, op, s) ==
  /\ op \in Ops \cap {"stop", "reset"}
  /\ Addressable(s)
  /\ Become(c, "idle", [op |-> op, pc |-> "lookup", id |-> s, snap |-> FALSE])
  /\ IF op = "reset" THEN GetSession(s) ELSE UNCHANGED vars
  /\ UNCHANGED <<present, todo, claims>>

\* GetSession: the copy it returns is what the whole cleanup works from.
Lookup(p) ==
  LET s == proc[p].id IN
  \/ /\ Return(p, "lookup", FALSE)
     /\ ~ Exists(s)
     /\ UNCHANGED vars
  \/ /\ proc[p].pc = "lookup"
     /\ Exists(s)
     /\ proc' = [proc EXCEPT ![p].pc = "inspect", ![p].snap = sessions[s].snap]
     /\ GetSession(s)
     /\ UNCHANGED <<present, todo, claims>>

\* InspectResources verifies a resource against the recorded identity, and a
\* single runner or network also when none is recorded.  The volume's name
\* is recorded from the start, but not the one docker compose gives it: that
\* one is known only from a startup that came to its end.
Verified(s, snap) == "volume" \in present[s] => snap

Inspect(p) ==
  /\ Goto(p, "inspect", "mark")
  /\ Verified(proc[p].id, proc[p].snap)
  /\ UNCHANGED <<vars, present, todo, claims>>

\* A Docker command fails, or a present resource is not the recorded one.
InspectFails(p) ==
  /\ Goto(p, "inspect", "failed")
  /\ UNCHANGED <<vars, present, todo, claims>>

\* BeginStopping; another cleanup may have removed the record meanwhile.
Mark(p) ==
  LET s == proc[p].id IN
  /\ \/ Goto(p, "mark", "drain") /\ BeginStopping(s)
     \/ Goto(p, "mark", "failed") /\ ~ Exists(s) /\ UNCHANGED vars
  /\ UNCHANGED <<present, todo, claims>>

\* BeginStopping's polling; a removed record keeps its count of zero.
Drain(p) ==
  /\ Goto(p, "drain", "down")
  /\ Exists(proc[p].id) => Drained(proc[p].id)
  /\ UNCHANGED <<vars, present, todo, claims>>

\* A fault: the polling has no deadline.
DrainTimesOut_Never(p) ==
  /\ proc[p].pc = "drain"
  /\ UNCHANGED labVars

DrainTimesOut(p) ==
  /\ Goto(p, "drain", "failed")
  /\ Exists(proc[p].id) /\ ~ Drained(proc[p].id)
  /\ UNCHANGED <<vars, present, todo, claims>>

ComposeDown(p) ==
  /\ Goto(p, "down", "verify")
  /\ present' = [present EXCEPT ![proc[p].id] = {}]
  /\ UNCHANGED <<vars, todo, claims>>

\* It fails after removing anything.  The error reaches the engine or not:
\* ComposeDown drops it when it can list the resources of session "".
ComposeDownFails(p) ==
  /\ \E next \in {"failed", "verify"} : Goto(p, "down", next)
  /\ \E left \in SUBSET present[proc[p].id] :
       present' = [present EXCEPT ![proc[p].id] = left]
  /\ UNCHANGED <<vars, todo, claims>>

\* A fault: what is left is taken for removed.
Verify_Open(p) ==
  /\ Goto(p, "verify", "remove")
  /\ UNCHANGED <<vars, present, todo, claims>>

\* VerifyResourcesAbsent has seen no resource of the session.
Verify(p) ==
  /\ Goto(p, "verify", "remove")
  /\ present[proc[p].id] = {}
  /\ UNCHANGED <<vars, present, todo, claims>>

\* Something is left after three seconds, or a listing failed.
VerifyFails(p) ==
  /\ Goto(p, "verify", "failed")
  /\ UNCHANGED <<vars, present, todo, claims>>

\* RemoveSession succeeds on a record that is already gone.
Remove(p) ==
  LET s == proc[p].id IN
  \/ /\ Return(p, "remove", TRUE)
     /\ IF Exists(s) THEN RemoveSession(s) ELSE UNCHANGED vars
  \/ /\ Goto(p, "remove", "failed")
     /\ UNCHANGED <<present, todo, claims>>
     /\ \/ RemoveFails(s)
        \/ Exists(s) /\ ~ Drained(s) /\ UNCHANGED vars

Failed(p) ==
  LET s == proc[p].id IN
  /\ Return(p, "failed", FALSE)
  /\ IF Exists(s) THEN RecordCleanupFailure(s) ELSE UNCHANGED vars

-----------------------------------------------------------------------------
(* Exec, ExportFile, WriteFile, ReadFile and HTTPRequest in a session:     *)
(* every execution runs under a lease.                                     *)

\* ReadFile looks into the result of an execution that returned an error, a
\* denied lease or Docker's own: the nil dereference ends the whole controller.
Erred(c) == IF proc[c].op \in {"read", "stat"}
              THEN [proc[c] EXCEPT !.pc = "panic"] ELSE Unoccupied

TakeLease(c, op, s) ==
  \/ /\ Reserve(c, s)
     /\ proc' = [proc EXCEPT ![c] =
                   [op |-> op, pc |-> "lease", id |-> s, snap |-> FALSE]]
  \/ /\ RefuseReservation(c, s)
     /\ proc' = [proc EXCEPT ![c] =
                   IF op = "exec" THEN Unoccupied
                   ELSE [op |-> op, pc |-> "panic", id |-> s, snap |-> FALSE]]

BeginExec(c, s) ==
  /\ proc[c].pc = "idle"
  /\ Addressable(s)
  /\ \/ "exec" \in Ops /\ TakeLease(c, "exec", s)
     \/ "read" \in Ops /\ TakeLease(c, "stat", s)
  /\ UNCHANGED <<present, todo, claims>>

\* The second execution of ReadFile, under a lease of its own.
ReadAgain(c) ==
  /\ proc[c].pc = "again"
  /\ TakeLease(c, "read", proc[c].id)
  /\ UNCHANGED <<present, todo, claims>>

WaitForLease(c) ==
  /\ proc[c].pc = "lease"
  /\ \/ AcquireGlobal(c) \/ AcquireSession(c) \/ Admit(c)
     \/ Refuse(c) \/ DropSession(c)
  /\ UNCHANGED engine

LeaseDenied(c) ==
  /\ DropGlobal(c)
  /\ Become(c, "lease", Erred(c))
  /\ UNCHANGED <<present, todo, claims>>

\* GetSession, then the command runs in the runner.
RunLeased(c) ==
  /\ lease[c].pc = "held"
  /\ Goto(c, "lease", "leased")
  /\ GetSession(proc[c].id)
  /\ UNCHANGED <<present, todo, claims>>

\* The command ended, or was killed by its timeout: release.
CommandEnds(c) ==
  /\ Goto(c, "leased", "release")
  /\ Release(c)
  /\ UNCHANGED <<present, todo, claims>>

\* The deferred release comes before the operation sees an error.
ReleaseLease(c) ==
  /\ \/ /\ FreeGlobal(c)
        /\ UNCHANGED proc
     \/ /\ Uncount(c)
        /\ \/ \E next \in {Unoccupied, Erred(c)} : Become(c, "release", next)
           \/ proc[c].op = "stat" /\ Goto(c, "release", "again")
  /\ proc[c].pc = "release"
  /\ UNCHANGED <<present, todo, claims>>

\* Status: of one session or of all.
Status(c) ==
  /\ proc[c].pc = "idle"
  /\ ListSessions \/ \E s \in Ids : GetSession(s)
  /\ UNCHANGED engine

-----------------------------------------------------------------------------
(* RunStaleSessionReaper and CleanupStaleSessions.                         *)

Sweep ==
  /\ proc[Reaper].pc = "idle"
  /\ todo = {}
  /\ StaleSessions # {}
  /\ todo' = StaleSessions
  /\ UNCHANGED <<vars, proc, present, claims>>

\* The next candidate, in whatever order the random identifiers sort.
NextCandidate ==
  \E s \in todo :
    /\ todo' = todo \ {s}
    /\ Become(Reaper, "idle",
              [op |-> "reap", pc |-> "lookup", id |-> s, snap |-> FALSE])
    /\ UNCHANGED <<vars, present, claims>>

-----------------------------------------------------------------------------
(* Time and the controller's death.                                        *)

NeedsTime(s) ==
  \E c \in Callers : proc[c].id = s /\ proc[c].pc \in StartupSteps

Deadline(s) ==
  /\ TTLCoversWork => ~ NeedsTime(s)
  /\ DeadlinePasses(s)
  /\ UNCHANGED engine

\* The docker compose up that the controller had started stops with it, or
\* goes on without it and completes.
ControllerDies ==
  /\ Crash
  /\ proc' = [p \in Procs |-> Unoccupied]
  /\ todo' = {}
  /\ \/ UNCHANGED present
     \/ present' = [s \in Ids |->
          IF \E c \in Callers : /\ proc[c].id = s
                                /\ proc[c].pc \in {"network", "volume", "runner"}
            THEN Kinds ELSE present[s]]
  /\ UNCHANGED claims

Panicked == \E c \in Callers : proc[c].pc = "panic"

-----------------------------------------------------------------------------
LabInit ==
  /\ Init
  /\ proc = [p \in Procs |-> Unoccupied]
  /\ present = [s \in Ids |-> {}]
  /\ todo = {}
  /\ claims = {}

Request(c) ==
  \/ \E s \in Ids :
       \/ \E op \in Ops : BeginStartup(c, op, s) \/ BeginStop(c, op, s)
       \/ BeginExec(c, s)
  \/ Status(c)

\* What a client's goroutine does by itself.
Work(c) ==
  \/ Restart(c) \/ Transit(c) \/ ComposeUp(c) \/ ComposeUpFails(c)
  \/ RecordReady(c) \/ CommandReturns(c)
  \/ RollbackLookup(c) \/ RollbackDown(c) \/ RollbackVerify(c)
  \/ RollbackRemove(c) \/ RollbackFails(c)
  \/ ReadAgain(c) \/ WaitForLease(c) \/ LeaseDenied(c)
  \/ RunLeased(c) \/ CommandEnds(c) \/ ReleaseLease(c)

Cleanup(p) ==
  \/ Lookup(p) \/ Inspect(p) \/ InspectFails(p) \/ Mark(p)
  \/ Drain(p) \/ DrainTimesOut(p) \/ ComposeDown(p) \/ ComposeDownFails(p)
  \/ Verify(p) \/ VerifyFails(p) \/ Remove(p) \/ Failed(p)

LabNext ==
  \/ /\ ~ Panicked
     /\ \/ \E c \in Callers : Request(c) \/ Work(c)
        \/ \E p \in Procs : Cleanup(p)
        \/ Sweep
        \/ NextCandidate
  \/ \E s \in Ids : Deadline(s)
  \/ ControllerDies

LabSpec == LabInit /\ [][LabNext]_labVars

(***************************************************************************)
(* A goroutine that can go on does; commands end by their timeouts and the *)
(* reaper's ticker keeps firing (WF).  SF says that the environment is not *)
(* against the reaper for ever: Docker's answers to it about one session   *)
(* are good again and again.                                               *)
(***************************************************************************)
DockerAnswers(s) ==
  LET about == proc[Reaper].id = s /\ ~ Panicked IN
  /\ SF_labVars(about /\ Inspect(Reaper))
  /\ SF_labVars(about /\ ComposeDown(Reaper))
  /\ SF_labVars(about /\ Verify(Reaper))

LabFairness ==
  /\ \A c \in Callers : WF_labVars(~ Panicked /\ Work(c))
  /\ \A p \in Procs : WF_labVars(~ Panicked /\ Cleanup(p))
  /\ WF_labVars(~ Panicked /\ Sweep)
  /\ WF_labVars(~ Panicked /\ NextCandidate)
  /\ \A s \in Ids : DockerAnswers(s)

LabFairSpec == LabSpec /\ LabFairness

-----------------------------------------------------------------------------
(* Properties.                                                             *)

LabTypeOK ==
  /\ TypeOK
  /\ proc \in [Procs -> [op : ProcOps,
                         pc : {"idle", "restart", "panic"} \cup StartupSteps
                              \cup RollbackSteps \cup CleanupSteps \cup LeasedSteps,
                         id : Ids \cup {NoSession},
                         snap : BOOLEAN]]
  /\ present \in [Ids -> SUBSET Kinds]
  /\ todo \subseteq Ids
  /\ claims \subseteq Ids

\* Whatever fails, crashes or overlaps, as long as a Docker resource of a
\* session exists its record is on disk, where the next cleanup or the next
\* controller finds it (engine.go:1093).
RecordOutlivesResources ==
  \A s \in Ids : present[s] # {} => saved[s] # NoSession

\* At rest, when no operation works on a session, whatever it has in Docker
\* has a record in the controller: what is forgotten here no cleanup finds.
NoOrphans ==
  \A s \in Ids :
    present[s] # {} /\ ~ Exists(s) => \E p \in Procs : proc[p].id = s

\* A command that runs, under a lease or in its ephemeral sandbox, has its
\* whole sandbox: no stop, reset, rollback or sweep takes anything from it.
CommandInSandbox(c) == proc[c].pc \in {"command", "leased"}

CommandsKeepSandbox ==
  \A c \in Callers : CommandInSandbox(c) => present[proc[c].id] = Kinds

\* What engine.go promises about the resources it makes: SandboxLifecycle.
Lifecycle == INSTANCE SandboxLifecycle WITH
  given <- issued,
  known <- {s \in Ids : Exists(s)},
  things <- present

\* Through every overlap, failure and restart, the resources of a session come
\* after its record and go before it, and a session that is gone stays gone.
ImplementsLifecycle == Lifecycle!Spec

\* A caller that was told that runner, network, volume and state are removed
\* was told the truth, and it stays true.
ClaimsAreTrue ==
  \A s \in claims : present[s] = {} /\ ~ Exists(s) /\ saved[s] = NoSession

\* CreateSession counts the active sessions before it adds one that becomes
\* active only later; with one request at a time the limit holds.
ActiveWithinLimit == Cardinality(ActiveSessions) <= MaximumSessions

\* The reaper works from a list it made earlier, but never on a session that
\* is healthy and within its deadline.
ReaperSparesHealthy ==
  \A s \in Ids :
    /\ proc[Reaper].id = s
    /\ Exists(s)
    /\ s \notin late
    => sessions[s].status \notin Expirable

Reclaimed(s) == ~ Exists(s) /\ present[s] = {}

\* A session past its deadline whose startup was recorded is reclaimed,
\* unless a dead controller left a count on it, which nothing clears, or a
\* panic ends the controller for good.
ExpiredReclaimed ==
  \A s \in Ids :
    (Exists(s) /\ s \in late /\ sessions[s].snap)
      ~> (leftover[s] > 0 \/ Reclaimed(s) \/ Panicked)

\* The same of every session, interrupted startups included (session.go:394).
InterruptedReclaimed ==
  \A s \in Ids :
    (Exists(s) /\ s \in late)
      ~> (leftover[s] > 0 \/ Reclaimed(s))

\* Every request comes to its end: no cleanup waits for ever for a lease, no
\* lease for ever for a slot, unless a panic ends the controller.
RequestsReturn ==
  \A c \in Callers : proc[c].pc # "idle" ~> (proc[c].pc = "idle" \/ Panicked)

\* A denied file operation is answered with an error, by a controller that
\* lives on.
NeverPanics == ~ Panicked
=============================================================================
